# TLA+ models of the energy optimizer

The energy optimizer is one Python service (`src/src/energy_optimizer`). It
collects provider data on a schedule, keeps it in files, makes an hourly plan
from it and applies the EV charging part of the plan to a wall box. This
directory holds TLA+ models of the parts in which ordering, failures and
concurrency decide the outcome, the TLC configurations that check small
instances of them, and TLAPS proofs for every value of the constants.

    tlc -config MCOrchestrator.cfg MCOrchestrator    # one run
    tlapm OrchestratorProofs.tla                     # the proofs of one module

`PROJECT.json` lists the runs, the source lines behind every definition, one
seeded bug per property, the hazards, and the theorems. Definitions whose name
has a suffix (`LockFree_NotTested`) are those seeded bugs; they are used by
nothing else.

## 1. The system

### Components, their state and their operations

| Component | State | Operations | What makes it correct |
| --- | --- | --- | --- |
| Orchestration (`orchestration.py`) | `_next_due`, `_latest_data`, `_cycle_lock`; per cycle the slots, `fresh_data` and the import error | `restore`, `run_due` (plan, import, build and save each source, trigger the plan), `run_forever` | cycles never mix; memory agrees with the store; a plan is made from current inputs and whenever they allow one; every source is tried again, not before its interval |
| JSON provider store (`storage.py`) | a primary and a backup file per key | `save` (merge, shelve the current version, replace), `load` (recover from the backup) | no acknowledged save is lost; one valid copy always remains; damage is never mistaken for absence |
| Household-load store (`household_load_store.py`, `household_load_records.py`) | an append-only NDJSON file, its backup, legacy JSON files | `save` (append or compact), `load_history`, `compact`, migration | the lines read back as the merged history; interruptions lose nothing acknowledged; the file stays bounded |
| Plan generation (`optimization/plan_generation.py`) | plan record, EV schedule | choose the horizon, forecast the load, build the problem, solve it, save the plan, merge its EV powers into the schedule | plans only from complete inputs, each value in its own hour; a target promised is a target reached; the schedule keeps what earlier plans chose for the running hour |
| EV control (`control/ev_controller.py`) | `_applied`, the task itself; outside: the wall box | `apply_due` (load, decide, two service calls), `run_forever` | it is never wrong about the box; the box follows the plan, and gets its own behaviour back when the plan is stale |
| Price and PV forecast sources (`providers/awattar.py`, `forecast_solar.py`, ...) | none | fetch and normalise a window of hours | windows aligned to hours, no gaps |
| Home Assistant history import (`providers/home_assistant_history.py`) | the histories and failures of one cycle | merge the needs, fetch chunks, clean, hand out windows | a window is what an own request would have answered; a failing entity fails only the sources that need it |
| Counter normalisation (`providers/home_assistant_energy.py` and its users) | none | counters to hourly energy, signed sums of several | energy falls into its hour; resets and gaps are excluded |
| History merging (`history_merge.py`) | the retained histories | extend, fill gaps as unavailable, drop old hours | contiguous, bounded, aligned; it never blocks for good |
| Battery efficiency (`providers/home_assistant_battery_efficiency.py`) | persisted aligned history | align, merge, evaluate full cycles | energy and state of charge belong together; a loss that is none is not shown |
| Battery and EV readings | none | read states, default what is missing | a reading is complete and within its limits, or fails |
| Load forecast (`optimization/load_forecast.py`) | none | choose a method by backtest, fill gaps | excluded hours never prevent a plan |
| Optimisation model and solver (`optimization/*_model.py`, `linopy_solver.py`) | none | build constraints, solve | plans respect the limits; the car's target is missed only when it must be |
| HTTP API (`api/`) | none of its own | read and submit records, dashboard | submissions are validated and saved |
| Lifecycle (`api/lifecycle.py`) | two tasks | start and stop | shutdown waits for both |
| Appliances, configuration, logging, HTTP client | none | | |

### How they interact

* The lifespan of the API starts two asyncio tasks: `run_forever` of the
  orchestrator and of the EV controller. The orchestrator runs a cycle in a worker
  thread; API requests run in other threads. The only lock is `_cycle_lock`.
* The orchestrator, API submissions and the EV task meet in the store. No lock
  guards a key: load, merge and write of one save interleave with another's.
* `_latest_data` is a second copy of the store inside the orchestrator, updated
  by its own saves and by `restore` at startup, never by API submissions.
* Planning and control share nothing but the stored EV schedule.
* Home Assistant, the price and forecast services and the wall box are outside:
  a call may succeed, fail, or take effect without an answer.

### Hard behaviours

Concurrent saves of one key; a crash or failed write between the two files of a
record, or inside an append; a recovery racing a save; a cycle whose sources
fail one by one after long waits; freshness judged against a time captured
earlier; attempts that must be rescheduled on every path; errors that end a
background task; a command of two calls of which one took effect; a plan older
than the data it steers; an import shared by sources of which one fails; counters
that reset, jump, stand still or vanish, cut into imports at any hour; plans that
replace one another while the car charges. `PROJECT.json` ("hazards") has each at its line.

## 2. Modules

| Module | What it is |
| --- | --- |
| `Orchestrator` | collection cycles and the plan trigger |
| `DurableRecord` | abstract: what the JSON store promises about one key |
| `JsonStore` | the two files of a key, refines `DurableRecord` |
| `DurableHistory` | abstract: what the household-load store promises one client |
| `HouseholdStore` | the NDJSON history with compaction and migration, refines `DurableHistory` |
| `EvControl` | plan hours, schedule merging, control task and wall box |
| `HistorySeries` | recordings of an entity, Home Assistant's answers, chunks and windows (operators) |
| `HistoryImport` | the shared import of one cycle |
| `CounterHistory` | counters to hours, aggregates, exclusions, merging (operators) |
| `EnergyImport` | an hourly history that grows import by import; composes the two above |
| `BatteryEfficiency` | aligned series, their persisted history, the calculated efficiency |
| `LoadForecast` | the forecast methods and the choice between them (operators) |
| `PlanInputs` | prices, PV forecasts, readings of car and battery (operators) |
| `PlanModel` | the feasible and the optimal plans of a problem (operators) |
| `Planning` | plan after plan and the car that follows them; composes the three above |
| `MC*` | constants for TLC |
| `*Proofs` | theorems about the module named before `Proofs` |

### Orchestrator

A cycle is cut where time passes or another thread can act.

| Code | Model |
| --- | --- |
| `run_due`: `started_at = clock()` | `ReadClock` |
| `_cycle_lock.acquire(blocking=False)` fails | `SkipCycle` |
| lock taken, slots planned, unplannable sources rescheduled | `BeginCycle` |
| history import, its error remembered | `ImportHistory` |
| build and save of one slot | `BuildFails`, `SaveReportsFailure`, `CheckFails`, `Refresh` |
| `_trigger_plan`, release of the lock, the sleep of `run_forever` | `TriggerPlan`, `TriggerRaises` |
| POST of an API client | `Submit` |
| the process dies; `restore` | `Restart` |

A record is the pair of times the orchestrator looks at: when it was observed
and, for histories, up to which hour it is complete. `SaveReportsFailure` is a
save that raises after the file was replaced (the directory sync). A failed
restore is an arbitrary subset of sources. Saving an API submission is one step
here; its steps are in the store modules. `force=True` of `run_due` is left out:
only tests use it. Only `run_forever` calls `run_due` in the service, so two
callers are what the lock is there for rather than what a deployment does today.

`diverged` and `lastEnd` are ghosts: whether the store was changed without the
orchestrator, and when the last attempt of a source ended.

### JsonStore and DurableRecord

A step of a client is one read or one replacement of a file. `_atomic_write` is
atomic for readers and after a crash; it may still raise before or after the
replacement (`WriteFails`). A version is the set of the batches submitted into
it, so that a lost batch is visible; `Merges` tells a history, which a save
loads and extends, from a record that a save replaces. `Damage` turns a file into
one that does not validate, while nobody uses it.

The ghost `current` holds the versions a call may return: the version of the last save
that returned and those of saves that began to write since, even if they failed. A save
that returns supersedes all of them but its own and those of the saves still under way
(`Supersede`), except while a load is recovering: that load will write the backup it read
over whatever the primary holds by then, which is the one way an older version comes back
(section 5).

`DurableRecord` has two values: what a load returns and what is left if the file
holding it is damaged. The mapping is in `JsonStore` (`Record`). Most steps of
the store are stutters; the ones that commit, shelve or fall back are where a
wrong write order shows.

### HouseholdStore and DurableHistory

A file is abstracted to the last value written for each hour, the number of its
lines and whether its last line is cut off. That a cut line is ignored at the end
of a file and makes the file unreadable once another line follows it is in
`Valid` and `Appended`. (`_append` separates the two with a newline, so the
remains of the cut line become a malformed line of their own.) `Cut` ends an
append at any row, with or without a part of the next, by an error or by the end of the
process. Values are the numbers of the saves that submitted them, and
`allowed` holds, for each hour, the values a later load may return.

`DurableHistory` again has two values: the history a load returns (`Effective` in
`HouseholdStore`) and what it would return were the newest file damaged (`Fallback`:
the backup, or, while there is no primary, the same history). The first changes
only by `Extend`, a whole or cut append to the history that was there, and by damage.
`Shelve` is the backup being renewed, by a save that finds it missing or a cut line in the
primary, or by a compaction: an append, unlike a save of the JSON store, leaves the
backup as it is, so that a compaction makes the history before the append the fallback. All other
writes of the code, and every failure between them, are stutters: restoring the primary,
both halves of a migration, removing a cut line, the second half of a compaction.

### EvControl

Plans are arbitrary powers over the hours both stored inputs cover: the optimizer
may choose anything. `MergeSchedule` is `merge_schedule`. The control task is
taken apart at its awaits: `Poll` loads and decides, `SwitchCall` and
`SetPowerCall` are the two service calls, `CallFails` is a call that is rejected
or whose answer is lost. `LoadRaises` is an error of the store, which nothing
in the task handles. The box forgets a limit with a time to live
(`LimitExpires`). The ghost `chosen` keeps for each hour the power of
the last plan that covered it, whatever was merged away.

An absolute number here has no unit: the conversion of kilowatts to amperes is
not modelled, and a power below `NoPower` is a pause, as in `_apply`.

### HistorySeries and HistoryImport

A recording maps moments to reports, or to silence: Home Assistant records
changes only. `Answer` is what it replies for a period, `Joined` how chunks are
strung together, `Window` the slice a source reads. Of a state the model keeps what
`_classify_state` tells apart; of the attributes the unit and whether one is malformed.

| Code | Model |
| --- | --- |
| `_merge_needs` | `MergeNeeds` |
| one chunk arrives; the last one completes and cleans the entity | `Receive` |
| timeout, HTTP error, malformed payload | `RequestFails` |
| HTTP 401 or 403 | `RequestRejected` |
| `_build_and_persist` reads its windows | `Build` |

Whether an answer includes a change at its very end, and whether it holds a
record twice, is up to Home Assistant (`closing`, `repeat`).

### CounterHistory and EnergyImport

`Normalized` is `normalize_counter_history` for one entity, `Aggregated` the
signed sum of several, `Combined` the channels of the grid flow, `Merged` the
retained history. Hour `h` ends at `(h + 1) * Width` and owns its end. Household load, PV
and the energy histories are the same with one channel. `EnergyImport` lets the
clock pass full hours, the recorder forget its past, and the source import whatever is
missing, immediately or hours later. An import asks for times up to the last full hour,
all recorded by then: a state the recorder adds later is not modelled.

### BatteryEfficiency

The battery of the model loses nothing and both inverters are perfect, so that
every energy leg follows from the state of charge: what the code stores and
calculates can be compared with what is true. Excluded hours of the legs are an
input (`broken`); their origin is `CounterHistory`. `Run` is one run of the source, with any of
the configured history starts.

### LoadForecast, PlanInputs, PlanModel and Planning

`LoadForecast` and `PlanInputs` turn histories, documents and readings into the
inputs of a plan. `PlanModel` enumerates the feasible plans of a problem with whole
powers, and `Optimal` are the cheapest of them: the model of the mixed-integer
program without its solver. Powers are whole, which leaves fewer plans than the solver
has. The car stores `gain / Parts` of what it draws (`charge_efficiency`), in the problem as
in the car that follows it; its charge is counted in parts of a kWh. A battery loses the factor
`loss` on each of its two legs. The binary variables appear as the choice of one
direction of each flow. Prices are in ct, with the fixed components and the VAT of the
tariff; the energy left in the battery is worth the configured
`end_of_horizon_value_eur_per_kwh` or the mean import price. `Planning` fetches the sources that are due, makes
a plan (`MakePlan`, any optimal one) and lets the car charge with the scheduled
power, tick by tick, where a tick may be a part of an hour. The reading of the car, in % or kWh, has
whole steps only.

At most one plan is made per tick, and the household-load history does not
change during a run; that it grows is `EnergyImport`'s part. A setup, chosen at the start, is a
configuration together with what the market, the sun and the other sources do.

`promise` is a ghost: a plan without a shortfall promises the target at its
deadline, and the first such promise stays until the deadline has passed. The code counts
the whole hour a deadline lies in (section 5), so the promise is judged at the deadline with
what the car draws in the rest of that hour granted.

## 3. Runs

| Run | Instance | Shows |
| --- | --- | --- |
| `Orchestrator` | household load (a history, interval 2) and prices (interval 1), one loop, time 0..4, one restart, observations 0 or 2 old | `FreshDataIsLatest`, `MemoryFollowsStore`, `PlanInputsAreCurrent`, `PlansWhenInputsAllow`, `NothingStaysDue` |
| `OrchestratorConcurrent` | prices and battery efficiency, two callers, no startup fetch, time 0..3, fair | `CyclesExclusive`, `AttemptsAreSpaced`, `CyclesEnd` |
| `OrchestratorLoopDies` | the same with one caller | violated: `CollectionContinues` |
| `JsonHistory` | one client, three batches, two damages | `AcknowledgedIsStored`, `ImplementsRecord` |
| `JsonConcurrent` | two clients, three batches, two damages | `CopyRemains`, `AnswersAreCurrent` |
| `EvControl` | hours of two units, plans of two hours, time 0..3, two powers, a time to live, one failing call, one unreadable schedule, one restart, fair | `AppliedIsSet`, `ScheduleIsChosen`, `PollFollowsPlans`, `PlanIsFollowed`, `StalePlanEnds` |
| `HouseholdStore` | one client, hours 0..3, retention 3, threshold 4, two saves of up to three hours, three damages, four kinds of legacy files | `ObservationsKept`, `HistoryRemains`, `AnswersAreRead`, `LinesBounded`, `ImplementsHistory` |
| `HistoryImport` | two entities, five moments, chunks of two, four sets of needs, fair | `WindowIsOwnRequest`, `NoRepeatInvented`, `FailuresStayLocal`, `NothingAfterRejection`, `EverySourceAnswered` |
| `EnergyImport` | import and export of two meters, three hours of two units, up to three reports per meter, retention 2, one purge, fair | `TrueIncrement`, `HealthyIsCurrent`, `StoredHoursStay`, `CatchesUp` |
| `BatteryEfficiency` | four hours of two units, up to three changes of the charge, retention 3, one purge | `BoundariesTrue`, `EnergyIsWhole`, `LosslessShowsNoLoss` |
| `Planning` | days of four hours of two ticks, weeks of two days, plans of up to five hours, four strategies, two PV providers, a car that stores half or all of what it draws, a battery without and with losses | `InputsAligned`, `ForecastNeverBlocks`, `ShortfallUnavoidable`, `PromiseKept` |
| `PlanRunningHour` | the deadline setups, the car read more often than the prices | violated: `PromiseKept` |

The bounds, and why the interesting cases fit in them:

* Orchestrator, `MaxTime` 4: long enough for a source with interval 2 to be
  attempted three times, for a record with threshold 2 or 3 to become stale
  between two cycles and inside one (a step may take any time), and for a restart
  in between. Two sources are enough for one to fail while the other is fresh.
* JSON store: three batches let a history grow, fail and grow again; a second
  damage is what it takes to lose a record. With two clients, three batches let a version
be superseded twice while the other client is between two of its steps.
* Household store: a retention of 3 with hours 0..3 drops an hour, a threshold of
  4 compacts on the fifth line. The legacy files are a first version, so that the first
  save may append to a migrated history and the second to what the first left cut off; a
  save of three hours can be cut off after any of its rows. Three damages hit a file,
  its copy, and what was restored from it.
* EV control: four time units are two hours; the running hour of the second is covered by
  a plan made in the first. `MaxPlanAge` 1 makes a schedule stale inside an hour.
  One fault between the two calls of a command, one restart.

* History import: a range of four moments has two or more chunks and a boundary
  record; the sources share an entity, disagree about its kind, or need nothing.
* Energy import: with retention 2 the third hour drops the first; three reports
  make a decrease, the step after it, and a return; the purge opens a gap in
  front of the next import.
* Battery efficiency: two changes make one cycle between full states, the third an
  outage in it or an incomplete second one.
* Planning: nine ticks see a deadline in the first and on the second day and about
  five plans for each, with deadlines on a full hour and inside one; the prices reach up to
  five hours and stop before the deadline in some setups.
  The setups vary one thing at a time of a plain one, apart from prices, deadline, start and charge,
  which are combined. `Costly` makes the car's energy as dear as the day-ahead market (at most 4 EUR
  per kWh) and the configuration allow (the highest wear and value of stored energy, a lossy battery
  the target drains), and once dearer, with a market of 250 EUR per kWh: only that comes near the
  penalty of 1000 EUR. In the passing run the sources are polled together, so that a plan never
  starts in the past; `PlanRunningHour` is about what happens otherwise.

`Backfills` (a correction before the first hour of the history) is `FALSE`, the
legacy files have one version, and the history has one client in the household
run; what happens otherwise is under "Known deviations".

### Fairness

* `Orchestrator!FairSpec`: weak fairness of the clock and of each caller's next
  step. Every HTTP request and the solver have a timeout, and asyncio resumes a
  sleeping task. Which outcome a step has is not fair: a cycle may fail for ever.
* `EvControl!FairSpec`: weak fairness of the control task only. A service call
  has a timeout, so it ends one way or another; that it does not fail is not
  assumed beyond the bound on faults. Nothing makes the orchestrator plan; time
  may stand still, and the wall box may let a limit expire late or never.

* `HistoryImport!FairSpec`: the import runs on one thread and every request has a
  timeout: a request ends, in whichever way.
* `EnergyImport!FairSpec`: time passes, and a source that misses hours is run
  (`NothingStaysDue` of `Orchestrator`); that it succeeds is not assumed.

`Planning` and `BatteryEfficiency` have no fairness: their properties are safety properties.

Deadlock checking is off in the runs where the end of the modelled time, or a loop
that died, stops the system.

## 4. Theorems

For every value of the constants that satisfies the named assumptions.

`OrchestratorProofs`: `TypeCorrect`, `ExclusiveCycles`, `MemoryIsStore`,
`FreshIsLatest`, `PlanInputs`, `PlansMade`, `Spacing`, `AllRescheduled`: every
safety property of the module, for any sources, intervals, number of callers.
Exclusion is the base: as long as the lock's holder is the only caller inside a
cycle, the slots belong to it. To it the invariants add that outside a cycle no
slot is in use, that a source counts as fresh only with the record also held in
memory, and, for the two timing properties, that the next due time is at least
an interval after the last end, and that an unplanned source is already
scheduled after the captured time.

`JsonStoreProofs`: `StoreTypeCorrect`, `CopyStays`, `AnswersCurrent` for any
number of clients; `AcknowledgedStays` and `StoreImplementsRecord` for one
client (`OneClient`), since for two they are false (section 5). The
invariants say what a save knows at each of its steps: for example that from the
time the backup is known to be good until the primary is replaced, the backup
stays readable. `AnswersCurrent` rests on `CurrentInv`: every version that a load can still
find, a save is writing or a load will restore is a current one. The backup
need be so only while it can be read by a load or the primary cannot; since
a save that returns leaves a valid primary, the older backup matters only to the loads that
found none before, and for these `Supersede` leaves `current` as it is.

`EvControlProofs`: `EvTypeCorrect`; `AppliedCorrect`, for any fault bound, with and
without an enable switch and a time to live: what is remembered as applied is only
right if a command's first call really was made when the second one is, which
the invariant adds; `ScheduleCorrect` and `PollsFollowPlans` under `SteadyEnds`
(a fetch never ends before the one it replaces), without which they are false
(section 5). There the invariant bounds every hour an earlier plan chose by
the ends of the inputs of today, so that what a merge drops past the end of the
new plan was never chosen.

`HouseholdStoreProofs`: `HouseholdTypeCorrect` for any number of clients;
`HouseholdHistoryRemains`, `HouseholdAnswersAreRead` and `HouseholdLinesBounded`
for one client (`OneClient`; what two clients do to each other is in section 5)
when saves never correct an hour before the history (`~Backfills`), for any
retention, threshold, legacy files and damage. Their invariant `RemainInv` says
that both files can be read as long as none was damaged since the last save, and
one of them after a damage (`FilesRemain`), and, in `Relies`, what a call knows
at each step: the history it loaded is what the primary still holds, the backup
it is about to trust can be read, and the batch continues the history once the
gap between them is bridged. That appending and reading back amounts to merging
in memory rests on lemmas about `Newest` and `Over`: the newest hours of a union
need only the newest hours of each part.
`HouseholdImplementsHistory` proves that the store implements `DurableHistory` under the
same assumptions and one more: two legacy files that can both be read agree
(`OneVersionOnly`: where they do not, an interrupted migration restores the older
one, section 5). Its invariant `FindInv` adds what every client in a call knows of
the next load (`Finds`): it returns what the client read, or, while it compacts, what it is
merging. Each step then is a stutter or one action of `DurableHistory`, one lemma per
kind of step; an append, whole or cut, is an `Extend` because reading back the lines
up to some hour is a merge with the rows up to that hour.
`HouseholdObservationsKept` follows from the same invariant and the ghosts
(`KeepInv`): as long as nothing was damaged what the next load returns holds
every acknowledged hour retention left, each with a value acknowledged since
or one that a failed save may have written (`Kept`), and what a client saves is among
the values allowed for its hours (`Owes`).

`HistorySeriesProofs` holds the lemmas about the operators of `HistorySeries`, for
recordings, answers and records of any length: a finite set can be arranged in an
order (`ArrangedIs`), so that sorting, picking and the greatest and least of a set do
what they are named for; a joined history repeats a time only if one of its parts
does (`JoinedIs`); an answer tells the state in force at its start and every change
(`AnswerIs`); and a window has at each of its times the sample of the whole (`WindowIs`).
It also has what `SumFunctionOnSet` computes, for any finite set. The library defines it by a
recursive function whose existence the prover does not take for granted: `SumsExist` builds one,
`SumsAgree` shows that there is no other, both by a least counterexample in place of an
induction. From it follow that any element may be taken out of a sum first (`SumWithout`), that sums whose
terms differ by at most a bound differ by at most as many of it (`SumsDiffer`), and that a sum
of changes telescopes (`SumTelescopes`).

`HistoryImportProofs`: `WindowIsOwnRequestHolds`, `NoRepeatInventedHolds`,
`FailuresStayLocalHolds` and `NothingAfterRejectionHolds`, for any recordings with finitely
many reports (`RecorderAssumption`), any number of sources with any needs
(`NeedAssumption`: a need ends after it starts, as `HistoryNeed` demands), and any
length of the chunks (`ChunkAssumption`). The invariant `ImportInv` says what
a half-finished import knows. The records of the current entity tell all that was
in force from the start of its range up to `chunk_start` (`Gathered`), and the entities still
to come are different ones nobody asked for yet (`Pending`), so that a chunk that is joined is
the only one that can repeat a record. An imported series tells the whole range, which covers
every need of its entity and is of a kind one of them has (`SeriesOk`): it is why a consistent
plan never finds a series too short. No entity of a need is forgotten (`Accounted`), and each
failure has its reason (`OwnFailure`). That the sample in force at a moment tells
the state then follows because the state changes only where a report is recorded
(`InForceStays`).

`EnergyImportProofs`: `HistoryTypeCorrect`, `HealthyStaysCurrent`, `IncrementsTrue` and
`StoredHoursRemain`, for any recordings with finitely many reports (`RecorderAssumption`), any counters, at
least one channel of at least one of them (`ChannelAssumption`, what the configuration
demands), any hour width, retention, maximum, lookback and purges. The invariant `EnergyInv`
says of a stored history that it is one the merge accepts again, contiguous, within
retention, and ends with a full hour that has passed (`StoredOk`). It carries because an
import asks for the hours after the last stored one (`PeriodIs`) and what the record is built
of lies in the hours asked for (`Spans`): a series by where its walk starts and ends
(`NormalizedIs`), an aggregate and a record as the hours their parts share (`AlignedSpans`).
So incoming hours never overlap stored ones, the gap lies between the two (`JointHours`), and
a source is current because the last sample of every walk is the state in force at
its end (`LatestIs`). That an hour without an exclusion holds the true increment
(`HoursTrue` in the invariant) is proved from the walk up. The steps that end in the hour
are those between the last sample up to its start and the last one up to its end
(`PrefixUpTo`, `HourIndexIs`); were a sample from the first to the last of them
unusable, it would be in force into the hour and exclude it (`InForceInto`); so
their differences add up to the difference of the ends (`EnergyOfRun`), and
the samples at the ends tell the states in force at the boundaries (`InForceAtSample`).
`AggregatedGain` and `RecordGain` carry this through signs, clipping and channels, `HeldGain`
from what Home Assistant still held to what was ever recorded, and `MergedIs` through the
merge, where an hour that nothing excludes was stored before or just imported.

`BatteryEfficiencyProofs`: `BoundariesStayTrue`, `EnergyStaysWhole`,
`HistoryStaysAligned` and `LosslessBatteryShowsNoLoss`, for any recordings of the state of charge
with finitely many reports whose usable ones are percentages, as `_state_of_charge_reason`
demands (`BatteryAssumption`), any excluded hours, width and retention, and any `history_start`. The
invariant `BatteryInv` says what the persisted history is at any moment
(`HistoryOk`): consecutive hours with their boundaries, energy only where everything was
usable, and at every boundary the charge exactly if the hours around it have energy. Only
at the first boundary may a charge be missing, since retention may have dropped the hour
that excluded it; `BoundedIs` shows that this exception is never needed
elsewhere, and `JoinedHistoryIs` that joining two histories that each have the
property keeps it, with the shared boundary and with a gap. That an import has it
rests on `SocSeriesIs`: an hour that is not excluded was usable at every moment.
That a lossless battery shows no loss is a statement about sums of sums, and holds for
whatever history is persisted (`ResultInv`: a result was calculated from what is
persisted). In an hour with energy the two legs differ by the change of the charge (`HourBalances`);
the hours of a cycle all have energy and true boundaries, so their changes telescope to the difference of
the charges at its two full ends (`CycleBalances`), at most `100 - Full`; and the cycles
add up (`CyclesBalance`). Were a cycle to span an hour without energy, or a boundary to carry
another moment's charge, the first or the second sum would not close. The same balance shows that no hour
looks impossible (`NothingImpossible`).

`StoreTypeCorrect`, `EvTypeCorrect` and `HouseholdTypeCorrect` prove the type invariants of
`JsonStore`, `EvControl` and `HouseholdStore`, which no run lists: they are part of the invariants above.

Only model-checked: the liveness properties (`CyclesEnd`, `PlanIsFollowed`,
`StalePlanEnds`, `EverySourceAnswered`, `CatchesUp`), which are out of the prover's
reach, and the properties of `Planning` (`InputsAligned`, `ForecastNeverBlocks`,
`ShortfallUnavoidable`, `PromiseKept`). Three of these are true of the setups of the run and
not of every value of the constants, because the code does not guarantee them either: a
provider's document can have any shape, a shortfall is taken where a stored kWh costs more than the
penalty of 1000 EUR (with prices of 300 EUR and a lossy battery that must end as it began, it does), and a plan older than `MaxPlanAge` is given up whatever it promised. Which setups
would be enough is a question about documents and prices rather than about the code. What
`ForecastNeverBlocks` adds is a choice among sums and medians over whole weeks of history.
What `PlanModel` takes for the cheapest plan is an enumeration that the prover cannot evaluate.

## 5. Known deviations

Shown by runs (see "findings"):

* `OrchestratorLoopDies`: a freshness check that reads the store runs outside
  every `try` of the plan trigger; its error ends `run_forever`.
* `PlanRunningHour`: `planning_horizon` never looks at the time. README:316,
  README:423 and README:478 say that a plan starts at the next full hour; from inputs fetched
  earlier it starts in the running one, counts all of it, and a car promised its
  target misses it.

Found with the same modules, not kept as runs:

Store

* `storage.py:153`: two saves of one history are not serialised; README:296 "Each
  save is merged into one contiguous hourly history" fails for the batch of the save that is
  overwritten although it returned. The same holds for two clients of `HouseholdStore`.
* `storage.py:235`: a load that found no valid primary (damaged, or not yet written by the
  key's first save) puts the backup it read over the primary another thread has written
  in between, and the acknowledged save is undone. README:235 restores the backup "if the
  primary file is invalid after a restart". `AnswersAreCurrent` confines this to loads that were
  recovering when the save returned.
* `household_load_store.py:246`: a migration interrupted between its two writes
  restores the older legacy backup; README:245 promises no loss.
* `docs/architecture.md:371`: a cut append is ignored. When the cut append is a
  correction before the start of the history (`Backfills = TRUE`), the file has a
  gap, is rejected as a whole, and the backup of the last compaction replaces it.

EV control

* `ev_controller.py:68`: `merge_schedule` drops the hours of the previous plan beyond
  the end of a shorter new one; the comment at line 36 says it keeps the hours
  the new plan does not cover.
* `ev_controller.py:106`: an error loading the schedule ends the control task with
  the last command on the wall box; `config.py:402` promises a hand-over when the plan is stale.
* `ev_controller.py:146`: a limit with a time to live expires although the service
  runs (README:457), as an unchanged power is not sent again.

Planning

* README:312 promises a plan for every cycle that refreshed a required source while all
  hold current data; `_trigger_plan` (`orchestration.py:498`) makes none when another required source
  failed in this cycle although its stored record is current.
* `plan_generation.py:109`: a deadline within an hour counts the whole hour; with
  README's deadline of 06:30 half an hour of the charging comes after it.
* `immediate` (`config.py:466`) may charge past its target: each plan ignores the energy
  still charged in the rest of the running hour.
* `surplus` and `minimum_plus_target`: a car already above its limit makes the problem
  infeasible (`ev_model.py:51`).
* `surplus` "never draws from the grid" (README:414): with negative import prices
  it may, because its power is only bounded by the surplus, not supplied from it.
* `linopy_solver.py:202`: `pv_self_consumption_kw` becomes negative while the
  battery exports (`docs/api.md:54`).
* For the same reason as with `immediate`, a reported `ev_shortfall_kwh` may exceed
  the energy missing at the deadline.

Counters

* `home_assistant_energy.py:396`: the docstring excludes the hours before a
  decrease; a decrease seen by a later import leaves the hour of the spike, stored
  by an earlier one, as it is.
* `home_assistant_energy.py:462`: an invalid state in force is stamped with the start of
  every import; with imports more frequent than `max_data_age_seconds` allows for, an outage
  never becomes stale (README:580).

## 6. Not modelled

* The read side of the API (`historic.py`, `excluded.py`, `dashboard.py`, `series.py`):
  slices of stored records for an answer, without state of its own. Its one hazard, two reads of one record for one
  answer, is listed.
* The lifecycle: two tasks are started, cancelled and awaited.
* `appliances.py`: a calculation over a stored plan. `legacy_quality.py`: a
  conversion of old fields when a record is read.
* `merge_price_history`: published prices keep their gaps, so nothing has to stay
  contiguous.
* Validation of settings, request parameters, syntax of documents, logging.
* The numeric solver: `PlanModel` enumerates whole powers, and its optima are exact. Time-zone changes: the offset to
  UTC is constant.
* A command that arrives at the wall box after its timeout; the conversion of a
  power to amperes; a plan record that is saved although the schedule is not.

## 7. What could come next

1. A module for the read side of the API: answers assembled from two reads of a
   record while a save is under way.
2. `Lifecycle`: start and shutdown of the two tasks, who sees an exception.
3. Composition of `Orchestrator` with `HistoryImport` in place of its atomic
   `ImportHistory`, and with two clients of `JsonStore` in place of its atomic store.
4. Assumptions about documents, prices and penalties under which the properties of
   `Planning` hold for every setup, and their proof.
