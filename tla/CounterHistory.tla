--------------------------- MODULE CounterHistory ---------------------------
(***************************************************************************)
(* Hourly energy from the samples of cumulative counters                   *)
(* (home_assistant_energy.py): normalize_counter_history for one entity,   *)
(* EnergyAggregate for the signed sum of several, the combination of the   *)
(* grid channels, and the merge into the retained history.                 *)
(*                                                                         *)
(* A report holds a counter value, whether it is usable at all and the     *)
(* last_reset marker.  Hour h covers (h * Width, (h + 1) * Width].  A      *)
(* series maps each of its hours to the energy of its channels or to None, *)
(* and to the reasons that exclude it.                                     *)
(***************************************************************************)
EXTENDS HistorySeries, SequencesExt, Functions

CONSTANTS
  Width,     \* clock units per hour
  Maximum,   \* maximum_interval_energy_kwh
  Retention, \* HISTORY_RETENTION_HOURS
  None

ASSUME WidthAssumption == {Width, Retention} \subseteq Nat \ {0} /\ Maximum \in Nat

\* An instant on a boundary opens the next hour.
HourIndex_Floor(t) == t \div Width

\* hour_index: an instant on a boundary belongs to the hour it closes.
HourIndex(t) == -((-t) \div Width) - 1
\* align_to_next_hour
FullHour(t) == -((-t) \div Width)

\* The hour in which a span ends is left out.
Overlapping_BeforeReturn(hours, from, to) ==
  {h \in hours : HourIndex(from) <= h /\ h < HourIndex(to)}

\* overlapping_hours, clipped to the hours of the series.
Overlapping(hours, from, to) ==
  {h \in hours : HourIndex(from) <= h /\ h <= HourIndex(to)}

Error(why) == [error |-> why]
Failed(result) == "error" \in DOMAIN result

-----------------------------------------------------------------------------
(* One entity. *)

\* _step_causes: why the step to sample i is not trusted.
StepCauses(samples, i, afterDecrease) ==
  LET was == samples[i - 1].report
      now == samples[i].report
  IN (IF now.reset # was.reset THEN {"last_reset_changed"} ELSE {})
     \cup (IF now.value < was.value THEN {"counter_decrease"}
           ELSE (IF afterDecrease THEN {"step_after_decrease"} ELSE {})
                \cup (IF now.value - was.value > Maximum
                      THEN {"step_above_maximum"} ELSE {}))

\* The samples the loop walks: from the one in force at the start to the end.
Walked(samples, start, to) ==
  LET upTo == Cardinality({i \in DOMAIN samples : samples[i].at <= start})
  IN Picked(samples, {i \in DOMAIN samples : i >= Max({upTo, 1}) /\ samples[i].at <= to})

\* An invalid state is in force until the next usable sample.
InForceUntil(walked, i, end) ==
  Min({walked[j].at : j \in {j \in DOMAIN walked : j > i /\ walked[j].report.usable}}
      \cup {end})

\* What the counter gained in some steps, each named by its later sample.
EnergyOf(walked, steps) ==
  LET Step(i) == IF i \in steps THEN walked[i].report.value - walked[i - 1].report.value
                 ELSE 0
      upTo[i \in 0..Len(walked)] == IF i = 0 THEN 0 ELSE upTo[i - 1] + Step(i)
  IN upTo[Len(walked)]

\* The hours of a walk: the energy of the trusted steps that end in an hour, and
\* what excludes it.  An untrusted step excludes the hours of both its samples, one
\* that is only too large that of the later; an invalid state every hour it is in
\* force and the one in which the entity returns.
Counted(walked, hours) ==
  LET Valid(i) == walked[i].report.usable
      steps == {i \in 2..Len(walked) : Valid(i - 1) /\ Valid(i)}
      Falls(i) == i \in steps /\ walked[i].report.value < walked[i - 1].report.value
      Causes(i) == StepCauses(walked, i, Falls(i - 1))
      gaps == {i \in DOMAIN walked : ~Valid(i)}
      Until(i) == InForceUntil(walked, i, (Max(hours) + 1) * Width)
      StepsOf(h) == {i \in steps : HourIndex(walked[i].at) = h}
      Energy(h) == EnergyOf(walked, {i \in StepsOf(h) : Causes(i) = {}})
  IN Tabulated([h \in hours |->
       [kw |-> Energy(h),
        causes |->
          (UNION {Causes(i) : i \in StepsOf(h)})
          \cup (UNION {Causes(i) \ {"step_above_maximum"} :
                        i \in {i \in steps : HourIndex(walked[i - 1].at) = h}})
          \cup (IF \E i \in gaps : h \in Overlapping(hours, walked[i].at, Until(i))
                THEN {"invalid"} ELSE {})
          \cup (IF Energy(h) > Maximum THEN {"hour_above_maximum"} ELSE {})]])

\* The last usable sample, also when it still holds at the end.
Latest_Sample(walked, to) ==
  LET usable == {walked[i].at : i \in {i \in DOMAIN walked : walked[i].report.usable}}
  IN IF usable = {} THEN walked[1].at ELSE Max(usable)

\* latest_observation_at: a usable last state still holds at the end; otherwise it
\* is the last usable sample or the one the walk started from.
Latest(walked, to) ==
  LET usable == {walked[i].at : i \in {i \in DOMAIN walked : walked[i].report.usable}}
  IN IF Last(walked).report.usable THEN to
     ELSE IF usable = {} THEN walked[1].at ELSE Max(usable)

\* normalize_counter_history for the period from..to; without a sample at its start
\* the series begins with the first full hour after the first one.
Normalized(samples, from, to) ==
  LET start == IF samples[1].at <= from THEN from ELSE FullHour(samples[1].at) * Width
      hours == start \div Width..(to \div Width) - 1
      walked == Walked(samples, start, to)
  IN IF samples = <<>> THEN Error("no history")
     ELSE IF \E i, j \in DOMAIN samples : i # j /\ samples[i].at = samples[j].at
          THEN Error("duplicate timestamps")
     ELSE IF hours = {} THEN Error("no complete hour")
     ELSE [hours |-> Counted(walked, hours), latest |-> Latest(walked, to)]

-----------------------------------------------------------------------------
(* Aggregates and records. *)

Covered(record) == DOMAIN record.hours
CommonHours(records) == {h \in UNION {Covered(r) : r \in Range(records)} :
                           \A r \in Range(records) : h \in Covered(r)}

Sum(channel, series, h) ==
  SumFunction([i \in DOMAIN series |-> channel.terms[i].sign * series[i].hours[h].kw])

\* What makes an aggregate impossible: an entity without a series, no common hour.
AggregateError(channel, series) ==
  LET errors == {s \in Range(series) : Failed(s)}
  IN IF errors = {} /\ CommonHours(series) = {} THEN {Error("no complete hour")}
     ELSE errors

\* EnergyAggregate._build: the signed sum of the entities' series; terms give the
\* signs.  An excluded entity excludes the hour, and so does a negative net sum.
Aggregated(channel, series) ==
  LET Causes(h) == UNION {series[i].hours[h].causes : i \in DOMAIN series}
      Net(h) == Sum(channel, series, h)
      Hour(h) == IF Causes(h) # {} THEN [kw |-> None, causes |-> Causes(h)]
                 ELSE IF Net(h) < 0 /\ channel.part = "net"
                 THEN [kw |-> None, causes |-> {"combined_negative"}]
                 ELSE [kw |-> Max({0, Net(h)}), causes |-> {}]
      errors == AggregateError(channel, series)
  IN IF errors # {} THEN CHOOSE e \in errors : TRUE
     ELSE [hours |-> Tabulated([h \in CommonHours(series) |-> Hour(h)]),
           latest |-> Min({s.latest : s \in Range(series)})]

HourCauses(channels, h) == UNION {c.hours[h].causes : c \in Range(channels)}

\* An hour that one channel excludes is excluded for all.
JointKw(channels, h) ==
  [i \in DOMAIN channels |->
     IF HourCauses(channels, h) = {} THEN channels[i].hours[h].kw ELSE None]

\* HomeAssistantGridFlowImporter._combine; household load, PV generation and the
\* energy histories have a single channel.
Combined(channels) ==
  LET errors == {c \in Range(channels) : Failed(c)}
  IN IF errors # {} THEN CHOOSE c \in errors : TRUE
     ELSE IF CommonHours(channels) = {} THEN Error("no complete hour")
     ELSE [hours |-> Tabulated([h \in CommonHours(channels) |->
             [kw |-> JointKw(channels, h), causes |-> HourCauses(channels, h)]]),
           latest |-> Min({c.latest : c \in Range(channels)})]

-----------------------------------------------------------------------------
(* The retained history. *)

\* require_contiguous_hours
Contiguous(hours) == \A h \in hours : h = Max(hours) \/ h + 1 \in hours

\* grid_flow_points, index_exclusions: values on all channels or on none, and an
\* exclusion exactly for the hours without.
Acceptable(record) ==
  /\ Covered(record) # {}
  /\ \A h \in Covered(record) :
       LET kw == Range(record.hours[h].kw)
       IN /\ kw = {None} <=> record.hours[h].causes # {}
          /\ None \in kw => kw = {None}
          /\ \A v \in kw \ {None} : v >= 0

\* The hours between the histories are left open.
Unavailable_None(existing, incoming, width) == << >>

\* history_unavailable_exclusions: every hour between the histories.
Unavailable(existing, incoming, width) ==
  [h \in Max(Covered(existing)) + 1..Min(Covered(incoming)) - 1 |->
     [kw |-> [i \in 1..width |-> None], causes |-> {"history_unavailable"}]]

\* Nothing is dropped.
Retained_All(hours, latest) ==
  IF Contiguous(DOMAIN hours) THEN [hours |-> hours, latest |-> latest]
  ELSE Error("rejected")

\* The newest hours within retention, if they are contiguous.
Retained(hours, latest) ==
  LET kept == {h \in DOMAIN hours : Cardinality({g \in DOMAIN hours : g > h}) < Retention}
  IN IF Contiguous(kept) THEN [hours |-> Restrict(hours, kept), latest |-> latest]
     ELSE Error("rejected")

\* merge_grid_flow_history, merge_household_load_history: incoming hours replace
\* stored ones completely, a gap before them is stored as unavailable.
Merged(existing, incoming, width) ==
  IF ~Acceptable(incoming) THEN Error("rejected")
  ELSE IF existing = None THEN Retained(incoming.hours, incoming.latest)
  ELSE Retained(Over(incoming.hours,
                     Over(Unavailable(existing, incoming, width), existing.hours)),
                Max({existing.latest, incoming.latest}))
=============================================================================
