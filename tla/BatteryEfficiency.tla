------------------------- MODULE BatteryEfficiency -------------------------
(***************************************************************************)
(* The calculated battery efficiency: six measured energy legs and the     *)
(* state of charge are aligned per import (_align_history), merged into    *)
(* the persisted history (merge_battery_efficiency_history) and evaluated  *)
(* (calculate_battery_efficiency) at every run of the source.              *)
(*                                                                         *)
(* The battery is an input: what its state of charge does, and the hours   *)
(* for which some leg is excluded.  It loses nothing and both inverters    *)
(* are perfect, so every leg follows from the state of charge: what is     *)
(* calculated can be compared with what is true.  Energy is counted in     *)
(* percent of the capacity.                                                *)
(***************************************************************************)
EXTENDS CounterHistory

CONSTANTS
  Batteries,    \* recordings of the state of charge
  BrokenHours,  \* sets of hours that some energy leg excludes
  HistoryStarts, \* what history_start may be set to: hours, or None
  Full,         \* full_soc_threshold_percent
  Minimum,      \* minimum_battery_throughput_kwh and those of the inverters
  MaxHours, MaxPurges \* bounds

ASSUME EfficiencyAssumption == Full \in 1..100 /\ Minimum \in Nat \ {0}
ASSUME StartAssumption == HistoryStarts \subseteq Int \cup {None}
\* A usable state of charge is one of _state_of_charge_reason.
ASSUME BatteryAssumption ==
  \A b \in Batteries :
    /\ DOMAIN b \subseteq Int /\ IsFiniteSet(DOMAIN b)
    /\ \A t \in DOMAIN b : b[t] # Silent /\ b[t].usable => b[t].value \in 0..100

VARIABLES
  battery,  \* recording of [value, usable], from time 0 on
  broken,
  clock,    \* the full hours that have passed
  kept,     \* the first hour Home Assistant still holds
  stored,   \* the persisted history, or None
  result,   \* the calculated efficiency, or None
  purges

inputs == <<battery, broken>>
vars == <<inputs, clock, kept, stored, result, purges>>

Init ==
  /\ battery \in Batteries /\ broken \in BrokenHours
  /\ clock = 0 /\ kept = 0 /\ purges = 0
  /\ stored = None /\ result = None

-----------------------------------------------------------------------------
(* What Home Assistant measured. *)

Charge(t) == InForce(battery, t).value
Moves(h) == [t \in h * Width + 1..(h + 1) * Width |-> Charge(t) - Charge(t - 1)]
In(h) == SumFunction([t \in DOMAIN Moves(h) |-> Max({0, Moves(h)[t]})])
Out(h) == SumFunction([t \in DOMAIN Moves(h) |-> Max({0, -Moves(h)[t]})])

\* EnergyAggregate.build for the legs, from..to in hours.
Legs(from, to) ==
  Tabulated([h \in Max({from, kept})..to - 1 |->
    IF h \in broken THEN None ELSE [in |-> In(h), out |-> Out(h)]])

\* _state_of_charge_series: the state in force at every boundary, and the hours in
\* which an unusable one is.
SocSeries(from, to) ==
  LET held == [t \in DOMAIN battery |-> IF t < kept * Width THEN Silent ELSE battery[t]]
      samples == Window(Answer(held, from * Width, to * Width, TRUE), from * Width, to * Width)
      start == FullHour(samples[1].at)
      At(b) == SampleAt(samples, b * Width).report
      Invalid(h) == \E i \in DOMAIN samples :
        /\ ~samples[i].report.usable
        /\ h \in Overlapping(start..to - 1, samples[i].at, InForceUntil(samples, i, to * Width))
  IN IF samples = <<>> THEN Error("no history")
     ELSE IF start >= to THEN Error("no complete hour")
     ELSE [values |-> Tabulated([b \in start..to |->
                        IF At(b).usable THEN At(b).value ELSE None]),
           excluded |-> {h \in start..to - 1 : Invalid(h)}]

\* Boundaries of an excluded hour that are dropped: the opening one.
Adjacent_Opening(excluded) == excluded

\* An excluded hour drops both its boundaries.
Adjacent(excluded) == excluded \cup {h + 1 : h \in excluded}

Blanked(values, at) ==
  Tabulated([x \in DOMAIN values |-> IF x \in at THEN None ELSE values[x]])

\* _align_history: an hour excluded anywhere has no energy.
Aligned(legs, soc) ==
  LET hours == {h \in DOMAIN legs : h \in DOMAIN soc.values}
      excluded == {h \in hours : legs[h] = None \/ h \in soc.excluded}
  IN IF Failed(soc) THEN soc
     ELSE IF hours = {} THEN Error("no aligned intervals")
     ELSE [energy |-> Blanked(Restrict(legs, hours), excluded),
           soc |-> Blanked(Restrict(soc.values, hours \cup {h + 1 : h \in hours}),
                           Adjacent(excluded))]

-----------------------------------------------------------------------------
(* The persisted history. *)

Hours(history) == DOMAIN history.energy
Blank(from, to) == [x \in from..to |-> None]

\* bound_battery_efficiency_history
Bounded(history, count) ==
  LET first == Max(Hours(history)) - count + 1
  IN [energy |-> Restrict(history.energy, {h \in Hours(history) : h >= first}),
      soc |-> Restrict(history.soc, {b \in DOMAIN history.soc : b >= first})]

\* The shared boundary is the incoming one, whatever hour came before.
SharedBoundary_Incoming(existing) == {}

\* The boundary two histories share is dropped after an excluded hour.
SharedBoundary(existing) ==
  LET last == Max(Hours(existing))
  IN IF existing.energy[last] = None THEN {last + 1} ELSE {}

\* merge_battery_efficiency_history
MergedHistory(existing, incoming) ==
  LET next == Max(Hours(existing)) + 1
      first == Min(Hours(incoming))
      gap == Blank(next, first - 1)
      unknown == IF first > next THEN Blank(next, first) ELSE << >>
  IN IF existing = None THEN Bounded(incoming, Retention)
     ELSE IF first < next THEN Error("not contiguous")
     ELSE Bounded([energy |-> Over(existing.energy, Over(gap, incoming.energy)),
                   soc |-> Blanked(Over(unknown, Over(incoming.soc, existing.soc)),
                                   SharedBoundary(existing))], Retention)

-----------------------------------------------------------------------------
(* calculate_battery_efficiency *)

\* _select_history
Selected(history, from) ==
  LET count == Max(Hours(history)) + 1 - Max({Min(Hours(history)), from})
  IN IF from = None THEN history
     ELSE IF count <= 0 THEN None ELSE Bounded(history, count)

\* A boundary is full when the last known one before it was not.
FullBoundaries(history) ==
  LET known == {b \in DOMAIN history.soc : history.soc[b] # None}
      IsFull(b) == history.soc[b] >= Full
      Earlier(b) == {c \in known : c < b}
  IN {b \in known : IsFull(b) /\ (Earlier(b) = {} \/ ~IsFull(Max(Earlier(b))))}

\* The hours of a cycle include the one after its end.
CycleHours_TooLong(left, right) == left..right

CycleHours(left, right) == left..right - 1

\* Consecutive full boundaries without an excluded hour between them.
Cycles(history) ==
  LET full == FullBoundaries(history)
  IN {c \in full \X full :
        /\ c[1] < c[2] /\ \A b \in full : b <= c[1] \/ b >= c[2]
        /\ \A h \in CycleHours(c[1], c[2]) \cap Hours(history) : history.energy[h] # None}

Total(history, hours, Leg(_)) ==
  SumFunction([h \in {h \in hours \cap Hours(history) : history.energy[h] # None} |->
                 Leg(history.energy[h])])
Charged(e) == e.in
Discharged(e) == e.out

\* _component, for a ratio that cannot be negative
Component(energyIn) ==
  IF energyIn = 0 THEN "invalid"
  ELSE IF energyIn < Minimum THEN "defaulted" ELSE "calculated"

\* _check_state_of_charge_balance: the hours whose change of charge the measured
\* energy makes impossible, without tolerance.
Impossible(history) ==
  {h \in Hours(history) :
     LET e == history.energy[h]
         change == history.soc[h + 1] - history.soc[h]
     IN /\ e # None /\ history.soc[h] # None /\ history.soc[h + 1] # None
        /\ \/ e.in > 0 /\ e.out = 0 /\ change > e.in
           \/ e.out > 0 /\ e.in = 0 /\ e.out + change > 0}

\* What the cycles put in or took out.
InCycles(history, Leg(_)) ==
  SumFunction([c \in Cycles(history) |-> Total(history, CycleHours(c[1], c[2]), Leg)])

Calculated(whole, from, capacityKnown) ==
  LET history == Selected(whole, from)
      cycles == Cycles(history)
      components ==
        [battery |-> IF cycles = {} THEN "unavailable"
                     ELSE Component(InCycles(history, Charged)),
         charge |-> Component(Total(history, Hours(history), Charged)),
         discharge |-> Component(Total(history, Hours(history), Discharged))]
  IN IF history = None THEN [status |-> "invalid"]
     ELSE [status |-> IF "invalid" \in Range(components) THEN "invalid"
                      ELSE IF Range(components) = {"calculated"} THEN "ok"
                      ELSE "insufficient_data",
           components |-> components,
           in |-> InCycles(history, Charged), out |-> InCycles(history, Discharged),
           cycles |-> Cardinality(cycles),
           impossible |-> IF capacityKnown THEN Impossible(history) ELSE {}]

-----------------------------------------------------------------------------
Start(from) == IF stored # None THEN Max(Hours(stored)) + 1
               ELSE IF from # None THEN from ELSE clock - Retention
Evaluate(history, from, capacityKnown) ==
  /\ stored' = history
  /\ result' = Calculated(history, from, capacityKnown)

\* One run of the source with the history_start of its configuration: the missing
\* hours are imported and merged, or nothing is missing and the persisted history is
\* evaluated again.  A failure changes nothing.
Run(from, capacityKnown) ==
  LET incoming == Aligned(Legs(Start(from), clock), SocSeries(Start(from), clock))
      merged == MergedHistory(stored, incoming)
  IN /\ IF stored # None /\ Start(from) >= clock
        THEN Evaluate(stored, from, capacityKnown)
        ELSE /\ Start(from) < clock /\ ~Failed(incoming) /\ ~Failed(merged)
             /\ Evaluate(merged, from, capacityKnown)
     /\ UNCHANGED <<inputs, clock, kept, purges>>

Tick ==
  /\ clock < MaxHours
  /\ clock' = clock + 1
  /\ UNCHANGED <<inputs, kept, stored, result, purges>>

Purge ==
  /\ purges < MaxPurges
  /\ kept' \in kept + 1..clock
  /\ purges' = purges + 1
  /\ UNCHANGED <<inputs, clock, stored, result>>

Next ==
  \/ \E from \in HistoryStarts, known \in BOOLEAN : Run(from, known)
  \/ Tick
  \/ Purge
Spec == Init /\ [][Next]_vars

-----------------------------------------------------------------------------
Usable(t) == InForce(battery, t) # Silent /\ InForce(battery, t).usable

\* However the history was cut into imports and whatever Home Assistant had purged
\* between them, it is the one a single import would have given: a boundary between
\* two hours with energy carries the charge recorded at that moment, and one next to
\* an hour without energy carries none; of the first boundary retention may have
\* dropped the hour before it.
BoundariesTrue ==
  stored # None => \A b \in DOMAIN stored.soc :
    LET around == {b - 1, b} \cap Hours(stored)
        whole == \A h \in around : stored.energy[h] # None
    IN /\ whole => \/ stored.soc[b] = Charge(b * Width)
                   \/ stored.soc[b] = None /\ b = Min(Hours(stored))
       /\ ~whole => stored.soc[b] = None

\* An hour has energy on all legs or on none, and only while every leg and the state
\* of charge were usable in all of it, up to its closing boundary.
EnergyIsWhole ==
  stored # None => \A h \in Hours(stored) : stored.energy[h] # None =>
    /\ h \notin broken
    /\ stored.energy[h] = [in |-> In(h), out |-> Out(h)]
    /\ \A t \in h * Width..(h + 1) * Width : Usable(t)

\* A battery without losses shows none: what the counted cycles put in and took out
\* differs by no more than full states differ, and no hour looks impossible.
LosslessShowsNoLoss ==
  result # None /\ "cycles" \in DOMAIN result =>
    /\ result.in - result.out \in -((100 - Full) * result.cycles)..(100 - Full) * result.cycles
    /\ result.impossible = {}
=============================================================================
