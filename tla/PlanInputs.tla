----------------------------- MODULE PlanInputs -----------------------------
(***************************************************************************)
(* The inputs of a plan as their sources deliver and the importers         *)
(* normalize them: aWATTar prices, the PV forecast of Open-Meteo or of     *)
(* Forecast.Solar, and the readings of the car and the battery from Home   *)
(* Assistant.  A document that cannot be used becomes None.  The clock     *)
(* counts ticks; an hour is named by the tick it starts with.              *)
(***************************************************************************)
EXTENDS LoadForecast

CONSTANTS
  HourLength, \* ticks per hour
  Lookahead,  \* PRICE_LOOKAHEAD
  MaxDataAge, \* max_data_age_seconds of prices and PV forecast
  Peak,       \* peak power of each roof face
  Factor,     \* performance_factor
  Fee,        \* grid fee and fixed components of each local hour, net
  Vat,        \* vat_rate in percent
  Bad         \* a value that cannot be used

ASSUME InputAssumption ==
  /\ {HourLength, Lookahead, MaxDataAge} \subseteq Nat \ {0}
  /\ Fee \in [0..DayHours - 1 -> Nat] /\ Vat \in 0..99

HourOf(t) == t - (t % HourLength)
\* align_to_next_hour
NextHour(t) == IF t % HourLength = 0 THEN t ELSE HourOf(t) + HourLength
HoursFrom(from, to) == {h \in from..to - 1 : (h - from) % HourLength = 0}
Index(h) == h \div HourLength

\* is_fresh: not expired and not too old.
Fresh(data, now) == now < data.to /\ now < data.at + MaxDataAge

-----------------------------------------------------------------------------
(* aWATTar: a sequence of [from, to, price]. *)

\* _parse_intervals: whole hours without gaps, every price usable.
WellFormed(doc) ==
  /\ \A i \in DOMAIN doc : doc[i].price # Bad /\ doc[i].to = doc[i].from + HourLength
  /\ \A i \in 2..Len(doc) : doc[i].from = doc[i - 1].to

\* _normalize: the prices from the next full hour on, within the request.
Prices(doc, now) ==
  LET start == HourOf(now)
      chosen == {i \in DOMAIN doc : /\ Max({start, NextHour(now)}) <= doc[i].from
                                    /\ doc[i].from < start + Lookahead}
  IN IF ~WellFormed(doc) \/ chosen = {} THEN None
     ELSE [hours |-> Tabulated([h \in {doc[i].from : i \in chosen} |->
                                  doc[CHOOSE i \in chosen : doc[i].from = h].price]),
           at |-> now, to |-> doc[Max(chosen)].to]

\* TariffConfiguration.import_price_eur_per_kwh
ImportPrice(market, h) == ((market + Fee[LocalHour(Index(h))]) * (100 + Vat)) \div 100

-----------------------------------------------------------------------------
(* Open-Meteo: for each roof face a value, or None, per label. *)

\* A value is keyed by its label.
Irradiance_ByLabel(doc) == [h \in {l \in DOMAIN doc : doc[l] # None} |-> doc[h]]

\* _irradiance_by_hour: a label ends the hour its value was averaged over.
Irradiance(doc) ==
  [h \in {l - HourLength : l \in {l \in DOMAIN doc : doc[l] # None}} |->
     doc[h + HourLength]]

\* _nameplate_generation: the hours that every roof face reports.
Nameplate(series) ==
  [h \in {h \in DOMAIN series[1] : \A p \in DOMAIN series : h \in DOMAIN series[p]} |->
     MapThenSumSet(LAMBDA p : series[p][h] * Peak[p], DOMAIN series)]

\* _end_of_continuous_coverage: up to the first hour that is missing.
OpenMeteo(docs, now) ==
  LET start == HourOf(now)
      plate == Nameplate([p \in DOMAIN docs |-> Irradiance(docs[p])])
      covered == {h \in DOMAIN plate :
                    h >= start /\ HoursFrom(start, h) \subseteq DOMAIN plate}
  IN IF \/ \E p \in DOMAIN docs : \E l \in DOMAIN docs[p] : docs[p][l] = Bad
        \/ start \notin covered
     THEN None
     ELSE [hours |-> Tabulated([h \in covered |-> plate[h] * Factor]),
           at |-> now, to |-> Max(covered) + HourLength]

-----------------------------------------------------------------------------
(* Forecast.Solar: a sequence of [at, energy], the energy since the one     *)
(* before.                                                                  *)

DayOf(t) == LocalDay(Index(HourOf(t)))
\* _end_of_local_day
EndOfDay(day) == ((day + 1) * DayHours - UtcOffset) * HourLength

\* _add_period: the part of period i that falls into hour h.
Share(doc, i, h) ==
  LET from == Max({doc[i - 1].at, h})
      to == Min({doc[i].at, h + HourLength})
  IN IF to <= from THEN 0
     ELSE (doc[i].energy * (to - from)) \div (doc[i].at - doc[i - 1].at)

Generation(doc, h) == MapThenSumSet(LAMBDA i : Share(doc, i, h), 2..Len(doc))

\* _normalize: complete periods for every local day up to the end of the last.
ForecastSolar(doc, now) ==
  LET start == HourOf(now)
      days == {DayOf(doc[i].at) : i \in DOMAIN doc}
      end == EndOfDay(Max(days))
      Complete(i) == doc[i].energy = 0 \/ doc[i].at - doc[i - 1].at <= HourLength
  IN IF \/ \E i \in DOMAIN doc : doc[i].energy = Bad
        \/ Cardinality(days) < 2
        \/ end <= start
        \/ ~(DayOf(start)..DayOf(end - 1) \subseteq days)
        \/ doc[1].at > start /\ doc[1].energy > 0
        \/ \E i \in 2..Len(doc) : ~Complete(i)
     THEN None
     ELSE [hours |-> Tabulated([h \in HoursFrom(start, end) |-> Generation(doc, h)]),
           at |-> now, to |-> end]

-----------------------------------------------------------------------------
(* The car and the battery: single states, None when Home Assistant has no  *)
(* usable one.                                                              *)

\* HomeAssistantEvImporter.fetch: a state of charge, in percent or as an energy,
\* within the capacity of the configured car, and a plug state.
ReadEv(soc, plug, car) ==
  LET energy == IF car.unit = "%" THEN (soc * car.capacity) \div 100 ELSE soc
  IN IF None \in {soc, plug} THEN None
     ELSE IF energy \notin 0..car.capacity THEN None
     ELSE [soc |-> energy, plugged |-> plug \in car.pluggedStates, gain |-> car.gain]

\* _battery_efficiency: configured, else calculated, else the default.
LegLoss(states, calculated, default) ==
  IF "loss" \in DOMAIN states THEN states.loss
  ELSE IF calculated # None THEN calculated ELSE default

\* HomeAssistantBatteryImporter.fetch and _validate: all values or none.  The
\* round trip is given by the loss of one leg; 0 is an efficiency above one.
ReadBattery(states, calculated, default) ==
  LET loss == LegLoss(states, calculated, default)
      Usable(name) == states[name] # None /\ states[name] >= 0
  IN IF \/ \E name \in DOMAIN states : ~Usable(name)
        \/ states.capacity <= 0 \/ states.charge <= 0 \/ states.discharge <= 0
        \/ states.minimum > states.maximum \/ states.maximum > states.capacity
        \/ states.soc \notin states.minimum..states.maximum
        \/ loss < 1
     THEN None
     ELSE [soc |-> states.soc, minimum |-> states.minimum, maximum |-> states.maximum,
           charge |-> states.charge, discharge |-> states.discharge, loss |-> loss]
=============================================================================
