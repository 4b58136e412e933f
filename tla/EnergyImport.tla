---------------------------- MODULE EnergyImport ----------------------------
(***************************************************************************)
(* An hourly counter history that grows import by import.  A due source    *)
(* asks for everything after the last hour it stored (the plan functions   *)
(* of the registrations), normalizes what Home Assistant answers           *)
(* (CounterHistory) and merges it into the retained history.  Home         *)
(* Assistant may have purged what is asked for.                            *)
(*                                                                         *)
(* recorder is an input: what the entities ever report.  An import asks    *)
(* for times up to the last full hour, which are recorded by then; so the  *)
(* clock counts full hours.                                                *)
(***************************************************************************)
EXTENDS CounterHistory

CONSTANTS
  Entities,
  Recorders,  \* the recordings of all entities
  Channels,   \* of the record: a sequence of [terms, part]
  Lookback,   \* history_lookback_seconds
  MaxHours, MaxPurges  \* bounds

ASSUME BoundAssumption == {MaxHours, MaxPurges, Lookback} \subseteq Nat
ASSUME RecorderAssumption ==
  \A r \in Recorders : \A e \in Entities :
    /\ DOMAIN r[e] \subseteq Int /\ IsFiniteSet(DOMAIN r[e])
    /\ \A t \in DOMAIN r[e] : r[e][t] # Silent =>
         r[e][t].usable \in BOOLEAN /\ (r[e][t].usable => r[e][t].value \in Int)
ASSUME ChannelAssumption ==
  /\ Channels \in Seq([terms : Seq([entity : Entities, sign : {1, -1}]),
                       part : {"net", "positive"}])
  /\ Channels # <<>> /\ \A c \in Range(Channels) : c.terms # <<>>

VARIABLES
  recorder,
  clock,    \* the full hours that have passed
  kept,     \* the first time Home Assistant still holds
  stored,   \* the retained history: None or [hours, latest]
  outcome,  \* of the import just run
  purges

vars == <<recorder, clock, kept, stored, outcome, purges>>

Init ==
  /\ recorder \in Recorders
  /\ clock = 0 /\ kept = 0 /\ purges = 0
  /\ stored = None /\ outcome = "none"

-----------------------------------------------------------------------------
Held(e) == [t \in DOMAIN recorder[e] |-> IF t < kept THEN Silent ELSE recorder[e][t]]

\* The samples a source reads of one entity; recording is what Home Assistant holds.
Samples(recording, from, to) ==
  Window(Answer(recording, from - Lookback, to, TRUE), from - Lookback, to)

\* The record of a period: EnergyAggregate.build for every channel.
Record(recordings, from, to) ==
  LET Series(term) == Normalized(Samples(recordings[term.entity], from, to), from, to)
      Channel(c) ==
        Aggregated(c, Tabulated([i \in DOMAIN c.terms |-> Series(c.terms[i])]))
  IN Combined(Tabulated([i \in DOMAIN Channels |-> Channel(Channels[i])]))

\* The last stored hour is imported again.
ImportStart_Overlapping ==
  IF stored = None THEN clock * Width - Retention * Width
  ELSE Max(Covered(stored)) * Width

\* The full hours of the clock and where the next import begins: after the stored
\* history, or as far back as it may reach.
ImportEnd == clock * Width
ImportStart == IF stored = None THEN ImportEnd - Retention * Width
               ELSE (Max(Covered(stored)) + 1) * Width

Tick ==
  /\ clock < MaxHours
  /\ clock' = clock + 1
  /\ outcome' = "none"
  /\ UNCHANGED <<recorder, kept, stored, purges>>

Purge ==
  /\ purges < MaxPurges
  /\ kept' \in kept + 1..clock * Width
  /\ purges' = purges + 1
  /\ outcome' = "none"
  /\ UNCHANGED <<clock, recorder, stored>>

\* One run of the source: nothing is missing, the build fails, or the merged
\* history is saved.
Import ==
  LET incoming == Record([e \in Entities |-> Held(e)], ImportStart, ImportEnd)
      merged == Merged(stored, incoming, Len(Channels))
  IN /\ ImportStart < ImportEnd
     /\ IF Failed(incoming)
        THEN outcome' = incoming.error /\ UNCHANGED stored
        ELSE IF Failed(merged)
        THEN outcome' = merged.error /\ UNCHANGED stored
        ELSE outcome' = "saved" /\ stored' = merged
     /\ UNCHANGED <<clock, recorder, kept, purges>>

Next ==
  \/ Tick
  \/ Purge
  \/ Import

Spec == Init /\ [][Next]_vars
\* Time passes, and a source that misses hours is due until an import was run; the
\* fairness of Import is spelled out with its enabling condition.
Due == ImportStart < ImportEnd /\ outcome = "none"
FairSpec == Spec /\ WF_vars(Tick) /\ ([]<>~Due \/ []<><<Import>>_vars)

-----------------------------------------------------------------------------
TypeOK ==
  /\ clock \in 0..MaxHours /\ kept \in 0..clock * Width /\ purges \in 0..MaxPurges
  /\ stored # None => /\ Acceptable(stored) /\ Contiguous(Covered(stored))
                      /\ Cardinality(Covered(stored)) <= Retention
                      /\ ImportStart <= ImportEnd

StoredHours == IF stored = None THEN {} ELSE Covered(stored)
Reading(e, t) == InForce(recorder[e], t)

\* An hour with a value holds what the counters gained from its start to its end,
\* signed and clipped as configured, however the readings were cut into imports,
\* answered by Home Assistant or purged meanwhile.
Gain(channel, h) ==
  SumFunction([i \in DOMAIN channel.terms |->
                 LET t == channel.terms[i]
                 IN t.sign * (Reading(t.entity, (h + 1) * Width).value
                                - Reading(t.entity, h * Width).value)])
TrueIncrement ==
  outcome = "saved" =>
    \A h \in StoredHours : stored.hours[h].causes = {} =>
      \A i \in DOMAIN Channels :
        stored.hours[h].kw[i] = Max({0, Gain(Channels[i], h)})

\* README: "a value that is still valid counts as current when it is read".  While
\* every counter is usable at the end of an import the source is current, however long
\* nothing has changed.
HealthyIsCurrent ==
  outcome = "saved" =>
    /\ stored.latest <= ImportEnd
    /\ (\A e \in Entities : Reading(e, ImportEnd).usable) => stored.latest = ImportEnd

\* An hour that was stored is not changed by later imports until retention drops it.
StoredHoursStay ==
  [][\A h \in StoredHours \cap StoredHours' :
       stored'.hours[h] = stored.hours[h]]_vars

\* Invalid, missing or purged readings never block later hours, and the merge never
\* rejects what the source built: while Home Assistant holds a state of every entity
\* at the start of the last full hour, the history catches up with the clock.
AllHeld == \A e \in Entities : InForce(Held(e), ImportEnd - Width) # Silent
CaughtUp == stored # None /\ ImportStart = ImportEnd
CatchesUp == (clock = MaxHours /\ purges = MaxPurges /\ AllHeld) ~> CaughtUp
=============================================================================
