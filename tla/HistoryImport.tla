---------------------------- MODULE HistoryImport ----------------------------
(***************************************************************************)
(* The one Home Assistant import of an orchestration cycle.  The needs of  *)
(* all planned sources are merged per entity (_merge_needs), every entity  *)
(* is requested chunk by chunk and cleaned once (import_history), and each *)
(* source then reads its windows from the shared series                    *)
(* (HomeAssistantHistory.window) to build its record.                      *)
(*                                                                         *)
(* recorder and needs are inputs of the cycle.  Of a state the model keeps *)
(* what _classify_state tells apart, of the attributes the unit and        *)
(* whether one is malformed.                                               *)
(***************************************************************************)
EXTENDS HistorySeries, Functions

CONSTANTS
  Entities,
  Recorders,  \* the recordings of all entities a cycle may meet
  Plans,      \* the needs of the planned sources: a sequence per source
  Chunk,      \* HOME_ASSISTANT_HISTORY_CHUNK
  Omitted     \* a unit the record does not carry

ASSUME ChunkAssumption == Chunk \in Nat \ {0}
ASSUME RecorderAssumption ==
  \A r \in Recorders : \A e \in Entities :
    DOMAIN r[e] \subseteq Int /\ IsFiniteSet(DOMAIN r[e])
ASSUME NeedAssumption ==
  \A plan \in Plans :
    /\ plan \in Seq(Seq([entity : Entities, kind : {"counter", "state"},
                         from : Int, to : Int]))
    /\ \A source \in Range(plan) : \A need \in Range(source) : need.from < need.to

VARIABLES
  recorder, needs,
  phase,    \* merge, import, build
  ranges,   \* the merged needs in the order of import
  cursor,   \* chunk_start of the entity being imported, the head of ranges
  records,  \* its records so far
  series, failures,  \* what the import leaves for each entity
  planError,\* the needs contradict each other: import_error
  asked,    \* ghost: the requests sent, with their outcome
  results   \* of the sources built so far

inputs == <<recorder, needs>>
progress == <<ranges, cursor, records>>
found == <<series, failures, planError>>
vars == <<inputs, phase, progress, found, asked, results>>

Init ==
  /\ recorder \in Recorders /\ needs \in Plans
  /\ phase = "merge" /\ ranges = <<>> /\ cursor = 0 /\ records = <<>>
  /\ series = << >> /\ failures = << >> /\ planError = FALSE
  /\ asked = <<>> /\ results = <<>>

-----------------------------------------------------------------------------
(* _merge_needs *)

Places == UNION {{i} \X (DOMAIN needs[i]) : i \in DOMAIN needs}
NeedAt(p) == needs[p[1]][p[2]]
Needed == {NeedAt(p) : p \in Places}
NeedsOf(e) == {n \in Needed : n.entity = e}
Contradictory == \E m, n \in Needed : m.entity = n.entity /\ m.kind # n.kind

\* Source by source, and the needs of each in their order.
Earlier(p, q) == p[1] < q[1] \/ (p[1] = q[1] /\ p[2] < q[2])

\* The first need of every entity.
FirstPlaces ==
  {p \in Places : \A q \in Places : NeedAt(q).entity = NeedAt(p).entity => ~Earlier(q, p)}
Distinct ==
  LET places == Arranged(FirstPlaces,
                         {x \in FirstPlaces \X FirstPlaces : Earlier(x[1], x[2])})
  IN [k \in DOMAIN places |-> NeedAt(places[k])]

\* An entity is imported for the range of its first need only.
Merged_First == Distinct

\* The range of one entity.
Whole(n) == [entity |-> n.entity, kind |-> n.kind,
             from |-> Min({m.from : m \in NeedsOf(n.entity)}),
             to |-> Max({m.to : m \in NeedsOf(n.entity)})]

\* One range per entity, in the order of their first needs.
Merged == [k \in DOMAIN Distinct |-> Whole(Distinct[k])]

\* Contradicting needs raise before anything is requested; without needs there
\* is no import.
MergeNeeds ==
  /\ phase = "merge"
  /\ planError' = Contradictory
  /\ IF Needed = {} \/ Contradictory
     THEN phase' = "build" /\ UNCHANGED progress
     ELSE /\ phase' = "import"
          /\ ranges' = Merged /\ cursor' = ranges'[1].from /\ records' = <<>>
  /\ UNCHANGED <<inputs, series, failures, asked, results>>

-----------------------------------------------------------------------------
(* import_history *)

\* _classify_state: why a state is no number this kind of history can use.
Unusable(kind, state) ==
  IF state \in {"unavailable", "non_numeric", "not_finite"} THEN state
  ELSE IF kind = "counter" /\ state = "negative" THEN "negative_value" ELSE "no"

\* Why a sample is kept as invalid; a state history has no attributes to check.
Invalidity(kind, report) ==
  IF Unusable(kind, report.state) # "no" THEN Unusable(kind, report.state)
  ELSE IF kind = "counter" /\ report.malformed THEN "invalid_attribute" ELSE "no"

\* The unit of the last record up to i that has one; a record with a malformed
\* attribute hands nothing on.
CarriedUnit(sorted, i) ==
  LET has == {j \in 1..i : /\ sorted[j].report.unit # Omitted
                           /\ j = i \/ Invalidity("counter", sorted[j].report)
                                         # "invalid_attribute"}
  IN IF has = {} THEN Omitted ELSE sorted[Max(has)].report.unit

\* _clean_counter_records, _clean_state_records: every record becomes a sample.
Cleaned(kind, recs) ==
  LET sorted == Sorted(recs)
  IN [i \in DOMAIN sorted |->
        [at |-> sorted[i].at, recorded |-> sorted[i].at,
         state |-> sorted[i].report.state,
         invalid |-> Invalidity(kind, sorted[i].report),
         unit |-> IF kind = "counter" THEN CarriedUnit(sorted, i)
                                      ELSE sorted[i].report.unit]]

Entity == Head(ranges)
ChunkEnd == Min({cursor + Chunk, Entity.to})
Ask(outcome) ==
  asked' = Append(asked, [entity |-> Entity.entity, from |-> cursor, to |-> ChunkEnd,
                          outcome |-> outcome])

Imported(recs) == [kind |-> Entity.kind, from |-> Entity.from, to |-> Entity.to,
                   samples |-> Cleaned(Entity.kind, recs)]

\* The loop over the entities goes on with the next one.
NextEntity ==
  /\ ranges' = Tail(ranges) /\ records' = <<>>
  /\ IF ranges' = <<>> THEN phase' = "build" /\ cursor' = 0
                       ELSE phase' = "import" /\ cursor' = Head(ranges').from

\* The import of these entities fails.
Failing(E, why) == Over([e \in E |-> why], failures)

\* A chunk arrived; the last one completes the entity.
Receive(closing, repeat) ==
  LET answer == Answer(recorder[Entity.entity], cursor, ChunkEnd, closing)
      joined == Joined(records, IF repeat THEN answer \o <<answer[Len(answer)]>> ELSE answer)
  IN /\ phase = "import" /\ (repeat => answer # <<>>)
     /\ Ask(IF repeat THEN "repeated" ELSE "answered")
     /\ IF ChunkEnd < Entity.to
        THEN cursor' = ChunkEnd /\ records' = joined
             /\ UNCHANGED <<phase, ranges, series, failures>>
        ELSE /\ NextEntity
             /\ IF joined = <<>>
                THEN /\ failures' = Failing({Entity.entity}, "no history")
                     /\ UNCHANGED series
                ELSE /\ series' = Over([e \in {Entity.entity} |-> Imported(joined)], series)
                     /\ UNCHANGED failures
     /\ UNCHANGED <<inputs, planError, results>>

\* A timeout, an HTTP error or a malformed payload: this entity fails.
RequestFails ==
  /\ phase = "import" /\ Ask("failed")
  /\ failures' = Failing({Entity.entity}, "request failed")
  /\ NextEntity
  /\ UNCHANGED <<inputs, series, planError, results>>

\* A rejected token treated as the failure of one entity.
Rejected_OneEntity ==
  /\ failures' = Failing({Entity.entity}, "rejected")
  /\ NextEntity

\* _record_rejection: this and every later entity fails, the loop ends.
Rejected ==
  /\ failures' = Failing({r.entity : r \in Range(ranges)}, "rejected")
  /\ phase' = "build" /\ ranges' = <<>> /\ cursor' = 0 /\ records' = <<>>

RequestRejected ==
  /\ phase = "import" /\ Ask("rejected")
  /\ Rejected
  /\ UNCHANGED <<inputs, series, planError, results>>

-----------------------------------------------------------------------------
(* Building the records. *)

\* HomeAssistantHistory.window: the samples of a need, or why there are none.
Read(need) ==
  IF need.entity \in DOMAIN failures THEN "failed"
  ELSE IF need.entity \notin DOMAIN series THEN "misplanned"
  ELSE LET s == series[need.entity]
       IN IF s.kind # need.kind \/ need.from < s.from \/ need.to > s.to
          THEN "misplanned" ELSE "read"
WindowOf(need) == Window(series[need.entity].samples, need.from, need.to)

\* _build_and_persist: the first window that cannot be read fails the source.
Built(source) ==
  LET unread == {j \in DOMAIN source : Read(source[j]) # "read"}
  IN IF planError /\ source # <<>> THEN "misplanned"
     ELSE IF unread = {} THEN "built" ELSE Read(source[Min(unread)])

\* A source that cannot be built is left without a result.
Build_OnlyGood ==
  /\ phase = "build" /\ Len(results) < Len(needs)
  /\ results' = IF Built(needs[Len(results) + 1]) = "built"
                THEN Append(results, "built") ELSE results
  /\ UNCHANGED <<inputs, phase, progress, found, asked>>

Build ==
  /\ phase = "build" /\ Len(results) < Len(needs)
  /\ results' = Append(results, Built(needs[Len(results) + 1]))
  /\ UNCHANGED <<inputs, phase, progress, found, asked>>

Done == phase = "build" /\ Len(results) = Len(needs)
\* The cycle goes on to the plan; the history is discarded.
Finished == Done /\ UNCHANGED vars

Import ==
  \/ \E closing, repeat \in BOOLEAN : Receive(closing, repeat)
  \/ RequestFails
  \/ RequestRejected

Next == MergeNeeds \/ Import \/ Build \/ Finished

Spec == Init /\ [][Next]_vars
\* The import runs on one thread and every request has a timeout.  The fairness of
\* Import is spelled out with its enabling condition.
FairSpec ==
  /\ Spec
  /\ WF_vars(MergeNeeds) /\ WF_vars(Build)
  /\ []<>(phase # "import") \/ []<><<Import>>_vars

-----------------------------------------------------------------------------
Sources == DOMAIN needs

\* Slicing the shared series changes nothing for a source: at every moment of its
\* window the state in force is the one Home Assistant recorded, available or not,
\* whatever other sources needed and however the range was cut into chunks.
StateAt(samples, t) ==
  IF \E i \in DOMAIN samples : samples[i].at <= t THEN SampleAt(samples, t).state ELSE Silent
RecordedState(e, t) ==
  LET r == InForce(recorder[e], t) IN IF r = Silent THEN Silent ELSE r.state
WindowIsOwnRequest ==
  \A i \in DOMAIN results : results[i] = "built" =>
    \A n \in Range(needs[i]) :
      \A t \in n.from..n.to - 1 : StateAt(WindowOf(n), t) = RecordedState(n.entity, t)

\* The boundary record of two chunks is kept once: only an answer that repeats a
\* record makes a history with two samples of one time, which fails normalization.
NoRepeatInvented ==
  \A e \in DOMAIN series :
    LET s == series[e].samples
    IN (\E i, j \in DOMAIN s : i # j /\ s[i].at = s[j].at) <=>
       \E a \in Range(asked) : a.entity = e /\ a.outcome = "repeated"

\* A source fails only by an entity of its own, and an entity only by its own
\* requests, by having no history or by a rejected token; consistent plans always
\* cover what their sources read.
OwnFailure(e) ==
  \/ \E a \in Range(asked) : a.outcome = "rejected"
  \/ \E a \in Range(asked) : a.entity = e /\ a.outcome = "failed"
  \/ \A t \in DOMAIN recorder[e] :
       (\E n \in NeedsOf(e) : t < n.to) => recorder[e][t] = Silent
FailuresStayLocal ==
  \A i \in DOMAIN results :
    /\ results[i] = "failed" => \E n \in Range(needs[i]) : OwnFailure(n.entity)
    /\ results[i] = "misplanned" => Contradictory
    /\ results[i] = "built" /\ needs[i] # <<>> => ~Contradictory

\* A rejected token would reject every further request: none is sent after it.
NothingAfterRejection ==
  [][(\E a \in Range(asked) : a.outcome = "rejected") => asked' = asked]_vars

\* Whatever fails, every planned source gets a result, and with it its next due time.
EverySourceAnswered == <>[]Done
=============================================================================
