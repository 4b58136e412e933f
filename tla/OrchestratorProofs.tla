------------------------- MODULE OrchestratorProofs -------------------------
(***************************************************************************)
(* Theorems about Orchestrator, for every set of sources, every schedule,  *)
(* any number of callers and an unbounded clock and number of restarts.    *)
(***************************************************************************)
EXTENDS Orchestrator, TLAPS

\* The start of an hour is a time (floor of `now` in the plan functions).
LEMMA HourOfType == ASSUME NEW t \in Nat PROVE HourOf(t) \in Nat
  BY ScheduleAssumption DEF HourOf

LEMMA IntervalType == ASSUME NEW s \in Sources PROVE Interval[s] \in Nat /\ Interval[s] > 0
  BY ScheduleAssumption

LEMMA IncomingType ==
  ASSUME TypeOK, NEW s \in Sources, NEW now \in Nat, NEW data \in Incoming(s, now)
  PROVE  data \in Record
<1>1. PICK age \in {a \in Ages : a <= clock} :
        data = [at |-> clock - age,
                through |-> IF s \in Histories
                            THEN IF stored[s] # NoData /\ stored[s].through > HourOf(now)
                                 THEN stored[s].through ELSE HourOf(now)
                            ELSE 0]
  BY DEF Incoming
<1>2. clock - age \in Nat
  BY ScheduleAssumption DEF TypeOK, Time
<1>3. stored[s] # NoData => stored[s].through \in Nat
  BY DEF TypeOK, Record
<1>4. QED
  BY <1>1, <1>2, <1>3, HourOfType DEF Record

LEMMA EndCallType ==
  ASSUME TypeOK, NEW c \in Callers, NEW then \in {"sleeping", "dead"}, EndCall(c, then)
  PROVE  /\ pc' \in [Callers -> {"sleeping", "entering", "importing", "building", "dead"}]
         /\ wake' \in [Callers -> Time]
<1>1. PICK s \in Sources : wake' = [wake EXCEPT ![c] = clock + Interval[s]]
  BY DEF EndCall
<1>2. clock + Interval[s] \in Nat
  BY ScheduleAssumption DEF TypeOK, Time
<1>3. QED
  BY <1>1, <1>2 DEF EndCall, TypeOK, Time

LEMMA EndAttemptType ==
  ASSUME TypeOK, NEW c \in Callers, NEW s \in Sources,
         NEW result \in {"failed", "stale", "success"}, EndAttempt(c, s, result)
  PROVE  /\ clock' \in Time /\ restarts' \in Nat
         /\ pc' \in [Callers -> {"sleeping", "entering", "importing", "building", "dead"}]
         /\ wake' \in [Callers -> Time] /\ started' \in [Callers -> Time]
         /\ lock' \in Callers \cup {Nobody}
         /\ outcome' \in [Sources -> Outcome]
         /\ importFailed' \in BOOLEAN /\ planStatus' \in PlanStatus
         /\ nextDue' \in [Sources -> Time \cup {Unscheduled}]
         /\ lastEnd' \in [Sources -> Time \cup {Unscheduled}]
<1>1. clock + Interval[s] \in Nat
  BY ScheduleAssumption DEF TypeOK, Time
<1>2. QED
  BY <1>1 DEF EndAttempt, DueAfter, TypeOK, Time, Outcome

LEMMA TypeInit == Init => TypeOK
<1> SUFFICES ASSUME Init PROVE TypeOK
  OBVIOUS
<1>1. [at |-> 0, through |-> 0] \in Record
  BY DEF Record
<1>2. stored \in [Sources -> Record \cup {NoData}]
  BY <1>1 DEF Init
<1>3. /\ outcome \in [Sources -> Outcome]
      /\ freshData \in [Sources -> Record \cup {NoData}]
  BY DEF Init, Idle, Nothing, Outcome
<1>4. QED
  BY <1>2, <1>3 DEF Init, TypeOK, Time, PlanStatus

LEMMA TypeBegin == ASSUME TypeOK, NEW c \in Callers, BeginCycle(c) PROVE TypeOK'
<1> DEFINE due == {s \in Sources : IsDue(s, started[c])}
<1>1. PICK unreadable \in SUBSET (due \cap (Histories \cup StoreChecked)) :
        LET planned == {s \in due \ unreadable : ~Complete(s, started[c])} IN
        /\ outcome' = [s \in Sources |->
                         IF s \in unreadable THEN "failed"
                         ELSE IF s \in planned THEN "planned" ELSE "skipped"]
        /\ nextDue' = [s \in Sources |->
                         IF s \in due \ planned THEN DueAfter(s, clock)
                         ELSE IF s \notin due /\ nextDue[s] = Unscheduled
                              THEN started[c] + Interval[s] ELSE nextDue[s]]
        /\ lastEnd' = [s \in Sources |->
                         IF s \in due \ planned THEN clock ELSE lastEnd[s]]
  BY DEF BeginCycle
<1>2. outcome' \in [Sources -> Outcome]
  BY <1>1 DEF Outcome
<1>3. \A s \in Sources : DueAfter(s, clock) \in Nat /\ started[c] + Interval[s] \in Nat
  <2>1. clock \in Nat /\ started[c] \in Nat
    BY DEF TypeOK, Time
  <2>2. TAKE s \in Sources
  <2>3. Interval[s] \in Nat
    BY IntervalType
  <2>4. QED
    BY <2>1, <2>3 DEF DueAfter
<1>4. nextDue' \in [Sources -> Time \cup {Unscheduled}]
  BY <1>1, <1>3 DEF TypeOK, Time
<1>5. lastEnd' \in [Sources -> Time \cup {Unscheduled}]
  BY <1>1 DEF TypeOK
<1>6. QED
  BY <1>2, <1>4, <1>5 DEF BeginCycle, TypeOK, dataVars, PlanStatus

LEMMA TypeAttempt ==
  ASSUME TypeOK, NEW c \in Callers, NEW s \in Sources, Attempt(c, s) PROVE TypeOK'
<1>1. CASE BuildFails(c, s)
  BY <1>1, EndAttemptType DEF BuildFails, TypeOK, dataVars
<1>2. ASSUME NEW data \in Incoming(s, started[c]),
             \/ SaveReportsFailure(c, s, data)
             \/ CheckFails(c, s, data)
             \/ Refresh(c, s, data)
      PROVE  TypeOK'
  <2>1. data \in Record
    BY IncomingType DEF TypeOK, Time
  <2>2. CASE SaveReportsFailure(c, s, data)
    BY <2>1, <2>2, EndAttemptType DEF SaveReportsFailure, TypeOK
  <2>3. CASE CheckFails(c, s, data)
    BY <2>1, <2>3, EndAttemptType DEF CheckFails, Save, TypeOK
  <2>4. CASE Refresh(c, s, data)
    BY <2>1, <2>4, EndAttemptType DEF Refresh, Save, TypeOK
  <2>5. QED
    BY <1>2, <2>2, <2>3, <2>4
<1>3. QED
  BY <1>1, <1>2 DEF Attempt

LEMMA TypeEndCycle ==
  ASSUME TypeOK, NEW c \in Callers, NEW then \in {"sleeping", "dead"},
         EndCycle(c, then), planStatus' \in PlanStatus
  PROVE  TypeOK'
  BY EndCallType DEF EndCycle, TypeOK, Idle, Nothing, Outcome, dataVars

LEMMA TypeSubmit == ASSUME TypeOK, NEW s \in Sources, Submit(s) PROVE TypeOK'
<1>1. PICK age \in {a \in Ages : a <= clock},
           hour \in {HourOf(clock)} \cup
                    (IF stored[s] = NoData THEN {} ELSE {stored[s].through}) :
             stored' = [stored EXCEPT ![s] = [at |-> clock - age, through |-> hour]]
  BY DEF Submit
<1>2. clock - age \in Nat
  BY ScheduleAssumption DEF TypeOK, Time
<1>3. hour \in Nat
  BY HourOfType DEF TypeOK, Time, Record
<1>4. QED
  BY <1>1, <1>2, <1>3 DEF Submit, TypeOK, Record, cycleVars

LEMMA TypeRestart == ASSUME TypeOK, Restart PROVE TypeOK'
<1>1. PICK unreadable \in SUBSET Sources :
        /\ latest' = [s \in Sources |-> IF s \in unreadable THEN NoData ELSE stored[s]]
        /\ diverged' = [s \in Sources |-> s \in unreadable]
  BY DEF Restart
<1>2. latest' \in [Sources -> Record \cup {NoData}]
  BY <1>1 DEF TypeOK
<1>3. diverged' \in [Sources -> BOOLEAN]
  BY <1>1
<1>4. /\ pc' \in [Callers -> {"sleeping", "entering", "importing", "building", "dead"}]
      /\ wake' \in [Callers -> Time] /\ started' \in [Callers -> Time]
  BY DEF Restart, TypeOK
<1>5. /\ outcome' \in [Sources -> Outcome]
      /\ freshData' \in [Sources -> Record \cup {NoData}]
  BY DEF Restart, Idle, Nothing, Outcome
<1>6. /\ nextDue' \in [Sources -> Time \cup {Unscheduled}]
      /\ lastEnd' \in [Sources -> Time \cup {Unscheduled}]
  BY DEF Restart
<1>7. /\ clock' = clock /\ restarts' = restarts + 1 /\ lock' = Nobody
      /\ importFailed' = FALSE /\ planStatus' = "none" /\ stored' = stored
  BY DEF Restart
<1>8. clock' \in Time /\ restarts' \in Nat
  BY <1>7 DEF TypeOK
<1>9. importFailed' \in BOOLEAN
  BY <1>7
<1>10. /\ lock' \in Callers \cup {Nobody} /\ planStatus' \in PlanStatus
       /\ stored' \in [Sources -> Record \cup {NoData}]
  BY <1>7 DEF TypeOK, PlanStatus
<1>11. QED
  BY <1>2, <1>3, <1>4, <1>5, <1>6, <1>8, <1>9, <1>10 DEF TypeOK

LEMMA TypeNext == TypeOK /\ [Next]_vars => TypeOK'
<1> SUFFICES ASSUME TypeOK, [Next]_vars PROVE TypeOK'
  OBVIOUS
<1>1. ASSUME NEW c \in Callers, ReadClock(c) PROVE TypeOK'
  BY <1>1 DEF ReadClock, TypeOK, cycleVars, dataVars
<1>2. ASSUME NEW c \in Callers, SkipCycle(c) PROVE TypeOK'
  BY <1>2, EndCallType DEF SkipCycle, TypeOK, cycleVars, dataVars
<1>3. ASSUME NEW c \in Callers, BeginCycle(c) PROVE TypeOK'
  BY <1>3, TypeBegin
<1>4. ASSUME NEW c \in Callers, ImportHistory(c) PROVE TypeOK'
  BY <1>4 DEF ImportHistory, TypeOK, dataVars
<1>5. ASSUME NEW c \in Callers, NEW s \in Sources, Attempt(c, s) PROVE TypeOK'
  BY <1>5, TypeAttempt
<1>6. ASSUME NEW c \in Callers, TriggerPlan(c) PROVE TypeOK'
  BY <1>6, TypeEndCycle DEF TriggerPlan, PlanOutcomes, PlanStatus
<1>7. ASSUME NEW c \in Callers, TriggerRaises(c) PROVE TypeOK'
  BY <1>7, TypeEndCycle DEF TriggerRaises, TypeOK
<1>8. ASSUME NEW s \in Sources, Submit(s) PROVE TypeOK'
  BY <1>8, TypeSubmit
<1>9. CASE Tick
  BY <1>9 DEF Tick, TypeOK, Time, cycleVars, dataVars
<1>10. CASE Restart
  BY <1>10, TypeRestart
<1>11. CASE UNCHANGED vars
  BY <1>11 DEF vars, TypeOK, cycleVars, dataVars
<1>12. QED
  BY <1>1, <1>2, <1>3, <1>4, <1>5, <1>6, <1>7, <1>8, <1>9, <1>10, <1>11
  DEF Next, CycleStep

\* Type correctness of the orchestrator's state, whatever fails in a cycle.
THEOREM TypeCorrect == Spec => []TypeOK
<1>1. QED BY TypeInit, TypeNext, PTL DEF Spec

-----------------------------------------------------------------------------
\* The cycle lock excludes: whoever is inside a cycle holds it.
LEMMA ExclusiveInit == Init => CyclesExclusive
  BY NullAssumption DEF Init, CyclesExclusive, InCycle

LEMMA ExclusiveNext == TypeOK /\ CyclesExclusive /\ [Next]_vars => CyclesExclusive'
<1> SUFFICES ASSUME TypeOK, CyclesExclusive, [Next]_vars PROVE CyclesExclusive'
  OBVIOUS
<1> USE DEF CyclesExclusive, InCycle
<1>1. ASSUME NEW c \in Callers, ReadClock(c) PROVE CyclesExclusive'
  BY <1>1 DEF ReadClock, TypeOK
<1>2. ASSUME NEW c \in Callers, SkipCycle(c) PROVE CyclesExclusive'
  BY <1>2 DEF SkipCycle, EndCall, TypeOK
<1>3. ASSUME NEW c \in Callers, BeginCycle(c) PROVE CyclesExclusive'
  BY <1>3, NullAssumption DEF BeginCycle, LockFree, TypeOK
<1>4. ASSUME NEW c \in Callers, ImportHistory(c) PROVE CyclesExclusive'
  BY <1>4 DEF ImportHistory, TypeOK
<1>5. ASSUME NEW c \in Callers, NEW s \in Sources, Attempt(c, s) PROVE CyclesExclusive'
  <2>1. pc' = pc /\ lock' = lock
    BY <1>5 DEF Attempt, BuildFails, SaveReportsFailure, CheckFails, Refresh, EndAttempt
  <2>2. QED
    BY <2>1
<1>6. ASSUME NEW c \in Callers, NEW then \in {"sleeping", "dead"}, EndCycle(c, then)
      PROVE  CyclesExclusive'
  BY <1>6, NullAssumption DEF EndCycle, EndCall, TypeOK
<1>7. CASE Restart
  BY <1>7, NullAssumption DEF Restart
<1>8. CASE UNCHANGED <<pc, lock>>
  BY <1>8
<1>9. QED
  BY <1>1, <1>2, <1>3, <1>4, <1>5, <1>6, <1>7, <1>8
  DEF Next, CycleStep, TriggerPlan, TriggerRaises, Submit, Tick, vars

-----------------------------------------------------------------------------
\* Memory and store part only behind the orchestrator's back.
LEMMA MemoryNext ==
  TypeOK /\ MemoryFollowsStore /\ [Next]_vars => MemoryFollowsStore'
<1> SUFFICES ASSUME TypeOK, MemoryFollowsStore, [Next]_vars PROVE MemoryFollowsStore'
  OBVIOUS
<1> USE DEF MemoryFollowsStore
<1>1. ASSUME NEW c \in Callers, NEW s \in Sources, Attempt(c, s)
      PROVE  MemoryFollowsStore'
  BY <1>1 DEF Attempt, BuildFails, SaveReportsFailure, CheckFails, Refresh, Save,
              TypeOK, dataVars
<1>2. ASSUME NEW s \in Sources, Submit(s) PROVE MemoryFollowsStore'
  BY <1>2 DEF Submit, TypeOK
<1>3. CASE Restart
  BY <1>3 DEF Restart
<1>4. CASE UNCHANGED dataVars
  BY <1>4 DEF dataVars
<1>5. QED
  BY <1>1, <1>2, <1>3, <1>4
  DEF Next, CycleStep, ReadClock, SkipCycle, BeginCycle, ImportHistory, TriggerPlan,
      TriggerRaises, EndCycle, Tick, vars

-----------------------------------------------------------------------------
\* What a cycle holds as fresh is the record in memory, and was judged fresh at
\* the time the cycle captured.
LEMMA FreshNext ==
  TypeOK /\ CyclesExclusive /\ FreshDataIsLatest /\ [Next]_vars => FreshDataIsLatest'
<1> SUFFICES ASSUME TypeOK, CyclesExclusive, FreshDataIsLatest, [Next]_vars
             PROVE  FreshDataIsLatest'
  OBVIOUS
<1> USE DEF FreshDataIsLatest, Refreshed, Fresh
<1>1. ASSUME NEW c \in Callers, ReadClock(c) PROVE FreshDataIsLatest'
  <2>1. c # lock
    BY <1>1 DEF ReadClock, CyclesExclusive, InCycle
  <2>2. QED
    BY <1>1, <2>1 DEF ReadClock, TypeOK, cycleVars, dataVars
<1>2. ASSUME NEW c \in Callers, SkipCycle(c) PROVE FreshDataIsLatest'
  BY <1>2 DEF SkipCycle, cycleVars, dataVars
<1>3. ASSUME NEW c \in Callers, BeginCycle(c) PROVE FreshDataIsLatest'
  BY <1>3 DEF BeginCycle, LockFree, dataVars
<1>4. ASSUME NEW c \in Callers, ImportHistory(c) PROVE FreshDataIsLatest'
  BY <1>4 DEF ImportHistory, dataVars
<1>5. ASSUME NEW c \in Callers, NEW s \in Sources, Attempt(c, s) PROVE FreshDataIsLatest'
  <2>1. /\ lock = c /\ lock # Nobody /\ freshData[s] = NoData /\ outcome[s] = "planned"
        /\ lock' = lock /\ started' = started
        /\ \A u \in Sources \ {s} : outcome'[u] = outcome[u]
    BY <1>5, NullAssumption
    DEF Attempt, BuildFails, SaveReportsFailure, CheckFails, Refresh, EndAttempt,
        NextPlanned, Planned, CyclesExclusive, InCycle, TypeOK
  <2>2. CASE BuildFails(c, s)
    BY <2>1, <2>2 DEF BuildFails, EndAttempt, TypeOK, dataVars
  <2>3. ASSUME NEW data \in Incoming(s, started[c]), SaveReportsFailure(c, s, data)
        PROVE  FreshDataIsLatest'
    BY <2>1, <2>3 DEF SaveReportsFailure, EndAttempt, TypeOK
  <2>4. ASSUME NEW data \in Incoming(s, started[c]), CheckFails(c, s, data)
        PROVE  FreshDataIsLatest'
    BY <2>1, <2>4 DEF CheckFails, Save, EndAttempt, TypeOK
  <2>5. ASSUME NEW data \in Incoming(s, started[c]), Refresh(c, s, data)
        PROVE  FreshDataIsLatest'
    BY <2>1, <2>5 DEF Refresh, Save, EndAttempt, TypeOK
  <2>6. QED
    BY <1>5, <2>2, <2>3, <2>4, <2>5 DEF Attempt
<1>6. ASSUME freshData' = Nothing PROVE FreshDataIsLatest'
  BY <1>6 DEF Nothing
<1>7. ASSUME UNCHANGED <<freshData, latest, outcome, lock, started>>
      PROVE  FreshDataIsLatest'
  BY <1>7
<1>8. QED
  BY <1>1, <1>2, <1>3, <1>4, <1>5, <1>6, <1>7
  DEF Next, CycleStep, TriggerPlan, TriggerRaises, EndCycle, Restart, Submit, Tick,
      vars, cycleVars, dataVars

-----------------------------------------------------------------------------
\* The schedule: calls do not start in the future, an attempt schedules the next
\* one a full interval after its end, and in a cycle every source that is not
\* waiting for its build is scheduled after the captured time.
Scheduling ==
  /\ \A c \in Callers : started[c] <= clock
  /\ \A s \in Sources : lastEnd[s] # Unscheduled =>
       nextDue[s] # Unscheduled /\ nextDue[s] >= lastEnd[s] + Interval[s]
  /\ lock # Nobody => \A s \in Sources :
       /\ outcome[s] # "idle"
       /\ outcome[s] # "planned" =>
            nextDue[s] # Unscheduled /\ nextDue[s] > started[lock]
  /\ lock # Nobody => planStatus = "none"

LEMMA SchedulingBegin ==
  ASSUME TypeOK, Scheduling, NEW c \in Callers, BeginCycle(c)
  PROVE  /\ Scheduling'
         /\ \A s \in Sources :
              outcome'[s] = "planned" /\ lastEnd[s] # Unscheduled =>
                clock >= lastEnd[s] + Interval[s]
<1> DEFINE due == {s \in Sources : IsDue(s, started[c])}
<1>1. PICK unreadable \in SUBSET (due \cap (Histories \cup StoreChecked)) :
        LET planned == {s \in due \ unreadable : ~Complete(s, started[c])} IN
        /\ outcome' = [s \in Sources |->
                         IF s \in unreadable THEN "failed"
                         ELSE IF s \in planned THEN "planned" ELSE "skipped"]
        /\ nextDue' = [s \in Sources |->
                         IF s \in due \ planned THEN DueAfter(s, clock)
                         ELSE IF s \notin due /\ nextDue[s] = Unscheduled
                              THEN started[c] + Interval[s] ELSE nextDue[s]]
        /\ lastEnd' = [s \in Sources |->
                         IF s \in due \ planned THEN clock ELSE lastEnd[s]]
  BY DEF BeginCycle
<1> DEFINE planned == {s \in due \ unreadable : ~Complete(s, started[c])}
<1>2. /\ lock' = c /\ started' = started /\ clock' = clock /\ planStatus' = "none"
      /\ clock \in Nat /\ started[c] \in Nat /\ started[c] <= clock
  BY DEF BeginCycle, TypeOK, Time, Scheduling
<1>3. ASSUME NEW s \in Sources
      PROVE  /\ lastEnd'[s] # Unscheduled =>
                  nextDue'[s] # Unscheduled /\ nextDue'[s] >= lastEnd'[s] + Interval[s]
             /\ outcome'[s] # "idle"
             /\ outcome'[s] # "planned" =>
                  nextDue'[s] # Unscheduled /\ nextDue'[s] > started'[lock']
             /\ outcome'[s] = "planned" /\ lastEnd[s] # Unscheduled =>
                  clock >= lastEnd[s] + Interval[s]
  <2>1. /\ Interval[s] \in Nat /\ Interval[s] > 0
        /\ nextDue[s] \in Nat \cup {Unscheduled} /\ lastEnd[s] \in Nat \cup {Unscheduled}
        /\ lastEnd[s] # Unscheduled =>
             nextDue[s] # Unscheduled /\ nextDue[s] >= lastEnd[s] + Interval[s]
    BY IntervalType DEF TypeOK, Time, Scheduling
  <2>2. CASE s \in due \ planned
    <3>1. /\ nextDue'[s] = clock + Interval[s] /\ lastEnd'[s] = clock
          /\ outcome'[s] \in {"failed", "skipped"}
      BY <1>1, <2>2 DEF DueAfter
    <3>2. QED
      BY <1>2, <2>1, <3>1, NullAssumption
  <2>3. CASE s \in planned
    <3>1. nextDue'[s] = nextDue[s] /\ lastEnd'[s] = lastEnd[s] /\ outcome'[s] = "planned"
      BY <1>1, <2>3
    <3>2. lastEnd[s] # Unscheduled => started[c] >= nextDue[s]
      BY <2>1, <2>3 DEF IsDue
    <3>3. QED
      BY <1>2, <2>1, <3>1, <3>2
  <2>4. CASE s \notin due
    <3>1. /\ nextDue'[s] = IF nextDue[s] = Unscheduled
                           THEN started[c] + Interval[s] ELSE nextDue[s]
          /\ lastEnd'[s] = lastEnd[s] /\ outcome'[s] = "skipped"
      BY <1>1, <2>4
    <3>2. nextDue[s] # Unscheduled => nextDue[s] > started[c]
      BY <1>2, <2>1, <2>4 DEF IsDue
    <3>3. QED
      BY <1>2, <2>1, <3>1, <3>2, NullAssumption
  <2>5. QED
    BY <2>2, <2>3, <2>4
<1>4. QED
  BY <1>2, <1>3 DEF Scheduling

LEMMA SchedulingNext ==
  TypeOK /\ CyclesExclusive /\ Scheduling /\ [Next]_vars => Scheduling'
<1> SUFFICES ASSUME TypeOK, CyclesExclusive, Scheduling, [Next]_vars PROVE Scheduling'
  OBVIOUS
<1> USE DEF Scheduling
<1>1. ASSUME NEW c \in Callers, ReadClock(c) PROVE Scheduling'
  <2>1. c # lock
    BY <1>1 DEF ReadClock, CyclesExclusive, InCycle
  <2>2. /\ clock' = clock /\ started' = [started EXCEPT ![c] = clock] /\ lock' = lock
        /\ planStatus' = planStatus
        /\ nextDue' = nextDue /\ lastEnd' = lastEnd /\ outcome' = outcome /\ clock \in Nat
    BY <1>1 DEF ReadClock, cycleVars, TypeOK, Time
  <2>3. \A d \in Callers : started'[d] = IF d = c THEN clock ELSE started[d]
    BY <2>2 DEF TypeOK
  <2>4. lock # Nobody => started'[lock] = started[lock]
    BY <2>1, <2>3 DEF TypeOK
  <2>5. QED
    BY <2>2, <2>3, <2>4
<1>2. ASSUME NEW c \in Callers, BeginCycle(c) PROVE Scheduling'
  BY <1>2, SchedulingBegin
<1>3. ASSUME NEW c \in Callers, NEW s \in Sources, Attempt(c, s) PROVE Scheduling'
  <2>1. /\ clock' = clock /\ started' = started /\ lock' = lock /\ lock = c
        /\ planStatus' = planStatus
        /\ nextDue' = [nextDue EXCEPT ![s] = clock + Interval[s]]
        /\ lastEnd' = [lastEnd EXCEPT ![s] = clock]
        /\ \E result \in {"failed", "stale", "success"} :
             outcome' = [outcome EXCEPT ![s] = result]
    BY <1>3
    DEF Attempt, BuildFails, SaveReportsFailure, CheckFails, Refresh, EndAttempt,
        DueAfter, CyclesExclusive, InCycle
  <2>2. /\ clock \in Nat /\ started[c] \in Nat /\ started[c] <= clock
        /\ Interval[s] \in Nat /\ Interval[s] > 0
    BY IntervalType DEF TypeOK, Time
  <2>3. \A u \in Sources \ {s} :
          /\ nextDue'[u] = nextDue[u] /\ lastEnd'[u] = lastEnd[u]
          /\ outcome'[u] = outcome[u]
    BY <2>1 DEF TypeOK
  <2>4. /\ nextDue'[s] = clock + Interval[s] /\ lastEnd'[s] = clock
        /\ outcome'[s] \in {"failed", "stale", "success"}
    BY <2>1 DEF TypeOK
  <2>5. nextDue'[s] # Unscheduled
    BY <2>2, <2>4, NullAssumption
  <2>6. QED
    BY <2>1, <2>2, <2>3, <2>4, <2>5
<1>4. ASSUME lock' = Nobody, UNCHANGED <<clock, started, nextDue, lastEnd>>
      PROVE  Scheduling'
  BY <1>4
<1>5. CASE Restart
  BY <1>5 DEF Restart, TypeOK, Time
<1>6. CASE Tick
  BY <1>6 DEF Tick, TypeOK, Time, cycleVars
<1>7. ASSUME UNCHANGED <<clock, started, lock, nextDue, lastEnd, outcome, planStatus>>
      PROVE  Scheduling'
  BY <1>7
<1>8. QED
  BY <1>1, <1>2, <1>3, <1>4, <1>5, <1>6, <1>7
  DEF Next, CycleStep, SkipCycle, ImportHistory, TriggerPlan, TriggerRaises, EndCycle,
      Submit, vars, cycleVars, dataVars

-----------------------------------------------------------------------------
\* The inductive invariant of the orchestrator.
OrchestratorInv ==
  TypeOK /\ CyclesExclusive /\ MemoryFollowsStore /\ FreshDataIsLatest /\ Scheduling

LEMMA InvInit == Init => OrchestratorInv
<1> SUFFICES ASSUME Init PROVE OrchestratorInv
  OBVIOUS
<1>1. TypeOK /\ CyclesExclusive
  BY TypeInit, ExclusiveInit
<1>2. MemoryFollowsStore /\ FreshDataIsLatest
  BY DEF Init, MemoryFollowsStore, FreshDataIsLatest, Refreshed, Nothing
<1>3. Scheduling
  BY DEF Init, Scheduling
<1>4. QED
  BY <1>1, <1>2, <1>3 DEF OrchestratorInv

LEMMA InvNext == OrchestratorInv /\ [Next]_vars => OrchestratorInv'
  BY TypeNext, ExclusiveNext, MemoryNext, FreshNext, SchedulingNext DEF OrchestratorInv

LEMMA InvAlways == Spec => []OrchestratorInv
  BY InvInit, InvNext, PTL DEF Spec

\* Two cycles never overlap, for any number of callers (_cycle_lock).
THEOREM ExclusiveCycles == Spec => []CyclesExclusive
<1>1. OrchestratorInv => CyclesExclusive
  BY DEF OrchestratorInv
<1>2. QED BY <1>1, InvAlways, PTL

\* _latest_data equals the store unless the store was changed behind it.
THEOREM MemoryIsStore == Spec => []MemoryFollowsStore
<1>1. OrchestratorInv => MemoryFollowsStore
  BY DEF OrchestratorInv
<1>2. QED BY <1>1, InvAlways, PTL

\* fresh_data is what _latest_data holds, judged fresh at the captured time.
THEOREM FreshIsLatest == Spec => []FreshDataIsLatest
<1>1. OrchestratorInv => FreshDataIsLatest
  BY DEF OrchestratorInv
<1>2. QED BY <1>1, InvAlways, PTL

-----------------------------------------------------------------------------
LEMMA EndsInEndCycle ==
  ASSUME OrchestratorInv, [Next]_vars, lock # Nobody, lock' = Nobody,
         restarts' = restarts
  PROVE  /\ \E c \in Callers : lock = c /\ (TriggerPlan(c) \/ TriggerRaises(c))
         /\ Planned = {}
<1>1. CASE Restart
  BY <1>1 DEF Restart, OrchestratorInv, TypeOK
<1>2. CASE lock' = lock
  BY <1>2
<1>3. ASSUME NEW c \in Callers, BeginCycle(c) PROVE FALSE
  BY <1>3 DEF BeginCycle, LockFree
<1>4. ASSUME NEW c \in Callers, TriggerPlan(c) \/ TriggerRaises(c)
      PROVE  lock = c /\ Planned = {}
  BY <1>4 DEF TriggerPlan, TriggerRaises, EndCycle, OrchestratorInv, CyclesExclusive, InCycle
<1>5. \/ Restart \/ lock' = lock
      \/ \E c \in Callers : BeginCycle(c) \/ TriggerPlan(c) \/ TriggerRaises(c)
  BY DEF Next, CycleStep, ReadClock, SkipCycle, ImportHistory, Attempt, BuildFails,
         SaveReportsFailure, CheckFails, Refresh, EndAttempt, Submit, Tick, vars
<1>6. QED
  BY <1>1, <1>2, <1>3, <1>4, <1>5

LEMMA PlanMadeByTrigger ==
  ASSUME OrchestratorInv, [Next]_vars, PlanMade
  PROVE  \E c \in Callers : lock = c /\ TriggerPlan(c)
<1>1. ASSUME NEW c \in Callers, TriggerPlan(c) PROVE lock = c
  BY <1>1 DEF TriggerPlan, EndCycle, OrchestratorInv, CyclesExclusive, InCycle
<1>2. \E c \in Callers : TriggerPlan(c)
  BY DEF PlanMade, Next, CycleStep, ReadClock, SkipCycle, BeginCycle, ImportHistory,
         Attempt, BuildFails, SaveReportsFailure, CheckFails, Refresh, EndAttempt,
         TriggerRaises, Submit, Tick, Restart, vars
<1>3. QED
  BY <1>1, <1>2

\* A plan is only made from inputs that are all held, fresh at the captured time
\* and untouched by a failure of this cycle, at least one of them new.
THEOREM PlanInputs == Spec => PlanInputsAreCurrent
<1>1. OrchestratorInv /\ [Next]_vars => [PlanMade => CurrentInputs]_vars
  <2> SUFFICES ASSUME OrchestratorInv, [Next]_vars, PlanMade PROVE CurrentInputs
    OBVIOUS
  <2>1. PICK c \in Callers : lock = c /\ TriggerPlan(c)
    BY PlanMadeByTrigger
  <2>2. /\ Ready /\ \A s \in Required : Fresh(s, Newest(s), started[c])
        /\ Planned = {}
    BY <2>1 DEF TriggerPlan, EndCycle, PlanOutcomes, PlanMade
  <2>3. ASSUME NEW s \in Required
        PROVE  /\ latest[s] # NoData /\ Fresh(s, latest[s], started[lock])
               /\ outcome[s] \in {"skipped", "success"}
    <3>1. s \in Sources /\ Newest(s) = latest[s]
      BY SourcesAssumption DEF Newest, OrchestratorInv, FreshDataIsLatest, Refreshed
    <3>2. outcome[s] \in Outcome /\ outcome[s] \notin {"idle", "planned", "failed", "stale"}
      BY <2>1, <2>2, <3>1, NullAssumption
      DEF Ready, Blocked, Planned, OrchestratorInv, TypeOK, Scheduling
    <3>3. QED
      BY <2>1, <2>2, <3>1, <3>2 DEF Ready, Outcome
  <2>4. \E s \in Required : outcome[s] = "success"
    BY <2>2 DEF Ready, OrchestratorInv, FreshDataIsLatest
  <2>5. QED
    BY <2>3, <2>4 DEF CurrentInputs
<1>2. QED
  BY <1>1, InvAlways, PTL DEF Spec, PlanInputsAreCurrent

\* The trigger misses no plan: fresh records in the store, copied in memory, and
\* a refreshed required source call the generator.
THEOREM PlansMade == Spec => PlansWhenInputsAllow
<1>1. OrchestratorInv /\ [Next]_vars =>
        [CycleEnds /\ InputsAllowPlan => PlanMade \/ \E c \in Callers : pc'[c] = "dead"]_vars
  <2> SUFFICES ASSUME OrchestratorInv, [Next]_vars, CycleEnds, InputsAllowPlan
               PROVE  PlanMade \/ \E c \in Callers : pc'[c] = "dead"
    OBVIOUS
  <2>1. PICK c \in Callers : lock = c /\ (TriggerPlan(c) \/ TriggerRaises(c))
    BY EndsInEndCycle DEF CycleEnds
  <2>2. CASE TriggerRaises(c)
    BY <2>2 DEF TriggerRaises, EndCycle, EndCall, OrchestratorInv, TypeOK
  <2>3. CASE TriggerPlan(c)
    <3>1. \A s \in Required : Newest(s) = stored[s]
      BY SourcesAssumption
      DEF Newest, InputsAllowPlan, OrchestratorInv, FreshDataIsLatest, Refreshed,
          MemoryFollowsStore
    <3>2. Ready /\ \A s \in Required : Fresh(s, Newest(s), started[c])
      BY <2>1, <3>1 DEF InputsAllowPlan, Ready
    <3>3. planStatus' \in {"created", "failed"}
      BY <2>3, <3>2 DEF TriggerPlan, PlanOutcomes, InputsAllowPlan
    <3>4. planStatus = "none"
      BY DEF CycleEnds, OrchestratorInv, Scheduling
    <3>5. QED
      BY <3>3, <3>4 DEF PlanMade
  <2>4. QED
    BY <2>1, <2>2, <2>3
<1>2. QED
  BY <1>1, InvAlways, PTL DEF Spec, PlansWhenInputsAllow

\* A source is never fetched again before its interval has passed since the end
\* of its last attempt, however many threads call run_due.
THEOREM Spacing == Spec => AttemptsAreSpaced
<1>1. OrchestratorInv /\ [Next]_vars =>
        [\A s \in Sources : AttemptStarts(s) => Spaced(s)]_vars
  <2> SUFFICES ASSUME OrchestratorInv, [Next]_vars, NEW s \in Sources, AttemptStarts(s)
               PROVE  Spaced(s)
    OBVIOUS
  <2>1. ASSUME NEW c \in Callers, NEW u \in Sources, Attempt(c, u) PROVE FALSE
    BY <2>1 DEF Attempt, BuildFails, SaveReportsFailure, CheckFails, Refresh, EndAttempt,
                AttemptStarts, OrchestratorInv, TypeOK
  <2>2. \E c \in Callers : BeginCycle(c)
    BY <2>1 DEF AttemptStarts, Next, CycleStep, ReadClock, SkipCycle, ImportHistory,
                TriggerPlan, TriggerRaises, EndCycle, Idle, Submit, Tick, Restart, vars,
                cycleVars
  <2>3. QED
    BY <2>2, SchedulingBegin DEF AttemptStarts, Spaced, OrchestratorInv
<1>2. QED
  BY <1>1, InvAlways, PTL DEF Spec, AttemptsAreSpaced

\* No cycle ends with a source unscheduled or still due.
THEOREM AllRescheduled == Spec => NothingStaysDue
<1>1. OrchestratorInv /\ [Next]_vars => [CycleEnds => AllScheduled]_vars
  <2> SUFFICES ASSUME OrchestratorInv, [Next]_vars, CycleEnds PROVE AllScheduled
    OBVIOUS
  <2>1. lock # Nobody /\ Planned = {}
    BY EndsInEndCycle DEF CycleEnds
  <2>2. QED
    BY <2>1 DEF AllScheduled, Planned, OrchestratorInv, Scheduling
<1>2. QED
  BY <1>1, InvAlways, PTL DEF Spec, NothingStaysDue
=============================================================================
