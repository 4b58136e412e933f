---------------------------- MODULE HistorySeries ----------------------------
(***************************************************************************)
(* The history of one entity as Home Assistant answers for it and as the   *)
(* shared import keeps it.  A recording maps a time to the report made at  *)
(* that time, or to Silent: Home Assistant records changes only.  Records  *)
(* are sequences of [at, report].                                          *)
(***************************************************************************)
EXTENDS Integers, Sequences, FiniteSets, FiniteSetsExt

CONSTANT Silent

\* The function itself; TLC evaluates f once, not anew at every use.
Tabulated(f) == CHOOSE g \in {f} : g = f

\* f where it is defined, g elsewhere.
Over(f, g) ==
  Tabulated([x \in DOMAIN f \cup DOMAIN g |-> IF x \in DOMAIN f THEN f[x] ELSE g[x]])

\* The elements of a finite set as a sequence in the strict order R.
Arranged(S, R) ==
  Tabulated([k \in 1..Cardinality(S) |->
               CHOOSE x \in S : Cardinality({y \in S : <<y, x>> \in R}) = k - 1])
Ascending(I) == Arranged(I, {x \in I \X I : x[1] < x[2]})

\* The elements of a sequence at some of its positions, in its order.
Picked(s, I) ==
  LET places == Ascending(I) IN Tabulated([k \in DOMAIN places |-> s[places[k]]])

Reported(recording) == {t \in DOMAIN recording : recording[t] # Silent}

\* The report in force at t; Silent before the first one.
InForce(recording, t) ==
  LET earlier == {u \in Reported(recording) : u <= t}
  IN IF earlier = {} THEN Silent ELSE recording[Max(earlier)]

\* Home Assistant's answer for a period: the state in force at its start,
\* stamped with that start, then the changes.  Whether a change at the very end
\* belongs to it (closing) is up to Home Assistant.
Answer(recording, from, to, closing) ==
  LET Answered(t) == \/ t = from /\ InForce(recording, t) # Silent
                     \/ t > from /\ t \in Reported(recording) /\ (t < to \/ closing)
      times == Ascending({t \in from..to : Answered(t)})
  IN Tabulated([i \in DOMAIN times |->
                  [at |-> times[i], report |-> InForce(recording, times[i])]])

Holds(records, t) == \E i \in DOMAIN records : records[i].at = t
Position(records, t) == Min({i \in DOMAIN records : records[i].at = t})

\* Chunks are strung together.
Joined_Appending(records, answer) == records \o answer

\* _fetch_records: a record repeated within one answer is kept twice, one that
\* an earlier chunk brought already is replaced.
Joined(records, answer) ==
  LET Latest(r) == IF Holds(answer, r.at) THEN answer[Position(answer, r.at)] ELSE r
      added == {i \in DOMAIN answer : \/ ~Holds(records, answer[i].at)
                                      \/ Position(answer, answer[i].at) < i}
  IN [i \in DOMAIN records |-> Latest(records[i])] \o Picked(answer, added)

\* A joined history in the order of time; records of one time keep their order.
Sorted(records) ==
  LET before == {x \in (DOMAIN records) \X (DOMAIN records) :
                   \/ records[x[1]].at < records[x[2]].at
                   \/ records[x[1]].at = records[x[2]].at /\ x[1] < x[2]}
      places == Arranged(DOMAIN records, before)
  IN Tabulated([k \in DOMAIN places |-> records[places[k]]])

\* The last of the samples up to t.
SampleAt(samples, t) == samples[Max({i \in DOMAIN samples : samples[i].at <= t})]

Inside(samples, from, to) ==
  Picked(samples, {i \in DOMAIN samples : from <= samples[i].at /\ samples[i].at <= to})
Before(samples, from) == {i \in DOMAIN samples : samples[i].at < from}
Stamped(samples, from) == <<[samples[Max(Before(samples, from))] EXCEPT !.at = from]>>

\* The window that carries the state in force only when nothing lies inside.
Window_InsideOnly(samples, from, to) ==
  IF Before(samples, from) # {} /\ Inside(samples, from, to) = <<>>
  THEN Stamped(samples, from) ELSE Inside(samples, from, to)

\* HistorySeries.window: what an own request for from..to would have answered;
\* the sample in force at from is stamped with from.
Window(samples, from, to) ==
  LET inside == Inside(samples, from, to)
  IN IF Before(samples, from) # {} /\ (inside = <<>> \/ Head(inside).at > from)
     THEN Stamped(samples, from) \o inside ELSE inside
=============================================================================
