--------------------------- MODULE MCEnergyImport ---------------------------
(* A grid flow of two meters: import is what the first one counts, export   *)
(* the positive part of the second less the first.  The first reports any   *)
(* two values at any time, or three from time 0 on; the second always two. *)
EXTENDS EnergyImport

CONSTANTS m1, m2

Counter(value) == [value |-> value, usable |-> TRUE, reset |-> 0]
Invalid == [Counter(0) EXCEPT !.usable = FALSE]
Values == {Counter(0), Counter(1), [Counter(3) EXCEPT !.reset = 1], Invalid}
Times == 0..MaxHours * Width

Recording(reports) ==
  [t \in Times |-> IF t \in DOMAIN reports THEN reports[t] ELSE Silent]
Changing(reports) ==
  \A t, u \in DOMAIN reports :
    t < u /\ (\A v \in DOMAIN reports : v <= t \/ v >= u) => reports[t] # reports[u]
Few == {ts \in SUBSET (0..5) : Cardinality(ts) <= 2 \/ (0 \in ts /\ Cardinality(ts) = 3)}

MCRecorders ==
  {(m1 :> Recording(a)) @@ (m2 :> Recording(b)) :
     a \in {r \in UNION {[ts -> Values] : ts \in Few} : Changing(r)},
     b \in {(t :> Counter(0)) @@ (u :> Counter(1)) : t \in {0, 1}, u \in {3, 4}}}
Term(entity, sign) == [entity |-> entity, sign |-> sign]
MCChannels == <<[terms |-> <<Term(m1, 1)>>, part |-> "net"],
                [terms |-> <<Term(m2, 1), Term(m1, -1)>>, part |-> "positive"]>>
=============================================================================
