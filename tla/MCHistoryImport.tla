--------------------------- MODULE MCHistoryImport ---------------------------
(* Two entities over five moments, read by up to three sources.  A counter   *)
(* may report anything at any moment; the second entity has few histories.   *)
EXTENDS HistoryImport

Report(state, unit, malformed) == [state |-> state, unit |-> unit, malformed |-> malformed]
low == Report("low", "kWh", FALSE)
Reports == {Silent, low, Report("high", Omitted, TRUE),
            Report("unavailable", Omitted, FALSE), Report("negative", Omitted, FALSE)}
Moments == 0..4
MCRecorders ==
  {[meter |-> m, battery |-> b] :
     m \in {r \in [Moments -> Reports] :
            (r[0] = Silent \/ r[4] = Silent) /\ r[1] \in {Silent, low}},
     b \in {[t \in Moments |-> Silent],
            [t \in Moments |-> IF t = 2 THEN Report("high", "%", TRUE) ELSE Silent]}}

Need(entity, kind, from, to) ==
  [entity |-> entity, kind |-> kind, from |-> from, to |-> to]
MCPlans ==
  { << <<Need("meter", "counter", 2, 4)>>,
       <<Need("battery", "state", 1, 4), Need("meter", "counter", 1, 3)>>,
       <<>> >>,
    << <<Need("battery", "state", 0, 3)>>, <<Need("meter", "counter", 1, 3)>> >>,
    << <<Need("meter", "counter", 1, 3)>>, <<Need("meter", "state", 1, 3)>>, <<>> >>,
    << <<>> >> }
=============================================================================
