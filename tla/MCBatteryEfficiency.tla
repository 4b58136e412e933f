------------------------ MODULE MCBatteryEfficiency ------------------------
(* A charge that is full at first and changes, or becomes unusable, at up   *)
(* to three moments of four hours.                                          *)
EXTENDS BatteryEfficiency

Soc(value, usable) == [value |-> value, usable |-> usable]
Low == Soc(20, TRUE)
Changes == UNION {[ts -> {Low, Soc(100, TRUE), Soc(20, FALSE)}] :
                    ts \in {ts \in SUBSET (1..MaxHours * Width) : Cardinality(ts) <= 3}}
Real(changes) == \A t, u \in DOMAIN changes :
  t < u /\ t + 1..u - 1 \cap DOMAIN changes = {} => changes[t] # changes[u]
MCBatteries ==
  {[t \in 0..MaxHours * Width |->
      IF t = 0 THEN Soc(98, TRUE)
      ELSE IF t \in DOMAIN changes THEN changes[t] ELSE Silent] :
     changes \in {c \in Changes : Real(c)}}
MCBrokenHours == {{}, {1}, {2}}
MCHistoryStarts == {None, 2}
=============================================================================
