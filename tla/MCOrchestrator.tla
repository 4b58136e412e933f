--------------------------- MODULE MCOrchestrator ---------------------------
(* Values of the constants of Orchestrator for the model checker.          *)
EXTENDS Orchestrator

CONSTANTS loop, other  \* the thread of run_forever, and another caller of run_due

LoadAndPrices == {"household_load", "electricity_prices"}
PricesAndEfficiency == {"electricity_prices", "battery_efficiency"}

\* The order of _REGISTRATION_FACTORIES.
RegistrationOrder ==
  [s \in Sources |-> CASE s = "household_load" -> 1
                       [] s = "electricity_prices" -> 4
                       [] s = "battery_efficiency" -> 8]
Intervals ==
  [s \in Sources |-> CASE s = "household_load" -> 2
                       [] s = "electricity_prices" -> 1
                       [] s = "battery_efficiency" -> 3]
Thresholds ==
  [s \in Sources |-> CASE s = "household_load" -> 3
                       [] s = "electricity_prices" -> 2
                       [] s = "battery_efficiency" -> 6]
=============================================================================
