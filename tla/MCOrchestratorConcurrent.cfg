SPECIFICATION FairSpec
CONSTANTS
  Sources <- PricesAndEfficiency
  Histories = {}
  StoreChecked = {"battery_efficiency"}
  Submittable = {}
  Required = {"electricity_prices", "battery_efficiency"}
  Callers = {loop, other}
  StartupFetch = FALSE
  PlanningEnabled = TRUE
  HasGenerator = TRUE
  Ages = {0, 2}
  HourLength = 2
  MaxTime = 3
  MaxRestarts = 0
  Position <- RegistrationOrder
  Interval <- Intervals
  MaxAge <- Thresholds
  NoData = NoData
  Unscheduled = Unscheduled
  Nobody = Nobody
  loop = loop
  other = other
INVARIANT
  CyclesExclusive
PROPERTIES
  AttemptsAreSpaced
  CyclesEnd
CHECK_DEADLOCK FALSE
