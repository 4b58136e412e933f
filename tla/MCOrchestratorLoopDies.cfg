SPECIFICATION FairSpec
CONSTANTS
  Sources <- PricesAndEfficiency
  Histories = {}
  StoreChecked = {"battery_efficiency"}
  Submittable = {}
  Required = {"electricity_prices", "battery_efficiency"}
  Callers = {loop}
  StartupFetch = TRUE
  PlanningEnabled = TRUE
  HasGenerator = TRUE
  Ages = {0}
  HourLength = 2
  MaxTime = 4
  MaxRestarts = 0
  Position <- RegistrationOrder
  Interval <- Intervals
  MaxAge <- Thresholds
  NoData = NoData
  Unscheduled = Unscheduled
  Nobody = Nobody
  loop = loop
  other = other
PROPERTIES
  CollectionContinues
CHECK_DEADLOCK FALSE
