SPECIFICATION Spec
CONSTANTS
  Sources <- LoadAndPrices
  Histories = {"household_load"}
  StoreChecked = {}
  Submittable = {"household_load"}
  Required = {"household_load", "electricity_prices"}
  Callers = {loop}
  StartupFetch = TRUE
  PlanningEnabled = TRUE
  HasGenerator = TRUE
  Ages = {0, 2}
  HourLength = 2
  MaxTime = 4
  MaxRestarts = 1
  Position <- RegistrationOrder
  Interval <- Intervals
  MaxAge <- Thresholds
  NoData = NoData
  Unscheduled = Unscheduled
  Nobody = Nobody
  loop = loop
  other = other
INVARIANTS
  TypeOK
  FreshDataIsLatest
  MemoryFollowsStore
PROPERTIES
  PlanInputsAreCurrent
  PlansWhenInputsAllow
  NothingStaysDue
CHECK_DEADLOCK FALSE
