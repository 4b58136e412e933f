SPECIFICATION Spec
CONSTANTS
  Setups <- MCRolling
  Dues <- Apart
  Deadlines = {6, 8}
  DayHours = 4
  WeekDays = 2
  Saturday = 1
  UtcOffset = 0
  RecentDays = 2
  ProfileDays = 4
  MinimumSamples = 2
  HourLength = 2
  Lookahead = 12
  MaxDataAge = 3
  Peak <- MCPeak
  Factor = 1
  Fee <- MCFee
  Vat = 20
  Penalty = 100000
  Parts = 2
  Capacity = 5
  MinimumCharge = 1
  MaximumCharge = 2
  SurplusValue = 100
  DefaultLoss = 1
  MaximumExport = 4
  BacktestDays = 2
  MaxPlanAge = 4
  MaxTime = 9
  None = None
  Bad = Bad
INVARIANT PromiseKept
CHECK_DEADLOCK FALSE
