SPECIFICATION FairSpec
CONSTANTS
  HourLength = 2
  Horizons = {2}
  SteadyEnds = TRUE
  MaxDataAge = 2
  MaxPlanAge = 1
  Retention = 2
  Powers = {1,3}
  NoPower = 2
  Full = 5
  HasSwitch = TRUE
  TimeToLive = 2
  MaxTime = 3
  MaxFaults = 1
  MaxLoadErrors = 1
  MaxRestarts = 1
  None = None
  NoLimit = NoLimit
  Never = Never
INVARIANTS AppliedIsSet ScheduleIsChosen
PROPERTIES PollFollowsPlans PlanIsFollowed StalePlanEnds
