SPECIFICATION FairSpec
CONSTANTS
  Entities = {"meter", "battery"}
  Recorders <- MCRecorders
  Plans <- MCPlans
  Chunk = 2
  Silent = Silent
  Omitted = Omitted
INVARIANTS WindowIsOwnRequest NoRepeatInvented FailuresStayLocal
PROPERTIES NothingAfterRejection EverySourceAnswered
