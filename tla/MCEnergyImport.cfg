SPECIFICATION FairSpec
CONSTANTS
  m1 = m1
  m2 = m2
  Entities = {m1, m2}
  Recorders <- MCRecorders
  Channels <- MCChannels
  Width = 2
  Maximum = 1
  Retention = 2
  Lookback = 1
  MaxHours = 3
  MaxPurges = 1
  None = None
  Silent = Silent
INVARIANTS TypeOK TrueIncrement HealthyIsCurrent
PROPERTIES StoredHoursStay CatchesUp
CHECK_DEADLOCK FALSE
