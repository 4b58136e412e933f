SPECIFICATION Spec
CONSTANTS
  Batteries <- MCBatteries
  BrokenHours <- MCBrokenHours
  HistoryStarts <- MCHistoryStarts
  Full = 95
  Minimum = 10
  Width = 2
  Maximum = 100
  Retention = 3
  MaxHours = 4
  MaxPurges = 1
  None = None
  Silent = Silent
INVARIANTS BoundariesTrue EnergyIsWhole LosslessShowsNoLoss
CHECK_DEADLOCK FALSE
