SPECIFICATION Spec
CONSTANTS
  scheduled = scheduled
  submitted = submitted
  Clients = {scheduled}
  MaxHour = 3
  MaxValues = 3
  Threshold = 4
  MaxLength = 3
  MaxSaves = 2
  MaxDamage = 3
  Backfills = FALSE
  LegacyFiles <- OneVersion
  Missing = Missing
  Damaged = Damaged
  Lost = Lost
  NoBatch = NoBatch
  Pending = Pending
  Error = Error
INVARIANTS ObservationsKept HistoryRemains
PROPERTIES AnswersAreRead LinesBounded ImplementsHistory
