SPECIFICATION Spec
CONSTANTS
  Clients = {orchestrator, api}
  Batches = {b1, b2, b3}
  Merges = FALSE
  MaxDamage = 2
  Missing = Missing
  Damaged = Damaged
  Lost = Lost
  NoBatch = NoBatch
  Pending = Pending
  Error = Error
  orchestrator = orchestrator
  api = api
  b1 = b1
  b2 = b2
  b3 = b3
INVARIANTS
  CopyRemains
PROPERTIES
  AnswersAreCurrent
