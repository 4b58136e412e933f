SPECIFICATION Spec
CONSTANTS
  Clients = {orchestrator}
  Batches = {b1, b2, b3}
  Merges = TRUE
  MaxDamage = 2
  Missing = Missing
  Damaged = Damaged
  Lost = Lost
  NoBatch = NoBatch
  Pending = Pending
  Error = Error
  orchestrator = orchestrator
  api = api
  b1 = b1
  b2 = b2
  b3 = b3
INVARIANTS
  AcknowledgedIsStored
PROPERTIES
  ImplementsRecord
