SPECIFICATION Spec
CONSTANTS
  Endpoints = {e1, e2, e3, e4}
  None = none
  Masters = {e1}
  Slaves = {e2, e3}
  LateSlaves = {}
  Addresses <- WithoutRead
  CounterSize = 256
  Careless = {}
  Aborting = {e1}
  Checkpointing = FALSE
  MaxInFlight = 1
INVARIANTS
  AssertsHold
