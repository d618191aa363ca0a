SPECIFICATION FairSpec
CONSTANTS
  Endpoints = {e1, e2, e3}
  None = none
  Masters = {e1, e2}
  Slaves = {e1, e2, e3}
  LateSlaves = {e1, e2, e3}
  Addresses <- OneOfEach
  CounterSize = 256
  Careless = {}
  Aborting = {}
  Checkpointing = TRUE
  MaxInFlight = 4
INVARIANTS
  
  OwnersInStep
  OneMasterAtATime
  PendingExact
PROPERTIES
  ImplementsBus
