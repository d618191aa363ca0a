SPECIFICATION FairSpec
CONSTANTS
  Endpoints = {e1, e2, e3, e4}
  None = none
  Masters = {e1}
  Slaves = {e2, e3}
  LateSlaves = {e2, e3}
  Addresses <- EveryKind
  CounterSize = 256
  Careless = {}
  Aborting = {}
  Checkpointing = FALSE
  MaxInFlight = 4
INVARIANTS
  AssertsHold
  TransferInOnePlace
  ReceiversExact
  CallsAccepted
PROPERTIES
  StartAnswered
  TransferAnswered
