SPECIFICATION Spec
CONSTANTS
  N = 3
  Threaded = {1, 2}
  Writes = {0, 2, 3, 4}
  Careless = TRUE
  Meddling = TRUE
  Checkpointing = TRUE
INVARIANTS
  HonestReport
  ResultReady
