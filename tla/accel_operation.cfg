SPECIFICATION FairSpec
CONSTANTS
  N = 4
  Threaded = {1, 2}
  Writes = {1, 2, 3, 4}
  Careless = FALSE
  Meddling = FALSE
  Checkpointing = FALSE
INVARIANTS
  NeverStuck
  ResultReady
PROPERTIES
  BlockEnds
  ImplementsOperation
