SPECIFICATION FairSpec
CONSTANTS
  Producers = {p1, p2}
  Consumers = {c1, c2}
  EntriesNr = 3
  Sizes = {1, 2}
  MaxMsgs = 4
  None = None
INVARIANTS NoOverwrite
PROPERTIES FifoChannel EnqueueCompletes
CHECK_DEADLOCK FALSE
