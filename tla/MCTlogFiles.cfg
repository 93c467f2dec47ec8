SPECIFICATION Spec
CONSTANTS
  tee = tee
  ta = ta
  tb = tb
  Uuids = {tee, ta, tb}
  Slots = 2
  IndexMax = 3
  Limit = 2
  HeaderLen = 1
  RecLens <- Lengths
  MaxFaults = 1
  None = None
INVARIANTS SlotsCurrent OrderKept OnlyOldestLost SpaceBounded
