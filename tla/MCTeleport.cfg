SPECIFICATION Spec
CONSTANTS
  p1 = p1
  p2 = p2
  x = x
  y = y
  Procs = {p1, p2}
  Paths = {x, y}
  Commands <- UserCommands
  Sizes = {0, 2}
  MaxLog = 2
  MaxSessions = 2
  Cost <- CommandCost
  Budget = 13
  MaxFaults = 1
  None = None
SYMMETRY Symmetry
INVARIANTS IdFilesExact InstalledWhole PulledWhole
CHECK_DEADLOCK FALSE
