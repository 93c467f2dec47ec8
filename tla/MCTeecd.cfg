SPECIFICATION FairSpec
CONSTANTS
  p1 = p1
  p2 = p2
  Nil = Nil
  Procs = {p1, p2}
  Clients <- MCClients
  NAgents = 2
  NFiles = 2
  SleepCount = 2
INVARIANTS ResourcesAccounted DescriptorEarned
PROPERTIES NobodyWaits
