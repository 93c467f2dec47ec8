SPECIFICATION FairSpec
CONSTANTS
  Threads = {t1, t2}
  Contexts = {c1, c2}
  Handles = {h1, h2}
  Sessions = {s1}
  Fds = {3, 4}
  Sids = {1}
  GarbageIds = {0}
  Nil = Nil
PROPERTIES ContextReclaimed
CHECK_DEADLOCK FALSE
