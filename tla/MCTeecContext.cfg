SPECIFICATION Spec
CONSTANTS
  Threads = {t1, t2, t3}
  Contexts = {c1, c2}
  Handles = {h1, h2}
  Sessions = {s1, s2}
  Fds = {3, 4}
  Sids = {1, 2}
  GarbageIds = {0}
  Nil = Nil
SYMMETRY Perms
INVARIANTS RefCount NoUseAfterFree FdOwnership SessionAccounted
INVARIANTS ViewsAgree CancelOnOwnFd
CHECK_DEADLOCK FALSE
