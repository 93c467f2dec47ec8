SPECIFICATION FairSpec
CONSTANTS
  Handlers = {t1, t2, t3}
  Keys = {k1, k2}
  Cells = {p1, p2}
  Nil = Nil
INVARIANTS PkgRefCount
PROPERTIES RefProtects AnsweredIsGone PkgReclaimed
\* A use of freed memory ends the proxy.
CHECK_DEADLOCK FALSE
