SPECIFICATION Spec
CONSTANTS
  Threads = {t1, t2}
  Blocks = {b1, b2, b3}
  Cells = {m1, m2, m3}
  Addrs = {a1, a2, a3}
  ClientBufs = {own}
  ZeroPtr = ZeroPtr
  Kinds = {"mapped", "zeroSize", "zeroCopy", "registered"}
  NBits = 2
  Nil = Nil
SYMMETRY Perms
INVARIANTS BitmapExact ShmRefCount MemrefStillValid NothingLeft
