SPECIFICATION Spec
CONSTANTS
  Handlers = {t1, t2}
  Keys = {k1, k2}
  Cells = {p1, p2}
  Nil = Nil
SYMMETRY Perms
INVARIANTS BufferUsable
