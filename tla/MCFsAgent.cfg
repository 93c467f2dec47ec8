SPECIFICATION Spec
CONSTANTS
  Paths = {a, b}
  Dirs <- OneDir
  Inodes = {i1, i2}
  Nodes = {n1, n2, n3}
  Fds = {f1, f2, f3}
  Recs = {r1}
  Nil = Nil
SYMMETRY Perms
INVARIANTS RingIntact HandleNames Durable
