SPECIFICATION Spec
CONSTANTS
  u1 = u1  u2 = u2
  b1 = b1  b2 = b2  b3 = b3  b4 = b4
  d0 = d0  d1 = d1
  None = None
  Procs = {u1, u2}
  Blocks = {b1, b2, b3, b4}
  Data = {d0, d1}
  NBUF = 3
  MaxPins = 1
SYMMETRY Symmetry
INVARIANTS Buffers
PROPERTY Coherent
