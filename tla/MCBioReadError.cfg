SPECIFICATION ReadErrorSpec
CONSTANTS
  u1 = u1  b1 = b1  d0 = d0  d1 = d1
  None = None
  Procs = {u1}
  Blocks = {b1}
  Data = {d0, d1}
  NBUF = 1
  MaxPins = 0
PROPERTY Coherent
