SPECIFICATION FairSpec
CONSTANTS
  p1 = p1  p2 = p2
  None = None  Intr = Intr
  Procs = {p1, p2}
  Printers = {p2}
  DEPTH = 2
  FRAME = 6
  MaxN = 2
  MaxEcho = 2
  MaxRx = 3
INVARIANT InterruptComing
PROPERTY SenderWoken
