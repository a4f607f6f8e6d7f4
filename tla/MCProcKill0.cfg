SPECIFICATION Spec
CONSTANTS
  NPROC = 3
  MaxPid = 4
  KillPids = {0, 2}
INVARIANT KilledIsAlive
