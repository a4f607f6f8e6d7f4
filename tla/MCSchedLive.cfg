CONSTANTS
  c1 = c1  c2 = c2
  None = None
  Cpus = {c1}
  NPROC = 3
SPECIFICATION FairSpec
PROPERTY SleeperRuns
