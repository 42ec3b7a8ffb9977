\* File names across writers, exporters and restarts.
CONSTANTS
  w1 = w1
  w2 = w2
  Writers <- MCWriters
  Dirs = {"traces"}
  Dir <- MCDir
  MaxSeq = 3
  MaxClock = 2
SPECIFICATION Spec
INVARIANTS
  NamesAreFresh
\* MaxClock and MaxSeq end the run.
CHECK_DEADLOCK FALSE
