SPECIFICATION Spec
CONSTANTS
  MaxHeight = 5
  MaxVol = 2
  Diffs = {2, 3}
  Multi = 1
  Round = 2
  MainDelay = 0
  AltDelay = 0
  MainBlocks = {m}
  AltBlocks = {a}
  Retries = 2
  Batch = 1
  BlockCleaner = TRUE
  Late = 1
  MaxFaults = 1
INVARIANT WindowIsWhole
PROPERTY EventuallyPruned
