SPECIFICATION FilesSpec
CONSTANTS
  r1 = r1
  r2 = r2
  f1 = f1
  f2 = f2
  Nothing = Nothing
  Reports = {r1, r2}
  Flushes = {f1, f2}
  Runs = {1, 2, 3}
INVARIANTS QueuedIsKept QueuedOnce
PROPERTIES PoisonStays CommandsEnd IdSticks
