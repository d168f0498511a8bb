SPECIFICATION FairSpec
CONSTANTS
  N = 4
  Parallelism = 2
  Attempts = 2
  MinSuccesses = 1
  NoRtt = NoRtt
CONSTANT Outcomes <- OkOrFailed
INVARIANTS TypeOK PermitsConserved NoLostWakeup ReportsMatchJobs OkNeedsSuccesses
PROPERTIES FirstComeFirstServed ImplementsJobReport
