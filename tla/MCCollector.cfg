SPECIFICATION FairSpec
CONSTANTS
  first = first
  retry = retry
  again = again
  other = other
  runA = runA
  runB = runB
  NoRequest = NoRequest
  Requests = {first, retry, again, other}
  Queries = {map}
  map = map
  RunIds = {runA, runB}
  RunId <- MCRunId
  Rows <- MCRows
  Results <- MCResults
  WellFormed <- MCWellFormed
  MaxProbeResults = 2
  PoolSize = 2
INVARIANTS TypeOK AllOrNothing AcknowledgedIsStored OneNewPerRun MapSeesAcknowledged
PROPERTIES EveryRequestEnds ImplementsIdempotentStore
