SPECIFICATION FairSpec
CONSTANTS
  app = app
  app2 = app2
  cli = cli
  runA = runA
  runB = runB
  runC = runC
  NoRequest = NoRequest
  Requests = {app, app2, cli}
  App = {app, app2}
  RunIds = {runA, runB, runC}
  RunId <- MCRunId
  Rows <- MCRows
  Results <- MCResults
  WellFormed <- MCWellFormed
  MaxProbeResults = 1
  PoolSize = 1
INVARIANTS SentIsStored NoSilentLoss
PROPERTIES ClientReturns
