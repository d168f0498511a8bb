SPECIFICATION PlanFairSpec
CONSTANTS
  B = 3
  U16Tokens <- MCU16Tokens
  Ip <- MCIp
  Bodies <- MCBodies
  Config <- MCConfig
  Compiled <- MCCompiled
INVARIANTS NoDuplicateTarget TargetsComplete FirstSourceLabels ReportCoversPlan
PROPERTIES PlanEnds
