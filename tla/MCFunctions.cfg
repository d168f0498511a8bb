SPECIFICATION Spec
CONSTANTS
  NoRtt = NoRtt
  Limit = 2
  Attempts <- MCAttempts
  Thresholds <- MCThresholds
  Strings <- MCStrings
  Numbers <- MCNumbers
  Ports <- MCPorts
  Secrets <- MCSecrets
  PeerCounts <- MCPeerCounts
  Stored <- MCStored
  Others <- MCOthers
  Selections <- MCSelections
INVARIANTS
  SummaryMatchesReference RlpDecodes PacketsRead MismatchIsReal ShownOnce GeoRowsMatch
