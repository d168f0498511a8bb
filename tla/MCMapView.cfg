SPECIFICATION MapFairSpec
CONSTANTS
  Sections <- MCSections
  NoData = NoData
  MaxClicks = 3
INVARIANTS SettledShowsSelected
PROPERTIES LoadingEnds
