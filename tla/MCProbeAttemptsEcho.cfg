SPECIFICATION FairSpec
CONSTANTS
  Addresses = {"a", "b"}
  MaxSaid = 2
INVARIANTS EchoPasses
