SPECIFICATION FairSpec
CONSTANTS
  Addresses = {"a", "b"}
  MaxSaid = 3
INVARIANTS NoStandoff VerdictIsEvidenced
PROPERTIES FirstMessagesDecide EvidencePasses AttemptEnds
