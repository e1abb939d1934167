SPECIFICATION FairSpec
CONSTANTS
  Malformed = Malformed
  NoTopic = NoTopic
  MaxConnections = 2
INVARIANTS
  LeavesWhenDone
  SeesOwnMessage
PROPERTY PublisherLeaves
CHECK_DEADLOCK FALSE
