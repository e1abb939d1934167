SPECIFICATION FairSpec
CONSTANTS
  Servers <- MCServers
  Sessions <- MCSessions
  Topics <- MCSensor
  MaxPublishes = 2
  MaxCopies = 2
INVARIANTS
  AtMostOnce
  AllServed
PROPERTY ForwardingEnds
