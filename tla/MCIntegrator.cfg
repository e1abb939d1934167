SPECIFICATION FairSpec
CONSTANTS
  Instances = {"in-mqtt", "un-mqtt"}
  Mappings <- MCMappings
  MaxDeploys = 2
  MaxDrops = 1
INVARIANTS
  SubscribedAsMapped
  Uninterrupted
  ConnectedAsMapped
PROPERTY Converges
CHECK_DEADLOCK FALSE
