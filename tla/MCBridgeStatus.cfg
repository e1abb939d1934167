SPECIFICATION FairStatusSpec
CONSTANTS
  NameParts <- MCNameParts
  BridgeNames <- MCBridgeNames
  InstanceNames <- MCInstanceNames
  ValidConfigs <- MCValidConfigs
  InvalidConfigs <- MCInvalidConfigs
  MaxGeneration = 3
  Pages = {p}
INVARIANTS
  PageShowsSessions
  NoStaleBroker
  MqttListLive
  RestartHasWaker
  ShownConnected
  StartedIsShown
PROPERTIES
  AcceptedIsApplied
  Reconfigures
  RestartFinishes
