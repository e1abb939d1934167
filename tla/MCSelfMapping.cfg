SPECIFICATION SelfSpec
CONSTANTS
  Plain = Plain
  Document = Document
  On = On
  Off = Off
  Payloads = {Plain, Document}
  JsonPayloads = {Document}
  Empty = Empty
  InjaError = InjaError
  JsonException = JsonException
  LastTopic = LastTopic
  Mappings <- MCSelfMappings
  NameLevels <- MCNameLevels
  MessageTopics <- MCTopics
  Texts <- MCTexts
  MaxReceived = 1
  MaxMapped = 6
  MaxWaiting = 3
INVARIANTS
  FirstInDocument
  RulesApplyAlone
  ConsequencesFirst
PROPERTY MappingEnds
CHECK_DEADLOCK FALSE
