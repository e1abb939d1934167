SPECIFICATION MapperSpec
CONSTANTS
  Plain = Plain
  Document = Document
  On = On
  Off = Off
  Payloads = {Plain, Document}
  JsonPayloads = {Document}
  Empty = Empty
  InjaError = InjaError
  JsonException = JsonException
  LastTopic = LastTopic
  Mappings <- MCMappings
  NameLevels <- MCNameLevels
  MessageTopics <- MCTopics
  Texts <- MCTexts
INVARIANTS
  DispatchesWhatItSubscribes
CHECK_DEADLOCK FALSE
