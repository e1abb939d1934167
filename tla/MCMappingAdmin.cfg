SPECIFICATION Spec
CONSTANTS
  Documents <- MCDocuments
  Plugins <- MCPlugins
  Connections <- MCConnections
  Default <- MCDefault
  BuiltIn <- MCBuiltIn
  Absent = Absent
  Torn = Torn
  MaxVersions = 2
  MaxTime = 2
INVARIANTS
  InForce
  PluginsOfMapping
  TornHasBackup
PROPERTIES
  FileFollowsMapping
  NewestKept
