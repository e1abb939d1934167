CONSTANTS
  Clients = {c1, c2}
  Overlapping = {c2}
  Connections = {k1, k2}
  Topics = {t}
  Pages = {d}
  MaxPending = 2
  NoClient = NoClient
  NoConnection = NoConnection
SPECIFICATION Spec
INVARIANTS
  TypeOK
  ModelIsLive
  ActiveIsListed
  NoGhostClient
