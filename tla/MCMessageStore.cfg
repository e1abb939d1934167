SPECIFICATION Spec
CONSTANTS
  Connections = {k1, k2}
  Files <- MCFiles
  Malformed = Malformed
  SystemLevels = {"$SYS"}
  Messages <- MCMessages
  AutoCreateRawTable = TRUE
  MaxReceived = 2
SYMMETRY MCSymmetry
INVARIANTS  RowsInOrder
