SPECIFICATION MCSpec
CONSTANTS
  Pages = {p, q}
  MaxSaves = 2
  MaxEdits = 2
  NewNames <- MCNewNames
  Definitions <- MCDefinitions
  NoDefinition <- MCNoDefinition
  NewDefinition <- MCNewDefinition
  Inapplicable <- MCInapplicable
  IsValid <- MCIsValid
  WithDefaults <- MCWithDefaults
  NormalForm <- MCNormalForm
  Difference <- MCDifference
  Applied <- MCApplied
  EditsOf <- MCEditsOf
  Arrangements <- MCArrangements
  Shortens <- MCShortens
SYMMETRY MCSymmetry
INVARIANTS
  BaselineIsAccepted
PROPERTIES
  SavesWhatItShows
  ForeignChangesKept
\* A server without a definition has nothing left to do when the pages are at their
\* bounds.
CHECK_DEADLOCK FALSE
