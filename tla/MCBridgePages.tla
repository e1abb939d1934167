---------------------------- MODULE MCBridgePages ---------------------------
EXTENDS BridgePages, TLC

\* The documents, edits and patches of ConfigPatch.
MCDefinitions == Json!Documents
MCNoDefinition == Json!NoDocument
MCNewDefinition == Json!NewDocument
MCInapplicable == Json!Refused
MCIsValid(d) == Json!Valid(d)
MCWithDefaults(d) == Json!Completed(d)
MCNormalForm(d) == Json!Normal(d)
MCDifference(old, new) == Json!Diff(old, new)
MCApplied(d, patch) == Json!Patched(d, patch)
MCEditsOf(d) == Json!Edited(d)
MCArrangements(d) == Json!Rearranged(d)
MCShortens(old, new) == Json!Shortened(old, new)

\* A bridge of three brokers before one with a single broker, and a broker of
\* two topics before one without.
MCNewNames == {"z"}
MCFile ==
  Json!Document(<<Json!Bridge("x", <<Json!Broker("a", <<Json!Leaf("r"), Json!Leaf("s")>>),
                                     Json!Broker("b", <<>>), Json!Broker("c", <<>>)>>),
                  Json!Bridge("y", <<Json!Broker("d", <<>>)>>)>>)

MCSymmetry == Permutations(Pages)

\* What the theorems about ConfigPage need of its documents, for those that are at
\* most one edit away from this one; another server has a new definition.
MCDocuments == {MCFile} \cup EditsOf(MCFile) \cup Arrangements(MCFile)

ASSUME MCDocumentsAreClosed ==
  /\ MCNoDefinition \notin MCDefinitions /\ MCNewDefinition \in MCDefinitions
  /\ \A d \in MCDocuments : LeadsToDocuments(d)

ASSUME MCPatchesAreExact ==
  \A a, b \in MCDocuments :
    /\ PatchIsExact(WithDefaults(a), a, b)
    /\ PatchGivesDocument(WithDefaults(MCNewDefinition), a, b)

MCInit == saved = WithDefaults(MCFile) /\ Init
MCSpec == MCInit /\ [][Next]_vars
=============================================================================
