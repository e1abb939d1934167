--------------------------- MODULE MCMappingAdmin ---------------------------
(* Instance of MappingAdmin for TLC: a mapping with two plugins, one that   *)
(* differs in its connection, and an object that is no mapping.             *)
EXTENDS MappingAdmin

Document(name, valid, plugins, connection) ==
  [name |-> name, valid |-> valid, plugins |-> plugins, connection |-> connection]

MCDefault == Document("default", TRUE, <<>>, "c")
MCBuiltIn == Document("built in", TRUE, <<>>, "c")
MCPlugins == {"double", "storage"}
MCConnections == {"c", "d"}
MCDocuments == {MCDefault, MCBuiltIn,
                Document("plugged", TRUE, <<"double", "storage">>, "d"),
                Document("rejected", FALSE, <<>>, "c")}
=============================================================================
