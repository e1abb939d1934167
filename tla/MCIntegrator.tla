---------------------------- MODULE MCIntegrator ----------------------------
(* Instances of Integrator for TLC.                                        *)
EXTENDS Integrator

Mapping(connection, clean, subscriptions) ==
  [connection |-> connection, clean |-> clean, subscriptions |-> subscriptions]

S(topic, qos) == [topic |-> topic, qos |-> qos]

\* Same connection: topics added, removed, with another QoS, one given by two
\* levels.  Another connection.  Nothing to subscribe to.  Sessions that the
\* server keeps, with and without subscriptions.
MCMappings == {Mapping("c", TRUE, <<S("a", 0), S("b", 0)>>),
               Mapping("c", TRUE, <<S("a", 0), S("a", 1), S("b", 1)>>),
               Mapping("d", TRUE, <<S("a", 0), S("c", 1)>>),
               Mapping("c", TRUE, <<>>),
               Mapping("p", FALSE, <<S("a", 0), S("b", 0)>>),
               Mapping("p", FALSE, <<S("a", 0)>>),
               Mapping("p", FALSE, <<>>)}
=============================================================================
