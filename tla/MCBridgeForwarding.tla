------------------------- MODULE MCBridgeForwarding -------------------------
(* A topology for BridgeForwarding: a bridge that shares a server with two *)
(* that form a cycle, and servers without loop prevention.                 *)
EXTENDS BridgeForwarding

Session(bridge, server, prefix, filter, loopPrevention) ==
  [bridge |-> bridge, bridgePrefix |-> <<bridge>>, server |-> server,
   prefix |-> prefix, filter |-> filter, loopPrevention |-> loopPrevention]

Parts == {"sensor", "p", "e", "r", "A", "B", "C"}

MCServers == {"A", "B", "C", "D"}
MCSensor == {<<"sensor">>}

\* Bridge "p" joins A, B and C, where B would hand back what it is sent.  Bridge "e"
\* carries from C to D, and "r" from D to C: a cycle.
MCSessions == {Session("p", "A", <<"A">>, Parts, TRUE),
               Session("p", "B", <<"B">>, {"sensor"}, FALSE),
               Session("p", "C", <<>>, Parts, TRUE),
               Session("e", "C", <<>>, {"sensor", "p"}, FALSE),
               Session("e", "D", <<>>, {}, FALSE),
               Session("r", "D", <<>>, {"sensor"}, FALSE),
               Session("r", "C", <<>>, {}, FALSE)}

\* While "r" is down the topology is one for which AtMostOnce is proved.
ASSUME MCTopology == NoEcho /\ NoCycleOf({s \in MCSessions : s.bridge # "r"})
=============================================================================
