---------------------------- MODULE MCBridgeStatus ----------------------------
(* Instance of BridgeStatus for TLC: three bridges, two broker names.      *)
EXTENDS BridgeStatus

Entry(b, i, disabled, supported) ==
  [bridge |-> b, instance |-> i, disabled |-> disabled, supported |-> supported]

\* The bridges x, x+y and y, the brokers z and y+z.
b1 == <<"x">>
b2 == <<"x", "y">>
b3 == <<"y">>
i1 == <<"z">>
i2 == <<"y", "z">>

\* One bridge with two brokers.
Pair == [bridges |-> {b1}, disabled |-> {},
         brokers |-> <<Entry(b1, i1, FALSE, TRUE), Entry(b1, i2, FALSE, TRUE)>>]

\* Two bridges; a disabled broker.
Split == [bridges |-> {b1, b3}, disabled |-> {},
          brokers |-> <<Entry(b1, i1, FALSE, TRUE), Entry(b1, i2, TRUE, TRUE),
                        Entry(b3, i1, FALSE, TRUE)>>]

\* x+y with z is looked up as x with y+z.
Mixed == [bridges |-> {b1, b2}, disabled |-> {},
          brokers |-> <<Entry(b1, i2, FALSE, TRUE), Entry(b2, i1, FALSE, TRUE)>>]

\* Two brokers of one bridge with the same instance name, one that there is no
\* client for, one that no lookup finds, and a disabled bridge.
Twice == [bridges |-> {b1, b2, b3}, disabled |-> {b3},
          brokers |-> <<Entry(b1, i1, FALSE, TRUE), Entry(b1, i1, FALSE, TRUE),
                        Entry(b1, i2, FALSE, FALSE), Entry(b2, i2, FALSE, TRUE),
                        Entry(b3, i1, FALSE, TRUE)>>]

\* A bridge without brokers, which the schema refuses.
Bare == [bridges |-> {b1}, disabled |-> {}, brokers |-> <<>>]

MCNameParts == {"x", "y", "z"}
MCBridgeNames == {b1, b2, b3}
MCInstanceNames == {i1, i2}
MCValidConfigs == {Pair, Split, Mixed, Twice}
MCInvalidConfigs == {Bare}
=============================================================================
