---------------------------- MODULE MarketDataMC ----------------------------
(* Instances of MarketData for TLC.                                          *)
EXTENDS MarketData

CONSTANTS n1, n2, n3, n4, n5, n6, b1, b2, b3, c1, i1, i2

SixSockets == {n1, n2, n3, n4, n5, n6}
ThreeHeartbeats == {b1, b2, b3}
OneReconnect == {c1}
TwoInstances == {i1, i2}
=============================================================================
