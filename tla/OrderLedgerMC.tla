--------------------------- MODULE OrderLedgerMC ---------------------------
(* Instances of OrderLedger for TLC.                                         *)
EXTENDS OrderLedger

CONSTANTS o1, r1

OneOrder == {o1}
OneRecoverer == {r1}
=============================================================================
