---------------------------- MODULE KillSwitchMC ----------------------------
(* Two handlers and two signal tasks.  A storm is two failures or one nonce  *)
(* error, so that each rule is reached without the other; one signal closes  *)
(* up to two positions, so that a trip can fall between them.                *)
EXTENDS KillSwitch

CONSTANTS h1, h2, s1, s2

TwoHandlers == {h1, h2}
TwoSignals == {s1, s2}
BothOfTheFirst == [s \in TwoSignals |-> h1]
TwoThenOne == [s \in TwoSignals |-> IF s = s1 THEN 2 ELSE 1]
=============================================================================
