------------------------------ MODULE MCWireBus ------------------------------
(* Instances of WireBus for TLC. *)
EXTENDS WireBus

CONSTANTS d1, d2, h1, h2

OneDevice == {d1}
TwoDevices == {d1, d2}
DualShock3 == [a \in Devices |-> {"PS3_DUALSHOCK"}]
Silent == [a \in Devices |-> {}]
OneHandle == {h1}
TwoHandles == {h1, h2}

\* The invariants speak about clean behaviours only: what follows a step that
\* is not clean need not be explored for them.
OnlyClean == Clean
==============================================================================
