------------------------------ MODULE MCDs3Link ------------------------------
(* Instances of Ds3Link, and of Ds3Wire on top of it, for TLC. *)
EXTENDS Ds3Wire

CONSTANTS d1, d2

OneDevice == {d1}
TwoDevices == {d1, d2}

\* The ids of the devices overlap with those of the driver, as they do on
\* the air: both sides count from 0x40.
Ids == [command |-> 2, interrupt |-> 3, other |-> 4]

\* The first and the last dynamic channel ids, and those around a full byte;
\* the smallest and the largest handle.
MCBases == {63, 252, 65530}
MCHandles == {1, 3839}
MCIdentifiers == {255}

\* One message of the device at a time, and the answer of the driver; what is
\* not HID stays open, with an id that a HID channel may have, too.
OneAtATime == \A d \in Devices :
    /\ Len(toHost[d]) <= 1 /\ Len(toHost[d]) + Len(toRemote[d]) <= 3
    /\ remote[d]["other"].state # "closing"
    /\ remote[d]["other"].peer \in {NoCid} \cup Cids
=============================================================================
