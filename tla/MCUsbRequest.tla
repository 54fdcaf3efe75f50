---------------------------- MODULE MCUsbRequest ----------------------------
(* Instances of UsbRequest for TLC. *)
EXTENDS UsbRequest

CONSTANTS s1, s2, r1, r2, r3

TwoSenders == {s1, s2}
ThreeRequests == {r1, r2, r3}
=============================================================================
