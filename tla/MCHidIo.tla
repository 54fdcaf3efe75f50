------------------------------- MODULE MCHidIo -------------------------------
(* Instances of HidIo for TLC. *)
EXTENDS HidIo

CONSTANTS r1, r2

TwoRequests == {r1, r2}
=============================================================================
