---------------------------- MODULE MCHciBringUp ----------------------------
(* Instances of HciBringUp for TLC. *)
EXTENDS HciBringUp

\* The two sides of the boundary at 3 that the reader tests.
MCVersions == {2, 3}
MCAllRefusals == SUBSET SspCommands
\* No refusal, one of each kind, and several.
MCSomeRefusals == {{}, {"Write_Simple_Pairing_Mode"},
                   {"Write_Simple_Pairing_Debug_Mode", "Set_Event_Mask"}}

=============================================================================
