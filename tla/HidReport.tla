------------------------------ MODULE HidReport ------------------------------
(***************************************************************************)
(* Conversion of a DualShock 3's input report to the reports of the HID    *)
(* report descriptors (common/include/DsHid.h, common/src/DsHid.c): one    *)
(* report in single mode, a game pad (01) and a joystick (02) report in    *)
(* multi mode.                                                             *)
(*                                                                         *)
(* The class driver uses a read buffer over and over, so a conversion      *)
(* finds an earlier report in it.                                          *)
(***************************************************************************)
EXTENDS Naturals, Sequences

CONSTANTS
    Reports,           \* input reports of the controller
    Buffers            \* fresh read buffers of the class driver

DS3_HID_INPUT_REPORT_SIZE == 39
Places == 0..DS3_HID_INPUT_REPORT_SIZE - 1
Bytes == 0..255

\* The report that the controller sends has the id 1; of its bytes the
\* conversions read the first 26.
ASSUME ReportsAssumption ==
    \A raw \in Reports : raw \in [0..25 -> Bytes] /\ raw[0] = 1
ASSUME BuffersAssumption == \A out \in Buffers : out \in [Places -> Bytes]

Modes == {"SINGLE", "MULTI"}
Low(b) == b % 16
High(b) == b - (b % 16)
Bits(b, first, size) == (b \div 2^first) % 2^size

VARIABLES
    HidDeviceMode,
    MuteDigitalPressureButtons,
    input,             \* the controller's report
    buffer,            \* the read buffer
    reportId           \* the id in its first byte, 0 before the first report

vars == <<HidDeviceMode, MuteDigitalPressureButtons, input, buffer, reportId>>

Init ==
    /\ HidDeviceMode \in Modes
    /\ MuteDigitalPressureButtons \in BOOLEAN
    /\ input \in Reports
    /\ buffer \in Buffers
    /\ reportId = 0

-----------------------------------------------------------------------------
(* The conversions.                                                        *)

\* Mutant of Hat: north-west is forgotten.
Hat_NoNorthWest(dpad) ==
    CASE dpad = 16 -> 0 [] dpad = 48 -> 1 [] dpad = 32 -> 2 [] dpad = 96 -> 3
      [] dpad = 64 -> 4 [] dpad = 192 -> 5 [] dpad = 128 -> 6 [] OTHER -> 8

\* N, NE, E, SE, S, SW, W, NW; anything else is released.
Hat(dpad) ==
    CASE dpad = 16 -> 0 [] dpad = 48 -> 1 [] dpad = 32 -> 2 [] dpad = 96 -> 3
      [] dpad = 64 -> 4 [] dpad = 192 -> 5 [] dpad = 128 -> 6
      [] dpad = 144 -> 7 [] OTHER -> 8

\* Mutant of FaceAndHat: the byte's former bits are left in it.
FaceAndHat_NotCleared(in, old) ==
    IF MuteDigitalPressureButtons THEN High(old) + 8
    ELSE High(in[3]) + Hat(High(in[2]))

\* Output[5]: nothing of the byte that was there stays.
FaceAndHat(in, old) ==
    IF MuteDigitalPressureButtons THEN 8 ELSE High(in[3]) + Hat(High(in[2]))

\* Output[6]
Remaining(in) ==
    IF MuteDigitalPressureButtons THEN 0 ELSE Low(in[2]) + Low(in[3]) * 16

\* The axes, triggers and pressure values that a game pad report copies:
\* output byte -> input byte.
GamePadCopies ==
    << <<1, 6>>, <<2, 7>>, <<3, 8>>, <<4, 9>>, <<7, 4>>, <<8, 18>>, <<9, 19>>,
       <<10, 14>>, <<11, 15>>, <<12, 16>>, <<13, 17>>, <<14, 20>>, <<15, 21>>,
       <<16, 22>>, <<17, 23>>, <<18, 24>>, <<19, 25>> >>
JoystickCopies ==
    << <<1, 14>>, <<2, 15>>, <<3, 16>>, <<4, 17>>, <<5, 22>>, <<6, 23>>,
       <<7, 24>>, <<8, 25>>, <<9, 20>>, <<10, 21>> >>

Copied(copies, in, out) ==
    [i \in Places |-> IF \E k \in DOMAIN copies : copies[k][1] = i
                      THEN in[copies[CHOOSE k \in DOMAIN copies : copies[k][1] = i][2]]
                      ELSE out[i]]

GamePad(id, in, out) ==
    [Copied(GamePadCopies, in, out) EXCEPT
        ![0] = id, ![5] = FaceAndHat(in, out[5]), ![6] = Remaining(in)]

DS3_RAW_TO_SINGLE_HID_INPUT_REPORT(in, out) == GamePad(in[0], in, out)
DS3_RAW_TO_SPLIT_HID_INPUT_REPORT_01(in, out) == GamePad(1, in, out)
DS3_RAW_TO_SPLIT_HID_INPUT_REPORT_02(in, out) ==
    [Copied(JoystickCopies, in, out) EXCEPT ![0] = 2]

-----------------------------------------------------------------------------
(* Reads that are answered: the first report, whatever the mode, and the   *)
(* second one right after it in multi mode.                                *)

First(raw) ==
    /\ input' = raw
    /\ buffer' = IF HidDeviceMode = "MULTI"
                 THEN DS3_RAW_TO_SPLIT_HID_INPUT_REPORT_01(raw, buffer)
                 ELSE DS3_RAW_TO_SINGLE_HID_INPUT_REPORT(raw, buffer)
    /\ reportId' = buffer'[0]
    /\ UNCHANGED <<HidDeviceMode, MuteDigitalPressureButtons>>

Second ==
    /\ HidDeviceMode = "MULTI" /\ reportId = 1
    /\ buffer' = DS3_RAW_TO_SPLIT_HID_INPUT_REPORT_02(input, buffer)
    /\ reportId' = buffer'[0]
    /\ UNCHANGED <<HidDeviceMode, MuteDigitalPressureButtons, input>>

Next == (\E raw \in Reports : First(raw)) \/ Second

Spec == Init /\ [][Next]_vars

-----------------------------------------------------------------------------
(* The report descriptors: the fields after the report id, with their bits. *)

Field(usage, size) == [usage |-> usage, size |-> size]
Axis(usage) == Field(usage, 8)
Vendor == [i \in 1..29 |-> Axis("vendor")]

GamePadFields ==
    <<Axis("X"), Axis("Y"), Axis("Z"), Axis("Rz"), Field("hat", 4)>>
    \o [i \in 1..14 |-> Field("button", 1)]
    \o <<Field("padding", 6), Axis("Rx"), Axis("Ry")>>

SplitFields01 == GamePadFields \o Vendor
SplitFields02 ==
    <<Axis("X"), Axis("Y"), Axis("Z"), Axis("Rx"), Axis("Ry"), Axis("Rz"),
      Axis("Slider"), Axis("Dial"), Axis("Throttle"), Axis("Brake")>>
SingleFields == GamePadFields \o [i \in 1..10 |-> Axis("Slider")] \o Vendor

Fields(mode, id) == IF mode = "SINGLE" THEN SingleFields
                    ELSE IF id = 1 THEN SplitFields01 ELSE SplitFields02

\* Where a field begins: after the report id, where the one before it ends.
BitsBefore(fields) ==
    LET start[i \in DOMAIN fields] ==
            IF i = 1 THEN 8 ELSE start[i - 1] + fields[i - 1].size
    IN start
Starts == [m \in Modes |-> [id \in {1, 2} |-> BitsBefore(Fields(m, id))]]

\* What a reader of the descriptor finds in field i of a buffer.
Value(mode, id, i) ==
    Bits(buffer[Starts[mode][id][i] \div 8], Starts[mode][id][i] % 8,
         Fields(mode, id)[i].size)

-----------------------------------------------------------------------------
(* What makes the conversion correct.                                      *)

Directions == <<"N", "E", "S", "W">>
Pressed == {d \in 1..4 : Bits(input[2], 3 + d, 1) = 1}
Compass == <<{1}, {1, 2}, {2}, {2, 3}, {3}, {3, 4}, {4}, {4, 1}>>
Contradictory == {1, 3} \subseteq Pressed \/ {2, 4} \subseteq Pressed

\* The hat switch of the descriptor shows the directions that are pressed,
\* and has its null value only if there is nothing to show: no direction, two
\* opposite ones, or muted buttons (DsHid.h:63-103 and 183-223).
HatShowsDPad == reportId = 1 =>
    LET hat == Value(HidDeviceMode, 1, 5) IN
    IF hat \in 0..7
    THEN ~MuteDigitalPressureButtons /\ Compass[hat + 1] = Pressed
    ELSE MuteDigitalPressureButtons \/ Pressed = {} \/ Contradictory

\* Where the controller has what field i of a report stands for: byte and bit.
SourceOf(mode, id, i) ==
    IF id = 2 THEN <<IF i <= 4 THEN 13 + i ELSE IF i <= 8 THEN 17 + i ELSE 11 + i, 0>>
    ELSE CASE i \in 1..4 -> <<5 + i, 0>>
           [] i \in 6..9 -> <<3, i - 2>>
           [] i \in 10..13 -> <<2, i - 10>>
           [] i \in 14..17 -> <<3, i - 14>>
           [] i \in 18..19 -> <<4, i - 18>>
           [] i \in 21..22 -> <<i - 3, 0>>
           [] i \in 23..26 -> <<i - 9, 0>>
           [] i \in 27..32 -> <<i - 7, 0>>

Shown(mode, id) == {i \in DOMAIN Fields(mode, id) :
                       Fields(mode, id)[i].usage \notin {"hat", "padding", "vendor"}}
Muted(i) == MuteDigitalPressureButtons /\ i \in 6..17

\* Every axis, button and pressure value that a descriptor declares has, in
\* the report, the value the controller sent, never one of an earlier report
\* that is still in the buffer; muted, the buttons are released while the
\* axes, the PS button and all pressure values stay (DsHid.h:45-257).
FieldsShowInput == reportId # 0 =>
    \A i \in Shown(HidDeviceMode, reportId) :
        LET source == SourceOf(HidDeviceMode, reportId, i) IN
        Value(HidDeviceMode, reportId, i) =
            IF reportId = 1 /\ Muted(i) THEN 0
            ELSE Bits(input[source[1]], source[2],
                      Fields(HidDeviceMode, reportId)[i].size)
=============================================================================
