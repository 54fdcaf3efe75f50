------------------------------ MODULE Ds3Wire --------------------------------
(***************************************************************************)
(* The messages of Ds3Link as bytes: the frames that the builders of       *)
(* sys/L2CAP.c and HID_Command put together, the structures of sys/L2CAP.h *)
(* that are laid over a received frame, and the dispatcher's tests on it.  *)
(* Offsets are those of the C code, counted from 0.                        *)
(***************************************************************************)
EXTENDS Ds3Link

CONSTANTS
    CidBases,       \* what to add to a channel id of Ds3Link for that on the air
    Handles,        \* connection handles, 12 bits
    Identifiers     \* signalling identifiers

ASSUME WireAssumption ==
    /\ CidBases \subseteq Nat   \* dynamic channel ids start at 0x40
    /\ \A b \in CidBases, c \in AnyCid \ {NoCid} :
          b + c >= 64 /\ b + c <= 65535
    /\ Handles \subseteq 0..4095 /\ Identifiers \subseteq 0..255

Word(n) == <<n % 256, (n \div 256) % 256>>
ByteAt(frame, i) == frame[i + 1]
WordAt(frame, i) == ByteAt(frame, i) + 256 * ByteAt(frame, i + 1)

\* The bit 0x20 of the handle's upper byte: first fragment of a packet.
HasFlag(b) == (b \div 32) % 2 = 1
SetFlag(b) == IF HasFlag(b) THEN b ELSE b + 32
ToggleFlag(b) == IF HasFlag(b) THEN b - 32 ELSE b + 32

\* HCI_ConnectionHandle as WireBusSetChildHandle gets it.
StoredHandle(h) == <<h % 256, SetFlag(h \div 256)>>

\* Channel ids on the air; a zeroed one stays zero.
Cid(c, base) == IF c = NoCid THEN Word(0) ELSE Word(base + c)
CidAt(frame, i, base) ==
    IF WordAt(frame, i) = 0 THEN NoCid ELSE WordAt(frame, i) - base

-----------------------------------------------------------------------------
(* The builders.                                                           *)

AclHeader(handle, n, channel) == handle \o Word(n + 4) \o Word(n) \o channel

L2CAP_Command(handle, body) ==
    AclHeader(<<handle[1], SetFlag(handle[2])>>, Len(body), <<1, 0>>) \o body

HID_Command(handle, channel, body) ==
    AclHeader(handle, Len(body), channel) \o body

\* Mutant of Connection_Response: the ids as the parameters are named.
Connection_Response_AsNamed(id, DestinationChannelId, SourceChannelId, result) ==
    <<3, id, 8, 0>> \o DestinationChannelId \o SourceChannelId
        \o <<result, 0, 0, 0>>

\* Ds3ConnectionRequest passes its scid as DestinationChannelId.
Connection_Response(id, DestinationChannelId, SourceChannelId, result) ==
    <<3, id, 8, 0>> \o SourceChannelId \o DestinationChannelId
        \o <<result, 0, 0, 0>>

\* With SetMtu, as the driver always asks.
Configuration_Request(id, cid) ==
    <<4, id, 8, 0>> \o cid \o <<0, 0, 1, 2, 255, 255>>

\* Says six bytes and is ten: the MTU option is not counted.
Configuration_Response(id, cid) ==
    <<5, id, 6, 0>> \o cid \o <<0, 0, 0, 0, 1, 2, 160, 2>>

Disconnection_Response(id, dcid, scid) == <<7, id, 4, 0>> \o dcid \o scid

HidEnable == <<83, 244, 66, 3, 0, 0>>
OutputReportBody == <<82, 1>> \o [i \in 1..48 |-> 0]

\* What the driver sends for message m over the link with handle h.
Frame(m, h, id, base) ==
    LET Signal(body) == L2CAP_Command(StoredHandle(h), body) IN
    CASE m.type = "ConnectionResponse" ->
            Signal(Connection_Response(id, Cid(m.scid, base), Cid(m.dcid, base),
                                       IF m.result = "pending" THEN 1 ELSE 0))
      [] m.type = "ConfigurationRequest" ->
            Signal(Configuration_Request(id, Cid(m.dcid, base)))
      [] m.type = "ConfigurationResponse" ->
            Signal(Configuration_Response(id, Cid(m.scid, base)))
      [] m.type = "DisconnectionResponse" ->
            Signal(Disconnection_Response(id, Cid(m.dcid, base), Cid(m.scid, base)))
      [] m.type = "Hid" ->
            HID_Command(StoredHandle(h), Cid(m.channel, base),
                        IF m.what = "enable" THEN HidEnable ELSE OutputReportBody)

\* HCI_Command_Disconnect: opcode 0x0406, the handle without its flag.
HCI_Disconnect(handle) ==
    <<6, 4, 3, handle[1], ToggleFlag(handle[2]), 19>>

-----------------------------------------------------------------------------
(* The receivers.  A device reads as the structures of L2CAP.h lay it out. *)

IsControlChannel(frame) == ByteAt(frame, 6) = 1 /\ ByteAt(frame, 7) = 0

DeviceReads(frame, base) ==
    LET code == ByteAt(frame, 8) IN
    CASE ~IsControlChannel(frame) ->
            [type |-> "Hid", channel |-> CidAt(frame, 6, base),
             what |-> IF ByteAt(frame, 8) = 83 THEN "enable" ELSE "report"]
      [] IsControlChannel(frame) /\ code = 3 ->
            [type |-> "ConnectionResponse", dcid |-> CidAt(frame, 12, base),
             scid |-> CidAt(frame, 14, base),
             result |-> IF WordAt(frame, 16) = 1 THEN "pending" ELSE "successful"]
      [] IsControlChannel(frame) /\ code = 4 ->
            [type |-> "ConfigurationRequest", dcid |-> CidAt(frame, 12, base)]
      [] IsControlChannel(frame) /\ code = 5 ->
            [type |-> "ConfigurationResponse", scid |-> CidAt(frame, 12, base)]
      [] IsControlChannel(frame) /\ code = 7 ->
            [type |-> "DisconnectionResponse", dcid |-> CidAt(frame, 12, base),
             scid |-> CidAt(frame, 14, base)]

\* A frame of a device, and the bodies of the messages the driver acts on.
DeviceFrame(h, channel, body) == HID_Command(StoredHandle(h), channel, body)
Psm == [command |-> 17, interrupt |-> 19, other |-> 1]
DeviceBody(m, id, base) ==
    CASE m.type = "ConnectionRequest" ->
            <<2, id, 4, 0, Psm[m.psm], 0>> \o Cid(m.scid, base)
      [] m.type = "ConfigurationRequest" ->
            <<4, id, 4, 0>> \o Cid(m.dcid, base) \o <<0, 0>>
      [] m.type = "ConfigurationResponse" ->
            <<5, id, 6, 0>> \o Cid(m.scid, base)
                \o <<0, 0, IF m.agreed THEN 0 ELSE 1, 0>>
      [] m.type = "DisconnectionRequest" ->
            <<6, id, 4, 0>> \o Cid(m.dcid, base) \o Cid(m.scid, base)
      [] m.type = "Noise" -> <<8, id, 0, 0>>

IsInputReport(frame) == ByteAt(frame, 8) = 161 /\ ByteAt(frame, 9) = 1

\* The dispatcher of Bulkrwr.c, and the fields the handlers of Ds3.c take.
DriverReads(frame, base) ==
    LET code == ByteAt(frame, 8)
        psm == WordAt(frame, 12)
    IN
    CASE ~IsControlChannel(frame) ->
            [type |-> IF IsInputReport(frame) THEN "Report" ELSE "Dropped"]
      [] IsControlChannel(frame) /\ code = 2 ->
            [type |-> "ConnectionRequest", scid |-> CidAt(frame, 14, base),
             psm |-> IF psm = 17 THEN "command"
                     ELSE IF psm = 19 THEN "interrupt" ELSE "other"]
      [] IsControlChannel(frame) /\ code = 4 ->
            [type |-> "ConfigurationRequest", dcid |-> CidAt(frame, 12, base)]
      [] IsControlChannel(frame) /\ code = 5 ->
            [type |-> "ConfigurationResponse", scid |-> CidAt(frame, 12, base)]
      [] IsControlChannel(frame) /\ code = 6 ->
            [type |-> "DisconnectionRequest", dcid |-> CidAt(frame, 12, base),
             scid |-> CidAt(frame, 14, base)]
      [] IsControlChannel(frame) /\ code \notin {2, 4, 5, 6} -> [type |-> "Noise"]

-----------------------------------------------------------------------------
(* What makes the formats correct.                                         *)

\* The driver does not look at the result of a configuration.
Visible(m) == IF m.type # "ConfigurationResponse" THEN m
              ELSE [type |-> m.type, scid |-> m.scid]

\* The three nested lengths fit the size of the frame, and the buffer of
\* L2CAP_Command holds it.  Excepted is the innermost length of the
\* Configuration Response, which leaves the option out (L2CAP.c:142).
WellFormed(m, frame) ==
    /\ WordAt(frame, 2) = Len(frame) - 4
    /\ WordAt(frame, 4) = Len(frame) - 8
    /\ m.type \notin {"Hid", "ConfigurationResponse"} =>
           WordAt(frame, 10) = Len(frame) - 12
    /\ Len(frame) <= 64

\* Of what a device sends on channel cid, the driver delivers its input
\* reports, whatever the id, and no other HID data.
OnlyReportsDelivered(h, cid) ==
    LET Gets(body) == DriverReads(DeviceFrame(h, cid, body), 0).type IN
    /\ Gets(<<161, 1, 0>>) = "Report"
    /\ \A head \in {0, 82, 83, 163} : Gets(<<head, 1, 0>>) = "Dropped"

\* Every message of the handshake means the same to both ends: what the
\* builders put together the device reads as intended, with lengths that fit,
\* the handle of its link and the identifier it waits for; what the device
\* sends reaches the handler it is meant for with the ids in their places,
\* and its reports are told from signals.  This holds also when ids and
\* handles need both bytes (L2CAP.c:74-200, L2CAP.h:195-357, Ds3.c:72-92,
\* Bulkrwr.c:244-374).  HCI_Disconnect takes back the flag that the stored
\* handle carries (Interrupt.c:596, HCI.c:456).
UnderstoodAsMeant ==
    \A d \in Devices, h \in Handles, id \in Identifiers, base \in CidBases :
        /\ \A i \in DOMAIN toRemote[d] :
            LET frame == Frame(toRemote[d][i], h, id, base) IN
            /\ DeviceReads(frame, base) = toRemote[d][i]
            /\ WellFormed(toRemote[d][i], frame)
            /\ SubSeq(frame, 1, 2) = StoredHandle(h)
            /\ IsControlChannel(frame) => ByteAt(frame, 9) = id
        /\ \A i \in DOMAIN toHost[d] :
            LET m == toHost[d][i] IN
            DriverReads(DeviceFrame(h, <<1, 0>>, DeviceBody(m, id, base)), base)
                = Visible(m)
        /\ \A p \in HidPsms : remote[d][p].state = "open" =>
            OnlyReportsDelivered(h, Cid(remote[d][p].peer, base))
        /\ acl[d] = "closing" => WordAt(HCI_Disconnect(StoredHandle(h)), 3) = h
=============================================================================
