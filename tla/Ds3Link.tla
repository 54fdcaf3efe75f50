------------------------------- MODULE Ds3Link -------------------------------
(***************************************************************************)
(* The L2CAP handshake between the driver and a DualShock 3 (sys/Ds3.c,    *)
(* sys/L2CAP.c, sys/L2CAP.h and the dispatcher in sys/Bulkrwr.c).          *)
(*                                                                         *)
(* The device opens two channels, HID command and HID interrupt; each is   *)
(* configured in both directions.  When the driver has seen the device's   *)
(* answer for both it enables the device's reports and starts the output   *)
(* report timer.  A handler runs as a whole: what happens when callbacks   *)
(* overlap on one child is the subject of WireBus.                         *)
(***************************************************************************)
EXTENDS Naturals, Sequences

CONSTANTS
    Devices,           \* remote devices
    FirstCid, LastCid, \* channel ids the driver hands out: 0x40..0xFFFE
    RemoteCid,         \* the channel id a device uses for each PSM
    Quirks,            \* what may go wrong, see QuirkKinds
    QueueBound         \* the timer sends only below this many messages

QuirkKinds == {"send",        \* a bulk write cannot be submitted
               "disconnect",  \* HCI_Disconnect cannot be submitted
               "reject",      \* a device rejects the driver's parameters
               "reopen",      \* a device opens a channel again that it closed
               "other",       \* a device opens a channel that is not HID
               "noise"}       \* messages the driver only logs

HidPsms == {"command", "interrupt"}
Psms == HidPsms \cup {"other"}
NoCid == 0             \* the id in a zeroed handle
Cids == FirstCid..LastCid

ASSUME CidsAssumption ==
    FirstCid \in Nat \ {0} /\ LastCid \in Nat /\ FirstCid < LastCid
ASSUME RemoteCidAssumption ==
    /\ RemoteCid \in [Psms -> Nat \ {NoCid}]
    /\ \A p, q \in Psms : RemoteCid[p] = RemoteCid[q] => p = q
ASSUME QuirksAssumption == Quirks \subseteq QuirkKinds
ASSUME QueueBoundAssumption == QueueBound \in Nat \ {0}

\* What an uninitialised L2CAP_CID on the stack may hold.
AnyCid == {NoCid} \cup Cids \cup {RemoteCid[p] : p \in Psms}

VARIABLES
    acl,               \* the link: "down", "up", "closing" (HCI_Disconnect)
    GlobalCID,         \* the next channel id
    Device,            \* the BTH_DEVICE of each child
    ticking,           \* is the output report timer started?
    remote,            \* the channels as the devices see them
    toHost, toRemote,  \* L2CAP messages on the way
    wrapped,           \* history: has GlobalCID started over?
    failed             \* history: what could not be sent over a link

vars == <<acl, GlobalCID, Device, ticking, remote, toHost, toRemote, wrapped,
          failed>>

\* L2CAP_CommandHandle, L2CAP_InterruptHandle and the four IsHid... flags.
BthDevice == [Source : [HidPsms -> AnyCid], Destination : [HidPsms -> AnyCid],
              Configured : SUBSET HidPsms, Established : SUBSET HidPsms]
ZeroDevice == [Source |-> [p \in HidPsms |-> NoCid],
               Destination |-> [p \in HidPsms |-> NoCid],
               Configured |-> {}, Established |-> {}]

\* A channel as the device sees it: peer is the driver's id; asked: the
\* driver's parameters have been asked for; confirmed: it answered; agreed:
\* the device accepted the driver's request.
Channels == [state : {"closed", "waiting", "open", "closing"}, peer : AnyCid,
             asked : BOOLEAN, confirmed : BOOLEAN, agreed : BOOLEAN]
Closed == [state |-> "closed", peer |-> NoCid, asked |-> FALSE,
           confirmed |-> FALSE, agreed |-> FALSE]

HostMessages ==
    [type : {"ConnectionRequest"}, psm : Psms, scid : AnyCid]
    \cup [type : {"ConfigurationRequest"}, dcid : AnyCid]
    \cup [type : {"ConfigurationResponse"}, scid : AnyCid, agreed : BOOLEAN]
    \cup [type : {"DisconnectionRequest"}, dcid : AnyCid, scid : AnyCid]
    \cup [type : {"Noise"}]
RemoteMessages ==
    [type : {"ConnectionResponse"}, dcid : AnyCid, scid : AnyCid,
     result : {"pending", "successful"}]
    \cup [type : {"ConfigurationRequest"}, dcid : AnyCid]
    \cup [type : {"ConfigurationResponse"}, scid : AnyCid]
    \cup [type : {"DisconnectionResponse"}, dcid : AnyCid, scid : AnyCid]
    \cup [type : {"Hid"}, channel : AnyCid, what : {"enable", "report"}]

TypeOK ==
    /\ acl \in [Devices -> {"down", "up", "closing"}]
    /\ GlobalCID \in FirstCid..(LastCid + 1)
    /\ Device \in [Devices -> BthDevice]
    /\ ticking \in [Devices -> BOOLEAN]
    /\ remote \in [Devices -> [Psms -> Channels]]
    /\ toHost \in [Devices -> Seq(HostMessages)]
    /\ toRemote \in [Devices -> Seq(RemoteMessages)]
    /\ wrapped \in BOOLEAN
    /\ failed \in [Devices -> SUBSET {"send", "disconnect"}]

Init ==
    /\ acl = [d \in Devices |-> "down"]
    /\ GlobalCID = FirstCid
    /\ Device = [d \in Devices |-> ZeroDevice]
    /\ ticking = [d \in Devices |-> FALSE]
    /\ remote = [d \in Devices |-> [p \in Psms |-> Closed]]
    /\ toHost = [d \in Devices |-> <<>>]
    /\ toRemote = [d \in Devices |-> <<>>]
    /\ wrapped = FALSE
    /\ failed = [d \in Devices |-> {}]

-----------------------------------------------------------------------------
(* The helpers of L2CAP.h.                                                 *)

\* Mutant of NewCid: it does not start over.
NewCid_NoWrap == GlobalCID

\* L2CAP_GET_NEW_CID: the id it returns; GlobalCID is one more afterwards.
NewCid == IF GlobalCID > LastCid THEN FirstCid ELSE GlobalCID

AdvanceCid ==
    /\ GlobalCID' = NewCid + 1
    /\ wrapped' = (wrapped \/ GlobalCID > LastCid)

\* Mutant of SetConnectionType: source and destination are swapped.
SetConnectionType_Swapped(D, psm, scid, dcid) ==
    IF psm \in HidPsms
    THEN [D EXCEPT !.Source[psm] = dcid, !.Destination[psm] = scid]
    ELSE D

\* L2CAP_SET_CONNECTION_TYPE
SetConnectionType(D, psm, scid, dcid) ==
    IF psm \in HidPsms
    THEN [D EXCEPT !.Source[psm] = scid, !.Destination[psm] = dcid]
    ELSE D

\* The channels whose destination is cid.
ByDestination(D, cid) == {p \in HidPsms : D.Destination[p] = cid}

\* L2CAP_DEVICE_GET_SCID: the interrupt channel is compared last; without a
\* match the result stays what it was, uninitialised.
GetScid(D, dcid) ==
    IF ByDestination(D, dcid) = {} THEN AnyCid
    ELSE IF "interrupt" \in ByDestination(D, dcid)
         THEN {D.Source["interrupt"]} ELSE {D.Source["command"]}

-----------------------------------------------------------------------------
(* The handlers of Ds3.c.                                                  *)

\* The dispatcher takes the oldest message from d.
Receive(d, type) ==
    /\ acl[d] # "down"
    /\ toHost[d] # <<>> /\ Head(toHost[d]).type = type
    /\ toHost' = [toHost EXCEPT ![d] = Tail(@)]

\* WriteBulkPipe: the first n messages can be submitted, the next one cannot
\* and the handler returns.  failures: what else has failed in it.
Send(d, messages, n, failures) ==
    /\ n \in 0..Len(messages)
    /\ n = Len(messages) \/ "send" \in Quirks
    /\ toRemote' = [toRemote EXCEPT ![d] = @ \o SubSeq(messages, 1, n)]
    /\ failed' = [failed EXCEPT ![d] = @ \cup failures \cup
                      (IF n < Len(messages) THEN {"send"} ELSE {})]

\* Mutant of ConnectionReplies: no Configuration Request.
ConnectionReplies_NoConfig(scid, dcid) ==
    <<[type |-> "ConnectionResponse", dcid |-> dcid, scid |-> scid,
       result |-> "pending"],
      [type |-> "ConnectionResponse", dcid |-> dcid, scid |-> scid,
       result |-> "successful"]>>

ConnectionReplies(scid, dcid) ==
    <<[type |-> "ConnectionResponse", dcid |-> dcid, scid |-> scid,
       result |-> "pending"],
      [type |-> "ConnectionResponse", dcid |-> dcid, scid |-> scid,
       result |-> "successful"],
      [type |-> "ConfigurationRequest", dcid |-> scid]>>

\* Ds3ConnectionRequest.  For a PSM that is not HID the id it answers with
\* is uninitialised.
ConnectionRequest(d, n) ==
    LET m == Head(toHost[d]) IN
    /\ Receive(d, "ConnectionRequest")
    /\ \E dcid \in IF m.psm \in HidPsms THEN {NewCid} ELSE AnyCid :
        /\ Device' = [Device EXCEPT ![d] =
                          SetConnectionType(@, m.psm, m.scid, dcid)]
        /\ Send(d, ConnectionReplies(m.scid, dcid), n, {})
    /\ IF m.psm \in HidPsms THEN AdvanceCid ELSE UNCHANGED <<GlobalCID, wrapped>>
    /\ UNCHANGED <<acl, ticking, remote>>

\* Ds3ConfigurationRequest
ConfigurationRequest(d, n) ==
    LET m == Head(toHost[d]) IN
    /\ Receive(d, "ConfigurationRequest")
    /\ Device' = [Device EXCEPT ![d].Configured =
                      @ \cup ByDestination(Device[d], m.dcid)]
    /\ \E scid \in GetScid(Device[d], m.dcid) :
        Send(d, <<[type |-> "ConfigurationResponse", scid |-> scid]>>, n, {})
    /\ UNCHANGED <<acl, GlobalCID, wrapped, ticking, remote>>

\* Mutant of Ready: one channel is enough.
Ready_OneIsEnough(established) == established # {}

\* Both HID channels are established.
Ready(established) == established = HidPsms

\* Mutant of Hid: the driver's own channel id is used.
Hid_OwnId(D, what) ==
    [type |-> "Hid", channel |-> D.Destination["command"], what |-> what]

\* HID_Command: on the command channel, to the device's id of it.
Hid(D, what) ==
    [type |-> "Hid", channel |-> D.Source["command"], what |-> what]

\* Ds3ConfigurationResponse: the result in the response is not looked at.
ConfigurationResponse(d, n) ==
    LET m == Head(toHost[d])
        established == Device[d].Established \cup ByDestination(Device[d], m.scid)
    IN
    /\ Receive(d, "ConfigurationResponse")
    /\ Device' = [Device EXCEPT ![d].Established = established]
    /\ IF Ready(established)
       THEN /\ Send(d, <<Hid(Device[d], "enable"), Hid(Device[d], "report")>>, n,
                    {})
            /\ ticking' = [ticking EXCEPT ![d] = @ \/ n = 2]
       ELSE Send(d, <<>>, n, {}) /\ UNCHANGED ticking
    /\ UNCHANGED <<acl, GlobalCID, wrapped, remote>>

\* Mutant of Closes: only the interrupt channel is looked at.
Closes_InterruptOnly(D, dcid) == dcid = D.Destination["interrupt"]

\* Does the end of channel dcid end the connection?
Closes(D, dcid) == ByDestination(D, dcid) # {}

\* Ds3DisconnectionRequest: neither handles nor flags are reset.  sent: the
\* HCI_Disconnect could be submitted; a failure is only logged.
DisconnectionRequest(d, n, sent) ==
    LET m == Head(toHost[d]) IN
    /\ Receive(d, "DisconnectionRequest")
    /\ sent \/ "disconnect" \in Quirks
    /\ acl' = IF Closes(Device[d], m.dcid) /\ sent
              THEN [acl EXCEPT ![d] = "closing"] ELSE acl
    /\ Send(d, <<[type |-> "DisconnectionResponse", dcid |-> m.dcid,
                  scid |-> m.scid]>>, n, IF sent THEN {} ELSE {"disconnect"})
    /\ UNCHANGED <<GlobalCID, wrapped, Device, ticking, remote>>

\* Command_Reject, Connection_Response, Disconnection_Response and codes the
\* dispatcher does not know are logged at most.
Ignored(d) ==
    /\ Receive(d, "Noise")
    /\ UNCHANGED <<acl, GlobalCID, wrapped, Device, ticking, remote, toRemote,
                   failed>>

Host(d) ==
    \/ \E n \in 0..3 : \/ ConnectionRequest(d, n)
                       \/ ConfigurationRequest(d, n)
                       \/ ConfigurationResponse(d, n)
                       \/ \E sent \in BOOLEAN : DisconnectionRequest(d, n, sent)
    \/ Ignored(d)

\* WireChildOutputReportEvtTimerFunc; a failing send changes nothing.
OutputReport(d) ==
    /\ ticking[d]
    /\ Len(toRemote[d]) < QueueBound
    /\ toRemote' = [toRemote EXCEPT ![d] = Append(@, Hid(Device[d], "report"))]
    /\ UNCHANGED <<acl, GlobalCID, wrapped, Device, ticking, remote, toHost,
                   failed>>

-----------------------------------------------------------------------------
(* The devices, and the link to them.                                      *)

Say(d, m) == toHost' = [toHost EXCEPT ![d] = Append(@, m)]
Aside(d) == UNCHANGED <<acl, GlobalCID, wrapped, Device, ticking, failed>>

\* A new link: the child is reported with a zeroed description.
LinkUp(d) ==
    /\ acl[d] = "down"
    /\ acl' = [acl EXCEPT ![d] = "up"]
    /\ UNCHANGED <<GlobalCID, wrapped, Device, ticking, remote, toHost, toRemote,
                   failed>>

\* The link is gone, and the child with it.
LinkDown(d) ==
    /\ acl[d] # "down"
    /\ acl' = [acl EXCEPT ![d] = "down"]
    /\ Device' = [Device EXCEPT ![d] = ZeroDevice]
    /\ ticking' = [ticking EXCEPT ![d] = FALSE]
    /\ remote' = [remote EXCEPT ![d] = [p \in Psms |-> Closed]]
    /\ toHost' = [toHost EXCEPT ![d] = <<>>]
    /\ toRemote' = [toRemote EXCEPT ![d] = <<>>]
    /\ failed' = [failed EXCEPT ![d] = {}]
    /\ UNCHANGED <<GlobalCID, wrapped>>

\* A channel that was closed before still has a peer.
OpenChannel(d, p) ==
    /\ acl[d] # "down"
    /\ p = "other" => "other" \in Quirks
    /\ remote[d][p].state = "closed"
    /\ remote[d][p] = Closed \/ "reopen" \in Quirks
    /\ remote' = [remote EXCEPT ![d][p] = [Closed EXCEPT !.state = "waiting"]]
    /\ Say(d, [type |-> "ConnectionRequest", psm |-> p, scid |-> RemoteCid[p]])
    /\ Aside(d) /\ UNCHANGED toRemote

Configure(d, p) ==
    /\ remote[d][p].state = "open" /\ ~remote[d][p].asked
    /\ remote' = [remote EXCEPT ![d][p].asked = TRUE]
    /\ Say(d, [type |-> "ConfigurationRequest", dcid |-> remote[d][p].peer])
    /\ Aside(d) /\ UNCHANGED toRemote

CloseChannel(d, p) ==
    /\ remote[d][p].state = "open"
    /\ remote' = [remote EXCEPT ![d][p].state = "closing"]
    /\ Say(d, [type |-> "DisconnectionRequest", dcid |-> remote[d][p].peer,
               scid |-> RemoteCid[p]])
    /\ Aside(d) /\ UNCHANGED toRemote

Noise(d) ==
    /\ "noise" \in Quirks /\ acl[d] # "down" /\ toHost[d] = <<>>
    /\ Say(d, [type |-> "Noise"])
    /\ Aside(d) /\ UNCHANGED <<remote, toRemote>>

\* The channel a message of the driver is about, for channel ids that exist.
Named(cid, p) == p \in Psms /\ RemoteCid[p] = cid
Nameless(cid) == \A p \in Psms : RemoteCid[p] # cid

\* The device takes the driver's oldest message; what names no channel in
\* the right state is of no consequence.
Answers(d) ==
    LET m == Head(toRemote[d])
        At(cid, p, state) == Named(cid, p) /\ remote[d][p].state = state
        Becomes(p, c) == remote' = [remote EXCEPT ![d][p] = c]
    IN
    \/ \E p \in Psms :
        /\ m.type = "ConnectionResponse" /\ At(m.scid, p, "waiting")
        /\ m.result = "successful"
        /\ Becomes(p, [remote[d][p] EXCEPT !.state = "open", !.peer = m.dcid])
        /\ UNCHANGED toHost
    \/ \E p \in Psms, agreed \in BOOLEAN :
        /\ m.type = "ConfigurationRequest" /\ At(m.dcid, p, "open")
        /\ agreed \/ "reject" \in Quirks
        /\ Becomes(p, [remote[d][p] EXCEPT !.agreed = agreed])
        /\ Say(d, [type |-> "ConfigurationResponse", scid |-> remote[d][p].peer,
                   agreed |-> agreed])
    \/ \E p \in Psms :
        /\ m.type = "ConfigurationResponse" /\ At(m.scid, p, "open")
        /\ Becomes(p, [remote[d][p] EXCEPT !.confirmed = TRUE])
        /\ UNCHANGED toHost
    \/ \E p \in Psms :
        /\ m.type = "DisconnectionResponse" /\ At(m.scid, p, "closing")
        /\ Becomes(p, [remote[d][p] EXCEPT !.state = "closed"])
        /\ UNCHANGED toHost

Overhears(d) ==
    LET m == Head(toRemote[d])
        Is(cid, state) == \E p \in Psms : Named(cid, p) /\ remote[d][p].state = state
    IN
    /\ CASE m.type = "ConnectionResponse" ->
              m.result = "pending" \/ ~Is(m.scid, "waiting")
         [] m.type = "ConfigurationRequest" -> ~Is(m.dcid, "open")
         [] m.type = "ConfigurationResponse" -> ~Is(m.scid, "open")
         [] m.type = "DisconnectionResponse" -> ~Is(m.scid, "closing")
         [] m.type = "Hid" -> TRUE
    /\ UNCHANGED <<remote, toHost>>

RemoteReceive(d) ==
    /\ acl[d] # "down" /\ toRemote[d] # <<>>
    /\ toRemote' = [toRemote EXCEPT ![d] = Tail(@)]
    /\ Answers(d) \/ Overhears(d)
    /\ Aside(d)

Progress(d) == \E p \in HidPsms : OpenChannel(d, p) \/ Configure(d, p)

Remote(d) ==
    \/ \E p \in Psms : OpenChannel(d, p) \/ Configure(d, p) \/ CloseChannel(d, p)
    \/ Noise(d)
    \/ RemoteReceive(d)

Next == \E d \in Devices :
    \/ Host(d)
    \/ OutputReport(d)
    \/ LinkUp(d)
    \/ LinkDown(d)
    \/ Remote(d)

Spec == Init /\ [][Next]_vars

\* The reader keeps handling packets, a device opens its channels and
\* answers, and a link that is being closed goes down.  Nothing makes a
\* device connect, and nothing makes the timer expire.
Fairness == \A d \in Devices :
    /\ WF_vars(Host(d))
    /\ WF_vars(RemoteReceive(d))
    /\ WF_vars(Progress(d))
    /\ WF_vars(acl[d] = "closing" /\ LinkDown(d))

FairSpec == Spec /\ Fairness

-----------------------------------------------------------------------------
(* What makes the handshake correct.                                       *)

\* Driver and device agree on the two ids of an open HID channel: neither
\* the order of the messages nor a failed send between them splits the view.
ChannelsAgree == \A d \in Devices, p \in HidPsms :
    remote[d][p].state = "open" =>
        /\ Device[d].Source[p] = RemoteCid[p]
        /\ Device[d].Destination[p] = remote[d][p].peer

\* The driver enables the device and starts its timer only when the device
\* has agreed to the parameters of both HID channels (Ds3.c:281), as long as
\* devices reject nothing and open no channel twice, and the two channels have
\* different ids (with one device, or until the counter starts over).
EnabledWhenReady == Quirks \cap {"reject", "reopen", "other"} = {} =>
    \A d \in Devices :
        \/ ticking[d]
        \/ \E i \in DOMAIN toRemote[d] : toRemote[d][i].type = "Hid"
        => \A p \in HidPsms : remote[d][p].agreed

\* Whatever the driver sends to a HID device goes to the command channel of
\* that device, never to a zero or foreign id (Ds3.c:291, WireBus.c:999).
HidAddressed == \A d \in Devices : \A i \in DOMAIN toRemote[d] :
    toRemote[d][i].type = "Hid" =>
        toRemote[d][i].channel = RemoteCid["command"]

\* L2CAP.h:362 says that the driver "Generates a unique dynamically allocated
\* host-local channel identifier": no two HID channels of any devices have the
\* same id of the driver, so that a message is about one channel only.
Assigned ==
    {x \in Devices \X HidPsms : Device[x[1]].Destination[x[2]] # NoCid}
CidsUnique == \A x, y \in Assigned :
    Device[x[1]].Destination[x[2]] = Device[y[1]].Destination[y[2]] => x = y

\* A device that stays connected gets enabled, with both channels configured
\* in both directions and the timer running, unless something could not
\* be sent: the driver sends nothing again (Ds3.c:63-121).
Streaming(d) ==
    ticking[d] /\ \A p \in HidPsms : remote[d][p].confirmed /\ remote[d][p].agreed
Leaving(d) == acl[d] # "up" \/ \E p \in HidPsms : remote[d][p].state = "closing"
EventuallyStreaming == \A d \in Devices :
    acl[d] = "up" ~> Streaming(d) \/ Leaving(d) \/ failed[d] # {}

\* Closing either HID channel ends the connection, whatever else could not be
\* sent before, unless HCI_Disconnect itself fails (Ds3.c:376-391).
ClosingEndsLink == \A d \in Devices, p \in HidPsms :
    remote[d][p].state = "closing" ~>
        acl[d] = "down" \/ "disconnect" \in failed[d]
=============================================================================
