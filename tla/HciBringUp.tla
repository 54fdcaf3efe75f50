----------------------------- MODULE HciBringUp -----------------------------
(***************************************************************************)
(* How the driver brings a Bluetooth host controller up (sys/Interrupt.c,  *)
(* sys/HCI.c) and what the power callbacks of sys/Device.c do around it.   *)
(*                                                                         *)
(* D0Entry starts the readers and sends HCI_Reset.  From there on the      *)
(* conversation is driven by the interrupt pipe reader: the completion of  *)
(* one command sends the next one, until Write_Scan_Enable is accepted.    *)
(* Nothing else drives it: no timer, no retry.                             *)
(***************************************************************************)
EXTENDS Naturals, Sequences

CONSTANTS
    Versions,        \* HCI/LMP version numbers the host controllers report
    Refusals,        \* sets of simple-pairing commands a controller refuses
    Faults,          \* which faults may happen, see FaultKinds
    PowerCycling,    \* may the device leave D0 again?
    QueueBound       \* a power callback sends only below this many messages

FaultKinds == {"send",      \* a control transfer cannot be submitted
               "refuse",    \* the controller refuses a mandatory command
               "target",    \* WdfIoTargetStart fails
               "loss"}      \* unread events are lost when the readers stop

\* Probing commands: a refusal means that simple pairing is not supported.
SspProbes == {"Write_Simple_Pairing_Mode", "Write_Authentication_Enable",
              "Set_Event_Mask"}

SspCommands == SspProbes \cup {"Write_Simple_Pairing_Debug_Mode"}

\* Commands that tune paging and inquiry and name the host.
ConfigCommands ==
    {"Write_Page_Timeout", "Write_Page_Scan_Activity", "Write_Page_Scan_Type",
     "Write_Inquiry_Scan_Activity", "Write_Inquiry_Scan_Type",
     "Write_Inquiry_Mode", "Write_Class_of_Device",
     "Write_Extended_Inquiry_Response", "Write_Local_Name"}

Commands == {"Reset", "Read_BD_ADDR", "Read_Buffer_Size",
             "Read_Local_Version_Info", "Write_Scan_Enable"}
            \cup SspCommands \cup ConfigCommands

ASSUME VersionsAssumption == Versions \subseteq Nat
ASSUME RefusalsAssumption == Refusals \subseteq SUBSET SspCommands
ASSUME FaultsAssumption == Faults \subseteq FaultKinds
ASSUME PowerCyclingAssumption == PowerCycling \in BOOLEAN
ASSUME QueueBoundAssumption == QueueBound \in Nat \ {0}

VARIABLES
    power,           \* where the framework is with the power callbacks
    targets,         \* I/O targets that are started
    Started,         \* the four DEVICE_CONTEXT fields of the same names
    Initialized,
    DisableSSP,
    BluetoothHostAddress,
    children,        \* is any child reported on the bus?
    cmds,            \* commands the controller has not answered
    events,          \* events the interrupt reader has not handled
    chip,            \* the controller: its versions and what it refuses
    accepted,        \* commands it executed since its last reset
    faulted,         \* history: did an intolerable fault happen?
    cycled           \* history: has the device left D0 since it was plugged in?

driver == <<Started, Initialized, DisableSSP, BluetoothHostAddress, children>>
vars == <<power, targets, driver, cmds, events, chip, accepted, faulted, cycled>>

\* Mutant of PipeOrder: a wrong target is started.
PipeOrder_Wrong == <<"InterruptPipe", "BulkReadPipe", "ControlPipe">>

\* The order in which D0Entry starts the targets.
PipeOrder == <<"InterruptPipe", "BulkReadPipe", "BulkWritePipe">>
Pipes == {"InterruptPipe", "BulkReadPipe", "BulkWritePipe"}

\* D3: readers stopped.  Entering, Exiting: inside D0Entry, D0Exit, before
\* its HCI_Reset resp. before the targets are stopped.  Failed: D0Entry has
\* returned an error and the removal is pending.
PowerStates == {"D3", "Entering", "D0", "Exiting", "Failed", "Removed"}

Chips == [hci : Versions, lmp : Versions, refuses : Refusals]
Events == [kind : {"complete", "status"}, cmd : Commands, ok : BOOLEAN]

TypeOK ==
    /\ power \in PowerStates
    /\ targets \subseteq Pipes
    /\ Started \in BOOLEAN
    /\ Initialized \in BOOLEAN
    /\ DisableSSP \in BOOLEAN
    /\ BluetoothHostAddress \in {"zero", "read"}
    /\ children \in BOOLEAN
    /\ cmds \in Seq(Commands)
    /\ events \in Seq(Events)
    /\ chip \in Chips
    /\ accepted \subseteq Commands
    /\ faulted \in BOOLEAN
    /\ cycled \in BOOLEAN

\* A device context starts zeroed.
Init ==
    /\ power = "D3"
    /\ targets = {}
    /\ Started = FALSE
    /\ Initialized = FALSE
    /\ DisableSSP = FALSE
    /\ BluetoothHostAddress = "zero"
    /\ children = FALSE
    /\ cmds = <<>>
    /\ events = <<>>
    /\ chip \in Chips
    /\ accepted = {}
    /\ faulted = FALSE
    /\ cycled = FALSE

-----------------------------------------------------------------------------
(* Sending a command, and what the controller makes of it.                 *)

\* HCI_Command: the control transfer is submitted (ok) or it is not.
HCI_Command(c, ok) ==
    /\ ok \/ "send" \in Faults
    /\ cmds' = IF ok THEN Append(cmds, c) ELSE cmds
    /\ faulted' = (faulted \/ ~ok)

\* A refusal the driver has an answer to.  Debug mode may fail, but the
\* reader looks at it only in a Command Complete event.
Tolerated(c, kind) ==
    \/ c \in SspProbes
    \/ c = "Write_Simple_Pairing_Debug_Mode" /\ kind = "complete"

\* The controller answers one command: a Command Complete event, or for a
\* refusal also a Command Status event.
Answer(c, kind, ok) ==
    /\ power # "Removed"
    /\ cmds # <<>> /\ c = Head(cmds)
    /\ ok => kind = "complete"
    /\ ~ok => \/ c \in chip.refuses /\ Tolerated(c, kind)
              \/ "refuse" \in Faults
    /\ c \in chip.refuses => ~ok
    /\ cmds' = Tail(cmds)
    /\ events' = Append(events, [kind |-> kind, cmd |-> c, ok |-> ok])
    /\ accepted' = IF ~ok THEN accepted
                   ELSE IF c = "Reset" THEN {} ELSE accepted \cup {c}
    /\ faulted' = (faulted \/ (~ok /\ ~Tolerated(c, kind)))
    /\ UNCHANGED <<power, targets, driver, chip, cycled>>

Controller == \E c \in Commands, kind \in {"complete", "status"},
                 ok \in BOOLEAN : Answer(c, kind, ok)

-----------------------------------------------------------------------------
(* WireShockEvtUsbInterruptPipeReadComplete: the bring-up events.          *)

\* The reader takes the oldest event and it is this one.
Reads(kind, c, ok) ==
    /\ "InterruptPipe" \in targets
    /\ events # <<>>
    /\ Head(events) = [kind |-> kind, cmd |-> c, ok |-> ok]
    /\ events' = Tail(events)
    /\ UNCHANGED <<power, targets, chip, accepted, cycled>>

\* Nothing is done about the event.
Ignore == UNCHANGED <<driver, cmds, faulted>>

\* Mutants of ResetComplete: Started is not tested; it is not set.
ResetComplete_NotTested(sent) ==
    /\ Reads("complete", "Reset", TRUE)
    /\ children' = FALSE
    /\ Started' = TRUE
    /\ HCI_Command("Read_BD_ADDR", sent)
    /\ UNCHANGED <<Initialized, DisableSSP, BluetoothHostAddress>>
ResetComplete_NotSet(sent) ==
    /\ Reads("complete", "Reset", TRUE)
    /\ ~Started
    /\ children' = FALSE
    /\ HCI_Command("Read_BD_ADDR", sent)
    /\ UNCHANGED <<Started, Initialized, DisableSSP, BluetoothHostAddress>>

\* The completion of Reset opens the conversation, unless it is open.  An
\* empty scan of the child list reports every remaining child as missing.
ResetComplete(sent) ==
    /\ Reads("complete", "Reset", TRUE)
    /\ ~Started
    /\ children' = FALSE
    /\ Started' = TRUE
    /\ HCI_Command("Read_BD_ADDR", sent)
    /\ UNCHANGED <<Initialized, DisableSSP, BluetoothHostAddress>>

ResetWhileStarted ==
    /\ Reads("complete", "Reset", TRUE)
    /\ Started
    /\ Ignore

\* Mutant of ReadBdAddrComplete: the address is not stored.
ReadBdAddrComplete_NotStored(sent) ==
    /\ Reads("complete", "Read_BD_ADDR", TRUE)
    /\ HCI_Command("Read_Buffer_Size", sent)
    /\ UNCHANGED driver

ReadBdAddrComplete(sent) ==
    /\ Reads("complete", "Read_BD_ADDR", TRUE)
    /\ BluetoothHostAddress' = "read"
    /\ HCI_Command("Read_Buffer_Size", sent)
    /\ UNCHANGED <<Started, Initialized, DisableSSP, children>>

ReadBufferSizeComplete(sent) ==
    /\ Reads("complete", "Read_Buffer_Size", TRUE)
    /\ HCI_Command("Read_Local_Version_Info", sent)
    /\ UNCHANGED driver

\* Mutants of Unsupported: both versions must be too old; an off-by-one.
Unsupported_Both == chip.hci < 3 /\ chip.lmp < 3
Unsupported_OffByOne == chip.hci <= 3 \/ chip.lmp <= 3

\* Bluetooth 2.0 + EDR or later.
Unsupported == chip.hci < 3 \/ chip.lmp < 3

VersionUnsupported(sent) ==
    /\ Reads("complete", "Read_Local_Version_Info", TRUE)
    /\ Unsupported
    /\ HCI_Command("Reset", sent)
    /\ Started' = (Started /\ ~sent)
    /\ UNCHANGED <<Initialized, DisableSSP, BluetoothHostAddress, children>>

VersionSupported(sent) ==
    /\ Reads("complete", "Read_Local_Version_Info", TRUE)
    /\ ~Unsupported
    /\ HCI_Command(IF DisableSSP THEN "Write_Scan_Enable"
                   ELSE "Write_Simple_Pairing_Mode", sent)
    /\ UNCHANGED driver

\* What follows an accepted probe.
AfterProbe == [Write_Simple_Pairing_Mode |-> "Write_Simple_Pairing_Debug_Mode",
               Write_Authentication_Enable |-> "Set_Event_Mask",
               Set_Event_Mask |-> "Write_Page_Timeout"]

ProbeAccepted(c, sent) ==
    /\ Reads("complete", c, TRUE)
    /\ HCI_Command(AfterProbe[c], sent)
    /\ UNCHANGED driver

\* Mutants of ProbeRefused: the probing goes on; nothing is sent.
ProbeRefused_GoOn(kind, c, sent) ==
    /\ Reads(kind, c, FALSE)
    /\ DisableSSP' = TRUE
    /\ HCI_Command(AfterProbe[c], sent)
    /\ UNCHANGED <<Started, Initialized, BluetoothHostAddress, children>>
ProbeRefused_Silent(kind, c, sent) ==
    /\ Reads(kind, c, FALSE)
    /\ sent
    /\ DisableSSP' = TRUE
    /\ UNCHANGED <<Started, Initialized, BluetoothHostAddress, children, cmds,
                   faulted>>

\* Refused in either kind of event: go on without simple pairing.
ProbeRefused(kind, c, sent) ==
    /\ Reads(kind, c, FALSE)
    /\ DisableSSP' = TRUE
    /\ HCI_Command("Write_Scan_Enable", sent)
    /\ UNCHANGED <<Started, Initialized, BluetoothHostAddress, children>>

\* The status of the debug mode command is not looked at.
DebugModeComplete(ok, sent) ==
    /\ Reads("complete", "Write_Simple_Pairing_Debug_Mode", ok)
    /\ HCI_Command("Write_Authentication_Enable", sent)
    /\ UNCHANGED driver

\* Mutant of AfterConfig: two commands are skipped.
AfterConfig_Skips ==
    [Write_Page_Timeout |-> "Write_Page_Scan_Activity",
     Write_Page_Scan_Activity |-> "Write_Page_Scan_Type",
     Write_Page_Scan_Type |-> "Write_Inquiry_Scan_Activity",
     Write_Inquiry_Scan_Activity |-> "Write_Inquiry_Scan_Type",
     Write_Inquiry_Scan_Type |-> "Write_Inquiry_Mode",
     Write_Inquiry_Mode |-> "Write_Local_Name",
     Write_Local_Name |-> "Write_Scan_Enable"]

AfterConfig ==
    [Write_Page_Timeout |-> "Write_Page_Scan_Activity",
     Write_Page_Scan_Activity |-> "Write_Page_Scan_Type",
     Write_Page_Scan_Type |-> "Write_Inquiry_Scan_Activity",
     Write_Inquiry_Scan_Activity |-> "Write_Inquiry_Scan_Type",
     Write_Inquiry_Scan_Type |-> "Write_Inquiry_Mode",
     Write_Inquiry_Mode |-> "Write_Class_of_Device",
     Write_Class_of_Device |-> "Write_Extended_Inquiry_Response",
     Write_Extended_Inquiry_Response |-> "Write_Local_Name",
     Write_Local_Name |-> "Write_Scan_Enable"]

ConfigComplete(c, sent) ==
    /\ Reads("complete", c, TRUE)
    /\ HCI_Command(AfterConfig[c], sent)
    /\ UNCHANGED driver

ScanEnableComplete ==
    /\ Reads("complete", "Write_Scan_Enable", TRUE)
    /\ Initialized' = TRUE
    /\ UNCHANGED <<Started, DisableSSP, BluetoothHostAddress, children, cmds,
                   faulted>>

\* A visible controller is connected to: the reader reports a child.  (The
\* module WireBus models the children.)
ConnectionRequest ==
    /\ "InterruptPipe" \in targets
    /\ "Write_Scan_Enable" \in accepted
    /\ children' = TRUE
    /\ UNCHANGED <<power, targets, Started, Initialized, DisableSSP,
                   BluetoothHostAddress, cmds, events, chip, accepted, faulted,
                   cycled>>

\* A refusal no branch of the reader is interested in.
RefusalIgnored(kind, c) ==
    /\ Reads(kind, c, FALSE)
    /\ ~Tolerated(c, kind)
    /\ Ignore

InterruptReader ==
    \/ \E sent \in BOOLEAN :
        \/ ResetComplete(sent)
        \/ ReadBdAddrComplete(sent)
        \/ ReadBufferSizeComplete(sent)
        \/ VersionUnsupported(sent)
        \/ VersionSupported(sent)
        \/ \E c \in SspProbes : ProbeAccepted(c, sent)
        \/ \E kind \in {"complete", "status"}, c \in SspProbes :
               ProbeRefused(kind, c, sent)
        \/ \E ok \in BOOLEAN : DebugModeComplete(ok, sent)
        \/ \E c \in ConfigCommands : ConfigComplete(c, sent)
    \/ ResetWhileStarted
    \/ ScanEnableComplete
    \/ ConnectionRequest
    \/ \E kind \in {"complete", "status"}, c \in Commands :
           RefusalIgnored(kind, c)

-----------------------------------------------------------------------------
(* The power callbacks.                                                    *)

\* WireShockEvtDeviceD0Entry up to its End label: n targets could be started.
D0EntryStart(n) ==
    /\ power = "D3"
    /\ Len(cmds) + Len(events) < QueueBound
    /\ n = 3 \/ "target" \in Faults
    /\ targets' = {PipeOrder[i] : i \in 1..n}
    /\ power' = "Entering"
    /\ UNCHANGED <<driver, cmds, events, chip, accepted, faulted, cycled>>

\* From the End label on.  isTargetStarted is set only after the third
\* target, so on the error path nothing is stopped.
D0EntryReset(sent) ==
    /\ power = "Entering"
    /\ HCI_Command("Reset", sent)
    /\ power' = IF targets = Pipes THEN "D0" ELSE "Failed"
    /\ UNCHANGED <<targets, driver, events, chip, accepted, cycled>>

\* WireShockEvtDeviceD0Exit: the children are dropped and HCI_Reset goes out
\* while the readers still run.
D0ExitReset(sent) ==
    /\ PowerCycling
    /\ power = "D0"
    /\ Len(cmds) + Len(events) < QueueBound
    /\ children' = FALSE
    /\ HCI_Command("Reset", sent)
    /\ power' = "Exiting"
    /\ cycled' = TRUE
    /\ UNCHANGED <<targets, Started, Initialized, DisableSSP,
                   BluetoothHostAddress, events, chip, accepted>>

\* The targets are stopped.  What the controller has to say and nobody
\* fetched is still there when they are started again, or it is lost.
D0ExitStop ==
    /\ power = "Exiting"
    /\ targets' = {}
    /\ power' = "D3"
    /\ \/ UNCHANGED <<events, faulted>>
       \/ /\ "loss" \in Faults
          /\ events' = <<>>
          /\ faulted' = TRUE
    /\ UNCHANGED <<driver, cmds, chip, accepted, cycled>>

\* The framework deletes the device, and with it its I/O targets.
Remove ==
    /\ power \in {"D3", "Failed"}
    /\ PowerCycling \/ power = "Failed"
    /\ power' = "Removed"
    /\ targets' = {}
    /\ UNCHANGED <<driver, cmds, events, chip, accepted, faulted, cycled>>

\* The dongle is plugged in again: WireShockCreateDevice makes a new device
\* with a zeroed context.
Replug ==
    /\ power = "Removed"
    /\ power' = "D3"
    /\ Started' = FALSE
    /\ Initialized' = FALSE
    /\ DisableSSP' = FALSE
    /\ BluetoothHostAddress' = "zero"
    /\ children' = FALSE
    /\ cmds' = <<>>
    /\ events' = <<>>
    /\ accepted' = {}
    /\ faulted' = FALSE
    /\ cycled' = FALSE
    /\ UNCHANGED <<targets, chip>>

Power ==
    \/ \E n \in 0..3 : D0EntryStart(n)
    \/ \E sent \in BOOLEAN : D0EntryReset(sent) \/ D0ExitReset(sent)
    \/ D0ExitStop
    \/ Remove
    \/ Replug

Next == Controller \/ InterruptReader \/ Power

\* The controller answers, the reader keeps a read posted, and a power
\* callback that has begun is finished.  Nothing forces a power transition.
Fairness ==
    /\ WF_vars(Controller)
    /\ WF_vars(InterruptReader)
    /\ WF_vars(\E sent \in BOOLEAN : D0EntryReset(sent))
    /\ WF_vars(D0ExitStop)

Spec == Init /\ [][Next]_vars
FairSpec == Spec /\ Fairness

-----------------------------------------------------------------------------
(* What makes the bring-up correct.                                        *)

\* Positions of conversation messages, that is of everything but resets.
TalkingCmds == {i \in DOMAIN cmds : cmds[i] # "Reset"}
TalkingEvents == {i \in DOMAIN events : events[i].cmd # "Reset"}
TooOld == chip.hci < 3 \/ chip.lmp < 3

\* There is only ever one conversation: besides resets, which the power
\* callbacks send at any time, at most one command or its answer is under
\* way (Interrupt.c: every completion sends at most one successor, and the
\* Started flag keeps a second reset from opening a second conversation).
OneConversation ==
    /\ \A i, j \in TalkingCmds : i = j
    /\ \A i, j \in TalkingEvents : i = j
    /\ TalkingCmds = {} \/ TalkingEvents = {}

\* Started is what tells whether a conversation may be under way: it is
\* cleared again only by the reader that has just ended the conversation.
IdleUnlessStarted ==
    ~Started => TalkingCmds = {} /\ TalkingEvents = {}

\* Once simple pairing has been given up the driver never talks simple
\* pairing or the set-up that depends on it again (Interrupt.c:122-145,
\* 342-415): only the scan is enabled.
SspGivenUpForGood ==
    DisableSSP =>
        /\ \A i \in DOMAIN cmds :
               cmds[i] \notin SspCommands \cup ConfigCommands
        /\ \A i \in DOMAIN events :
               events[i].cmd \notin SspCommands \cup ConfigCommands

\* On a supported controller the bring-up never gets stuck by itself: while
\* the device is in D0 it is complete, a message is under way, or a fault
\* the driver has no answer to has happened.
StallsOnlyOnFault ==
    power = "D0" /\ ~TooOld /\ ~faulted /\ ~Initialized =>
        cmds # <<>> \/ events # <<>>

\* As long as the device stays in D0, the controller is made visible only
\* after it accepted the whole set-up, unless simple pairing was given up
\* (Interrupt.c:332-496).
ScanOnlyWhenConfigured ==
    ~cycled /\ "Write_Scan_Enable" \in accepted =>
        DisableSSP \/ ConfigCommands \cup SspProbes \subseteq accepted

\* The driver calls the controller initialised only when it knows its own
\* address and the controller is visible (Interrupt.c:498-505), as long as
\* the device stays in D0.
InitializedMeansVisible ==
    ~cycled /\ Initialized =>
        BluetoothHostAddress = "read" /\ "Write_Scan_Enable" \in accepted

\* A supported controller comes up, with simple pairing or without it.
EventuallyInitialized ==
    (~TooOld /\ []~faulted /\ <>[](power = "D0")) => <>Initialized

\* An unsupported controller is never initialised, whatever it answers.
UnsupportedNeverInitialized == TooOld => ~Initialized

\* Interrupt.c:321 says of an unsupported controller that the driver is
\* "aborting communication".
UnsupportedAborts ==
    (TooOld /\ <>[](power = "D0")) => <>[](cmds = <<>> /\ events = <<>>)
=============================================================================
