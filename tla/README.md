# A TLA+ model of WireShock

WireShock is a Windows kernel-mode (KMDF) driver. It takes over a USB Bluetooth
radio, brings the radio's host controller up with HCI commands, accepts the
connections of Sony DualShock controllers, talks L2CAP to them and exposes every
connected controller as a HID child device. These modules model what its parts
do to their state, in the order the code does it. TLC checks the modules on
small instances; TLAPS proves some of the properties for every instance.

Line numbers below refer to files under `src/`; a bare name such as
`Interrupt.c` is a file of `src/sys/`.

## The system

### Who runs

| actor | code | when it runs |
| --- | --- | --- |
| interrupt pipe reader | `WireShockEvtUsbInterruptPipeReadComplete`, Interrupt.c | for every HCI event |
| bulk pipe reader | `WireShockEvtUsbBulkReadPipeReadComplete`, Bulkrwr.c | for every ACL packet |
| PDO creation | `WireShockEvtWdfChildListCreateDevice`, WireBus.c | once per reported child, in a worker thread of the framework |
| output report timer | `WireChildOutputReportEvtTimerFunc`, WireBus.c | periodically per child |
| HID dispatch | `WireChildEvtWdfIoQueueIoInternalDeviceControl`, WireBus.c | per request of the class driver, any number in parallel |
| power callbacks | `WireShockEvtDeviceD0Entry`, `...D0Exit`, Device.c | per power transition |
| USB completions | `EvtUsbRequestCompletionRoutine`, UsbInterrupt.c | per request the driver sent |

No lock of the driver orders any two of them. The framework runs one callback at
a time per pipe, one PDO creation at a time, and one timer callback per timer.

### Components

**Host controller bring-up** (Interrupt.c:73-505, HCI.c). State: `Started`,
`Initialized`, `DisableSSP` and the host's address in `DEVICE_CONTEXT`. D0Entry
sends HCI_Reset; from there on the completion of each command sends the next
one. Hard: it has no timer and no retry, resets arrive in mid-conversation when
power goes down and up, refusals come in two kinds of events. Correct when there
is only one conversation at a time, it ends with a visible and fully set up
controller, and only a real fault makes it stop before.

**Device and power callbacks** (Device.c). State: the USB target device, three
pipe handles and the started I/O targets. PrepareHardware selects a
configuration and stores its pipes; D0Entry and D0Exit start and stop the
targets, drop the children, reset the controller. Hard: the PnP manager may
restart the device any number of times, while the context keeps its handles;
every step can fail; the readers run during D0Exit, and a child's timer goes on
writing. Correct when the handles are those of pipes that exist and reading goes
on while the device is in D0.

**Bus driver** (WireBus.c, and its callers in Interrupt.c and Bulkrwr.c). State:
the framework's child list. Every child has an address description, which holds
a `BTH_DEVICE`: the connection handle, name, type, channel ids, the PDO's queue
and timer, two pool blocks. Operations: report a child (Connection Request),
store its handle (Connection Complete), its name, type and output report (Remote
Name), find it by handle, report it missing (Disconnection Complete). Hard:
everybody retrieves a copy, changes it and writes it back. Correct when the
description of a child says what is true of its link, nothing it points to
leaks or is used after it was freed, and a child lives as long as its link.

**L2CAP handshake** (Ds3.c, L2CAP.c, L2CAP.h). State: the channel ids and flags
in the child's `BTH_DEVICE`, the global counter of channel ids. The device opens
the HID command and the HID interrupt channel; both get configured in both
directions; then the driver enables reports and starts the timer. Hard: sends
that fail half-way, a device that rejects, reopens or closes, ids that run out.
Correct when both sides agree on the ids and HID data goes out only on an agreed
channel.

**HID requests** (WireBus.c:341-702, `common/src/DsHid.c`, Ds3.c:418-533).
State: the manual queue of pending reads. Hard: a forwarded read can be completed
before the routine that forwarded it returns; removal races with everything.
Correct when every request is completed exactly once, reports in order.

**Report conversion** (`common/include/DsHid.h`). Pure functions from a
controller's report to the reports that the report descriptors declare. Hard:
shared bytes, reused buffers. Correct when what a reader of the descriptor
sees is what the controller sent.

**USB requests** (`common/src/UsbInterrupt.c`, Bulkrwr.c:72-184). Objects made per
send and deleted by the completion routine, which may run before the send
returns. Correct when a request is never used after that and none is lost
silently.

**Byte layouts** (L2CAP.c, L2CAP.h, HCI.c). Three lengths inside one another, ids
and handles of two bytes, a flag in a handle's upper byte. Correct when both
ends read the same message from the same bytes.

Left out, see "Not modelled": pairing and other events that are only logged or
answered, the radio's own default queue, driver entry, tracing.

### How they interact

The bring-up makes the controller visible; then connection events come in and
the interrupt reader reports children. The framework creates a PDO for each.
The bulk reader finds the child of a packet by its handle, runs the L2CAP
handler on a copy of the description and writes the copy back. A complete
handshake starts the PDO's timer and reports begin to arrive, which the bulk
reader hands to reads that wait in the PDO's queue. The modules cut at these
lines: `HciBringUp` knows only whether there is a child, `WireBus` treats the
handshake as one packet ("signal"), `Ds3Link` treats handlers as atomic,
`HidIo` and `HidReport` start from a report that has arrived, and all of them
treat a send as something that may fail, which `UsbRequest` opens up.

## The modules

| module | models | state in the code |
| --- | --- | --- |
| `HciBringUp` | bring-up conversation, D0Entry, D0Exit, removal, re-plugging | four fields of `DEVICE_CONTEXT`, started targets; commands and events under way and the controller are environment |
| `DevicePnp` | device creation, PrepareHardware, I/O targets over power transitions and restarts, failing reads, the timer's writes | USB handles of `DEVICE_CONTEXT`; the framework's pipe objects are environment |
| `Bus` | abstract specification of what the bus promises about a child's description | the members of `BTH_DEVICE` |
| `WireBus` | child list, connection events, retrieve-change-write-back, PDO creation and its failure, timer, cleanup, failing updates and allocations, power transitions; implements `Bus` | child list entries with `PDO_ADDRESS_DESCRIPTION`s, pool blocks, copies on the stacks of callbacks |
| `Ds3Link` | signalling handlers, channel ids, enabling, output reports | ids and flags of `BTH_DEVICE`, `GlobalCID`; devices are environment |
| `Ds3Wire` | the messages of `Ds3Link` as bytes, their builders and receivers | none: pure functions, evaluated on the messages of `Ds3Link` |
| `HidIo` | dispatch routine, queue, delivery, cancelling, removal | owner and status of every request, `HidInputReportQueue` |
| `HidReport` | the three conversions and the fields of the descriptors | read buffer, configuration |
| `UsbRequest` | control and bulk sends, completion | request and memory objects, pool buffers |
| `MC...` | instances for TLC | |
| `..._proofs` | theorems about `HciBringUp`, `DevicePnp`, `Bus`, `WireBus`, `Ds3Link`, `HidIo`, `HidReport`, `UsbRequest` | |

Actions bear the names of the functions, or of the branch of the reader with the
name of its event. `PROJECT.json` maps each definition to its lines.
Definitions that begin with "Mutant of" are plausible mistakes in that code;
each makes one property fail and is used for nothing else.

Conventions: a parameter `sent` or `n` says whether, or how many of, the sends of
a handler succeed, so that every early return is taken. History variables
(`faulted`, `cycled`, `overlapped`, `cutShort`, `starved`, `renamed`,
`abandoned`, `late`, `uncreated`, `stale`, `narrowed`, `wrapped`, `failed`, `completions`, `ticket`,
`misused`, `refused`) influence no action.

### HciBringUp

Commands are names; a pending command is answered by Command Complete or, for a
refusal, also by Command Status. `ProbeRefused` is the refusal both switch
statements of the reader handle; `DebugModeComplete` does not look at the
status; other refusals are ignored. `VersionUnsupported` resets and clears
`Started`. A reset that completes while `Started` does nothing. D0Entry is two
actions, targets and reset, since the first target's reader may already run;
D0Exit likewise. D0Exit stops the readers without clearing the flags, so the
next D0Entry finds `Started` as it was.

### DevicePnp

A pipe handle is the number of the configuration its pipe belongs to, so that a
handle kept from an earlier one is told from a current one.
`EvtDevicePrepareHardware` is four actions, since the timer may write between
them: the USB target is created (the first time only), a configuration is
selected, which deletes the pipes of the one before, the pipes found are stored,
the two continuous readers are configured. `D0Entry(n)` starts n of the three
targets; `isTargetStarted` is set only after the third, so that a failed D0Entry
stops nothing.

Two things the module shows to be so, and its properties name: after a restart
with a configuration that lacks a pipe the old handle passes the test at
Device.c:282 (`narrowed`), and during a restart the timer of a child that is
about to go can pass the handle of a deleted pipe to the framework, also after
that restart has failed (`StaleOnlyOnRestart`). Nothing else ever uses a stale
handle.

### WireBus

The steps of a callback are those between which others can run: *retrieve* and
*write back* (and, in the bulk reader, the handling in between). A block that is
replaced is freed with the retrieve. `intr.stages` are the calls that remain of
the reader's handler: a Remote Name event is name, type, report. The framework's
child list is taken as it is documented: an update of a present child does not
call the cleanup callback; only present children can be retrieved; one that is
missing is deleted later, its description cleaned up; PDOs are created one at a
time. The lookup by handle visits children in list order and gives up at the
first that has no PDO yet (WireBus.c:775-800). Freed blocks are not handed out
again while something points to them, so that a use after free is seen.

The code does not exclude that two callbacks work on copies of one child, nor
that a lookup stops early, nor does it test whether an allocation or an update
succeeded (`starved`), nor does it expect a child to be told another type than it
has (`renamed`): the freed output report of a DualShock 3 is then still pointed to
(WireBus.c:937). `WireBus_LostUpdate` shows what comes of the first, and
then there is no limit to what can happen (blocks freed twice, timers without a
buffer). The other properties speak of *clean* behaviours, in which none of them
has happened, and say that these are all that is wrong: with one callback at a
time per child, in any order, over failing creations, removal, suspending and
re-plugging, the bus is correct. `OnlyClean` cuts TLC's search after an unclean
step, where these properties hold vacuously. What happens inside the exceptions
is not covered by them, and is listed under "Seen while modelling".

`TypesOf` is the set of types that the names of a device can tell; the reader picks
one of them for each Remote Name event (`Told`). The runs give each device one type,
since a second one more than doubles the states of `WireBus_One`; names with any set
of types are covered by the proofs.

After a power transition the radio is no longer visible (`Resume`): D0Entry resets
the controller and the reset starts no conversation, see `HciBringUp`.

### Bus

What everybody who uses a description relies on, without copies: the interrupt
reader sets handle, name, type and output report, the PDO creation sets queue
and timer, the bulk reader opens the channels, each in a single step that leaves
the rest alone. `WireBus!ImplementsBus` says that a clean `WireBus` does just
that. The refinement mapping takes the descriptions of the present children and
forgets the pool blocks; a retrieve is a stutter and a write-back one step of
`Bus`. Once a behaviour is not clean, `broken` holds and anything is allowed.

### Ds3Link

A handler runs as a whole (overlaps are the subject of `WireBus`). Ids that the
code leaves uninitialised (Ds3.c:40, 200) are any id. The device follows the
protocol, unless a `Quirk` lets it reject, reopen, open other channels or send
what the driver ignores. Its channel ids (`Ids`) overlap with the driver's, as
they do on the air where both count from 0x40. The signalling identifier appears
in `Ds3Wire` only: the driver decides nothing on it. Retransmissions do not exist in the driver, and
the radio is reliable below L2CAP.

### Ds3Wire

The builders and receivers as functions on sequences of bytes, with the
driver's way of passing source and destination id. `UnderstoodAsMeant` is
evaluated on every message that `Ds3Link` ever has on the way, for each
combination of a handle, an identifier and what is added to the channel ids, so
that carries between the two bytes of an id occur. A device reads as the
structures of L2CAP.h lie. Of the output report only the first two bytes, which
tell it from the enabling command, are written out.

### HidIo

Each request is used once. Read requests go to the queue; everything else is
answered from tables of the code. A report is delivered in multi mode as two
reports, the second only if the first did not fail. The framework may cancel a
queued request at any time and cancels all of them after the PDO is removed.

### HidReport

Buffers hold bytes; the descriptors are sequences of fields with sizes, and a
field begins where the one before it ends. The input reports and the read buffers
are constants: of a report only its length, its bytes and its id 1 are assumed, of
a buffer that it has the 39 bytes which the driver demands. The properties read the buffer the way a parser of the descriptor would and compare
with the input. Vendor-defined bytes are not compared: in single mode the code
writes 20 bytes of the 49 that the descriptor describes.

### UsbRequest

The three kinds of send run through the same steps, each of which may fail. A
request is a fresh object; completion may come at once. A send that fails leaves
its request and memory behind: the code never deletes them, and `NoSilentLeak`
says that this happens only when the caller is told. Allocation of HID_Command's
own buffer is assumed to succeed.

## Runs

| run | instance | shows |
| --- | --- | --- |
| `HciBringUp_Cycling` | versions 2 and 3, all 16 sets of refused commands, every fault, power transitions, 2 messages, fair | one conversation, only while started; simple pairing given up for good; stalls only on a fault; before the first power cycle, visible only when set up, and initialised means visible and addressed; bring-up completes |
| `HciBringUp_Unsupported` | no fault, fair | **violated**: communication is not aborted |
| `DevicePnp_All` | every set of pipes, 3 configurations, every failure, fair | handles are current; stale handles only on a restart; reading goes on |
| `WireBus_One` | one DualShock 3, 2 entries, 4 blocks, 1 event, 1 packet, power transitions, fair | no ghost, bugcheck or leak; implements `Bus`; the child follows the link |
| `WireBus_Two` | two devices, two handles, 2 entries, 1 event | handles known and unique |
| `WireBus_LostUpdate` | as `WireBus_One` without the constraint | **violated**: a stored handle is lost |
| `Ds3Link_Handshake` | one device, 2 ids, failing sends, failing HCI_Disconnect, messages the driver ignores, fair | enabled when ready; HID data addressed; every message understood as meant; gets enabled; closing ends the link |
| `Ds3Link_Odd` | one device, 2 ids, reopening, rejecting, other channels | both sides agree on the ids |
| `Ds3Link_Unique` | two devices, 4 ids | **violated**: an id in use is handed out again although another is free (L2CAP.h:378) |
| `HidIo_All` | 2 requests of every code, 3 reports, multi mode, fair | completed once, reads in order; all completed |
| `HidReport_All` | reports with 16 d-pads, 6 patterns of other buttons, PS button or not; all modes, 2 old buffers | hat and fields are right |
| `UsbRequest_All` | 2 senders, 3 requests | no use after deletion, no silent leak, buffers balanced |

Why the bounds suffice. The bring-up has at most one conversation message under
way, and resets are only sent by power callbacks, so a queue of two is where a
reset meets the conversation; the versions lie around the boundary at 3. Each
wrong step on the bus takes at most two callbacks on one child plus one old
entry of the same device; two devices with two handles suffice for a handle to
pass from one to the other, and four blocks for the two of an old entry and the
two of a new one. Three configurations are the first, one that lacks a pipe and
one after that; the pipes of a configuration are any set.
One unread event is enough: the radio queues the next one between any two stages
of the reader's work on the last. With two channel ids the counter starts over at the second connection, or when a
channel is reopened. `Ds3Link_Unique` has as many ids as two devices have channels,
so that a free one is left whenever one is asked for; with the 65471 ids of the code
the same takes some thirty thousand connections of one device while another stays. Two requests suffice for one to overtake the other, and
three reports for the second half of one to meet the first half of the next.
Each button bit is set alone in one of the patterns, and the d-pad
takes all its values.

`CHECK_DEADLOCK FALSE` stands where the system may really stop: a controller that
is up, or requests that are all used, and in runs that look for one violation.

The violated properties are quotations: the comment or trace above each says what
the source promises, and the run shows how the code breaks it.

Seen while modelling, and not kept as runs of their own:

- the lookup by handle gives up at the first child whose PDO has not been created
  (WireBus.c:786), so that packets of another, connected child are dropped;
- writing back a copy reports a child again that was marked missing meanwhile
  (WireBus.c:849);
- a D0Entry that fails half-way leaves the targets it had started running
  (Device.c:365), until the framework removes the device;
- a connection request read between the scan and the stop of D0Exit leaves a
  child (Device.c:395);
- the test for missing pipes finds the handles of an earlier configuration
  (Device.c:282);
- the timer of a child may write to a deleted pipe while the device is restarted
  (WireBus.c:1008);
- `Started` survives a power cycle, so that the reset of the next D0Entry starts no
  conversation (Interrupt.c:162): the controller is not set up again and stays
  invisible, while `Initialized` is still set;
- the output report timer may fire when the type of a child is known and its
  output report buffer is not there yet (WireBus.c:1008);
- a DualShock 3 that gives itself the name of another type keeps the pointer to its
  freed output report (WireBus.c:937), which is freed once more later on;
- results of pool allocations and of updates of a description are not tested
  (WireBus.c:911, 937);
- the Configuration Response says 6 bytes and carries 10 (L2CAP.c:142);
- the identifier of the driver's own requests is one byte for all devices and
  wraps to 0 (Bulkrwr.c:204, Ds3.c:110);
- the local name and the inquiry response are sent with uninitialised bytes after
  the text (HCI.c:245, 262);
- a Configuration Response counts as agreement whatever its Result (Ds3.c:249);
- the flags of a channel are kept when it is closed (Ds3.c:376);
- if the counter of ids starts over and both channels of a device get the same id,
  the answer for one channel counts for both, and the device is enabled too early
  (Ds3.c:281);
- HID data may go to a channel that is not HID when its id was left uninitialised
  (Ds3.c:40);
- a feature request that the driver does not know succeeds (WireBus.c:568);
- in single mode 20 of the 49 bytes that the descriptor describes are written
  (Ds3.c:495).

The properties state what holds when these do not interfere, and name the
exception in their antecedent or, for `HidAddressed`, in the instance: the property
and its theorem are about devices that open HID channels only.

## Fairness

- `HciBringUp`: the controller answers each command, the continuous reader keeps
  a read posted while its target is started, and a power callback that has begun
  returns. No power transition is ever forced.
- `DevicePnp`: the framework calls back when a read has failed.
- `WireBus`: the interrupt reader handles the events that have come in, and the
  framework creates the PDOs of reported children. No link is forced to come or
  go.
- `Ds3Link`: the reader keeps handling packets; the device handles what it
  receives, opens both its channels and configures them; a link for which
  HCI_Disconnect was sent goes down. No device is forced to connect or leave,
  and the timer need not expire. A device for which a send has failed is excused
  (`failed`): the driver sends nothing again.
- `HidIo`: a dispatch routine and the reader's handler run to their end, and the
  framework completes a removal. Nobody is forced to send a request, nor does
  any report have to arrive: a read may wait as long as the child is there.
- `UsbRequest` has no liveness property and assumes no fairness.

All of it is weak fairness: none of these actors can be disabled again and again
by others.

## Proofs

`HciBringUp_proofs` proves, for any sets of versions and refusals, any faults
and any bound of the queues:

- `TypeCorrect`: `Spec => []TypeOK`.
- `ConversationCorrect`: `Spec => [](OneConversation /\ IdleUnlessStarted)`, and
  from it `IdleCorrect`.
- `GivenUpCorrect`: `Spec => []SspGivenUpForGood`.
- `UnsupportedCorrect`: `Spec => []UnsupportedNeverInitialized`.
- `StallCorrect`: `Spec => []StallsOnlyOnFault`.
- `FirstTimeCorrect`: `Spec => [](ScanOnlyWhenConfigured /\ InitializedMeansVisible)`,
  and from it `VisibleCorrect`.

The conversation's invariant is not inductive in the form that is checked: that
two positions of a sequence hold nothing but resets says little about what is
left when its head is taken. The proof counts instead of comparing positions.
Its lemmas say what appending a message to a queue and taking the first one
away do to the positions of conversation messages; each action of the reader
takes one conversation message and appends at most one, so the invariant
carries over, and the two actions that change `Started` are where `Started` and
the absence of a conversation have to agree: `ResetComplete` opens a
conversation only when there is none, by `IdleUnlessStarted`;
`VersionUnsupported` has just taken the last message of it. Power callbacks add
resets only, and a loss of events takes away only.

The other two theorems say which commands may be under way. `GivenUpInv`: once
`DisableSSP` is set, only plain commands (resets, the three reads and
Write_Scan_Enable) are; it needs `OneConversation`, since the refusal that sets the flag has
to have been the only message. `TooOldInv`: on an unsupported controller only
the commands before the version test are. Both use the lemmas `AnswerWithin` to
`PowerWithin`, which say for any set of commands that a step of the queues which
adds none from outside the set keeps the queues within it.

`StallInv` says why a conversation that has not come to its end is still under
way without a fault: a refusal among the events is one that somebody answers,
and a started driver that is not initialised has a message of the conversation
in one of the queues. `FirstInv` holds until the first power cycle: there is at
most one message at all, and a command that is under way tells what has been
accepted before it (`Ready`), up to Write_Scan_Enable, which comes last.

`DevicePnp_proofs` proves, for any layouts of pipes and any number of
configurations:

- `TypeCorrect`: `Spec => []TypeOK`.
- `HandlesCorrect`: `Spec => [](OneTarget /\ HandlesCurrent)`.
- `StaleHandles`: `Spec => StaleOnlyOnRestart`.

`PnpInv` adds to them what holds inside PrepareHardware (`Between`): as long as no
pipe was lost, a pipe that is not found in the new configuration has no handle
from an old one, so that all handles are current once the test has passed; and a
stopped device keeps its current handles until the next configuration. `OneTarget` is proved only: it says that restarts make no second USB target.

`WireBus_proofs` proves, for any number of devices and any of their types, any
handles, entries, pool blocks and bounds of the queues:

- `TypeCorrect`: `Spec => []TypeOK`, whatever can go wrong.
- `ShapeCorrect`: `Spec => []Shape`, whatever can go wrong: a device has at most one
  present child, the list order names each present child once, and entries,
  names and PDOs fit together.
- `CleanCorrect`: `Spec => [](Clean => Safe)`, the invariant the others rest on.
- `BugcheckCorrect`: `Spec => []NoBugcheck`.
- `PoolCorrect`: `Spec => []PoolExact`.
- `BusCorrect`: `Spec => ImplementsBus`, that is `Spec => B!Spec`.
- `UsableCorrect`: `Spec => []B!OpenIsUsable`, a child whose channels are open has a
  handle, a queue and a timer.

The last one is proved of the abstract bus (`BusUsable`), whose actions set one
member each, and reaches the copies of `WireBus` through `BusCorrect`.

`Safe` says of a clean behaviour what the code relies on and nowhere states.
`Apart`: no two callbacks are at work on one child. `Current`: the copy a callback
holds is the description as it is in the list (for the bulk reader, but for the
channels it has just found open), so that writing it back loses nothing.
`Complete`: what belongs together in a description is there together, the queue
and the timer with the PDO, the type with the name, the output report with the
type, the channels with the handle. `PoolOK`: the allocated blocks are those the
descriptions point to, each from one place, less the one the interrupt reader
has freed and will replace. They need one another: that a write-back does not
bring back a freed block is `Current`, which is kept because nobody else is at
work (`Apart`), which `Clean'` gives when a callback begins (`NobodyThere`). Since
`Clean` is a history, the induction is over `Clean => Safe`, and each step may
assume `Clean'`.

Each effect on the list has one lemma for `Safe`: an entry is written, comes, is
freed, is dropped, all are dropped. The refinement has the same shape:
`Kids(entries)` is the child map of `Bus`, and each step leaves it alone, removes
children (`Going`), adds one zeroed child (`Coming`) or sets members of one
(`Sets`); a lemma for each says which action of `Bus` that is. The step that
makes a behaviour unclean is `Break` of `Bus`. `MarkMissing`, `EmptyScan` and
`Child` are operators of `WireBus` because these lemmas are about them.

`WireBusLinks_proofs` proves, with the same generality, that the children follow
the links:

- `LinksCorrect`: `Spec => [](HostOK /\ (Clean => LinksOK))`, besides the
  invariants above.
- `UniqueCorrect`: `Spec => []HandlesUnique`.
- `KnownCorrect`: `Spec => []HandleKnown`.
- `GhostCorrect`: `Spec => []NoGhost`.

None of the three is inductive: a link that is up says nothing of a child as long
as its events are queued, and the same device or the same handle may be in
several queued events. `Line` is what the child list does not show yet: the
connection event the reader is working on, and after it the queue. The entries
are as old as place 0 of the line, the links as its end. `LinksOK` says how the
two fit: a handle that a child holds, or gets at some place, is dropped at a
later place before the device or the handle is used again (`Between`), and dropped
at all if the link is gone by now (`Ending`); a device that is back has requested
it after the drop (`Return`); each request is followed by the handle the link has
now, or by a failure (`Asked`, `Answered`); the handle of a link that is up is in
the child or on its way (`Known`); an accepted device has a child or a request in
the line (`Reported`); a child without a link has in the line the event that will
end that, or is excused (`Ghosts`). Once nothing about a device is waiting
(`SettledLine`), the three properties are what is left of `Unique`, `Known` with
`Reported`, and `Ghosts`. When the controller is reset its queue is lost, and
`Left` and `HostOK` take over: the children still present are those reported inside
D0Exit, and a host controller that nobody finds has no links.

Every step adds to the line (`RequestAdded` to `DropAdded`, `OtherAdded`), uses up
its first event (`FailureHandled` to `RequestHandled`), or leaves it alone while
children go (`FewerKids`). These lemmas are about entries, sequences and functions
alone; the lemmas `...Links` show which of them an action is an instance of. `LinksInv`
is found wrong easily: TLC refuted several earlier forms of it on two devices
and two handles in runs of a few seconds.

`Ds3Link_proofs` proves, for any number of devices, any channel ids on either
side and any bound of the queue:

- `TypeCorrect`: `Spec => []TypeOK`, whatever can go wrong.
- `AgreementCorrect`: `Spec => []ChannelsAgree`, whatever can go wrong.
- `AddressedCorrect`: `Spec => []HidAddressed`, if devices open no channel that is
  not HID (`"other" \notin Quirks`): an id from the stack may be 0, and then an
  answer seems to be about a handle that was never assigned.
- `EnabledCorrect`: `Spec => [](~wrapped => EnabledWhenReady)`, if devices reject
  nothing and open nothing else and nothing twice. With two devices and ids that
  start over the unconditional form fails, as TLC shows in twelve steps.
- `UnderstoodCorrect`: `Spec => []UnderstoodAsMeant`, the property of `Ds3Wire`,
  whatever can go wrong, for any set of 12-bit handles and identifiers and any
  placement of the ids in 0x40..0xFFFF (`WireAssumption`).

That both sides agree on an open channel is not inductive: what makes it true
is on the way between them. `Agreed` follows a channel through its life: while
the device waits there is one request or one positive answer, never both, and
the answer carries the ids that the driver stored when it sent it; no message of
either kind is left once the device has stopped waiting, so that nothing can
change the driver's view of an open channel. `Addressed` adds that a handle other than 0
comes with the device's id of that channel, and that no answer names 0;
`Founded`, that each answer on the way and each flag the driver has set stands
for a channel the device agreed to. It rests on `Distinct`, the ids being different until the counter starts
over: an answer must be about one channel. The handlers have one effect lemma each (`ConnectionRequestStep`
to `RemoteReceiveStep`), cited by all the proofs; `AgreedHandled` to `AgreedTaken`
say what each kind of step does to `Agreed`, about queues and records only.

`UnderstoodAsMeant` needs nothing of the state but its types: the builders and the
structures of L2CAP.h agree on every message there can be, not only on those of
the handshake's runs. `WordFacts` takes a word apart and puts it together again,
`CidOnAir` says that an id on the air is never that of the signalling channel and
reads back as itself, `FrameFacts` and `SignalRead` what a frame holds in terms of
its body, and one lemma per message (`ConnectionResponseRead` to `NoiseRead`)
follows it from the builder's bytes to the reader's record. The innermost length
of the Configuration Response stays excepted, as in the property.

`HidIo_proofs` proves, for any number of requests and reports, each type of child
and both modes:

- `TypeCorrect`: `Spec => []TypeOK`.
- `OwnershipCorrect`: `Spec => [](CompletedOnce /\ NotTouchedAfterwards)`.
- `OrderCorrect`: `Spec => [](ReadsInOrder /\ NoOvertaking)`, and from it
  `OvertakingCorrect`.

`OwnedInv` ties the owner of a request to the step of its routine, to its places
in the queue (none or one) and to the number of tickets handed out, so that
each queue operation has one effect on one request. `OrderInv` orders all reads
on one line: answered ones, the one the reader holds, the queue in its order;
the report and the id that the reader will deliver next are later than those of
every answered read. Cancelling takes a request out of the middle of the queue:
`WithoutFacts` says that the others keep their order.

`HidReport_proofs` proves, for every input report and whatever a read buffer
holds:

- `ConversionCorrect`: `Spec => []ReportInv`.
- `HatCorrect`: `Spec => []HatShowsDPad`.
- `FieldsCorrect`: `Spec => []FieldsShowInput`.

`ReportInv` says which byte of the last input each byte of the buffer holds, in
the words of the conversions; the properties speak of bits of descriptors. Between
them stands `StartsUnique`: any table that begins at bit 8 and adds up the sizes
is where the fields begin. It is an induction over an arbitrary descriptor. The
library's induction theorems take an operator and cannot be used here; the proof
takes the least field with a wrong place instead, which exists because `<` is well
founded on the naturals (`LeastExists`), and the recursive function satisfies its
own equation because the table does. `PadLike` then describes the two game pad
descriptors by one table of sizes, and `GamePadFieldShown` compares each field
with its source, bit by bit where a byte is shared (`HatInByte`, `FaceBits`,
`OtherBits`). The run evaluates the same properties on the reports of one model of
the controller; the theorems leave nothing of the report fixed but its id.

`UsbRequest_proofs` proves, for any number of senders and requests:

- `RequestTypes`: `Spec => []TypeOK`.
- `NoUseAfterDelete`: `Spec => []NeverUsedDeleted`.
- `LeaksAreReported`: `Spec => []NoSilentLeak`.
- `BuffersCorrect`: `Spec => []BuffersBalanced`.

None of them is inductive: that the sender may ask a request for its status
depends on who owns the request at that point of the call. `RequestInv` says it
for each step: a sender holds at most one request and shares it with nobody; the
request is the driver's own until the target accepts it, and then sent or
deleted; whatever is owned is held by a sender or has been reported as an error.
The completion routine touches only what was sent, so that it disturbs no sender
before the send, and after an accepted send no sender looks at the request. The
lemmas `GotoEffect` and `FailEffect` say once what a step does to the record of
its sender; one lemma per action then shows each conjunct preserved.

Only model-checked:

- all liveness properties (`EventuallyInitialized`, `KeepsReading`,
  `ChildFollowsLink`, `EventuallyStreaming`, `ClosingEndsLink`, `NoneLeftBehind`):
  fairness and ENABLED are beyond the prover.

Every invariant and every action property of a passing run is proved.

No module uses RECURSIVE operators.

## Not modelled

- Pairing and the remaining HCI events (Interrupt.c:760-1009): logged or
  answered without state.
- The radio's default queue (Queue.c): fails every request at once.
- DriverEntry, AddDevice, tracing, INF files: no run-time state.
- Byte layouts of the HCI commands other than HCI_Disconnect: constants and a
  copied address.
- A failing allocation of HID_Command's buffer: the next line writes to it.
- The DualShock 4, Navigation and Motion controllers beyond what the code does
  with them, which is to store their type and reject their reports.

## Plan

Done, in this order: `HciBringUp`, `WireBus`, `Ds3Link`, `HidIo`, `HidReport`,
`UsbRequest`, `DevicePnp`, `Bus` and the refinement, `Ds3Wire`, and the proofs above.

What would come next:

- `BusLink`: the handshake of `Ds3Link` over the shared description of `WireBus`,
  for what a lost update does to the channel ids.
