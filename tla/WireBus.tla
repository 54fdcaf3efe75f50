------------------------------- MODULE WireBus -------------------------------
(***************************************************************************)
(* The child list of the bus driver and everybody who reads, changes and   *)
(* writes back the descriptions in it (sys/WireBus.c, sys/Interrupt.c,     *)
(* sys/Bulkrwr.c).                                                         *)
(*                                                                         *)
(* A child's address description is the only state its driver parts share: *)
(* the interrupt pipe reader, the bulk pipe reader, the creation of the    *)
(* child's PDO and the PDO's output report timer.  Each of them retrieves  *)
(* a copy, changes it and writes it back; nothing locks a description in   *)
(* between.                                                                *)
(***************************************************************************)
EXTENDS Naturals, Sequences, FiniteSets, SequencesExt

CONSTANTS
    Devices,         \* addresses (BD_ADDR) of remote devices
    TypesOf,         \* the types that the names of a device tell; none: a
                     \* request for its name fails; "NONE": an unknown letter
    Handles,         \* connection handles the controller assigns
    MaxEntries,      \* entries of the child list, the missing ones included
    PoolSize,        \* pool blocks that can be allocated at a time
    MaxEvents,       \* unread HCI events
    MaxPackets,      \* unread ACL packets
    PowerDown        \* may the host controller leave D0?

Nobody == "nobody"   \* no device
NoHandle == "00:00"  \* the handle in a zeroed description
Null == 0            \* a null pointer
Pool == 1..PoolSize  \* pool blocks
Types == {"NONE", "PS3_DUALSHOCK", "PS3_NAVIGATION", "PS3_MOTION",
          "PS4_DUALSHOCK"}

ASSUME DevicesAssumption == IsFiniteSet(Devices) /\ Nobody \notin Devices
ASSUME TypesOfAssumption == TypesOf \in [Devices -> SUBSET Types]
ASSUME HandlesAssumption == NoHandle \notin Handles
ASSUME MaxEntriesAssumption == MaxEntries \in Nat \ {0}
ASSUME PoolSizeAssumption == PoolSize \in Nat
ASSUME QueueAssumption == MaxEvents \in Nat \ {0} /\ MaxPackets \in Nat \ {0}
ASSUME PowerDownAssumption == PowerDown \in BOOLEAN

VARIABLES
    entries,         \* the child list: entry id -> entry, or Free
    order,           \* ids of the present entries in list order
    live,            \* pool blocks that are allocated
    link,            \* state of the link to each device, in the controller
    handleOf,        \* the handle of each link that is up
    naming,          \* devices whose name has been asked for
    events,          \* HCI events the interrupt reader has not handled
    packets,         \* ACL packets the bulk reader has not handled
    intr, bulk,      \* the callbacks of the two readers
    pnp,             \* the creation of a child PDO
    timers,          \* the output report timer callback of each PDO
    power,           \* "D0", "Exiting" (inside D0Exit), "D3", "Removed"
    visible,         \* do devices find the host controller?
    bugcheck,        \* what brought the machine down, or "none"
    overlapped,      \* history: did callbacks overlap on one child?
    cutShort,        \* history: did a lookup by handle stop too early?
    starved,         \* history: did an allocation or an update fail?
    renamed,         \* history: did a child's name tell another type?
    abandoned,       \* history: devices whose connection attempt failed,
    late,            \* whose request was handled inside D0Exit,
    uncreated        \* whose child or its PDO could not be created

bus == <<entries, order, live>>
radio == <<link, handleOf, naming>>
host == <<power, visible>>
excuses == <<starved, renamed, abandoned, late, uncreated>>
history == <<overlapped, cutShort, excuses>>
vars == <<bus, radio, events, packets, intr, bulk, pnp, timers, host,
          bugcheck, history>>

Ids == 1..MaxEntries

\* BTH_DEVICE: handle, name and output report buffer; objs is the entry
\* whose PDO the queue and the timer belong to (0: none yet); open tells
\* whether the HID channels are established.
Descs == [handle : Handles \cup {NoHandle}, name : Pool \cup {Null},
          type : Types, buffer : Pool \cup {Null}, objs : 0..MaxEntries,
          open : BOOLEAN]
Zeroed == [handle |-> NoHandle, name |-> Null, type |-> "NONE",
           buffer |-> Null, objs |-> 0, open |-> FALSE]

\* An entry: pdo is "none" until the creation has returned ("created");
\* ticking tells whether the PDO's timer has been started.
Entries == [addr : Devices \cup {Nobody}, present : BOOLEAN,
            pdo : {"none", "created"}, desc : Descs, ticking : BOOLEAN]
Free == [addr |-> Nobody, present |-> FALSE, pdo |-> "none", desc |-> Zeroed,
         ticking |-> FALSE]

EventSet ==
    [type : {"ConnectionRequest", "ConnectionFailed"}, addr : Devices]
    \cup [type : {"ConnectionComplete"}, addr : Devices, handle : Handles]
    \cup [type : {"DisconnectionComplete"}, handle : Handles]
    \cup [type : {"RemoteName"}, addr : Devices]

Packets == [handle : Handles, type : {"signal", "report"}]

\* What the interrupt reader still has to do about the event it handles: one
\* retrieve-change-write sequence per stage.  held: the copy is retrieved.
Stages == {"request", "handle", "name", "type", "report"}
IntrStates == [stages : Seq(Stages), addr : Devices \cup {Nobody},
               handle : Handles \cup {NoHandle}, held : BOOLEAN, snap : Descs]
IntrIdle == [stages |-> <<>>, addr |-> Nobody, handle |-> NoHandle,
             held |-> FALSE, snap |-> Zeroed]

\* What the others are in the middle of, with their copies.
BulkStates == [type : {"none", "signal", "report", "write back"},
               addr : Devices \cup {Nobody}, snap : Descs]
BulkIdle == [type |-> "none", addr |-> Nobody, snap |-> Zeroed]
PnpStates == [id : 0..MaxEntries, snap : Descs]
PnpIdle == [id |-> 0, snap |-> Zeroed]
TimerStates == [busy : BOOLEAN, snap : Descs]
TimerIdle == [busy |-> FALSE, snap |-> Zeroed]

BusTypeOK ==
    /\ entries \in [Ids -> Entries]
    /\ order \in Seq(Ids)
    /\ live \subseteq Pool

RadioTypeOK ==
    /\ link \in [Devices -> {"down", "requested", "accepted", "up"}]
    /\ handleOf \in [Devices -> Handles \cup {NoHandle}]
    /\ naming \subseteq Devices
    /\ events \in Seq(EventSet)
    /\ packets \in Seq(Packets)

CallbackTypeOK ==
    /\ intr \in IntrStates
    /\ bulk \in BulkStates
    /\ pnp \in PnpStates
    /\ timers \in [Ids -> TimerStates]

HostTypeOK ==
    /\ power \in {"D0", "Exiting", "D3", "Removed"}
    /\ visible \in BOOLEAN
    /\ bugcheck \in {"none", "null pointer", "freed memory", "freed twice"}
    /\ overlapped \in BOOLEAN
    /\ cutShort \in BOOLEAN
    /\ starved \in BOOLEAN
    /\ renamed \in BOOLEAN
    /\ abandoned \cup late \cup uncreated \subseteq Devices

TypeOK == BusTypeOK /\ RadioTypeOK /\ CallbackTypeOK /\ HostTypeOK

Init ==
    /\ entries = [i \in Ids |-> Free]
    /\ order = <<>>
    /\ live = {}
    /\ link = [a \in Devices |-> "down"]
    /\ handleOf = [a \in Devices |-> NoHandle]
    /\ naming = {}
    /\ events = <<>>
    /\ packets = <<>>
    /\ intr = IntrIdle
    /\ bulk = BulkIdle
    /\ pnp = PnpIdle
    /\ timers = [i \in Ids |-> TimerIdle]
    /\ power = "D0"
    /\ bugcheck = "none"
    /\ overlapped = FALSE
    /\ cutShort = FALSE
    /\ visible = TRUE
    /\ starved = FALSE
    /\ renamed = FALSE
    /\ abandoned = {}
    /\ late = {}
    /\ uncreated = {}

-----------------------------------------------------------------------------
(* The child list of the framework, as this driver uses it.                *)

PresentIds(a) == {i \in Ids : entries[i].present /\ entries[i].addr = a}
IsPresent(a) == PresentIds(a) # {}
IdOf(a) == CHOOSE i \in PresentIds(a) : TRUE
DescOf(a) == entries[IdOf(a)].desc

\* WdfChildListAddOrUpdateChildDescriptionAsPresent.
AddOrUpdate(a, d) ==
    IF IsPresent(a)
    THEN /\ entries' = [entries EXCEPT ![IdOf(a)].desc = d]
         /\ UNCHANGED order
    ELSE \E i \in Ids :
         /\ entries[i] = Free
         /\ \A j \in Ids : j < i => entries[j] # Free
         /\ entries' = [entries EXCEPT ![i] =
                [addr |-> a, present |-> TRUE, pdo |-> "none", desc |-> d,
                 ticking |-> FALSE]]
         /\ order' = Append(order, i)

\* WdfChildListUpdateChildDescriptionAsMissing.
MarkMissing(i) ==
    /\ entries' = [entries EXCEPT ![i].present = FALSE]
    /\ order' = RemoveFirst(order, i)

\* A scan of the child list that reports nothing.
EmptyScan ==
    /\ entries' = [i \in Ids |-> [entries[i] EXCEPT !.present = FALSE]]
    /\ order' = <<>>

\* WireBusGetPdoAddressDescriptionByHandle iterates over the present
\* children in list order, up to the first whose PDO is not created yet.
Reachable == {i \in DOMAIN order :
                 \A j \in 1..i : entries[order[j]].pdo = "created"}
Matches(h) == {i \in DOMAIN order : entries[order[i]].desc.handle = h}
FoundByHandle(h) == Matches(h) \cap Reachable # {}
ByHandle(h) ==
    order[CHOOSE i \in Matches(h) \cap Reachable :
             \A j \in Matches(h) \cap Reachable : i <= j]
LookupCutShort(h) == ~FoundByHandle(h) /\ Matches(h) # {}

-----------------------------------------------------------------------------
(* Who is in the middle of something.                                      *)

IntrBusy == intr.stages # <<>>
BulkBusy == bulk.type # "none"
PnpBusy == pnp.id # 0

Busy(a) ==
    \/ IntrBusy /\ intr.addr = a
    \/ BulkBusy /\ bulk.addr = a
    \/ PnpBusy /\ entries[pnp.id].addr = a
    \/ \E i \in Ids : timers[i].busy /\ entries[i].addr = a

\* A callback begins to work on the children as.
Begin(as) == overlapped' = (overlapped \/ \E a \in as : Busy(a))

\* After a bugcheck nothing runs any more.
Running == bugcheck = "none"

-----------------------------------------------------------------------------
(* Pool blocks.                                                            *)

Pointers(d) == {d.name, d.buffer} \ {Null}
Referenced ==
    UNION {Pointers(entries[i].desc) : i \in Ids}
    \cup Pointers(intr.snap) \cup Pointers(bulk.snap) \cup Pointers(pnp.snap)
    \cup UNION {Pointers(timers[i].snap) : i \in Ids}

\* Blocks that nothing points to: what is freed is not handed out again
\* while somebody holds a pointer to it, so that such a use is noticed.
Fresh == Pool \ (live \cup Referenced)

\* ExFreePoolWithTag of the non-null pointers among ps.
FreePool(ps) ==
    LET blocks == ps \ {Null} IN
    /\ live' = live \ blocks
    /\ bugcheck' = IF blocks \subseteq live THEN bugcheck ELSE "freed twice"

-----------------------------------------------------------------------------
(* The radio: links come and go, their events and packets are queued.      *)

RoomForEvent == Len(events) < MaxEvents
FreeHandles == Handles \ {handleOf[a] : a \in Devices}

RequestLink(a) ==
    /\ Running /\ power \in {"D0", "Exiting"} /\ visible
    /\ link[a] = "down" /\ RoomForEvent
    /\ link' = [link EXCEPT ![a] = "requested"]
    /\ events' = Append(events, [type |-> "ConnectionRequest", addr |-> a])
    /\ UNCHANGED <<bus, handleOf, naming, packets, intr, bulk, pnp, timers,
                   host, bugcheck, history>>

LinkUp(a) ==
    /\ Running /\ link[a] = "accepted" /\ RoomForEvent
    /\ \E h \in FreeHandles :
        /\ handleOf' = [handleOf EXCEPT ![a] = h]
        /\ events' = Append(events, [type |-> "ConnectionComplete",
                                     addr |-> a, handle |-> h])
    /\ link' = [link EXCEPT ![a] = "up"]
    /\ UNCHANGED <<bus, naming, packets, intr, bulk, pnp, timers, host,
                   bugcheck, history>>

LinkFails(a) ==
    /\ Running /\ link[a] \in {"requested", "accepted"} /\ RoomForEvent
    /\ link' = [link EXCEPT ![a] = "down"]
    /\ events' = Append(events, [type |-> "ConnectionFailed", addr |-> a])
    /\ UNCHANGED <<bus, handleOf, naming, packets, intr, bulk, pnp, timers,
                   host, bugcheck, history>>

LinkDown(a) ==
    /\ Running /\ link[a] = "up" /\ RoomForEvent
    /\ link' = [link EXCEPT ![a] = "down"]
    /\ handleOf' = [handleOf EXCEPT ![a] = NoHandle]
    /\ naming' = naming \ {a}
    /\ events' = Append(events, [type |-> "DisconnectionComplete",
                                 handle |-> handleOf[a]])
    /\ uncreated' = uncreated \ {a}
    /\ UNCHANGED <<bus, packets, intr, bulk, pnp, timers, host, bugcheck,
                   overlapped, cutShort, starved, renamed, abandoned, late>>

NameAnswer(a) ==
    /\ Running /\ a \in naming /\ TypesOf[a] # {} /\ RoomForEvent
    /\ naming' = naming \ {a}
    /\ events' = Append(events, [type |-> "RemoteName", addr |-> a])
    /\ UNCHANGED <<bus, link, handleOf, packets, intr, bulk, pnp, timers,
                   host, bugcheck, history>>

\* "signal" stands for the L2CAP exchange that completes the channels,
\* "report" for a HID input report (Ds3Link models the exchange).
SendPacket(a, type) ==
    /\ Running /\ link[a] = "up" /\ Len(packets) < MaxPackets
    /\ packets' = Append(packets, [handle |-> handleOf[a], type |-> type])
    /\ UNCHANGED <<bus, radio, events, intr, bulk, pnp, timers, host, bugcheck,
                   history>>

Radio == \E a \in Devices :
    \/ RequestLink(a)
    \/ LinkUp(a)
    \/ LinkFails(a)
    \/ LinkDown(a)
    \/ NameAnswer(a)
    \/ \E type \in {"signal", "report"} : SendPacket(a, type)

-----------------------------------------------------------------------------
(* WireShockEvtUsbInterruptPipeReadComplete: the connection events.        *)

Reading == Running /\ power \in {"D0", "Exiting"}

Take(type) ==
    /\ Reading /\ ~IntrBusy
    /\ events # <<>> /\ Head(events).type = type
    /\ events' = Tail(events)

\* The reader has stages to go through for child a.
Handle(a, stages, h) ==
    /\ Begin({a})
    /\ intr' = [IntrIdle EXCEPT !.stages = stages, !.addr = a, !.handle = h]
    /\ UNCHANGED <<bus, radio, packets, bulk, pnp, timers, host, bugcheck,
                   cutShort>>

ConnectionRequest ==
    LET a == Head(events).addr IN
    /\ Take("ConnectionRequest")
    /\ Handle(a, <<"request">>, NoHandle)
    /\ abandoned' = abandoned \ {a}
    /\ uncreated' = uncreated \ {a}
    /\ UNCHANGED <<starved, renamed, late>>

ConnectionComplete ==
    LET e == Head(events) IN
    /\ Take("ConnectionComplete")
    /\ Handle(e.addr, <<"handle">>, e.handle)
    /\ UNCHANGED excuses

\* The letter the name starts with decides on the type; an unknown letter
\* leaves the type alone.
RemoteNameComplete ==
    LET a == Head(events).addr IN
    /\ Take("RemoteName")
    /\ \E t \in TypesOf[a] :
        Handle(a, IF t = "NONE" THEN <<"name", "report">>
                  ELSE <<"name", "type", "report">>, NoHandle)
    /\ UNCHANGED excuses

\* A failed Connection Complete is only logged.
ConnectionFailed ==
    /\ Take("ConnectionFailed")
    /\ abandoned' = abandoned \cup {a \in {Head(events).addr} : IsPresent(a)}
    /\ UNCHANGED <<bus, radio, packets, intr, bulk, pnp, timers, host,
                   bugcheck, overlapped, cutShort, starved, renamed, late,
                   uncreated>>

\* Mutant of DisconnectionComplete: the event is only logged.
DisconnectionComplete_Logged ==
    /\ Take("DisconnectionComplete")
    /\ cutShort' = (cutShort \/ LookupCutShort(Head(events).handle))
    /\ UNCHANGED <<bus, radio, packets, intr, bulk, pnp, timers, host,
                   bugcheck, overlapped, excuses>>

DisconnectionComplete ==
    LET h == Head(events).handle IN
    /\ Take("DisconnectionComplete")
    /\ IF FoundByHandle(h)
       THEN /\ Begin({entries[ByHandle(h)].addr})
            /\ MarkMissing(ByHandle(h))
       ELSE UNCHANGED <<entries, order, overlapped>>
    /\ cutShort' = (cutShort \/ LookupCutShort(h))
    /\ UNCHANGED <<live, radio, packets, intr, bulk, pnp, timers, host,
                   bugcheck, excuses>>

Stage == Head(intr.stages)
NextStage ==
    IF Tail(intr.stages) = <<>> THEN IntrIdle
    ELSE [intr EXCEPT !.stages = Tail(@), !.held = FALSE, !.snap = Zeroed]

\* Connection Complete is followed by a name request, Connection Request by
\* Delete_Stored_Link_Key and Accept_Connection_Request (sent: all of them
\* could be submitted).
Commands(sent) ==
    /\ naming' = IF Stage = "handle" /\ sent THEN naming \cup {intr.addr}
                 ELSE naming
    /\ link' = IF Stage = "request" /\ link[intr.addr] = "requested" /\ sent
               THEN [link EXCEPT ![intr.addr] = "accepted"] ELSE link

\* Every stage but "request" is given up when the child is not present.
IntrSkip ==
    /\ Running /\ IntrBusy /\ ~intr.held
    /\ Stage # "request" /\ ~IsPresent(intr.addr)
    /\ intr' = NextStage
    /\ \E sent \in BOOLEAN : Commands(sent)
    /\ UNCHANGED <<bus, handleOf, events, packets, bulk, pnp, timers, host,
                   bugcheck, history>>

\* The copy is retrieved; the block that will be replaced is freed.
IntrRetrieve ==
    LET d == IF IsPresent(intr.addr) THEN DescOf(intr.addr) ELSE Zeroed IN
    /\ Running /\ IntrBusy /\ ~intr.held
    /\ Stage = "request" \/ IsPresent(intr.addr)
    /\ intr' = [intr EXCEPT !.held = TRUE, !.snap = d]
    /\ FreePool(CASE Stage = "name" -> {d.name}
                  [] Stage = "report" -> {d.buffer}
                  [] OTHER -> {})
    /\ UNCHANGED <<entries, order, radio, events, packets, bulk, pnp, timers,
                   host, history>>

\* Only a DualShock 3 gets an output report.
Allocates == \/ Stage = "name"
             \/ Stage = "report" /\ intr.snap.type = "PS3_DUALSHOCK"

\* The types that the letter in the reader's buffer may stand for.
Told == IF Stage = "type" THEN TypesOf[intr.addr] \ {"NONE"} ELSE {"NONE"}

\* Mutant of Changed: the handle is not stored.
Changed_NoHandle(d, b, t) ==
    CASE Stage \in {"request", "handle"} -> d
      [] Stage = "name" -> [d EXCEPT !.name = b]
      [] Stage = "type" -> [d EXCEPT !.type = t]
      [] Stage = "report" -> IF Allocates THEN [d EXCEPT !.buffer = b] ELSE d

\* The changed copy, b being a new block and t the type told.
Changed(d, b, t) ==
    CASE Stage = "request" -> d
      [] Stage = "handle" -> [d EXCEPT !.handle = intr.handle]
      [] Stage = "name" -> [d EXCEPT !.name = b]
      [] Stage = "type" -> [d EXCEPT !.type = t]
      [] Stage = "report" -> IF Allocates THEN [d EXCEPT !.buffer = b] ELSE d

\* A child gets a type although it has another one.
Renames(t) == Stage = "type" /\ intr.snap.type \notin {"NONE", t}

\* A child that is no DualShock 3 any more keeps the pointer to the output
\* report that IntrRetrieve freed.
IntrWrite ==
    /\ Running /\ IntrBusy /\ intr.held
    /\ \E t \in Told :
        /\ IF Allocates
           THEN LET b == Min(Fresh) IN
                /\ Fresh # {}
                /\ live' = live \cup {b}
                /\ AddOrUpdate(intr.addr, Changed(intr.snap, b, t))
           ELSE /\ AddOrUpdate(intr.addr, Changed(intr.snap, Null, t))
                /\ UNCHANGED live
        /\ renamed' = (renamed \/ Renames(t))
    /\ \E sent \in BOOLEAN : Commands(sent)
    /\ intr' = NextStage
    /\ late' = IF Stage = "request" /\ power = "Exiting"
               THEN late \cup {intr.addr} ELSE late
    /\ UNCHANGED <<handleOf, events, packets, bulk, pnp, timers, host, bugcheck,
                   overlapped, cutShort, starved, abandoned, uncreated>>

\* The update fails.  A connection request is then not answered; in every
\* other stage the failure is ignored, and with it the block just allocated.
IntrWriteFails ==
    /\ Running /\ IntrBusy /\ intr.held
    /\ IF Stage = "request" THEN UNCHANGED <<naming, link>>
       ELSE \E sent \in BOOLEAN : Commands(sent)
    /\ live' = IF Allocates /\ Fresh # {} THEN live \cup {Min(Fresh)} ELSE live
    /\ starved' = (starved \/ Stage # "request")
    /\ uncreated' = IF Stage = "request" THEN uncreated \cup {intr.addr}
                    ELSE uncreated
    /\ intr' = NextStage
    /\ UNCHANGED <<entries, order, handleOf, events, packets, bulk, pnp,
                   timers, host, bugcheck, overlapped, cutShort, renamed,
                   abandoned, late>>

\* The pool is exhausted: what is allocated is written to without a test.
IntrAllocationFails ==
    /\ Running /\ IntrBusy /\ intr.held /\ Allocates
    /\ starved' = TRUE
    /\ bugcheck' = "null pointer"
    /\ UNCHANGED <<bus, radio, events, packets, intr, bulk, pnp, timers, host,
                   overlapped, cutShort, renamed, abandoned, late, uncreated>>

Interrupt ==
    \/ ConnectionRequest
    \/ ConnectionComplete
    \/ ConnectionFailed
    \/ DisconnectionComplete
    \/ RemoteNameComplete
    \/ IntrSkip
    \/ IntrRetrieve
    \/ IntrWrite
    \/ IntrWriteFails
    \/ IntrAllocationFails

-----------------------------------------------------------------------------
(* WireShockEvtUsbBulkReadPipeReadComplete.                                *)

\* The child is looked up by handle and its description copied.
BulkLookup ==
    LET p == Head(packets) IN
    /\ Reading /\ ~BulkBusy /\ packets # <<>>
    /\ FoundByHandle(p.handle)
    /\ Begin({entries[ByHandle(p.handle)].addr})
    /\ packets' = Tail(packets)
    /\ bulk' = [type |-> p.type, addr |-> entries[ByHandle(p.handle)].addr,
                snap |-> entries[ByHandle(p.handle)].desc]
    /\ UNCHANGED <<bus, radio, events, intr, pnp, timers, host, bugcheck,
                   cutShort, excuses>>

\* A packet for which no child is found is dropped.
BulkDrop ==
    LET p == Head(packets) IN
    /\ Reading /\ ~BulkBusy /\ packets # <<>>
    /\ ~FoundByHandle(p.handle)
    /\ packets' = Tail(packets)
    /\ cutShort' = (cutShort \/ LookupCutShort(p.handle))
    /\ UNCHANGED <<bus, radio, events, intr, bulk, pnp, timers, host, bugcheck,
                   overlapped, excuses>>

\* Using the queue or the timer in a copied description.
Use(d) == IF d.objs = 0 THEN "null pointer"
          ELSE IF entries[d.objs] = Free THEN "freed memory" ELSE "none"

\* The channels are complete: the output report timer is started.
BulkSignal ==
    LET objs == bulk.snap.objs IN
    /\ Running /\ bulk.type = "signal"
    /\ bulk' = [bulk EXCEPT !.type = "write back", !.snap.open = TRUE]
    /\ bugcheck' = Use(bulk.snap)
    /\ entries' = IF Use(bulk.snap) = "none"
                  THEN [entries EXCEPT ![objs].ticking = TRUE] ELSE entries
    /\ UNCHANGED <<order, live, radio, events, packets, intr, pnp, timers, host,
                   history>>

\* A report is handed to the oldest read request in the child's queue, unless
\* the controller sent it without contents (valid).
BulkReport(valid) ==
    /\ Running /\ bulk.type = "report"
    /\ bulk' = [bulk EXCEPT !.type = "write back"]
    /\ bugcheck' = IF valid /\ bulk.snap.type = "PS3_DUALSHOCK"
                   THEN Use(bulk.snap) ELSE "none"
    /\ UNCHANGED <<bus, radio, events, packets, intr, pnp, timers, host,
                   history>>

\* Whatever was handled, the copy is written back.  It goes unnoticed if that
\* fails.
BulkWriteBack ==
    /\ Running /\ bulk.type = "write back"
    /\ \/ AddOrUpdate(bulk.addr, bulk.snap) /\ UNCHANGED starved
       \/ starved' = TRUE /\ UNCHANGED <<entries, order>>
    /\ bulk' = BulkIdle
    /\ UNCHANGED <<live, radio, events, packets, intr, pnp, timers, host,
                   bugcheck, overlapped, cutShort, renamed, abandoned, late,
                   uncreated>>

Bulk ==
    \/ BulkLookup
    \/ BulkDrop
    \/ BulkSignal
    \/ \E valid \in BOOLEAN : BulkReport(valid)
    \/ BulkWriteBack

-----------------------------------------------------------------------------
(* The child PDOs.                                                         *)

\* WireShockEvtWdfChildListCreateDevice up to the copy of the description.
\* The framework creates the PDOs one by one, in list order.
PnpBegin(i) ==
    /\ Running /\ ~PnpBusy
    /\ \E n \in DOMAIN order : order[n] = i /\ n - 1 \in Reachable \cup {0}
    /\ entries[i].pdo = "none"
    /\ Begin({entries[i].addr})
    /\ pnp' = [id |-> i, snap |-> entries[i].desc]
    /\ UNCHANGED <<bus, radio, events, packets, intr, bulk, timers, host,
                   bugcheck, cutShort, excuses>>

\* Mutants of PnpEnd: the queue and the timer are not stored in the copy; they
\* are those of the PDO that is created next.
PnpEnd_NotStored ==
    /\ Running /\ PnpBusy
    /\ entries' = [entries EXCEPT ![pnp.id].desc = pnp.snap,
                                  ![pnp.id].pdo = "created"]
    /\ pnp' = PnpIdle
    /\ UNCHANGED <<order, live, radio, events, packets, intr, bulk, timers, host,
                   bugcheck, history>>
PnpEnd_NextOne ==
    /\ Running /\ PnpBusy
    /\ entries' = [entries EXCEPT
           ![pnp.id].desc = [pnp.snap EXCEPT !.objs = pnp.id + 1],
           ![pnp.id].pdo = "created"]
    /\ pnp' = PnpIdle
    /\ UNCHANGED <<order, live, radio, events, packets, intr, bulk, timers, host,
                   bugcheck, history>>

\* Mutant of PnpEnd: the queue and the timer are stored in an empty
\* description.
PnpEnd_NotRetrieved ==
    /\ Running /\ PnpBusy
    /\ entries' = [entries EXCEPT ![pnp.id].desc = [Zeroed EXCEPT !.objs = pnp.id],
                                  ![pnp.id].pdo = "created"]
    /\ pnp' = PnpIdle
    /\ UNCHANGED <<order, live, radio, events, packets, intr, bulk, timers, host,
                   bugcheck, history>>

\* The queue and the timer are created and the copy is written back, to the
\* description of this PDO.
PnpEnd ==
    /\ Running /\ PnpBusy
    /\ entries' = [entries EXCEPT ![pnp.id].desc = [pnp.snap EXCEPT !.objs = pnp.id],
                                  ![pnp.id].pdo = "created"]
    /\ pnp' = PnpIdle
    /\ UNCHANGED <<order, live, radio, events, packets, intr, bulk, timers, host,
                   bugcheck, history>>

\* One of the steps of the creation fails: the framework deletes the PDO and
\* gives up the child.
PnpFails ==
    LET i == pnp.id IN
    /\ Running /\ PnpBusy
    /\ FreePool({entries[i].desc.name, entries[i].desc.buffer})
    /\ entries' = [entries EXCEPT ![i] = Free]
    /\ order' = RemoveFirst(order, i)
    /\ uncreated' = IF link[entries[i].addr] = "down" THEN uncreated
                    ELSE uncreated \cup {entries[i].addr}
    /\ abandoned' = abandoned \ {entries[i].addr}
    /\ late' = late \ {entries[i].addr}
    /\ pnp' = PnpIdle
    /\ UNCHANGED <<radio, events, packets, intr, bulk, timers, host,
                   overlapped, cutShort, starved, renamed>>

\* WireChildOutputReportEvtTimerFunc: the copy is retrieved ...
TimerBegin(i) ==
    /\ Running /\ entries[i].ticking /\ ~timers[i].busy
    /\ Begin({entries[i].addr})
    /\ timers' = [timers EXCEPT ![i] = [busy |-> TRUE, snap |-> entries[i].desc]]
    /\ UNCHANGED <<bus, radio, events, packets, intr, bulk, pnp, host, bugcheck,
                   cutShort, excuses>>

\* ... and the output report of a DualShock 3 is sent from its buffer.
TimerSend(i) ==
    LET d == timers[i].snap IN
    /\ Running /\ timers[i].busy
    /\ bugcheck' = IF d.type # "PS3_DUALSHOCK" \/ d.buffer \in live THEN "none"
                   ELSE IF d.buffer = Null THEN "null pointer"
                   ELSE "freed memory"
    /\ timers' = [timers EXCEPT ![i] = TimerIdle]
    /\ UNCHANGED <<bus, radio, events, packets, intr, bulk, pnp, host, history>>

\* Mutant of Cleanup: the output report buffer is not freed.
Cleanup_NameOnly(i) ==
    /\ Running /\ entries[i] # Free /\ ~entries[i].present
    /\ pnp.id # i /\ ~timers[i].busy
    /\ FreePool({entries[i].desc.name})
    /\ entries' = [entries EXCEPT ![i] = Free]
    /\ UNCHANGED <<order, radio, events, packets, intr, bulk, pnp, timers, host,
                   history>>

\* The PDO of a missing child is deleted, its timer with it, and
\* WireShockEvtWdfChildListAddressDescriptionCleanup frees what its
\* description points to.
Cleanup(i) ==
    /\ Running /\ entries[i] # Free /\ ~entries[i].present
    /\ pnp.id # i /\ ~timers[i].busy
    /\ FreePool({entries[i].desc.name, entries[i].desc.buffer})
    /\ entries' = [entries EXCEPT ![i] = Free]
    /\ UNCHANGED <<order, radio, events, packets, intr, bulk, pnp, timers, host,
                   history>>

Children ==
    \/ PnpEnd
    \/ PnpFails
    \/ \E i \in Ids : \/ PnpBegin(i)
                      \/ TimerBegin(i)
                      \/ TimerSend(i)
                      \/ Cleanup(i)

-----------------------------------------------------------------------------
(* Leaving D0, and the removal of the host controller.                     *)

PresentAll == {i \in Ids : entries[i].present}

\* WireShockEvtDeviceD0Exit: a scan that reports no child.
D0ExitScan ==
    /\ Running /\ PowerDown /\ power = "D0"
    /\ Begin({entries[i].addr : i \in PresentAll})
    /\ EmptyScan
    /\ power' = "Exiting"
    /\ abandoned' = {} /\ late' = {}
    /\ UNCHANGED <<live, radio, events, packets, intr, bulk, pnp, timers,
                   visible, bugcheck, cutShort, starved, renamed, uncreated>>

\* The controller is reset and the readers are stopped; stopping waits for
\* the callbacks that are running.
D0ExitStop ==
    /\ Running /\ power = "Exiting" /\ ~IntrBusy /\ ~BulkBusy
    /\ power' = "D3"
    /\ visible' = FALSE
    /\ link' = [a \in Devices |-> "down"]
    /\ handleOf' = [a \in Devices |-> NoHandle]
    /\ naming' = {}
    /\ events' = <<>>
    /\ packets' = <<>>
    /\ uncreated' = {}
    /\ UNCHANGED <<bus, intr, bulk, pnp, timers, bugcheck, overlapped,
                   cutShort, starved, renamed, abandoned, late>>

\* WireShockEvtDeviceD0Entry: the readers run again.  The controller has been
\* reset and is not set up a second time (HciBringUp), so no device finds it.
Resume ==
    /\ Running /\ power = "D3"
    /\ power' = "D0"
    /\ UNCHANGED <<bus, radio, events, packets, intr, bulk, pnp, timers, visible,
                   bugcheck, history>>

\* The dongle is removed: the framework drops what is left.
RemoveDevice ==
    /\ Running /\ power = "D3"
    /\ Begin({entries[i].addr : i \in PresentAll})
    /\ EmptyScan
    /\ power' = "Removed"
    /\ abandoned' = {} /\ late' = {}
    /\ UNCHANGED <<live, radio, events, packets, intr, bulk, pnp, timers,
                   visible, bugcheck, cutShort, starved, renamed, uncreated>>

\* It is plugged in again; nothing of the old child list is left.
Replug ==
    /\ Running /\ power = "Removed"
    /\ \A i \in Ids : entries[i] = Free
    /\ power' = "D0"
    /\ visible' = TRUE
    /\ UNCHANGED <<bus, radio, events, packets, intr, bulk, pnp, timers, bugcheck,
                   history>>

Power == D0ExitScan \/ D0ExitStop \/ Resume \/ RemoveDevice \/ Replug

Next == Radio \/ Interrupt \/ Bulk \/ Children \/ Power

Spec == Init /\ [][Next]_vars

\* The readers get to run, the framework creates the PDOs of reported children.
CreatePdo == PnpEnd \/ PnpFails \/ \E i \in Ids : PnpBegin(i)
FairSpec == Spec /\ WF_vars(Interrupt) /\ WF_vars(CreatePdo)

-----------------------------------------------------------------------------
(* What makes the bus correct.                                             *)

\* Neither have callbacks overlapped on one child, nor has a lookup by
\* handle stopped in front of the child it was looking for, nor has an
\* allocation or an update failed that nobody tests, nor has the name of a
\* child told another type than before.
Clean == ~overlapped /\ ~cutShort /\ ~starved /\ ~renamed

\* Nobody is working on device a and no event about it is waiting.
Settled(a) ==
    /\ ~Busy(a)
    /\ \A i \in DOMAIN events :
          /\ events[i].type # "DisconnectionComplete" => events[i].addr # a
          /\ events[i].type = "DisconnectionComplete" /\ IsPresent(a) =>
                events[i].handle # DescOf(a).handle

\* A device whose link is up has a child with the handle of the link, once
\* the events about it are handled, unless its child could not be created.
HandleKnown ==
    Clean /\ power = "D0" =>
        \A a \in Devices \ uncreated : link[a] = "up" /\ Settled(a) =>
            IsPresent(a) /\ DescOf(a).handle = handleOf[a]

\* A child outlives its link only when a connection attempt failed, which
\* the driver only logs (Interrupt.c:609), or when the request was handled
\* after D0Exit had dropped the children (Device.c:395).
NoGhost ==
    Clean /\ power \in {"D0", "D3"} =>
        \A a \in Devices : IsPresent(a) /\ link[a] = "down" /\ Settled(a) =>
            a \in abandoned \cup late

\* A handle tells one child from another: the lookup by handle compares
\* nothing else.
HandlesUnique ==
    Clean => \A i, j \in PresentAll :
        /\ i # j
        /\ entries[i].desc.handle # NoHandle
        => entries[i].desc.handle # entries[j].desc.handle

\* Nothing brings the machine down by itself.
NoBugcheck == Clean => Running

\* While nobody is busy the allocated blocks are those the descriptions
\* point to, each from one place: nothing leaks, nothing dangles.
PoolExact ==
    LET used == {i \in Ids : entries[i] # Free}
        all == UNION {Pointers(entries[i].desc) : i \in used} IN
    Clean /\ (\A a \in Devices : ~Busy(a)) =>
        /\ live = all
        /\ \A i, j \in used : i # j =>
              Pointers(entries[i].desc) \cap Pointers(entries[j].desc) = {}
        /\ \A i \in used : entries[i].desc.name # Null =>
              entries[i].desc.name # entries[i].desc.buffer

\* In the end there is a usable child for every device that stays connected,
\* and none for a device that stays away.
ChildFollowsLink == \A a \in Devices :
    LET connected == power = "D0" /\ link[a] = "up" /\ a \notin uncreated
        away == power = "D0" /\ link[a] = "down" /\ a \notin abandoned \cup late
        child == IsPresent(a) /\ entries[IdOf(a)].pdo = "created"
                    /\ DescOf(a).handle = handleOf[a] IN
    []Clean => /\ <>[]connected => <>[]child
               /\ <>[]away => <>[]~IsPresent(a)

-----------------------------------------------------------------------------
(* The abstract bus.                                                       *)

Shared(d) == [handle |-> d.handle, type |-> d.type, named |-> d.name # Null,
              outputReport |-> d.buffer # Null, objects |-> d.objs # 0,
              open |-> d.open]

\* The descriptions of the present children, without the pool blocks.
Child == [a \in {d \in Devices : IsPresent(d)} |-> Shared(DescOf(a))]

B == INSTANCE Bus WITH child <- Child, broken <- ~Clean

\* Retrieving a copy, changing it and writing it back sets one member of one
\* description, as if it were a single step, unless callbacks overlap.
ImplementsBus == B!Spec

-----------------------------------------------------------------------------
(* What a comment of the source promises, whatever overlaps.               *)

\* Bluetooth.h:187 calls the description the one "holding all the shared
\* state information between the FDO and the PDO": the handle that the
\* interrupt reader stored is not lost.
SharedStateKept ==
    Running /\ ~cutShort /\ ~starved /\ power = "D0" =>
        \A a \in Devices : link[a] = "up" /\ Settled(a) /\ IsPresent(a) =>
            DescOf(a).handle = handleOf[a]
=============================================================================
