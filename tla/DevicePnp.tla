------------------------------ MODULE DevicePnp ------------------------------
(***************************************************************************)
(* The life of the host radio's device object (sys/Device.c) and of the    *)
(* USB pipes it works with: preparation of the hardware, power             *)
(* transitions, restarts by the PnP manager, removal.                      *)
(*                                                                         *)
(* Handles of pipes are kept in the device context over a restart, while   *)
(* the pipe objects they denote live as long as the configuration they     *)
(* belong to: WdfUsbTargetDeviceSelectConfig deletes those of the old one. *)
(* A handle is the number of the configuration its pipe belongs to.        *)
(*                                                                         *)
(* What D0Entry and D0Exit do to the child list and the controller is in   *)
(* HciBringUp and WireBus.                                                 *)
(***************************************************************************)
EXTENDS Naturals

CONSTANTS
    Layouts,         \* the sets of pipes a configuration may come with
    MaxConfigs       \* configurations selected between two plug-ins

Kinds == {"InterruptPipe", "BulkReadPipe", "BulkWritePipe"}
ReadKinds == {"InterruptPipe", "BulkReadPipe"}
Null == 0

ASSUME LayoutsAssumption == Layouts \subseteq SUBSET Kinds
ASSUME MaxConfigsAssumption == MaxConfigs \in Nat

VARIABLES
    pnp,             \* where the framework is with the device
    objects,         \* USB target device objects that exist
    UsbDevice,       \* is the handle of one of them stored?
    pipe,            \* the three pipe handles of DEVICE_CONTEXT
    config,          \* the selected configuration: its number and its pipes
    readers,         \* pipes of it that have a continuous reader
    started,         \* pipes of it whose I/O target is started
    reads,           \* what the continuous reader of a pipe is doing
    timer,           \* does a child's output report timer tick?
    stale,           \* history: was the handle of a deleted pipe used?
    narrowed         \* history: did a configuration lack a pipe that an
                     \* earlier one had?

context == <<UsbDevice, pipe>>
usb == <<objects, config, readers, started, reads>>
vars == <<pnp, context, usb, timer, stale, narrowed>>

\* Selecting, Storing, Configuring: inside EvtDevicePrepareHardware.
\* Suspended: out of D0 with the hardware still prepared.  Stopped: waiting
\* for a restart.  Failed: a callback has returned an error.
Phases == {"None", "Added", "Selecting", "Storing", "Configuring", "Prepared",
           "D0", "Suspended", "Stopped", "Failed"}

TypeOK ==
    /\ pnp \in Phases
    /\ objects \in Nat
    /\ UsbDevice \in BOOLEAN
    /\ pipe \in [Kinds -> Nat]
    /\ config \in [number : Nat, pipes : Layouts \cup {{}}]
    /\ readers \subseteq ReadKinds
    /\ started \subseteq Kinds
    /\ reads \in [ReadKinds -> {"stopped", "reading", "failed"}]
    /\ timer \in BOOLEAN
    /\ stale \in BOOLEAN
    /\ narrowed \in BOOLEAN

NoReads == [k \in ReadKinds |-> "stopped"]
NoConfig == [number |-> Null, pipes |-> {}]

Init ==
    /\ pnp = "None"
    /\ objects = 0
    /\ UsbDevice = FALSE
    /\ pipe = [k \in Kinds |-> Null]
    /\ config = NoConfig
    /\ readers = {}
    /\ started = {}
    /\ reads = NoReads
    /\ timer = FALSE
    /\ stale = FALSE
    /\ narrowed = FALSE

\* The pipes among ks whose handle is that of a pipe that exists.
Exist(ks) == {k \in ks : pipe[k] = config.number /\ k \in config.pipes}

\* The handles of the pipes ks are passed to the framework.
Uses(ks) == stale' = (stale \/ Exist(ks) # ks)

-----------------------------------------------------------------------------
(* WireShockCreateDevice.                                                  *)

\* The device object, its interface and its queue are created, or one of
\* them is not and the framework deletes the others.
WireShockCreateDevice(ok) ==
    /\ pnp = "None"
    /\ pnp' = IF ok THEN "Added" ELSE "None"
    /\ UNCHANGED <<context, usb, timer, stale, narrowed>>

-----------------------------------------------------------------------------
(* WireShockEvtDevicePrepareHardware.                                      *)

\* The target device is created the first time only (ok: it can be).
CreateTarget(ok) ==
    IF UsbDevice
    THEN ok /\ UNCHANGED <<UsbDevice, objects>>
    ELSE /\ UsbDevice' = ok
         /\ objects' = IF ok THEN objects + 1 ELSE objects

PrepareHardware(ok) ==
    /\ pnp \in {"Added", "Stopped"}
    /\ config.number < MaxConfigs
    /\ CreateTarget(ok)
    /\ pnp' = IF ok THEN "Selecting" ELSE "Failed"
    /\ UNCHANGED <<pipe, config, readers, started, reads, timer, stale, narrowed>>

\* Selecting a configuration deletes the pipes of the one before.
SelectConfig(layout) ==
    /\ pnp = "Selecting"
    /\ config' = [number |-> config.number + 1, pipes |-> layout]
    /\ readers' = {}
    /\ started' = {}
    /\ reads' = NoReads
    /\ pnp' = "Storing"
    /\ narrowed' = (narrowed \/ \E k \in Kinds \ layout : pipe[k] # Null)
    /\ UNCHANGED <<objects, context, timer, stale>>

SelectConfigFails ==
    /\ pnp = "Selecting"
    /\ pnp' = "Failed"
    /\ UNCHANGED <<context, usb, timer, stale, narrowed>>

\* Mutant of Stored: a handle that is known is kept.
Stored_Once == [k \in Kinds |-> IF k \in config.pipes /\ pipe[k] = Null
                                THEN config.number ELSE pipe[k]]

\* The handle of each pipe that is found is stored.
Stored == [k \in Kinds |-> IF k \in config.pipes THEN config.number
                           ELSE pipe[k]]

\* Mutant of StorePipes: nothing is said of a pipe that is missing.
StorePipes_NotTested(found) ==
    /\ pnp = "Storing"
    /\ pipe' = IF found THEN Stored ELSE pipe
    /\ pnp' = IF found THEN "Configuring" ELSE "Failed"
    /\ UNCHANGED <<UsbDevice, usb, timer, stale, narrowed>>

\* Interface 0 is fetched and its pipes are walked through.  "If we didn't
\* find all 3 pipes, fail to start."
StorePipes(found) ==
    /\ pnp = "Storing"
    /\ pipe' = IF found THEN Stored ELSE pipe
    /\ pnp' = IF found /\ \A k \in Kinds : pipe'[k] # Null
              THEN "Configuring" ELSE "Failed"
    /\ UNCHANGED <<UsbDevice, usb, timer, stale, narrowed>>

\* WireShockConfigContReaderForInterruptEndPoint, then the one for the bulk
\* read pipe.
ReaderOrder == <<"InterruptPipe", "BulkReadPipe">>

\* n of the readers can be configured.
ConfigureReaders(n) ==
    LET done == {ReaderOrder[i] : i \in 1..n} IN
    /\ pnp = "Configuring"
    /\ Uses({ReaderOrder[i] : i \in (1..(n + 1)) \cap (1..2)})
    /\ readers' = Exist(done)
    /\ pnp' = IF n = 2 THEN "Prepared" ELSE "Failed"
    /\ UNCHANGED <<objects, context, config, started, reads, timer, narrowed>>

-----------------------------------------------------------------------------
(* Power.                                                                  *)

\* WireShockEvtDeviceD0Entry: n targets can be started.  A continuous reader
\* posts its reads once the target is started.  What was started before a
\* failure stays so: isTargetStarted is not set yet.
PipeOrder == <<"InterruptPipe", "BulkReadPipe", "BulkWritePipe">>
D0Entry(n) ==
    LET tried == {PipeOrder[i] : i \in (1..(n + 1)) \cap (1..3)}
        done == {PipeOrder[i] : i \in 1..n} IN
    /\ pnp \in {"Prepared", "Suspended"}
    /\ Uses(tried)
    /\ started' = Exist(done)
    /\ reads' = [k \in ReadKinds |-> IF k \in started' \cap readers
                                     THEN "reading" ELSE "stopped"]
    /\ pnp' = IF n = 3 THEN "D0" ELSE "Failed"
    /\ UNCHANGED <<objects, context, config, readers, timer, narrowed>>

\* What D0Exit stops.
StoppedTargets == Kinds

\* WireShockEvtDeviceD0Exit, on the way to another power state or to a stop.
D0Exit(next) ==
    /\ pnp = "D0"
    /\ Uses(StoppedTargets)
    /\ started' = started \ StoppedTargets
    /\ reads' = [k \in ReadKinds |-> IF k \in started' THEN reads[k]
                                     ELSE "stopped"]
    /\ pnp' = next
    /\ UNCHANGED <<objects, context, config, readers, timer, narrowed>>

\* The PnP manager stops a device that is not in D0.
Stop ==
    /\ pnp = "Suspended"
    /\ pnp' = "Stopped"
    /\ UNCHANGED <<context, usb, timer, stale, narrowed>>

\* Removal deletes the device object, its context and all it owns.
Remove ==
    /\ pnp \in {"Added", "Suspended", "Stopped", "Failed"}
    /\ pnp' = "None"
    /\ objects' = 0
    /\ UsbDevice' = FALSE
    /\ pipe' = [k \in Kinds |-> Null]
    /\ config' = NoConfig
    /\ readers' = {}
    /\ started' = {}
    /\ reads' = NoReads
    /\ timer' = FALSE
    /\ stale' = FALSE
    /\ narrowed' = FALSE

-----------------------------------------------------------------------------
(* Those who use the pipes meanwhile.                                      *)

\* A posted read fails ...
ReadFails(k) ==
    /\ reads[k] = "reading"
    /\ reads' = [reads EXCEPT ![k] = "failed"]
    /\ UNCHANGED <<pnp, objects, context, config, readers, started, timer, stale,
                   narrowed>>

\* Mutant of ReadersFailed: the framework is told not to go on.
ReadersFailed_GivesUp == FALSE

\* What the two EvtUsbTargetPipeReadersFailed callbacks return.
ReadersFailed == TRUE

\* ... and the callback decides whether the framework resumes reading.
ReadAgain(k) ==
    /\ reads[k] = "failed"
    /\ reads' = [reads EXCEPT ![k] = IF ReadersFailed THEN "reading"
                                     ELSE "stopped"]
    /\ UNCHANGED <<pnp, objects, context, config, readers, started, timer, stale,
                   narrowed>>

\* A child has been enabled, and its timer ticks until the PDO is deleted,
\* which may well be after the radio left D0: D0Exit reports the children
\* missing, it does not wait for them to go.
StartTimer ==
    /\ pnp = "D0" /\ ~timer
    /\ timer' = TRUE
    /\ UNCHANGED <<pnp, context, usb, stale, narrowed>>

DeleteChild ==
    /\ timer
    /\ timer' = FALSE
    /\ UNCHANGED <<pnp, context, usb, stale, narrowed>>

\* WriteBulkPipe, on behalf of the timer, formats a request for the pipe
\* whose handle is in the context.
WriteBulkPipe ==
    /\ timer
    /\ Uses({"BulkWritePipe"})
    /\ UNCHANGED <<pnp, context, usb, timer, narrowed>>

Next ==
    \/ \E ok \in BOOLEAN : \/ WireShockCreateDevice(ok)
                           \/ PrepareHardware(ok)
                           \/ StorePipes(ok)
    \/ \E layout \in Layouts : SelectConfig(layout)
    \/ SelectConfigFails
    \/ \E n \in 0..2 : ConfigureReaders(n)
    \/ \E n \in 0..3 : D0Entry(n)
    \/ \E next \in {"Suspended", "Stopped"} : D0Exit(next)
    \/ Stop
    \/ Remove
    \/ \E k \in ReadKinds : ReadFails(k) \/ ReadAgain(k)
    \/ StartTimer
    \/ DeleteChild
    \/ WriteBulkPipe

\* The framework calls back when reads have failed.  No transition of the
\* device is ever forced.
Fairness == \A k \in ReadKinds : WF_vars(ReadAgain(k))

Spec == Init /\ [][Next]_vars
FairSpec == Spec /\ Fairness

-----------------------------------------------------------------------------
(* What makes the device correct.                                          *)

\* However often the device is restarted there is one USB target device,
\* and its handle is the one in the context (Device.c:177-187).
OneTarget == objects = IF UsbDevice THEN 1 ELSE 0

\* Once the hardware is prepared the three handles are those of existing
\* pipes, and both pipes that are read have their reader, over any number of
\* restarts, unless a restart brought a configuration with fewer pipes: the
\* test at Device.c:282 finds the old handle then (Device.c:243-310).
HandlesCurrent ==
    pnp \in {"Prepared", "D0", "Suspended"} /\ ~narrowed =>
        Exist(Kinds) = Kinds /\ readers = ReadKinds

\* The handle of a deleted pipe is used only by the timer of a child that is
\* about to go, between the selection of a configuration and the storing of its
\* pipes or after that restart has failed, or in a configuration with fewer
\* pipes than before.
StaleOnlyOnRestart ==
    [][~stale /\ stale' =>
          narrowed \/ (timer /\ pnp \in {"Storing", "Failed"})]_vars

\* As long as the radio stays in D0 both pipes are read again and again,
\* whatever reads fail (Interrupt.c:995-1009, Bulkrwr.c:393-408).
KeepsReading ==
    <>[](pnp = "D0" /\ ~narrowed) =>
        \A k \in ReadKinds : []<>(reads[k] = "reading")
==============================================================================
