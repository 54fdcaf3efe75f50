-------------------------------- MODULE Bus --------------------------------
(***************************************************************************)
(* What the bus driver promises about the descriptions of its children     *)
(* (Bluetooth.h:185-246, WireBus.c:868-969): each of the parties that      *)
(* share a child's description sets the member that is its own, in one     *)
(* step, and leaves the members of the others alone; a description lives   *)
(* and dies with its child.                                                *)
(*                                                                         *)
(* WireBus implements this with copies that are retrieved, changed and     *)
(* written back as a whole.                                                *)
(***************************************************************************)
CONSTANTS Devices, Handles, Types, NoHandle

VARIABLES
    child,           \* the descriptions of the devices that have a child
    broken           \* the promise is not kept any more

vars == <<child, broken>>

Descriptions == [handle : Handles \cup {NoHandle}, type : Types \cup {"NONE"},
                 named : BOOLEAN, outputReport : BOOLEAN, objects : BOOLEAN,
                 open : BOOLEAN]
New == [handle |-> NoHandle, type |-> "NONE", named |-> FALSE,
        outputReport |-> FALSE, objects |-> FALSE, open |-> FALSE]
Present == DOMAIN child

TypeOK ==
    /\ Present \subseteq Devices
    /\ child \in [Present -> Descriptions]
    /\ broken \in BOOLEAN

Init == child = [a \in {} |-> New] /\ broken = FALSE

-----------------------------------------------------------------------------
(* The interrupt reader reports a child and sets its handle, name, type and *)
(* output report.                                                           *)

Kept == ~broken /\ UNCHANGED broken

Report(a) ==
    /\ Kept /\ a \notin Present
    /\ child' = [b \in Present \cup {a} |-> IF b = a THEN New ELSE child[b]]

SetHandle(a) ==
    /\ Kept /\ a \in Present
    /\ \E h \in Handles \ {NoHandle} : child' = [child EXCEPT ![a].handle = h]

SetName(a) ==
    /\ Kept /\ a \in Present
    /\ child' = [child EXCEPT ![a].named = TRUE]

SetType(a) ==
    /\ Kept /\ a \in Present /\ child[a].named
    /\ \E t \in Types : child' = [child EXCEPT ![a].type = t]

SetOutputReport(a) ==
    /\ Kept /\ a \in Present /\ child[a].type = "PS3_DUALSHOCK"
    /\ child' = [child EXCEPT ![a].outputReport = TRUE]

\* The creation of the PDO sets the queue and the timer.
SetObjects(a) ==
    /\ Kept /\ a \in Present
    /\ child' = [child EXCEPT ![a].objects = TRUE]

\* The bulk reader opens the channels of a child it knows by its handle.
Open(a) ==
    /\ Kept /\ a \in Present /\ child[a].handle # NoHandle /\ child[a].objects
    /\ child' = [child EXCEPT ![a].open = TRUE]

\* Children go, one of them or all.
Drop(as) ==
    /\ Kept
    /\ child' = [a \in Present \ as |-> child[a]]

\* Nothing is promised once callbacks have overlapped, an update failed or a
\* child was told to be something else.
Break ==
    /\ broken' = TRUE
    /\ \E as \in SUBSET Devices : child' \in [as -> Descriptions]

Next ==
    \/ \E as \in SUBSET Devices : Drop(as)
    \/ \E a \in Devices :
        \/ Report(a)
        \/ SetHandle(a)
        \/ SetName(a)
        \/ SetType(a)
        \/ SetOutputReport(a)
        \/ SetObjects(a)
        \/ Open(a)
    \/ Break

Spec == Init /\ [][Next]_vars

-----------------------------------------------------------------------------
(* What follows from the promise.                                          *)

\* A child that is used, its channels open, can be reached and has the queue
\* and the timer that its reports need.
OpenIsUsable == ~broken =>
    \A a \in Present : child[a].open =>
        child[a].handle # NoHandle /\ child[a].objects
=============================================================================
