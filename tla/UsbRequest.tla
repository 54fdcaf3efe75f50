----------------------------- MODULE UsbRequest -----------------------------
(***************************************************************************)
(* The requests the driver makes itself: HCI commands go to the control    *)
(* endpoint (common/src/UsbInterrupt.c), L2CAP and HID data to the bulk    *)
(* write pipe (WriteBulkPipe and HID_Command in sys/Bulkrwr.c).            *)
(*                                                                         *)
(* Nobody waits for them.  A request is deleted by its completion routine, *)
(* which may run before WdfRequestSend returns to the sender.              *)
(***************************************************************************)
EXTENDS Naturals, FiniteSets

CONSTANTS
    Senders,           \* threads that send: pipe readers, timers, D0Entry ...
    Requests           \* request objects there are; each is used once

ASSUME SendersAssumption == IsFiniteSet(Senders)
ASSUME RequestsAssumption == IsFiniteSet(Requests)

VARIABLES
    sender,            \* per sender: [kind, step, request, status]
    object,            \* state of a request object
    memory,            \* requests with a memory object of their own
    pool,              \* senders that hold a buffer from the pool
    device,            \* is the USB device "present" or "gone"?
    misused,           \* history: deleted requests that were used
    refused            \* history: requests whose sender returned an error

vars == <<sender, object, memory, pool, device, misused, refused>>

Kinds == {"control", "bulk", "hid"}
Steps == {"created", "backed", "formatted", "accepted", "rejected", "returning"}
Idle == [kind |-> "none", step |-> "idle", request |-> {}, status |-> "SUCCESS"]

\* request: the request's object as a set, empty when there is none.
Busy == [kind : Kinds, step : Steps \cup {"begun"},
         request : {{}} \cup {{r} : r \in Requests},
         status : {"SUCCESS", "error"}]

TypeOK ==
    /\ sender \in [Senders -> Busy \cup {Idle}]
    /\ object \in [Requests -> {"none", "owned", "sent", "deleted"}]
    /\ memory \subseteq Requests
    /\ pool \subseteq Senders
    /\ device \in {"present", "gone"}
    /\ misused \subseteq Requests
    /\ refused \subseteq Requests

Init ==
    /\ sender = [s \in Senders |-> Idle]
    /\ object = [r \in Requests |-> "none"]
    /\ memory = {}
    /\ pool = {}
    /\ device = "present"
    /\ misused = {}
    /\ refused = {}

Goto(s, step) == sender' = [sender EXCEPT ![s].step = step]

\* The call leaves with an error; what it has made stays behind.
Fail(s) ==
    /\ sender' = [sender EXCEPT ![s].step = "returning", ![s].status = "error"]
    /\ refused' = refused \cup sender[s].request

-----------------------------------------------------------------------------
(* SendControlRequest and WriteBulkPipe                                    *)

\* HID_Command takes a buffer from the pool first, without asking whether
\* there is one.
Begin(s, kind) ==
    /\ sender[s] = Idle
    /\ sender' = [sender EXCEPT ![s] = [Idle EXCEPT !.kind = kind, !.step = "begun"]]
    /\ pool' = IF kind = "hid" THEN pool \cup {s} ELSE pool
    /\ UNCHANGED <<object, memory, device, misused, refused>>

Create(s, r) ==
    /\ sender[s].step = "begun" /\ object[r] = "none"
    /\ sender' = [sender EXCEPT ![s].step = "created", ![s].request = {r}]
    /\ object' = [object EXCEPT ![r] = "owned"]
    /\ UNCHANGED <<memory, pool, device, misused, refused>>

\* The memory object is the request's child.
Back(s) ==
    /\ sender[s].step = "created"
    /\ memory' = memory \cup sender[s].request
    /\ Goto(s, "backed")
    /\ UNCHANGED <<object, pool, device, misused, refused>>

Format(s) ==
    /\ sender[s].step = "backed"
    /\ Goto(s, "formatted")
    /\ UNCHANGED <<object, memory, pool, device, misused, refused>>

\* Any of these calls can fail for want of resources.
NoResources(s) ==
    /\ sender[s].step \in {"begun", "created", "backed"}
    /\ Fail(s)
    /\ UNCHANGED <<object, memory, pool, device, misused>>

\* WdfRequestSend returns TRUE: from here on the target has the request.
Send(s) ==
    /\ sender[s].step = "formatted" /\ device = "present"
    /\ object' = [r \in Requests |->
                     IF r \in sender[s].request THEN "sent" ELSE object[r]]
    /\ Goto(s, "accepted")
    /\ UNCHANGED <<memory, pool, device, misused, refused>>

\* It returns FALSE: the request has not been sent.
SendFails(s) ==
    /\ sender[s].step = "formatted"
    /\ Goto(s, "rejected")
    /\ UNCHANGED <<object, memory, pool, device, misused, refused>>

\* WdfRequestGetStatus
Use(s) == misused' = misused \cup {r \in sender[s].request : object[r] = "deleted"}

\* Mutant of Sent: its status is asked for in any case.
Sent_Asks(s) ==
    /\ sender[s].step = "accepted"
    /\ Use(s)
    /\ Goto(s, "returning")
    /\ UNCHANGED <<object, memory, pool, device, refused>>

\* The request is not looked at again ...
Sent(s) ==
    /\ sender[s].step = "accepted"
    /\ Goto(s, "returning")
    /\ UNCHANGED <<object, memory, pool, device, misused, refused>>

\* Mutant of NotSent: the status is that of the formatting.
NotSent_Success(s) ==
    /\ sender[s].step = "rejected"
    /\ Goto(s, "returning")
    /\ UNCHANGED <<object, memory, pool, device, misused, refused>>

\* ... unless it was not sent.
NotSent(s) ==
    /\ sender[s].step = "rejected"
    /\ Use(s)
    /\ Fail(s)
    /\ UNCHANGED <<object, memory, pool, device>>

\* Mutant of Return: HID_Command frees its buffer only after a success.
Return_OnSuccess(s) ==
    /\ sender[s].step = "returning"
    /\ pool' = IF sender[s].status = "SUCCESS" THEN pool \ {s} ELSE pool
    /\ sender' = [sender EXCEPT ![s] = Idle]
    /\ UNCHANGED <<object, memory, device, misused, refused>>

\* HID_Command frees its buffer: the request has a copy of it.
Return(s) ==
    /\ sender[s].step = "returning"
    /\ pool' = pool \ {s}
    /\ sender' = [sender EXCEPT ![s] = Idle]
    /\ UNCHANGED <<object, memory, device, misused, refused>>

\* The target completes a request, sooner or later, also one to a device that
\* is gone; deleting it deletes its memory.
EvtUsbRequestCompletionRoutine(r) ==
    /\ object[r] = "sent"
    /\ object' = [object EXCEPT ![r] = "deleted"]
    /\ memory' = memory \ {r}
    /\ UNCHANGED <<sender, pool, device, misused, refused>>

\* The dongle is pulled out.
SurpriseRemoval ==
    /\ device = "present"
    /\ device' = "gone"
    /\ UNCHANGED <<sender, object, memory, pool, misused, refused>>

Step(s) ==
    \/ \E r \in Requests : Create(s, r)
    \/ Back(s)
    \/ Format(s)
    \/ NoResources(s)
    \/ Send(s)
    \/ SendFails(s)
    \/ Sent(s)
    \/ NotSent(s)
    \/ Return(s)

Next ==
    \/ \E s \in Senders, kind \in Kinds : Begin(s, kind)
    \/ \E s \in Senders : Step(s)
    \/ \E r \in Requests : EvtUsbRequestCompletionRoutine(r)
    \/ SurpriseRemoval

Spec == Init /\ [][Next]_vars

-----------------------------------------------------------------------------
(* What makes the life of a request correct.                               *)

\* A sender does not use a request once the completion routine may have
\* deleted it (UsbInterrupt.c:88-95, Bulkrwr.c:135-149).
NeverUsedDeleted == misused = {}

\* Requests that no sender, no target and no routine will touch any more.
Abandoned == {r \in Requests : /\ object[r] = "owned"
                               /\ \A s \in Senders : r \notin sender[s].request}

\* A request is left behind only by a call that returned an error: with
\* success, the completion routine has it or had it.
NoSilentLeak == Abandoned \subseteq refused

\* HID_Command's buffer does not outlive the call, however it ends, and no
\* request loses its own memory while it is under way.
BuffersBalanced ==
    /\ pool = {s \in Senders : sender[s].kind = "hid"}
    /\ \A r \in Requests : object[r] = "sent" => r \in memory
=============================================================================
