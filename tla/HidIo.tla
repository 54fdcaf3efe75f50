-------------------------------- MODULE HidIo --------------------------------
(***************************************************************************)
(* The life of the HID class driver's requests to one child (the dispatch  *)
(* routine of the PDO's default queue in sys/WireBus.c, its helpers in     *)
(* common/src/DsHid.c, and Ds3ProcessHidInputReport in sys/Ds3.c).         *)
(*                                                                         *)
(* The default queue is parallel: any number of dispatch routines run at   *)
(* a time.  A read request is forwarded to the manual input report queue,  *)
(* from which the bulk pipe reader takes it when a report arrives; by then *)
(* the dispatch routine need not have returned.                            *)
(***************************************************************************)
EXTENDS Naturals, Sequences, FiniteSets

CONSTANTS
    Requests,          \* requests the class driver has
    Ioctls,            \* the control codes it uses, see IoctlKinds
    HidDeviceMode,     \* "SINGLE" or "MULTI"
    DeviceType,        \* type of the child
    MaxReports         \* input reports that arrive

IoctlKinds == {"GET_DEVICE_DESCRIPTOR", "GET_REPORT_DESCRIPTOR",
               "GET_DEVICE_ATTRIBUTES", "READ_REPORT", "GET_FEATURE",
               "SET_FEATURE", "GET_STRING", "GET_INDEXED_STRING", "OTHER"}

\* What a request asks for: a feature, a string, or nothing in particular.
Arguments(ioctl) ==
    CASE ioctl = "SET_FEATURE" -> {"SET_HOST_BD_ADDR", "unknown"}
      [] ioctl = "GET_STRING" -> {"IMANUFACTURER", "IPRODUCT", "unknown"}
      [] ioctl = "GET_INDEXED_STRING" -> {"DS3_DEVICE_STRING_INDEX", "unknown"}
      [] OTHER -> {"-"}

Ps3Types == {"PS3_DUALSHOCK", "PS3_NAVIGATION", "PS3_MOTION"}

Nobody == "nobody"

ASSUME RequestsAssumption == IsFiniteSet(Requests) /\ Nobody \notin Requests
ASSUME IoctlsAssumption == Ioctls \subseteq IoctlKinds
ASSUME ModeAssumption == HidDeviceMode \in {"SINGLE", "MULTI"}
ASSUME TypeAssumption == DeviceType \in Ps3Types \cup {"NONE", "PS4_DUALSHOCK"}
ASSUME ReportsAssumption == MaxReports \in Nat

VARIABLES
    pdo,               \* is the child's PDO "present" or "removed"?
    owner,             \* who has a request
    ask,               \* what it asks for: [ioctl, arg, fits]
    status,            \* the dispatch routine's status variable
    outcome,           \* what it was completed with
    completions,       \* history: how often it was completed
    ticket,            \* history: when it was forwarded
    queue,             \* the child's HidInputReportQueue
    reader,            \* the bulk reader: [report, id, request]
    arrived            \* reports that have arrived

vars == <<pdo, owner, ask, status, outcome, completions, ticket, queue, reader,
          arrived>>

Dispatching == {"entered", "SUCCESS", "PENDING", "INVALID_PARAMETER",
                "BUFFER_TOO_SMALL", "INVALID_BUFFER_SIZE", "NOT_SUPPORTED",
                "NOT_IMPLEMENTED", "UNSUCCESSFUL"}
Statuses == (Dispatching \ {"entered", "PENDING"}) \cup {"CANCELLED"}

\* An outcome: report and id are set for a read request that was answered.
Outcomes == [status : Statuses, report : 0..MaxReports, id : 0..2]
NoOutcome == [status |-> "none", report |-> 0, id |-> 0]
Done(s) == [NoOutcome EXCEPT !.status = s]

\* id: the input report the reader is about to deliver, 0 if it is idle.
ReaderIdle == [report |-> 0, id |-> 0, request |-> Nobody]

Asks == [ioctl : Ioctls, arg : UNION {Arguments(i) : i \in Ioctls},
         fits : BOOLEAN]
NoAsk == [ioctl |-> "none", arg |-> "-", fits |-> TRUE]

TypeOK ==
    /\ pdo \in {"present", "removed"}
    /\ owner \in [Requests -> {"class", "queue", "driver", "reader", "done"}]
    /\ ask \in [Requests -> Asks \cup {NoAsk}]
    /\ status \in [Requests -> Dispatching \cup {"returned"}]
    /\ outcome \in [Requests -> Outcomes \cup {NoOutcome}]
    /\ completions \in [Requests -> 0..1]
    /\ ticket \in [Requests -> 0..Cardinality(Requests)]
    /\ queue \in Seq(Requests)
    /\ reader \in [report : 0..MaxReports, id : 0..2,
                   request : Requests \cup {Nobody}]
    /\ arrived \in 0..MaxReports

Init ==
    /\ pdo = "present"
    /\ owner = [r \in Requests |-> "class"]
    /\ ask = [r \in Requests |-> NoAsk]
    /\ status = [r \in Requests |-> "returned"]
    /\ outcome = [r \in Requests |-> NoOutcome]
    /\ completions = [r \in Requests |-> 0]
    /\ ticket = [r \in Requests |-> 0]
    /\ queue = <<>>
    /\ reader = ReaderIdle
    /\ arrived = 0

\* WdfRequestComplete
Complete(r, o) ==
    /\ owner' = [owner EXCEPT ![r] = "done"]
    /\ outcome' = [outcome EXCEPT ![r] = o]
    /\ completions' = [completions EXCEPT ![r] = @ + 1]

-----------------------------------------------------------------------------
(* Results of the control codes that are answered at once.                 *)

\* WdfMemoryCopyFromBuffer and the test before it: the buffer may be small.
CopyDescriptor(fits) == Done(IF fits THEN "SUCCESS" ELSE "BUFFER_TOO_SMALL")
CopyString(fits) == Done(IF fits THEN "SUCCESS" ELSE "INVALID_BUFFER_SIZE")

\* DsHidGetString: the manufacturer is known for every child.
GetString(arg, fits) ==
    IF \/ arg = "unknown"
       \/ arg = "IPRODUCT" /\ DeviceType \notin Ps3Types
    THEN Done("INVALID_PARAMETER")
    ELSE CopyString(fits)

\* DsHidGetIndexedString: for another type the status of DsHidGetStringId is
\* left.
GetIndexedString(arg, fits) ==
    IF DeviceType # "PS3_DUALSHOCK" THEN Done("SUCCESS")
    ELSE IF arg = "unknown" THEN Done("INVALID_PARAMETER")
    ELSE CopyString(fits)

\* Features that are not known succeed, too, with nothing done.
GetFeature(fits) == Done(IF fits THEN "SUCCESS" ELSE "BUFFER_TOO_SMALL")

SetFeature(arg, fits) ==
    IF ~fits THEN Done("BUFFER_TOO_SMALL")
    ELSE IF arg = "SET_HOST_BD_ADDR" THEN Done("NOT_SUPPORTED")
    ELSE Done("SUCCESS")

Immediate(q) ==
    CASE q.ioctl \in {"GET_DEVICE_DESCRIPTOR", "GET_REPORT_DESCRIPTOR"} ->
             CopyDescriptor(q.fits)
      [] q.ioctl = "GET_DEVICE_ATTRIBUTES" -> Done("SUCCESS")
      [] q.ioctl = "GET_FEATURE" -> GetFeature(q.fits)
      [] q.ioctl = "SET_FEATURE" -> SetFeature(q.arg, q.fits)
      [] q.ioctl = "GET_STRING" -> GetString(q.arg, q.fits)
      [] q.ioctl = "GET_INDEXED_STRING" -> GetIndexedString(q.arg, q.fits)
      [] OTHER -> Done("NOT_IMPLEMENTED")

-----------------------------------------------------------------------------
(* WireChildEvtWdfIoQueueIoInternalDeviceControl                           *)

\* The class driver sends a request and the default queue dispatches it.
Submit(r, q) ==
    /\ pdo = "present" /\ owner[r] = "class"
    /\ owner' = [owner EXCEPT ![r] = "driver"]
    /\ ask' = [ask EXCEPT ![r] = q]
    /\ status' = [status EXCEPT ![r] = "entered"]
    /\ UNCHANGED <<pdo, outcome, completions, ticket, queue, reader, arrived>>

\* The description cannot be retrieved: completed on the spot.
RetrieveFails(r) ==
    /\ status[r] = "entered"
    /\ Complete(r, Done("UNSUCCESSFUL"))
    /\ status' = [status EXCEPT ![r] = "returned"]
    /\ UNCHANGED <<pdo, ask, ticket, queue, reader, arrived>>

\* Mutant of Forward: the status of the forwarding is kept.
Forward_NotPending(r) ==
    /\ status[r] = "entered" /\ ask[r].ioctl = "READ_REPORT"
    /\ pdo = "present"
    /\ owner' = [owner EXCEPT ![r] = "queue"]
    /\ queue' = Append(queue, r)
    /\ ticket' = [ticket EXCEPT ![r] =
                     Cardinality({q \in Requests : ticket[q] # 0}) + 1]
    /\ status' = [status EXCEPT ![r] = "SUCCESS"]
    /\ UNCHANGED <<pdo, ask, outcome, completions, reader, arrived>>

\* A read request changes hands.
Forward(r) ==
    /\ status[r] = "entered" /\ ask[r].ioctl = "READ_REPORT"
    /\ pdo = "present"
    /\ owner' = [owner EXCEPT ![r] = "queue"]
    /\ queue' = Append(queue, r)
    /\ ticket' = [ticket EXCEPT ![r] =
                     Cardinality({q \in Requests : ticket[q] # 0}) + 1]
    /\ status' = [status EXCEPT ![r] = "PENDING"]
    /\ UNCHANGED <<pdo, ask, outcome, completions, reader, arrived>>

\* The queue does not take requests, for one when the PDO is being removed.
ForwardFails(r) ==
    /\ status[r] = "entered" /\ ask[r].ioctl = "READ_REPORT"
    /\ outcome' = [outcome EXCEPT ![r] = Done("UNSUCCESSFUL")]
    /\ status' = [status EXCEPT ![r] = "UNSUCCESSFUL"]
    /\ UNCHANGED <<pdo, owner, ask, completions, ticket, queue, reader, arrived>>

\* Any other code is handled; the result is kept until the end.
Answer(r) ==
    /\ status[r] = "entered" /\ ask[r].ioctl # "READ_REPORT"
    /\ outcome' = [outcome EXCEPT ![r] = Immediate(ask[r])]
    /\ status' = [status EXCEPT ![r] = Immediate(ask[r]).status]
    /\ UNCHANGED <<pdo, owner, ask, completions, ticket, queue, reader, arrived>>

\* The end of the routine: a request that is pending is left alone.
Return(r) ==
    /\ status[r] \notin {"entered", "returned"}
    /\ IF status[r] = "PENDING" THEN UNCHANGED <<owner, outcome, completions>>
       ELSE Complete(r, outcome[r])
    /\ status' = [status EXCEPT ![r] = "returned"]
    /\ UNCHANGED <<pdo, ask, ticket, queue, reader, arrived>>

Dispatch(r) ==
    \/ RetrieveFails(r)
    \/ Forward(r)
    \/ ForwardFails(r)
    \/ Answer(r)
    \/ Return(r)

-----------------------------------------------------------------------------
(* Ds3ProcessHidInputReport                                                *)

\* A report arrives; one with 0xFF in its second byte is not a report.
ReportArrives(valid) ==
    /\ pdo = "present" /\ reader = ReaderIdle /\ arrived < MaxReports
    /\ arrived' = arrived + 1
    /\ reader' = IF valid /\ DeviceType = "PS3_DUALSHOCK"
                 THEN [report |-> arrived + 1, id |-> 1, request |-> Nobody]
                 ELSE ReaderIdle
    /\ UNCHANGED <<pdo, owner, ask, status, outcome, completions, ticket, queue>>

\* Mutant of NextId: the first report is delivered twice.
NextId_Again(id) ==
    IF HidDeviceMode = "MULTI" /\ id = 1
    THEN [report |-> reader.report, id |-> 1, request |-> Nobody]
    ELSE ReaderIdle

\* After the first report comes the second one, in multi mode.
NextId(id) ==
    IF HidDeviceMode = "MULTI" /\ id = 1
    THEN [report |-> reader.report, id |-> 2, request |-> Nobody]
    ELSE ReaderIdle

\* Mutant of Retrieve: the newest request is taken.
Retrieve_Newest ==
    /\ reader.id # 0 /\ reader.request = Nobody /\ queue # <<>>
    /\ reader' = [reader EXCEPT !.request = queue[Len(queue)]]
    /\ owner' = [owner EXCEPT ![queue[Len(queue)]] = "reader"]
    /\ queue' = SubSeq(queue, 1, Len(queue) - 1)
    /\ UNCHANGED <<pdo, ask, status, outcome, completions, ticket, arrived>>

\* WdfIoQueueRetrieveNextRequest: the oldest request is taken ...
Retrieve ==
    /\ reader.id # 0 /\ reader.request = Nobody /\ queue # <<>>
    /\ reader' = [reader EXCEPT !.request = Head(queue)]
    /\ owner' = [owner EXCEPT ![Head(queue)] = "reader"]
    /\ queue' = Tail(queue)
    /\ UNCHANGED <<pdo, ask, status, outcome, completions, ticket, arrived>>

\* ... or there is none and the report is dropped.
NoRequest ==
    /\ reader.id # 0 /\ reader.request = Nobody /\ queue = <<>>
    /\ reader' = NextId(reader.id)
    /\ UNCHANGED <<pdo, owner, ask, status, outcome, completions, ticket, queue,
                   arrived>>

\* The report is converted into the request's buffer.
Deliver ==
    LET r == reader.request IN
    /\ r # Nobody /\ ask[r].fits
    /\ Complete(r, [status |-> "SUCCESS", report |-> reader.report,
                    id |-> reader.id])
    /\ reader' = NextId(reader.id)
    /\ UNCHANGED <<pdo, ask, status, ticket, queue, arrived>>

\* Mutant of BufferTooSmall: the request is forgotten.
BufferTooSmall_Lost ==
    LET r == reader.request IN
    /\ r # Nobody /\ ~ask[r].fits
    /\ reader' = ReaderIdle
    /\ UNCHANGED <<pdo, owner, ask, status, outcome, completions, ticket, queue,
                   arrived>>

\* Its buffer is too small: the request fails and the report is given up.
BufferTooSmall ==
    LET r == reader.request IN
    /\ r # Nobody /\ ~ask[r].fits
    /\ Complete(r, Done("BUFFER_TOO_SMALL"))
    /\ reader' = ReaderIdle
    /\ UNCHANGED <<pdo, ask, status, ticket, queue, arrived>>

Reader == Retrieve \/ NoRequest \/ Deliver \/ BufferTooSmall

-----------------------------------------------------------------------------
(* The framework: a queued request can be cancelled, and the removal of    *)
(* the PDO cancels all of them.                                            *)

Cancel(r) ==
    /\ owner[r] = "queue"
    /\ Complete(r, Done("CANCELLED"))
    /\ \E i \in DOMAIN queue :
        /\ queue[i] = r
        /\ queue' = SubSeq(queue, 1, i - 1) \o SubSeq(queue, i + 1, Len(queue))
    /\ UNCHANGED <<pdo, ask, status, ticket, reader, arrived>>

RemovePdo ==
    /\ pdo = "present"
    /\ pdo' = "removed"
    /\ UNCHANGED <<owner, ask, status, outcome, completions, ticket, queue,
                   reader, arrived>>

Purge == pdo = "removed" /\ \E r \in Requests : Cancel(r)

Requested == \E r \in Requests, i \in Ioctls, fits \in BOOLEAN :
    \E arg \in Arguments(i) :
        Submit(r, [ioctl |-> i, arg |-> arg, fits |-> fits])

Next ==
    \/ Requested
    \/ \E r \in Requests : Dispatch(r)
    \/ \E valid \in BOOLEAN : ReportArrives(valid)
    \/ Reader
    \/ \E r \in Requests : Cancel(r)
    \/ RemovePdo
    \/ Purge

Spec == Init /\ [][Next]_vars

\* Dispatch routines and the reader run to their end, and the framework
\* completes the removal it has begun.
FairSpec ==
    /\ Spec
    /\ \A r \in Requests : WF_vars(Dispatch(r))
    /\ WF_vars(Reader)
    /\ WF_vars(Purge)

-----------------------------------------------------------------------------
(* What makes request handling correct.                                    *)

\* A request is completed at most once, and only by who owns it: the routine
\* that forwarded it lets go of it (WireBus.c:478, 697), whatever the reader
\* and the framework do with it meanwhile.
CompletedOnce == \A r \in Requests :
    /\ completions[r] <= 1
    /\ completions[r] = 1 <=> owner[r] = "done"
    /\ owner[r] = "queue" <=> \E i \in DOMAIN queue : queue[i] = r
    /\ owner[r] = "reader" <=> reader.request = r

\* A request is not completed before its routine is through with it, unless
\* the routine has forwarded it.
NotTouchedAfterwards == \A r \in Requests :
    owner[r] \in {"queue", "reader", "done"} => status[r] \in {"PENDING", "returned"}

\* Reports reach the class driver in the order they arrive, in the order it
\* asked for them: of two answered reads the one forwarded first has the
\* older report, and no report is delivered twice.
Answered == {r \in Requests : outcome[r].report # 0}
Before(r, q) == \/ outcome[r].report < outcome[q].report
                \/ /\ outcome[r].report = outcome[q].report
                   /\ outcome[r].id < outcome[q].id
ReadsInOrder == \A r, q \in Answered : ticket[r] < ticket[q] => Before(r, q)

\* A read that waits was forwarded after every read that is answered.
NoOvertaking == \A r \in Answered : \A i \in DOMAIN queue :
    ticket[r] < ticket[queue[i]]

\* Every request that reaches the driver is completed: whatever is not a read
\* without waiting for a report, a read at the latest when the child is gone
\* (WireBus.c:388-702, Ds3.c:447-496).
NoneLeftBehind == \A r \in Requests :
    \/ owner[r] = "driver" /\ ask[r].ioctl # "READ_REPORT"
    \/ owner[r] # "class" /\ pdo = "removed"
    ~> owner[r] = "done"
=============================================================================
