-------------------------- MODULE UsbRequest_proofs --------------------------
(***************************************************************************)
(* Theorems about UsbRequest, for any number of senders and requests: the  *)
(* races of senders with the completion routine do not depend on how many  *)
(* of them there are.                                                      *)
(***************************************************************************)
EXTENDS UsbRequest, TLAPS

\* A sender holds a request from its creation until the call returns, and no
\* two senders hold the same one.
HoldsOne ==
    /\ \A s \in Senders :
          sender[s].step \in {"idle", "begun"} => sender[s].request = {}
    /\ \A s, t \in Senders : \A r \in Requests :
          r \in sender[s].request /\ r \in sender[t].request => s = t
    /\ \A s \in Senders : \A r \in Requests :
          r \in sender[s].request => object[r] # "none"

\* The driver owns a request until the target accepts it; only then can the
\* completion routine delete it.
OwnedUntilAccepted ==
    \A s \in Senders : \A r \in Requests : r \in sender[s].request =>
        /\ sender[s].step \in {"created", "backed", "formatted", "rejected"} =>
              object[r] = "owned"
        /\ sender[s].step = "accepted" => object[r] \in {"sent", "deleted"}

\* A call whose request the target did not accept returns an error.
OutcomeKnown ==
    \A s \in Senders :
        /\ sender[s].step \notin {"idle", "returning"} =>
              sender[s].status = "SUCCESS"
        /\ sender[s].step = "returning" =>
              \A r \in Requests : r \in sender[s].request =>
                  object[r] \in {"sent", "deleted"} \/ r \in refused

\* A request that is still the driver's is in somebody's hands, or the call
\* that made it has failed.
OwnedIsHeld ==
    \A r \in Requests : object[r] = "owned" =>
        \/ r \in refused
        \/ \E s \in Senders : r \in sender[s].request

\* What is sent has its memory, and the routine takes both away together.
MemoryKept ==
    /\ \A s \in Senders : \A r \in Requests :
          /\ r \in sender[s].request
          /\ sender[s].step \in {"backed", "formatted", "rejected"}
          => r \in memory
    /\ \A r \in Requests : object[r] = "sent" => r \in memory

PoolMatches == \A s \in Senders : s \in pool <=> sender[s].kind = "hid"

\* The inductive invariant.
RequestInv ==
    /\ TypeOK
    /\ HoldsOne
    /\ OwnedUntilAccepted
    /\ OutcomeKnown
    /\ OwnedIsHeld
    /\ MemoryKept
    /\ PoolMatches
    /\ NeverUsedDeleted

-----------------------------------------------------------------------------
\* The steps of a call change one sender and leave the others alone.
OthersAlone(s) == \A t \in Senders : t # s => sender'[t] = sender[t]

\* A sender that is not idle is in the middle of a call.
LEMMA BusySender ==
    ASSUME TypeOK, NEW s \in Senders, sender[s].step # "idle"
    PROVE  /\ sender[s] \in Busy
           /\ sender[s].request \subseteq Requests
           /\ sender[s].status \in {"SUCCESS", "error"}
  <1>1. sender[s] \in Busy
    BY DEF TypeOK, Idle
  <1> QED
    BY <1>1 DEF Busy

\* Going on to another step of a call changes nothing but the step.
LEMMA GotoEffect ==
    ASSUME TypeOK, NEW s \in Senders, sender[s].step # "idle",
           NEW step \in Steps, Goto(s, step)
    PROVE  /\ sender' \in [Senders -> Busy \cup {Idle}]
           /\ OthersAlone(s)
           /\ sender'[s].step = step
           /\ sender'[s].request = sender[s].request
           /\ sender'[s].kind = sender[s].kind
           /\ sender'[s].status = sender[s].status
  <1>1. sender[s] \in Busy
    BY BusySender
  <1>2. [sender[s] EXCEPT !.step = step] \in Busy
    BY <1>1 DEF Busy
  <1>3. sender' = [sender EXCEPT ![s] = [sender[s] EXCEPT !.step = step]]
    BY DEF Goto
  <1> QED
    BY <1>1, <1>2, <1>3 DEF TypeOK, Busy, OthersAlone

\* A call that fails keeps its request until it returns.
LEMMA FailEffect ==
    ASSUME TypeOK, NEW s \in Senders, sender[s].step # "idle", Fail(s)
    PROVE  /\ sender' \in [Senders -> Busy \cup {Idle}]
           /\ OthersAlone(s)
           /\ sender'[s].step = "returning"
           /\ sender'[s].request = sender[s].request
           /\ sender'[s].kind = sender[s].kind
           /\ sender'[s].status = "error"
           /\ refused' = refused \cup sender[s].request
           /\ refused' \subseteq Requests
  <1>1. sender[s] \in Busy /\ sender[s].request \subseteq Requests
    BY BusySender
  <1>2. [sender[s] EXCEPT !.step = "returning", !.status = "error"] \in Busy
    BY <1>1 DEF Busy, Steps
  <1>3. sender' = [sender EXCEPT ![s] =
               [sender[s] EXCEPT !.step = "returning", !.status = "error"]]
    BY DEF Fail
  <1> QED
    BY <1>1, <1>2, <1>3 DEF TypeOK, Busy, OthersAlone, Fail

\* A new request is the sender's alone.
LEMMA CreateKeeps ==
    ASSUME RequestInv, NEW s \in Senders, NEW r \in Requests, Create(s, r)
    PROVE  RequestInv'
  <1>0. sender[s] \in Busy
    BY BusySender DEF RequestInv, Create
  <1>1. /\ sender' \in [Senders -> Busy \cup {Idle}]
        /\ OthersAlone(s)
        /\ sender'[s].step = "created"
        /\ sender'[s].request = {r}
        /\ sender'[s].kind = sender[s].kind
        /\ sender'[s].status = sender[s].status
    BY <1>0 DEF RequestInv, TypeOK, Create, Busy, Steps, OthersAlone
  <1>2. TypeOK'
    BY <1>1 DEF RequestInv, TypeOK, Create
  <1>3. HoldsOne'
    BY <1>1 DEF RequestInv, TypeOK, HoldsOne, Create, OthersAlone
  <1>4. OwnedUntilAccepted'
    BY <1>1 DEF RequestInv, TypeOK, OwnedUntilAccepted, Create, OthersAlone
  <1>5. OutcomeKnown'
    BY <1>1 DEF RequestInv, TypeOK, OutcomeKnown, Create, OthersAlone
  <1>6. OwnedIsHeld'
    BY <1>1 DEF RequestInv, TypeOK, OwnedIsHeld, HoldsOne, Create,
                OthersAlone
  <1>7. MemoryKept'
    BY <1>1 DEF RequestInv, TypeOK, MemoryKept, Create, OthersAlone
  <1>8. PoolMatches'
    BY <1>1 DEF RequestInv, TypeOK, PoolMatches, Create, OthersAlone
  <1>9. NeverUsedDeleted'
    BY <1>1 DEF RequestInv, NeverUsedDeleted, Create
  <1> QED
    BY <1>2, <1>3, <1>4, <1>5, <1>6, <1>7, <1>8, <1>9 DEF RequestInv

\* The request gets its memory.
LEMMA BackKeeps ==
    ASSUME RequestInv, NEW s \in Senders, Back(s)
    PROVE  RequestInv'
  <1>1. /\ sender' \in [Senders -> Busy \cup {Idle}]
        /\ OthersAlone(s)
        /\ sender'[s].step = "backed"
        /\ sender'[s].request = sender[s].request
        /\ sender'[s].kind = sender[s].kind
        /\ sender'[s].status = sender[s].status
    BY GotoEffect DEF RequestInv, Back, Steps
  <1>2. TypeOK'
    BY <1>1, BusySender DEF RequestInv, TypeOK, Back
  <1>3. HoldsOne'
    BY <1>1 DEF RequestInv, TypeOK, HoldsOne, Back, OthersAlone
  <1>4. OwnedUntilAccepted'
    BY <1>1 DEF RequestInv, TypeOK, OwnedUntilAccepted, Back, OthersAlone
  <1>5. OutcomeKnown'
    BY <1>1 DEF RequestInv, TypeOK, OutcomeKnown, Back, OthersAlone
  <1>6. OwnedIsHeld'
    BY <1>1 DEF RequestInv, TypeOK, OwnedIsHeld, Back, OthersAlone
  <1>7. MemoryKept'
    BY <1>1 DEF RequestInv, TypeOK, MemoryKept, Back, OthersAlone
  <1>8. PoolMatches'
    BY <1>1 DEF RequestInv, TypeOK, PoolMatches, Back, OthersAlone
  <1>9. NeverUsedDeleted'
    BY <1>1 DEF RequestInv, NeverUsedDeleted, Back
  <1> QED
    BY <1>2, <1>3, <1>4, <1>5, <1>6, <1>7, <1>8, <1>9 DEF RequestInv

\* Formatting leaves everything but the step alone.
LEMMA FormatKeeps ==
    ASSUME RequestInv, NEW s \in Senders, Format(s)
    PROVE  RequestInv'
  <1>1. /\ sender' \in [Senders -> Busy \cup {Idle}]
        /\ OthersAlone(s)
        /\ sender'[s].step = "formatted"
        /\ sender'[s].request = sender[s].request
        /\ sender'[s].kind = sender[s].kind
        /\ sender'[s].status = sender[s].status
    BY GotoEffect DEF RequestInv, Format, Steps
  <1>2. TypeOK'
    BY <1>1 DEF RequestInv, TypeOK, Format
  <1>3. HoldsOne'
    BY <1>1 DEF RequestInv, TypeOK, HoldsOne, Format, OthersAlone
  <1>4. OwnedUntilAccepted'
    BY <1>1 DEF RequestInv, TypeOK, OwnedUntilAccepted, Format, OthersAlone
  <1>5. OutcomeKnown'
    BY <1>1 DEF RequestInv, TypeOK, OutcomeKnown, Format, OthersAlone
  <1>6. OwnedIsHeld'
    BY <1>1 DEF RequestInv, TypeOK, OwnedIsHeld, Format, OthersAlone
  <1>7. MemoryKept'
    BY <1>1 DEF RequestInv, TypeOK, MemoryKept, Format, OthersAlone
  <1>8. PoolMatches'
    BY <1>1 DEF RequestInv, TypeOK, PoolMatches, Format, OthersAlone
  <1>9. NeverUsedDeleted'
    BY <1>1 DEF RequestInv, NeverUsedDeleted, Format
  <1> QED
    BY <1>2, <1>3, <1>4, <1>5, <1>6, <1>7, <1>8, <1>9 DEF RequestInv

\* A call that fails before sending reports an error.
LEMMA NoResourcesKeeps ==
    ASSUME RequestInv, NEW s \in Senders, NoResources(s)
    PROVE  RequestInv'
  <1>1. /\ sender' \in [Senders -> Busy \cup {Idle}]
        /\ OthersAlone(s)
        /\ sender'[s].step = "returning"
        /\ sender'[s].request = sender[s].request
        /\ sender'[s].kind = sender[s].kind
        /\ refused' = refused \cup sender[s].request
        /\ refused' \subseteq Requests
    BY FailEffect DEF RequestInv, NoResources
  <1>2. TypeOK'
    BY <1>1 DEF RequestInv, TypeOK, NoResources
  <1>3. HoldsOne'
    BY <1>1 DEF RequestInv, TypeOK, HoldsOne, NoResources, OthersAlone
  <1>4. OwnedUntilAccepted'
    BY <1>1 DEF RequestInv, TypeOK, OwnedUntilAccepted, NoResources, OthersAlone
  <1>5. OutcomeKnown'
    BY <1>1 DEF RequestInv, TypeOK, OutcomeKnown, NoResources, OthersAlone
  <1>6. OwnedIsHeld'
    BY <1>1 DEF RequestInv, TypeOK, OwnedIsHeld, NoResources, OthersAlone
  <1>7. MemoryKept'
    BY <1>1 DEF RequestInv, TypeOK, MemoryKept, NoResources, OthersAlone
  <1>8. PoolMatches'
    BY <1>1 DEF RequestInv, TypeOK, PoolMatches, NoResources, OthersAlone
  <1>9. NeverUsedDeleted'
    BY <1>1 DEF RequestInv, NeverUsedDeleted, NoResources
  <1> QED
    BY <1>2, <1>3, <1>4, <1>5, <1>6, <1>7, <1>8, <1>9 DEF RequestInv

\* What is sent is owned until then, and has its memory.
LEMMA SendKeeps ==
    ASSUME RequestInv, NEW s \in Senders, Send(s)
    PROVE  RequestInv'
  <1>1. /\ sender' \in [Senders -> Busy \cup {Idle}]
        /\ OthersAlone(s)
        /\ sender'[s].step = "accepted"
        /\ sender'[s].request = sender[s].request
        /\ sender'[s].kind = sender[s].kind
        /\ sender'[s].status = sender[s].status
    BY GotoEffect DEF RequestInv, Send, Steps
  <1>2. TypeOK'
    BY <1>1 DEF RequestInv, TypeOK, Send
  <1>3. HoldsOne'
    BY <1>1 DEF RequestInv, TypeOK, HoldsOne, Send, OthersAlone
  <1>4. OwnedUntilAccepted'
    BY <1>1 DEF RequestInv, TypeOK, OwnedUntilAccepted, HoldsOne, Send,
                OthersAlone
  <1>5. OutcomeKnown'
    BY <1>1 DEF RequestInv, TypeOK, OutcomeKnown, Send, OthersAlone
  <1>6. OwnedIsHeld'
    BY <1>1 DEF RequestInv, TypeOK, OwnedIsHeld, Send, OthersAlone
  <1>7. MemoryKept'
    BY <1>1 DEF RequestInv, TypeOK, MemoryKept, Send, OthersAlone
  <1>8. PoolMatches'
    BY <1>1 DEF RequestInv, TypeOK, PoolMatches, Send, OthersAlone
  <1>9. NeverUsedDeleted'
    BY <1>1 DEF RequestInv, NeverUsedDeleted, Send
  <1> QED
    BY <1>2, <1>3, <1>4, <1>5, <1>6, <1>7, <1>8, <1>9 DEF RequestInv

\* A request that is not sent stays the driver's.
LEMMA SendFailsKeeps ==
    ASSUME RequestInv, NEW s \in Senders, SendFails(s)
    PROVE  RequestInv'
  <1>1. /\ sender' \in [Senders -> Busy \cup {Idle}]
        /\ OthersAlone(s)
        /\ sender'[s].step = "rejected"
        /\ sender'[s].request = sender[s].request
        /\ sender'[s].kind = sender[s].kind
        /\ sender'[s].status = sender[s].status
    BY GotoEffect DEF RequestInv, SendFails, Steps
  <1>2. TypeOK'
    BY <1>1 DEF RequestInv, TypeOK, SendFails
  <1>3. HoldsOne'
    BY <1>1 DEF RequestInv, TypeOK, HoldsOne, SendFails, OthersAlone
  <1>4. OwnedUntilAccepted'
    BY <1>1 DEF RequestInv, TypeOK, OwnedUntilAccepted, SendFails, OthersAlone
  <1>5. OutcomeKnown'
    BY <1>1 DEF RequestInv, TypeOK, OutcomeKnown, SendFails, OthersAlone
  <1>6. OwnedIsHeld'
    BY <1>1 DEF RequestInv, TypeOK, OwnedIsHeld, SendFails, OthersAlone
  <1>7. MemoryKept'
    BY <1>1 DEF RequestInv, TypeOK, MemoryKept, SendFails, OthersAlone
  <1>8. PoolMatches'
    BY <1>1 DEF RequestInv, TypeOK, PoolMatches, SendFails, OthersAlone
  <1>9. NeverUsedDeleted'
    BY <1>1 DEF RequestInv, NeverUsedDeleted, SendFails
  <1> QED
    BY <1>2, <1>3, <1>4, <1>5, <1>6, <1>7, <1>8, <1>9 DEF RequestInv

\* A call whose request was accepted does not touch it again.
LEMMA SentKeeps ==
    ASSUME RequestInv, NEW s \in Senders, Sent(s)
    PROVE  RequestInv'
  <1>1. /\ sender' \in [Senders -> Busy \cup {Idle}]
        /\ OthersAlone(s)
        /\ sender'[s].step = "returning"
        /\ sender'[s].request = sender[s].request
        /\ sender'[s].kind = sender[s].kind
        /\ sender'[s].status = sender[s].status
    BY GotoEffect DEF RequestInv, Sent, Steps
  <1>2. TypeOK'
    BY <1>1 DEF RequestInv, TypeOK, Sent
  <1>3. HoldsOne'
    BY <1>1 DEF RequestInv, TypeOK, HoldsOne, Sent, OthersAlone
  <1>4. OwnedUntilAccepted'
    BY <1>1 DEF RequestInv, TypeOK, OwnedUntilAccepted, Sent, OthersAlone
  <1>5. OutcomeKnown'
    BY <1>1 DEF RequestInv, TypeOK, OutcomeKnown, OwnedUntilAccepted, Sent,
                OthersAlone
  <1>6. OwnedIsHeld'
    BY <1>1 DEF RequestInv, TypeOK, OwnedIsHeld, Sent, OthersAlone
  <1>7. MemoryKept'
    BY <1>1 DEF RequestInv, TypeOK, MemoryKept, Sent, OthersAlone
  <1>8. PoolMatches'
    BY <1>1 DEF RequestInv, TypeOK, PoolMatches, Sent, OthersAlone
  <1>9. NeverUsedDeleted'
    BY <1>1 DEF RequestInv, NeverUsedDeleted, Sent
  <1> QED
    BY <1>2, <1>3, <1>4, <1>5, <1>6, <1>7, <1>8, <1>9 DEF RequestInv

\* A request that was not sent is owned, so that its status may be read.
LEMMA NotSentKeeps ==
    ASSUME RequestInv, NEW s \in Senders, NotSent(s)
    PROVE  RequestInv'
  <1>1. /\ sender' \in [Senders -> Busy \cup {Idle}]
        /\ OthersAlone(s)
        /\ sender'[s].step = "returning"
        /\ sender'[s].request = sender[s].request
        /\ sender'[s].kind = sender[s].kind
        /\ refused' = refused \cup sender[s].request
        /\ refused' \subseteq Requests
    BY FailEffect DEF RequestInv, NotSent
  <1>2. TypeOK'
    BY <1>1 DEF RequestInv, TypeOK, NotSent, Use, OwnedUntilAccepted
  <1>3. HoldsOne'
    BY <1>1 DEF RequestInv, TypeOK, HoldsOne, NotSent, OthersAlone
  <1>4. OwnedUntilAccepted'
    BY <1>1 DEF RequestInv, TypeOK, OwnedUntilAccepted, NotSent, OthersAlone
  <1>5. OutcomeKnown'
    BY <1>1 DEF RequestInv, TypeOK, OutcomeKnown, NotSent, OthersAlone
  <1>6. OwnedIsHeld'
    BY <1>1 DEF RequestInv, TypeOK, OwnedIsHeld, NotSent, OthersAlone
  <1>7. MemoryKept'
    BY <1>1 DEF RequestInv, TypeOK, MemoryKept, NotSent, OthersAlone
  <1>8. PoolMatches'
    BY <1>1 DEF RequestInv, TypeOK, PoolMatches, NotSent, OthersAlone
  <1>9. NeverUsedDeleted'
    BY <1>1 DEF RequestInv, NeverUsedDeleted, NotSent, Use, OwnedUntilAccepted
  <1> QED
    BY <1>2, <1>3, <1>4, <1>5, <1>6, <1>7, <1>8, <1>9 DEF RequestInv

\* The sender lets go of a request that is sent or refused.
LEMMA ReturnKeeps ==
    ASSUME RequestInv, NEW s \in Senders, Return(s)
    PROVE  RequestInv'
  <1>1. /\ sender' \in [Senders -> Busy \cup {Idle}]
        /\ OthersAlone(s)
        /\ sender'[s] = Idle
    BY DEF RequestInv, TypeOK, Return, OthersAlone
  <1>2. TypeOK'
    BY <1>1 DEF RequestInv, TypeOK, Return
  <1>3. HoldsOne'
    BY <1>1 DEF RequestInv, TypeOK, HoldsOne, Return, OthersAlone, Idle
  <1>4. OwnedUntilAccepted'
    BY <1>1 DEF RequestInv, TypeOK, OwnedUntilAccepted, Return, OthersAlone,
                Idle
  <1>5. OutcomeKnown'
    BY <1>1 DEF RequestInv, TypeOK, OutcomeKnown, Return, OthersAlone, Idle
  <1>6. OwnedIsHeld'
    BY <1>1 DEF RequestInv, TypeOK, OwnedIsHeld, OutcomeKnown, Return,
                OthersAlone, Idle
  <1>7. MemoryKept'
    BY <1>1 DEF RequestInv, TypeOK, MemoryKept, Return, OthersAlone, Idle
  <1>8. PoolMatches'
    BY <1>1 DEF RequestInv, TypeOK, PoolMatches, Return, OthersAlone, Idle
  <1>9. NeverUsedDeleted'
    BY <1>1 DEF RequestInv, NeverUsedDeleted, Return
  <1> QED
    BY <1>2, <1>3, <1>4, <1>5, <1>6, <1>7, <1>8, <1>9 DEF RequestInv

\* A call begins without a request.
LEMMA BeginKeeps ==
    ASSUME RequestInv, NEW s \in Senders, NEW kind \in Kinds, Begin(s, kind)
    PROVE  RequestInv'
  <1>1. /\ sender' \in [Senders -> Busy \cup {Idle}]
        /\ OthersAlone(s)
        /\ sender'[s].step = "begun"
        /\ sender'[s].request = {}
        /\ sender'[s].kind = kind
        /\ sender'[s].status = "SUCCESS"
    BY DEF RequestInv, TypeOK, Begin, OthersAlone, Idle, Busy
  <1>2. TypeOK'
    BY <1>1 DEF RequestInv, TypeOK, Begin
  <1>3. HoldsOne'
    BY <1>1 DEF RequestInv, TypeOK, HoldsOne, Begin, OthersAlone, Idle
  <1>4. OwnedUntilAccepted'
    BY <1>1 DEF RequestInv, TypeOK, OwnedUntilAccepted, Begin, OthersAlone, Idle
  <1>5. OutcomeKnown'
    BY <1>1 DEF RequestInv, TypeOK, OutcomeKnown, Begin, OthersAlone, Idle
  <1>6. OwnedIsHeld'
    BY <1>1 DEF RequestInv, TypeOK, OwnedIsHeld, Begin, OthersAlone, Idle
  <1>7. MemoryKept'
    BY <1>1 DEF RequestInv, TypeOK, MemoryKept, Begin, OthersAlone, Idle
  <1>8. PoolMatches'
    BY <1>1 DEF RequestInv, TypeOK, PoolMatches, Begin, OthersAlone, Idle
  <1>9. NeverUsedDeleted'
    BY <1>1 DEF RequestInv, NeverUsedDeleted, Begin
  <1> QED
    BY <1>2, <1>3, <1>4, <1>5, <1>6, <1>7, <1>8, <1>9 DEF RequestInv

\* Only what was sent is deleted, and no sender is going to use it.
LEMMA EvtUsbRequestCompletionRoutineKeeps ==
    ASSUME RequestInv, NEW r \in Requests, EvtUsbRequestCompletionRoutine(r)
    PROVE  RequestInv'
  <1>2. TypeOK'
    BY DEF RequestInv, TypeOK, EvtUsbRequestCompletionRoutine
  <1>3. HoldsOne'
    BY DEF RequestInv, TypeOK, HoldsOne, EvtUsbRequestCompletionRoutine
  <1>4. OwnedUntilAccepted'
    BY DEF RequestInv, TypeOK, OwnedUntilAccepted,
           EvtUsbRequestCompletionRoutine
  <1>5. OutcomeKnown'
    BY DEF RequestInv, TypeOK, OutcomeKnown, EvtUsbRequestCompletionRoutine
  <1>6. OwnedIsHeld'
    BY DEF RequestInv, TypeOK, OwnedIsHeld, EvtUsbRequestCompletionRoutine
  <1>7. MemoryKept'
    BY DEF RequestInv, TypeOK, MemoryKept, OwnedUntilAccepted,
           EvtUsbRequestCompletionRoutine
  <1>8. PoolMatches'
    BY DEF RequestInv, TypeOK, PoolMatches, EvtUsbRequestCompletionRoutine
  <1>9. NeverUsedDeleted'
    BY DEF RequestInv, NeverUsedDeleted, EvtUsbRequestCompletionRoutine
  <1> QED
    BY <1>2, <1>3, <1>4, <1>5, <1>6, <1>7, <1>8, <1>9 DEF RequestInv

\* The removal by itself touches no request.
LEMMA SurpriseRemovalKeeps ==
    ASSUME RequestInv, SurpriseRemoval
    PROVE  RequestInv'
  <1>2. TypeOK'
    BY DEF RequestInv, TypeOK, SurpriseRemoval
  <1>3. HoldsOne'
    BY DEF RequestInv, TypeOK, HoldsOne, SurpriseRemoval
  <1>4. OwnedUntilAccepted'
    BY DEF RequestInv, TypeOK, OwnedUntilAccepted, SurpriseRemoval
  <1>5. OutcomeKnown'
    BY DEF RequestInv, TypeOK, OutcomeKnown, SurpriseRemoval
  <1>6. OwnedIsHeld'
    BY DEF RequestInv, TypeOK, OwnedIsHeld, SurpriseRemoval
  <1>7. MemoryKept'
    BY DEF RequestInv, TypeOK, MemoryKept, SurpriseRemoval
  <1>8. PoolMatches'
    BY DEF RequestInv, TypeOK, PoolMatches, SurpriseRemoval
  <1>9. NeverUsedDeleted'
    BY DEF RequestInv, NeverUsedDeleted, SurpriseRemoval
  <1> QED
    BY <1>2, <1>3, <1>4, <1>5, <1>6, <1>7, <1>8, <1>9 DEF RequestInv

-----------------------------------------------------------------------------
\* In the beginning nobody sends anything.
LEMMA RequestInvInit == Init => RequestInv
  BY DEF Init, RequestInv, TypeOK, HoldsOne, OwnedUntilAccepted, OutcomeKnown,
         OwnedIsHeld, MemoryKept, PoolMatches, NeverUsedDeleted, Idle

\* Every step keeps the invariant: one lemma above per action.
LEMMA RequestInvStep == RequestInv /\ [Next]_vars => RequestInv'
  <1> SUFFICES ASSUME RequestInv, [Next]_vars
               PROVE  RequestInv'
    OBVIOUS
  <1>1. ASSUME NEW s \in Senders, NEW kind \in Kinds, Begin(s, kind)
        PROVE  RequestInv'
    BY <1>1, BeginKeeps
  <1>2. ASSUME NEW s \in Senders, Step(s)
        PROVE  RequestInv'
    BY <1>2, CreateKeeps, BackKeeps, FormatKeeps, NoResourcesKeeps, SendKeeps,
       SendFailsKeeps, SentKeeps, NotSentKeeps, ReturnKeeps DEF Step
  <1>3. ASSUME NEW r \in Requests, EvtUsbRequestCompletionRoutine(r)
        PROVE  RequestInv'
    BY <1>3, EvtUsbRequestCompletionRoutineKeeps
  <1>4. CASE SurpriseRemoval
    BY <1>4, SurpriseRemovalKeeps
  <1>5. CASE UNCHANGED vars
    BY <1>5 DEF vars, RequestInv, TypeOK, HoldsOne, OwnedUntilAccepted,
                OutcomeKnown, OwnedIsHeld, MemoryKept, PoolMatches,
                NeverUsedDeleted
  <1> QED
    BY <1>1, <1>2, <1>3, <1>4, <1>5 DEF Next

\* So it holds in every reachable state.
LEMMA RequestInvAlways == Spec => []RequestInv
  BY RequestInvInit, RequestInvStep, PTL DEF Spec

\* However senders, the target and the completion routine interleave, senders,
\* requests and buffers stay within their types.
THEOREM RequestTypes == Spec => []TypeOK
  BY RequestInvAlways, PTL DEF RequestInv

\* No sender ever uses a request that the completion routine has deleted
\* (Bulkrwr.c:135-149): it looks at one only when the target refused it, and
\* then the request is still the driver's own.
THEOREM NoUseAfterDelete == Spec => []NeverUsedDeleted
  BY RequestInvAlways, PTL DEF RequestInv

\* A request that nobody will delete any more belongs to a call that returned
\* an error (UsbInterrupt.c:41-95, Bulkrwr.c:105-147).
THEOREM LeaksAreReported == Spec => []NoSilentLeak
  <1>1. RequestInv => NoSilentLeak
    BY DEF RequestInv, OwnedIsHeld, NoSilentLeak, Abandoned
  <1> QED
    BY <1>1, RequestInvAlways, PTL

\* HID_Command's buffer lives as long as the call, and a request that is under
\* way has its memory (Bulkrwr.c:152-184).
THEOREM BuffersCorrect == Spec => []BuffersBalanced
  <1>1. RequestInv => BuffersBalanced
    BY DEF RequestInv, TypeOK, PoolMatches, MemoryKept, BuffersBalanced
  <1> QED
    BY <1>1, RequestInvAlways, PTL
=============================================================================
