-------------------------- MODULE HciBringUp_proofs --------------------------
(***************************************************************************)
(* Safety of the bring-up conversation, for every set of versions and      *)
(* refusals, every combination of faults and any number of power cycles.   *)
(***************************************************************************)
EXTENDS HciBringUp, TLAPS

\* Taking the oldest message of a queue keeps the others, one place earlier.
LEMMA TailFacts ==
    ASSUME NEW S, NEW q \in Seq(S), q # <<>>
    PROVE  /\ Tail(q) \in Seq(S)
           /\ Head(q) \in S
           /\ Head(q) = q[1]
           /\ 1 \in DOMAIN q
           /\ DOMAIN Tail(q) = 1..(Len(q) - 1)
           /\ \A i \in DOMAIN Tail(q) :
                 i + 1 \in DOMAIN q /\ Tail(q)[i] = q[i + 1] /\ i + 1 # 1
  OBVIOUS

\* A message that is sent is the last of its queue.
LEMMA AppendFacts ==
    ASSUME NEW S, NEW q \in Seq(S), NEW m \in S
    PROVE  /\ Append(q, m) \in Seq(S)
           /\ DOMAIN Append(q, m) = 1..(Len(q) + 1)
           /\ DOMAIN q = 1..Len(q)
           /\ Append(q, m)[Len(q) + 1] = m
           /\ \A i \in DOMAIN q : Append(q, m)[i] = q[i]
  OBVIOUS

\* Queues may start empty.
LEMMA EmptyFacts == \A S : <<>> \in Seq(S)
  OBVIOUS

-----------------------------------------------------------------------------
\* Submitting a command keeps the queue of commands well typed.
LEMMA SendType ==
    ASSUME TypeOK, NEW c \in Commands, NEW ok \in BOOLEAN, HCI_Command(c, ok)
    PROVE  cmds' \in Seq(Commands) /\ faulted' \in BOOLEAN
  BY AppendFacts DEF TypeOK, HCI_Command

\* Reading an event keeps the queue of events well typed.
LEMMA ReadType ==
    ASSUME TypeOK, NEW kind, NEW c, NEW ok, Reads(kind, c, ok)
    PROVE  /\ events' \in Seq(Events)
           /\ Head(events) \in Events
           /\ c \in Commands
           /\ power' = power /\ targets' = targets
           /\ chip' = chip /\ accepted' = accepted /\ cycled' = cycled
  <1>1. Tail(events) \in Seq(Events) /\ Head(events) \in Events
    BY TailFacts DEF TypeOK, Reads
  <1>2. c \in Commands
    BY <1>1 DEF Reads, Events
  <1> QED BY <1>1, <1>2 DEF Reads

\* The successors of a command are commands, and never a reset.
LEMMA Successors ==
    /\ \A c \in SspProbes : AfterProbe[c] \in Commands \ {"Reset"}
    /\ \A c \in ConfigCommands : AfterConfig[c] \in Commands \ {"Reset"}
  BY DEF SspProbes, ConfigCommands, AfterProbe, AfterConfig, Commands,
         SspCommands

\* The type invariant of the bring-up (HciBringUp.TypeOK).
THEOREM TypeCorrect == Spec => []TypeOK
  <1>1. Init => TypeOK
    BY EmptyFacts DEF Init, TypeOK, PowerStates
  <1>2. TypeOK /\ [Next]_vars => TypeOK'
    <2> SUFFICES ASSUME TypeOK, [Next]_vars PROVE TypeOK'
      OBVIOUS
    <2> USE DEF driver
    <2>1. ASSUME NEW c \in Commands, NEW kind \in {"complete", "status"},
                 NEW ok \in BOOLEAN, Answer(c, kind, ok)
          PROVE  TypeOK'
      <3>1. [kind |-> kind, cmd |-> c, ok |-> ok] \in Events
        BY DEF Events
      <3>2. cmds' \in Seq(Commands) /\ events' \in Seq(Events)
        BY <2>1, <3>1, TailFacts, AppendFacts DEF Answer, TypeOK
      <3>3. accepted' \subseteq Commands /\ faulted' \in BOOLEAN
        BY <2>1 DEF Answer, TypeOK
      <3> QED BY <2>1, <3>2, <3>3 DEF Answer, TypeOK
    <2>2. CASE InterruptReader
      <3>1. ASSUME NEW sent \in BOOLEAN, ResetComplete(sent) PROVE TypeOK'
        BY <3>1, SendType, ReadType DEF ResetComplete, TypeOK, Commands
      <3>2. ASSUME NEW sent \in BOOLEAN, ReadBdAddrComplete(sent) PROVE TypeOK'
        BY <3>2, SendType, ReadType DEF ReadBdAddrComplete, TypeOK, Commands
      <3>3. ASSUME NEW sent \in BOOLEAN, ReadBufferSizeComplete(sent)
            PROVE  TypeOK'
        BY <3>3, SendType, ReadType DEF ReadBufferSizeComplete, TypeOK, Commands
      <3>4. ASSUME NEW sent \in BOOLEAN, VersionUnsupported(sent) PROVE TypeOK'
        BY <3>4, SendType, ReadType DEF VersionUnsupported, TypeOK, Commands
      <3>5. ASSUME NEW sent \in BOOLEAN, VersionSupported(sent) PROVE TypeOK'
        <4> DEFINE c == IF DisableSSP THEN "Write_Scan_Enable"
                        ELSE "Write_Simple_Pairing_Mode"
        <4>1. c \in Commands
          BY DEF Commands, SspCommands, SspProbes
        <4> QED
          BY <3>5, <4>1, SendType, ReadType DEF VersionSupported, TypeOK
      <3>6. ASSUME NEW sent \in BOOLEAN, NEW c \in SspProbes,
                   ProbeAccepted(c, sent)
            PROVE  TypeOK'
        BY <3>6, SendType, ReadType, Successors DEF ProbeAccepted, TypeOK
      <3>7. ASSUME NEW sent \in BOOLEAN, NEW c \in SspProbes,
                   NEW kind \in {"complete", "status"},
                   ProbeRefused(kind, c, sent)
            PROVE  TypeOK'
        BY <3>7, SendType, ReadType DEF ProbeRefused, TypeOK, Commands
      <3>8. ASSUME NEW sent \in BOOLEAN, NEW ok \in BOOLEAN,
                   DebugModeComplete(ok, sent)
            PROVE  TypeOK'
        BY <3>8, SendType, ReadType
           DEF DebugModeComplete, TypeOK, Commands, SspCommands, SspProbes
      <3>9. ASSUME NEW sent \in BOOLEAN, NEW c \in ConfigCommands,
                   ConfigComplete(c, sent)
            PROVE  TypeOK'
        BY <3>9, SendType, ReadType, Successors DEF ConfigComplete, TypeOK
      <3>10. CASE ResetWhileStarted
        BY <3>10, ReadType DEF ResetWhileStarted, Ignore, TypeOK
      <3>11. CASE ScanEnableComplete
        BY <3>11, ReadType DEF ScanEnableComplete, TypeOK
      <3>12. ASSUME NEW kind, NEW c, RefusalIgnored(kind, c) PROVE TypeOK'
        BY <3>12, ReadType DEF RefusalIgnored, Ignore, TypeOK
      <3>13. CASE ConnectionRequest
        BY <3>13 DEF ConnectionRequest, TypeOK
      <3> QED
        BY <2>2, <3>1, <3>2, <3>3, <3>4, <3>5, <3>6, <3>7, <3>8, <3>9, <3>10,
           <3>11, <3>12, <3>13 DEF InterruptReader
    <2>3. CASE Power
      <3>1. ASSUME NEW n \in 0..3, D0EntryStart(n) PROVE TypeOK'
        BY <3>1 DEF D0EntryStart, TypeOK, PowerStates, Pipes, PipeOrder
      <3>2. ASSUME NEW sent \in BOOLEAN, D0EntryReset(sent) PROVE TypeOK'
        BY <3>2, SendType DEF D0EntryReset, TypeOK, PowerStates, Commands
      <3>3. ASSUME NEW sent \in BOOLEAN, D0ExitReset(sent) PROVE TypeOK'
        BY <3>3, SendType DEF D0ExitReset, TypeOK, PowerStates, Commands
      <3>4. CASE D0ExitStop
        BY <3>4, EmptyFacts DEF D0ExitStop, TypeOK, PowerStates
      <3>5. CASE Remove
        BY <3>5 DEF Remove, TypeOK, PowerStates
      <3>6. CASE Replug
        BY <3>6, EmptyFacts DEF Replug, TypeOK, PowerStates
      <3> QED BY <2>3, <3>1, <3>2, <3>3, <3>4, <3>5, <3>6 DEF Power
    <2>4. CASE UNCHANGED vars
      BY <2>4 DEF vars, TypeOK
    <2> QED BY <2>1, <2>2, <2>3, <2>4 DEF Next, Controller
  <1> QED BY <1>1, <1>2, PTL DEF Spec

-----------------------------------------------------------------------------
(* One conversation.  The invariant is inductive together with the types   *)
(* and with IdleUnlessStarted: a second reset completion opens a second    *)
(* conversation unless Started is set whenever one is under way.           *)

ConversationInv == TypeOK /\ OneConversation /\ IdleUnlessStarted

\* Reading moves the later events one place forward.
LEMMA ReadShifts ==
    ASSUME TypeOK, NEW kind, NEW c, NEW ok, Reads(kind, c, ok)
    PROVE  /\ events[1] = [kind |-> kind, cmd |-> c, ok |-> ok]
           /\ events[1].cmd = c /\ events[1].kind = kind /\ events[1].ok = ok
           /\ 1 \in DOMAIN events
           /\ \A i \in DOMAIN events' :
                 i + 1 \in DOMAIN events /\ events'[i] = events[i + 1]
                 /\ i + 1 # 1 /\ i \in Nat
  <1>1. events # <<>> /\ events \in Seq(Events) /\ events' = Tail(events)
    BY DEF Reads, TypeOK
  <1>2. events[1] = [kind |-> kind, cmd |-> c, ok |-> ok]
    BY <1>1, TailFacts DEF Reads
  <1>3. /\ 1 \in DOMAIN events
        /\ DOMAIN events' = 1..(Len(events) - 1) /\ Len(events) \in Nat
        /\ \A i \in DOMAIN events' :
              i + 1 \in DOMAIN events /\ events'[i] = events[i + 1] /\ i + 1 # 1
    BY <1>1, TailFacts
  <1>4. \A i \in DOMAIN events' : i \in Nat
    BY <1>3
  <1> QED BY <1>2, <1>3, <1>4

\* Sending adds at most one command, the last.
LEMMA SendAdds ==
    ASSUME TypeOK, NEW c \in Commands, NEW ok \in BOOLEAN, HCI_Command(c, ok)
    PROVE  /\ \A i \in DOMAIN cmds' :
                 \/ i \in DOMAIN cmds /\ cmds'[i] = cmds[i]
                 \/ i = Len(cmds) + 1 /\ cmds'[i] = c
           /\ \A i \in DOMAIN cmds :
                 i \in DOMAIN cmds' /\ cmds'[i] = cmds[i]
           /\ ok => /\ Len(cmds) + 1 \in DOMAIN cmds'
                    /\ cmds'[Len(cmds) + 1] = c
           /\ ~ok => faulted'
           /\ faulted => faulted'
  <1>1. cmds \in Seq(Commands)
    BY DEF TypeOK
  <1>2. CASE ok
    <2>1. cmds' = Append(cmds, c)
      BY <1>2 DEF HCI_Command
    <2>2. DOMAIN cmds' = 1..(Len(cmds) + 1) /\ DOMAIN cmds = 1..Len(cmds)
      BY <1>1, <2>1, AppendFacts
    <2>3. cmds'[Len(cmds) + 1] = c /\ \A i \in DOMAIN cmds : cmds'[i] = cmds[i]
      BY <1>1, <2>1, AppendFacts
    <2>4. Len(cmds) \in Nat
      BY <1>1
    <2>5. \A i \in 1..(Len(cmds) + 1) : i \in 1..Len(cmds) \/ i = Len(cmds) + 1
      BY <2>4
    <2>6. \A i \in 1..Len(cmds) : i \in 1..(Len(cmds) + 1)
      BY <2>4
    <2>7. Len(cmds) + 1 \in 1..(Len(cmds) + 1)
      BY <2>4
    <2>8. faulted => faulted'
      BY DEF HCI_Command
    <2> QED BY <1>2, <2>2, <2>3, <2>5, <2>6, <2>7, <2>8
  <1>3. CASE ~ok
    BY <1>3 DEF HCI_Command
  <1> QED BY <1>2, <1>3

\* Reading a message of the conversation leaves nothing of it under way.
LEMMA ReadEndsTalk ==
    ASSUME ConversationInv, NEW kind, NEW c, NEW ok, Reads(kind, c, ok),
           c # "Reset"
    PROVE  TalkingCmds = {} /\ TalkingEvents' = {} /\ Started
  <1>1. 1 \in TalkingEvents
    BY ReadShifts DEF TalkingEvents, ConversationInv
  <1>2. TalkingEvents' = {}
    <2> SUFFICES ASSUME NEW i \in TalkingEvents' PROVE FALSE
      OBVIOUS
    <2>1. i + 1 \in TalkingEvents /\ i + 1 # 1
      BY ReadShifts DEF TalkingEvents, ConversationInv
    <2> QED BY <1>1, <2>1 DEF ConversationInv, OneConversation
  <1> QED BY <1>1, <1>2 DEF ConversationInv, OneConversation, IdleUnlessStarted

\* Reading a reset leaves the conversation alone.
LEMMA ReadKeepsTalk ==
    ASSUME ConversationInv, NEW kind, NEW ok, Reads(kind, "Reset", ok)
    PROVE  /\ \A i \in TalkingEvents' : i + 1 \in TalkingEvents /\ i \in Nat
           /\ TalkingEvents # {} => TalkingEvents' # {}
  <1>1. \A i \in TalkingEvents' : i + 1 \in TalkingEvents /\ i \in Nat
    BY ReadShifts DEF TalkingEvents, ConversationInv
  <1>2. ASSUME NEW i \in TalkingEvents PROVE i - 1 \in TalkingEvents'
    <2>1. i # 1 /\ i \in DOMAIN events
      BY ReadShifts DEF TalkingEvents, ConversationInv
    <2>2. events \in Seq(Events) /\ events # <<>> /\ events' = Tail(events)
      BY DEF ConversationInv, TypeOK, Reads
    <2>3. i \in 2..Len(events) /\ i - 1 \in 1..(Len(events) - 1)
      BY <2>1, <2>2
    <2>4. i - 1 \in DOMAIN events' /\ events'[i - 1] = events[(i - 1) + 1]
      BY <2>2, <2>3, TailFacts
    <2> QED BY <2>3, <2>4 DEF TalkingEvents
  <1> QED BY <1>1, <1>2

\* Starting to talk when nothing is under way.
LEMMA SendStartsTalk ==
    ASSUME TypeOK, NEW c \in Commands, NEW ok \in BOOLEAN, HCI_Command(c, ok),
           TalkingCmds = {}
    PROVE  /\ \A i \in TalkingCmds' : i = Len(cmds) + 1
           /\ ok /\ c # "Reset" => TalkingCmds' # {}
  <1>1. \A i \in TalkingCmds' : i = Len(cmds) + 1
    BY SendAdds DEF TalkingCmds
  <1>2. ok /\ c # "Reset" => Len(cmds) + 1 \in TalkingCmds'
    BY SendAdds DEF TalkingCmds
  <1> QED BY <1>1, <1>2

\* Sending a reset is not talking.
LEMMA SendReset ==
    ASSUME TypeOK, NEW ok \in BOOLEAN, HCI_Command("Reset", ok)
    PROVE  TalkingCmds' = TalkingCmds
  <1>1. "Reset" \in Commands
    BY DEF Commands
  <1> QED BY <1>1, SendAdds DEF TalkingCmds

\* A handler that answers a message of the conversation with a command
\* keeps the conversation single.
LEMMA HandlerKeepsConversation ==
    ASSUME ConversationInv, NEW kind, NEW c, NEW ok, Reads(kind, c, ok),
           c # "Reset", NEW d \in Commands, NEW sent \in BOOLEAN,
           HCI_Command(d, sent)
    PROVE  OneConversation' /\ (Started' = Started => IdleUnlessStarted')
  <1>1. TalkingCmds = {} /\ TalkingEvents' = {} /\ Started
    BY ReadEndsTalk
  <1>2. \A i \in TalkingCmds' : i = Len(cmds) + 1
    BY <1>1, SendStartsTalk DEF ConversationInv
  <1> QED BY <1>1, <1>2 DEF OneConversation, IdleUnlessStarted

\* One conversation at a time (HciBringUp.OneConversation), and none unless
\* Started is set (HciBringUp.IdleUnlessStarted).
THEOREM ConversationCorrect == Spec => [](OneConversation /\ IdleUnlessStarted)
  <1>1. Init => ConversationInv
    <2>1. Init => TypeOK
      BY EmptyFacts DEF Init, TypeOK, PowerStates
    <2>2. Init => TalkingCmds = {} /\ TalkingEvents = {}
      BY DEF Init, TalkingCmds, TalkingEvents
    <2> QED
      BY <2>1, <2>2 DEF ConversationInv, OneConversation, IdleUnlessStarted
  <1>2. ConversationInv /\ TypeOK' /\ [Next]_vars => ConversationInv'
    <2> SUFFICES ASSUME ConversationInv, TypeOK', [Next]_vars
                 PROVE  OneConversation' /\ IdleUnlessStarted'
      BY DEF ConversationInv
    <2> TypeOK
      BY DEF ConversationInv
    <2> USE DEF driver
    <2>1. ASSUME NEW c \in Commands, NEW kind \in {"complete", "status"},
                 NEW ok \in BOOLEAN, Answer(c, kind, ok)
          PROVE  OneConversation' /\ IdleUnlessStarted'
      <3> DEFINE n == Len(events) + 1
      <3>1. /\ cmds # <<>> /\ c = cmds[1] /\ 1 \in DOMAIN cmds
            /\ \A i \in DOMAIN cmds' :
                  i + 1 \in DOMAIN cmds /\ cmds'[i] = cmds[i + 1] /\ i + 1 # 1
        BY <2>1, TailFacts DEF Answer, TypeOK
      <3>2. DOMAIN cmds' \subseteq Nat
        BY DEF TypeOK
      <3>3. [kind |-> kind, cmd |-> c, ok |-> ok] \in Events
        BY DEF Events
      <3>4. \A i \in DOMAIN events' :
               \/ i \in DOMAIN events /\ events'[i] = events[i]
               \/ i = n /\ events'[i].cmd = c
        <4>1. events \in Seq(Events) /\ Len(events) \in Nat
          BY DEF TypeOK
        <4>2. events' = Append(events, [kind |-> kind, cmd |-> c, ok |-> ok])
          BY <2>1 DEF Answer
        <4>3. \A i \in 1..n : i \in 1..Len(events) \/ i = n
          BY <4>1
        <4> QED BY <4>1, <4>2, <4>3, <3>3, AppendFacts
      <3>5. \A i \in TalkingCmds' : i + 1 \in TalkingCmds /\ i \in Nat /\ i + 1 # 1
        BY <3>1, <3>2 DEF TalkingCmds
      <3>6. CASE c = "Reset"
        <4>1. \A i \in TalkingEvents' : i \in TalkingEvents
          BY <3>4, <3>6 DEF TalkingEvents
        <4>2. Started' = Started
          BY <2>1 DEF Answer
        <4> QED
          BY <3>5, <4>1, <4>2 DEF ConversationInv, OneConversation,
                                  IdleUnlessStarted
      <3>7. CASE c # "Reset"
        <4>1. 1 \in TalkingCmds
          BY <3>1, <3>7 DEF TalkingCmds
        <4>2. TalkingEvents = {} /\ Started
          BY <4>1 DEF ConversationInv, OneConversation, IdleUnlessStarted
        <4>3. TalkingCmds' = {}
          BY <3>5, <4>1 DEF ConversationInv, OneConversation
        <4>4. \A i \in TalkingEvents' : i = n
          BY <3>4, <4>2 DEF TalkingEvents
        <4>5. Started' = Started
          BY <2>1 DEF Answer
        <4> QED BY <4>2, <4>3, <4>4, <4>5 DEF OneConversation, IdleUnlessStarted
      <3> QED BY <3>6, <3>7
    <2>2. CASE InterruptReader
      <3>1. ASSUME NEW sent \in BOOLEAN, ResetComplete(sent)
            PROVE  OneConversation' /\ IdleUnlessStarted'
        <4>1. TalkingCmds = {} /\ TalkingEvents = {}
          BY <3>1 DEF ResetComplete, ConversationInv, IdleUnlessStarted
        <4>2. TalkingEvents' = {}
          BY <3>1, <4>1, ReadKeepsTalk DEF ResetComplete
        <4>3. \A i \in TalkingCmds' : i = Len(cmds) + 1
          BY <3>1, <4>1, SendStartsTalk DEF ResetComplete, Commands
        <4> QED
          BY <3>1, <4>2, <4>3 DEF ResetComplete, OneConversation,
                                  IdleUnlessStarted
      <3>2. ASSUME NEW sent \in BOOLEAN, ReadBdAddrComplete(sent)
            PROVE  OneConversation' /\ IdleUnlessStarted'
        BY <3>2, HandlerKeepsConversation DEF ReadBdAddrComplete, Commands
      <3>3. ASSUME NEW sent \in BOOLEAN, ReadBufferSizeComplete(sent)
            PROVE  OneConversation' /\ IdleUnlessStarted'
        BY <3>3, HandlerKeepsConversation DEF ReadBufferSizeComplete, Commands
      <3>4. ASSUME NEW sent \in BOOLEAN, VersionUnsupported(sent)
            PROVE  OneConversation' /\ IdleUnlessStarted'
        <4>1. TalkingCmds = {} /\ TalkingEvents' = {}
          BY <3>4, ReadEndsTalk DEF VersionUnsupported
        <4>2. TalkingCmds' = {}
          BY <3>4, <4>1, SendReset DEF VersionUnsupported
        <4> QED BY <4>1, <4>2 DEF OneConversation, IdleUnlessStarted
      <3>5. ASSUME NEW sent \in BOOLEAN, VersionSupported(sent)
            PROVE  OneConversation' /\ IdleUnlessStarted'
        <4> DEFINE d == IF DisableSSP THEN "Write_Scan_Enable"
                        ELSE "Write_Simple_Pairing_Mode"
        <4>1. d \in Commands
          BY DEF Commands, SspCommands, SspProbes
        <4> QED
          BY <3>5, <4>1, HandlerKeepsConversation DEF VersionSupported
      <3>6. ASSUME NEW sent \in BOOLEAN, NEW c \in SspProbes,
                   ProbeAccepted(c, sent)
            PROVE  OneConversation' /\ IdleUnlessStarted'
        <4>1. c # "Reset"
          BY DEF SspProbes
        <4> QED
          BY <3>6, <4>1, Successors, HandlerKeepsConversation DEF ProbeAccepted
      <3>7. ASSUME NEW sent \in BOOLEAN, NEW c \in SspProbes,
                   NEW kind \in {"complete", "status"},
                   ProbeRefused(kind, c, sent)
            PROVE  OneConversation' /\ IdleUnlessStarted'
        <4>1. c # "Reset" /\ "Write_Scan_Enable" \in Commands
          BY DEF SspProbes, Commands
        <4> QED
          BY <3>7, <4>1, HandlerKeepsConversation DEF ProbeRefused
      <3>8. ASSUME NEW sent \in BOOLEAN, NEW ok \in BOOLEAN,
                   DebugModeComplete(ok, sent)
            PROVE  OneConversation' /\ IdleUnlessStarted'
        <4>1. "Write_Authentication_Enable" \in Commands
          BY DEF Commands, SspCommands, SspProbes
        <4> QED
          BY <3>8, <4>1, HandlerKeepsConversation DEF DebugModeComplete
      <3>9. ASSUME NEW sent \in BOOLEAN, NEW c \in ConfigCommands,
                   ConfigComplete(c, sent)
            PROVE  OneConversation' /\ IdleUnlessStarted'
        <4>1. c # "Reset"
          BY DEF ConfigCommands
        <4> QED
          BY <3>9, <4>1, Successors, HandlerKeepsConversation DEF ConfigComplete
      <3>10. CASE ResetWhileStarted
        <4>1. \A i \in TalkingEvents' : i + 1 \in TalkingEvents /\ i \in Nat
          BY <3>10, ReadKeepsTalk DEF ResetWhileStarted
        <4>2. TalkingCmds' = TalkingCmds /\ Started' = Started
          BY <3>10 DEF ResetWhileStarted, Ignore, TalkingCmds
        <4> QED
          BY <4>1, <4>2 DEF ConversationInv, OneConversation, IdleUnlessStarted
      <3>11. CASE ScanEnableComplete
        <4>1. TalkingCmds = {} /\ TalkingEvents' = {}
          BY <3>11, ReadEndsTalk DEF ScanEnableComplete
        <4>2. TalkingCmds' = TalkingCmds
          BY <3>11 DEF ScanEnableComplete, TalkingCmds
        <4> QED BY <4>1, <4>2 DEF OneConversation, IdleUnlessStarted
      <3>12. ASSUME NEW kind, NEW c, RefusalIgnored(kind, c)
             PROVE  OneConversation' /\ IdleUnlessStarted'
        <4>1. \A i \in TalkingEvents' : i + 1 \in TalkingEvents /\ i \in Nat
          BY <3>12, ReadShifts DEF RefusalIgnored, TalkingEvents
        <4>2. TalkingCmds' = TalkingCmds /\ Started' = Started
          BY <3>12 DEF RefusalIgnored, Ignore, TalkingCmds
        <4> QED
          BY <4>1, <4>2 DEF ConversationInv, OneConversation, IdleUnlessStarted
      <3>13. CASE ConnectionRequest
        BY <3>13 DEF ConnectionRequest, ConversationInv, OneConversation,
                     IdleUnlessStarted, TalkingCmds, TalkingEvents
      <3> QED
        BY <2>2, <3>1, <3>2, <3>3, <3>4, <3>5, <3>6, <3>7, <3>8, <3>9, <3>10,
           <3>11, <3>12, <3>13 DEF InterruptReader
    <2>3. CASE Power
      <3>1. ASSUME NEW sent \in BOOLEAN, D0EntryReset(sent) \/ D0ExitReset(sent)
            PROVE  OneConversation' /\ IdleUnlessStarted'
        <4>1. HCI_Command("Reset", sent) /\ UNCHANGED <<Started, events>>
          BY <3>1 DEF D0EntryReset, D0ExitReset
        <4>2. TalkingCmds' = TalkingCmds
          BY <4>1, SendReset
        <4>3. TalkingEvents' = TalkingEvents /\ Started' = Started
          BY <4>1 DEF TalkingEvents
        <4> QED
          BY <4>2, <4>3 DEF ConversationInv, OneConversation, IdleUnlessStarted
      <3>2. CASE (\E n \in 0..3 : D0EntryStart(n)) \/ Remove
        BY <3>2 DEF D0EntryStart, Remove, ConversationInv, OneConversation,
                    IdleUnlessStarted, TalkingCmds, TalkingEvents
      <3>3. CASE D0ExitStop
        BY <3>3 DEF D0ExitStop, ConversationInv, OneConversation,
                    IdleUnlessStarted, TalkingCmds, TalkingEvents
      <3>4. CASE Replug
        BY <3>4 DEF Replug, OneConversation, IdleUnlessStarted, TalkingCmds,
                    TalkingEvents
      <3> QED BY <2>3, <3>1, <3>2, <3>3, <3>4 DEF Power
    <2>4. CASE UNCHANGED vars
      BY <2>4 DEF vars, ConversationInv, OneConversation, IdleUnlessStarted,
                  TalkingCmds, TalkingEvents
    <2> QED BY <2>1, <2>2, <2>3, <2>4 DEF Next, Controller
  <1>3. ConversationInv => OneConversation /\ IdleUnlessStarted
    BY DEF ConversationInv
  <1> QED BY <1>1, <1>2, <1>3, TypeCorrect, PTL DEF Spec

\* Started tells whether a conversation may be under way.
THEOREM IdleCorrect == Spec => []IdleUnlessStarted
  BY ConversationCorrect, PTL

-----------------------------------------------------------------------------
(* What is on the way.  Two more invariants say which commands may be in   *)
(* the queues; both follow the same pattern, so the steps of the queues    *)
(* are described once, for any set of commands.                            *)

\* Everything that is on the way is in S.
Within(S) == /\ \A i \in DOMAIN cmds : cmds[i] \in S
             /\ \A i \in DOMAIN events : events[i].cmd \in S

\* An answer is about the command it answers.
LEMMA AnswerWithin ==
    ASSUME TypeOK, NEW S, Within(S), NEW c \in Commands,
           NEW kind \in {"complete", "status"}, NEW ok \in BOOLEAN,
           Answer(c, kind, ok)
    PROVE  Within(S)' /\ DisableSSP' = DisableSSP /\ chip' = chip
           /\ Initialized' = Initialized
  <1>1. /\ cmds # <<>> /\ c = cmds[1] /\ 1 \in DOMAIN cmds
        /\ \A i \in DOMAIN cmds' : i + 1 \in DOMAIN cmds /\ cmds'[i] = cmds[i + 1]
    BY TailFacts DEF Answer, TypeOK
  <1>2. [kind |-> kind, cmd |-> c, ok |-> ok] \in Events
    BY DEF Events
  <1>3. \A i \in DOMAIN events' :
           \/ i \in DOMAIN events /\ events'[i] = events[i]
           \/ events'[i].cmd = c
    <2>1. events \in Seq(Events) /\ Len(events) \in Nat
      BY DEF TypeOK
    <2>2. events' = Append(events, [kind |-> kind, cmd |-> c, ok |-> ok])
      BY DEF Answer
    <2>3. \A i \in 1..(Len(events) + 1) :
             i \in 1..Len(events) \/ i = Len(events) + 1
      BY <2>1
    <2> QED BY <2>1, <2>2, <2>3, <1>2, AppendFacts
  <1>4. c \in S
    BY <1>1 DEF Within
  <1> QED BY <1>1, <1>3, <1>4 DEF Within, Answer, driver

\* An event that is read was about a command in S.
LEMMA ReadWithin ==
    ASSUME TypeOK, NEW S, Within(S), NEW kind, NEW c, NEW ok,
           Reads(kind, c, ok)
    PROVE  c \in S /\ (\A i \in DOMAIN events' : events'[i].cmd \in S)
           /\ chip' = chip
  BY ReadShifts DEF Within, Reads

\* A handler that sends a command of S.
LEMMA SendWithin ==
    ASSUME TypeOK, NEW S, Within(S), NEW kind, NEW c, NEW ok,
           Reads(kind, c, ok), NEW d \in S \cap Commands, NEW sent \in BOOLEAN,
           HCI_Command(d, sent)
    PROVE  Within(S)'
  BY ReadWithin, SendAdds DEF Within

\* A power callback that sends a reset.
LEMMA ResetWithin ==
    ASSUME TypeOK, NEW S, Within(S), "Reset" \in S, NEW sent \in BOOLEAN,
           HCI_Command("Reset", sent), events' = events
    PROVE  Within(S)'
  <1>1. "Reset" \in Commands
    BY DEF Commands
  <1> QED BY <1>1, SendAdds DEF Within

\* Power transitions add nothing but resets.
LEMMA PowerWithin ==
    ASSUME TypeOK, NEW S, "Reset" \in S, Within(S), Power
    PROVE  Within(S)' /\ (Initialized' => Initialized)
  <1> USE DEF driver
  <1>1. ASSUME NEW sent \in BOOLEAN, D0EntryReset(sent) \/ D0ExitReset(sent)
        PROVE  Within(S)' /\ UNCHANGED <<chip, DisableSSP, Initialized>>
    BY <1>1, ResetWithin DEF D0EntryReset, D0ExitReset
  <1>2. CASE (\E n \in 0..3 : D0EntryStart(n)) \/ Remove
    BY <1>2 DEF D0EntryStart, Remove, Within
  <1>3. CASE D0ExitStop
    BY <1>3 DEF D0ExitStop, Within
  <1>4. CASE Replug
    BY <1>4 DEF Replug, Within
  <1> QED BY <1>1, <1>2, <1>3, <1>4 DEF Power

\* The commands a driver sends that has given simple pairing up.
Plain == Commands \ (SspCommands \cup ConfigCommands)
GivenUpInv == DisableSSP => Within(Plain)

LEMMA PlainCommands ==
    Plain = {"Reset", "Read_BD_ADDR", "Read_Buffer_Size",
             "Read_Local_Version_Info", "Write_Scan_Enable"}
  BY DEF Plain, Commands, SspCommands, SspProbes, ConfigCommands

\* Simple pairing is given up for good (HciBringUp.SspGivenUpForGood).  The
\* refusal itself needs ConversationCorrect: nothing else may be under way
\* when it is read.
THEOREM GivenUpCorrect == Spec => []SspGivenUpForGood
  <1>1. Init => GivenUpInv
    BY DEF Init, GivenUpInv
  <1>2. GivenUpInv /\ ConversationInv /\ [Next]_vars => GivenUpInv'
    <2> SUFFICES ASSUME GivenUpInv, ConversationInv, [Next]_vars, DisableSSP'
                 PROVE  Within(Plain)'
      BY DEF GivenUpInv
    <2> TypeOK
      BY DEF ConversationInv
    <2> USE DEF driver
    <2>1. ASSUME NEW c \in Commands, NEW kind \in {"complete", "status"},
                 NEW ok \in BOOLEAN, Answer(c, kind, ok)
          PROVE  Within(Plain)'
      BY <2>1, AnswerWithin DEF GivenUpInv, Answer
    <2>2. CASE InterruptReader
      <3> \A d \in {"Reset", "Read_BD_ADDR", "Read_Buffer_Size",
                    "Read_Local_Version_Info", "Write_Scan_Enable"} :
              d \in Plain \cap Commands
        BY PlainCommands DEF Plain
      <3>1. ASSUME NEW sent \in BOOLEAN,
                   ResetComplete(sent) \/ ReadBdAddrComplete(sent)
                   \/ ReadBufferSizeComplete(sent) \/ VersionUnsupported(sent)
            PROVE  Within(Plain)'
        <4>1. DisableSSP /\ Within(Plain)
          BY <3>1 DEF ResetComplete, ReadBdAddrComplete, ReadBufferSizeComplete,
                      VersionUnsupported, GivenUpInv
        <4> QED
          BY <3>1, <4>1, SendWithin
             DEF ResetComplete, ReadBdAddrComplete, ReadBufferSizeComplete,
                 VersionUnsupported
      <3>2. ASSUME NEW sent \in BOOLEAN, VersionSupported(sent)
            PROVE  Within(Plain)'
        <4>1. DisableSSP /\ Within(Plain)
          BY <3>2 DEF VersionSupported, GivenUpInv
        <4>2. HCI_Command("Write_Scan_Enable", sent)
          BY <3>2, <4>1 DEF VersionSupported
        <4> QED BY <3>2, <4>1, <4>2, SendWithin DEF VersionSupported
      <3>3. ASSUME NEW sent \in BOOLEAN, NEW c \in SspProbes,
                   NEW kind \in {"complete", "status"},
                   ProbeRefused(kind, c, sent)
            PROVE  Within(Plain)'
        <4>1. Reads(kind, c, FALSE) /\ c # "Reset"
              /\ HCI_Command("Write_Scan_Enable", sent)
          BY <3>3 DEF ProbeRefused, SspProbes
        <4>2. TalkingCmds = {} /\ TalkingEvents' = {}
          BY <4>1, ReadEndsTalk
        <4>3. \A i \in DOMAIN cmds : cmds[i] = "Reset"
          BY <4>2 DEF TalkingCmds
        <4>4. \A i \in DOMAIN events' : events'[i].cmd = "Reset"
          BY <4>2 DEF TalkingEvents
        <4>5. \A i \in DOMAIN cmds' : cmds'[i] \in {"Reset", "Write_Scan_Enable"}
          BY <4>1, <4>3, SendAdds DEF Commands
        <4> QED BY <4>4, <4>5 DEF Within
      <3>4. ASSUME NEW sent \in BOOLEAN, NEW c \in SspProbes \cup ConfigCommands,
                   ProbeAccepted(c, sent) \/ ConfigComplete(c, sent)
            PROVE  FALSE
        <4>1. Reads("complete", c, TRUE) /\ DisableSSP
          BY <3>4 DEF ProbeAccepted, ConfigComplete
        <4>2. c \in Plain
          BY <4>1, ReadWithin DEF GivenUpInv
        <4> QED BY <4>2 DEF Plain, SspCommands
      <3>5. ASSUME NEW sent \in BOOLEAN, NEW ok \in BOOLEAN,
                   DebugModeComplete(ok, sent)
            PROVE  FALSE
        <4>1. Reads("complete", "Write_Simple_Pairing_Debug_Mode", ok)
              /\ DisableSSP
          BY <3>5 DEF DebugModeComplete
        <4>2. "Write_Simple_Pairing_Debug_Mode" \in Plain
          BY <4>1, ReadWithin DEF GivenUpInv
        <4> QED BY <4>2, PlainCommands
      <3>6. CASE ResetWhileStarted
        BY <3>6, ReadWithin DEF ResetWhileStarted, Ignore, GivenUpInv, Within
      <3>7. CASE ScanEnableComplete
        BY <3>7, ReadWithin DEF ScanEnableComplete, GivenUpInv, Within
      <3>8. ASSUME NEW kind, NEW c, RefusalIgnored(kind, c)
            PROVE  Within(Plain)'
        BY <3>8, ReadWithin DEF RefusalIgnored, Ignore, GivenUpInv, Within
      <3>9. CASE ConnectionRequest
        BY <3>9 DEF ConnectionRequest, GivenUpInv, Within
      <3> QED
        BY <2>2, <3>1, <3>2, <3>3, <3>4, <3>5, <3>6, <3>7, <3>8, <3>9
           DEF InterruptReader
    <2>3. CASE Power
      <3>1. DisableSSP => Within(Plain)'
        BY <2>3, PowerWithin, PlainCommands DEF GivenUpInv
      <3>2. ~DisableSSP => FALSE
        BY <2>3 DEF Power, D0EntryStart, D0EntryReset, D0ExitReset, D0ExitStop,
                    Remove, Replug
      <3> QED BY <3>1, <3>2
    <2>4. CASE UNCHANGED vars
      BY <2>4 DEF vars, GivenUpInv, Within
    <2> QED BY <2>1, <2>2, <2>3, <2>4 DEF Next, Controller
  <1>3. GivenUpInv => SspGivenUpForGood
    BY DEF GivenUpInv, SspGivenUpForGood, Within, Plain
  <1>4. TypeOK /\ OneConversation /\ IdleUnlessStarted => ConversationInv
    BY DEF ConversationInv
  <1> QED BY <1>1, <1>2, <1>3, <1>4, TypeCorrect, ConversationCorrect, PTL DEF Spec

-----------------------------------------------------------------------------
\* What a controller gets to hear before its version is known.
Early == {"Reset", "Read_BD_ADDR", "Read_Buffer_Size",
          "Read_Local_Version_Info"}
TooOldInv == TooOld => Within(Early) /\ ~Initialized

\* A controller that is too old is never initialised
\* (HciBringUp.UnsupportedNeverInitialized): it hears nothing but resets and
\* the three commands that ask for its properties.
THEOREM UnsupportedCorrect == Spec => []UnsupportedNeverInitialized
  <1>1. Init => TooOldInv
    BY DEF Init, TooOldInv, Within
  <1>2. TooOldInv /\ TypeOK /\ [Next]_vars => TooOldInv'
    <2> SUFFICES ASSUME TooOldInv, TypeOK, [Next]_vars, TooOld'
                 PROVE  Within(Early)' /\ ~Initialized'
      BY DEF TooOldInv
    <2> USE DEF driver
    <2>0. TooOld
      <3>1. chip' = chip
        BY DEF Next, Controller, Answer, InterruptReader, Reads, ResetComplete,
               ReadBdAddrComplete, ReadBufferSizeComplete, VersionUnsupported,
               VersionSupported, ProbeAccepted, ProbeRefused, DebugModeComplete,
               ConfigComplete, ResetWhileStarted, ScanEnableComplete,
               ConnectionRequest, RefusalIgnored, Power, D0EntryStart,
               D0EntryReset, D0ExitReset, D0ExitStop, Remove, Replug, vars
      <3> QED BY <3>1 DEF TooOld
    <2>a. Within(Early) /\ ~Initialized
      BY <2>0 DEF TooOldInv
    <2>1. ASSUME NEW c \in Commands, NEW kind \in {"complete", "status"},
                 NEW ok \in BOOLEAN, Answer(c, kind, ok)
          PROVE  Within(Early)' /\ ~Initialized'
      BY <2>1, <2>a, AnswerWithin
    <2>2. CASE InterruptReader
      <3> \A d \in Early : d \in Early \cap Commands
        BY DEF Early, Commands
      <3>1. ASSUME NEW sent \in BOOLEAN,
                   ResetComplete(sent) \/ ReadBdAddrComplete(sent)
                   \/ ReadBufferSizeComplete(sent) \/ VersionUnsupported(sent)
            PROVE  Within(Early)' /\ ~Initialized'
        <4>1. \E d \in Early, c \in {"Reset", "Read_BD_ADDR", "Read_Buffer_Size",
                                   "Read_Local_Version_Info"} :
                 Reads("complete", c, TRUE) /\ HCI_Command(d, sent)
          BY <3>1 DEF ResetComplete, ReadBdAddrComplete, ReadBufferSizeComplete,
                      VersionUnsupported, Early
        <4>2. Within(Early)'
          BY <2>a, <4>1, SendWithin
        <4>3. ~Initialized'
          BY <3>1, <2>a DEF ResetComplete, ReadBdAddrComplete,
                            ReadBufferSizeComplete, VersionUnsupported
        <4> QED BY <4>2, <4>3
      <3>2. ASSUME NEW sent \in BOOLEAN, VersionSupported(sent) PROVE FALSE
        BY <3>2, <2>0 DEF VersionSupported, Unsupported, TooOld
      <3>3. ASSUME NEW sent \in BOOLEAN, NEW c \in SspProbes \cup ConfigCommands,
                   NEW kind,
                   \/ ProbeAccepted(c, sent) \/ ConfigComplete(c, sent)
                   \/ ProbeRefused(kind, c, sent)
            PROVE  FALSE
        <4>1. \E k, ok : Reads(k, c, ok)
          BY <3>3 DEF ProbeAccepted, ConfigComplete, ProbeRefused
        <4>2. c \in Early
          BY <4>1, <2>a, ReadWithin
        <4> QED BY <4>2 DEF Early, SspProbes, ConfigCommands
      <3>4. ASSUME NEW sent \in BOOLEAN, NEW ok \in BOOLEAN,
                   DebugModeComplete(ok, sent) \/ ScanEnableComplete
            PROVE  FALSE
        <4>1. \E c \in {"Write_Simple_Pairing_Debug_Mode", "Write_Scan_Enable"},
                 o \in BOOLEAN : Reads("complete", c, o)
          BY <3>4 DEF DebugModeComplete, ScanEnableComplete
        <4>2. \E c \in {"Write_Simple_Pairing_Debug_Mode", "Write_Scan_Enable"} :
                 c \in Early
          BY <4>1, <2>a, ReadWithin
        <4> QED BY <4>2 DEF Early
      <3>5. CASE ResetWhileStarted
        BY <3>5, <2>a, ReadWithin DEF ResetWhileStarted, Ignore, Within
      <3>6. ASSUME NEW kind, NEW c, RefusalIgnored(kind, c)
            PROVE  Within(Early)' /\ ~Initialized'
        BY <3>6, <2>a, ReadWithin DEF RefusalIgnored, Ignore, Within
      <3>7. CASE ConnectionRequest
        BY <3>7, <2>a DEF ConnectionRequest, Within
      <3> QED
        BY <2>2, <3>1, <3>2, <3>3, <3>4, <3>5, <3>6, <3>7 DEF InterruptReader
    <2>3. CASE Power
      BY <2>3, <2>a, PowerWithin DEF Early
    <2>4. CASE UNCHANGED vars
      BY <2>4, <2>a DEF vars, Within
    <2> QED BY <2>1, <2>2, <2>3, <2>4 DEF Next, Controller
  <1>3. TooOldInv => UnsupportedNeverInitialized
    BY DEF TooOldInv, UnsupportedNeverInitialized
  <1> QED BY <1>1, <1>2, <1>3, TypeCorrect, PTL DEF Spec

-----------------------------------------------------------------------------
(* The bring-up does not get stuck by itself.  Started without a message   *)
(* of the conversation means that it has come to its end, or a fault has   *)
(* happened; and every refusal among the events has an answer.             *)

StallInv ==
    /\ ~faulted => \A i \in DOMAIN events :
           events[i].ok \/ Tolerated(events[i].cmd, events[i].kind)
    /\ ~faulted /\ ~TooOld /\ Started /\ ~Initialized =>
           TalkingCmds # {} \/ TalkingEvents # {}
    /\ ~faulted /\ ~Started /\ power = "D0" => cmds # <<>> \/ events # <<>>

\* A command that is sent is under way.
LEMMA SendFills ==
    ASSUME TypeOK, NEW c \in Commands, NEW ok \in BOOLEAN, HCI_Command(c, ok)
    PROVE  ok => cmds' # <<>>
  <1>1. ok => Len(cmds) + 1 \in DOMAIN cmds'
    BY SendAdds
  <1>2. Len(cmds) + 1 \notin DOMAIN <<>>
    OBVIOUS
  <1> QED BY <1>1, <1>2

\* The events that are left are answered as before.
LEMMA ReadStall ==
    ASSUME TypeOK, StallInv, NEW kind, NEW c, NEW ok, Reads(kind, c, ok),
           faulted => faulted'
    PROVE  /\ ~faulted' => \A i \in DOMAIN events' :
                  events'[i].ok \/ Tolerated(events'[i].cmd, events'[i].kind)
           /\ ~faulted' => ok \/ Tolerated(c, kind)
           /\ TooOld' <=> TooOld
           /\ power' = power
  BY ReadShifts DEF StallInv, Reads, TooOld

\* A handler that goes on with the conversation, or could not send.
LEMMA HandlerStall ==
    ASSUME ConversationInv, StallInv, NEW kind, NEW c, NEW ok,
           Reads(kind, c, ok), c # "Reset", NEW d \in Commands \ {"Reset"},
           NEW sent \in BOOLEAN, HCI_Command(d, sent), Started' = Started
    PROVE  StallInv'
  <1>1. TypeOK /\ Started /\ TalkingCmds = {}
    BY ReadEndsTalk DEF ConversationInv
  <1>2. (faulted => faulted') /\ (~sent => faulted')
    BY DEF HCI_Command
  <1>3. sent => TalkingCmds' # {}
    BY <1>1, SendStartsTalk
  <1> QED BY <1>1, <1>2, <1>3, ReadStall DEF StallInv

\* While the device is in D0 and nothing has failed, a supported controller is
\* initialised or a message is under way (HciBringUp.StallsOnlyOnFault).
THEOREM StallCorrect == Spec => []StallsOnlyOnFault
  <1>1. Init => StallInv
    BY DEF Init, StallInv, TalkingCmds, TalkingEvents
  <1>2. StallInv /\ ConversationInv /\ [Next]_vars => StallInv'
    <2> SUFFICES ASSUME StallInv, ConversationInv, [Next]_vars PROVE StallInv'
      OBVIOUS
    <2> TypeOK
      BY DEF ConversationInv
    <2> USE DEF driver
    <2>1. ASSUME NEW c \in Commands, NEW kind \in {"complete", "status"},
                 NEW ok \in BOOLEAN, Answer(c, kind, ok)
          PROVE  StallInv'
      <3> DEFINE n == Len(events) + 1
                 e == [kind |-> kind, cmd |-> c, ok |-> ok]
      <3>1. /\ cmds # <<>> /\ c = cmds[1] /\ cmds \in Seq(Commands)
            /\ cmds' = Tail(cmds)
        BY <2>1, TailFacts DEF Answer, TypeOK
      <3>2. /\ \A i \in DOMAIN events : i \in DOMAIN events'
                                        /\ events'[i] = events[i]
            /\ \A i \in DOMAIN events' : i \in DOMAIN events \/ i = n
            /\ n \in DOMAIN events' /\ events'[n] = e /\ events' # <<>>
        <4>1. events \in Seq(Events) /\ Len(events) \in Nat /\ e \in Events
          BY DEF TypeOK, Events
        <4>2. events' = Append(events, e)
          BY <2>1 DEF Answer
        <4>3. /\ \A i \in 1..n : i \in 1..Len(events) \/ i = n
              /\ n \in 1..n /\ \A i \in 1..Len(events) : i \in 1..n
          BY <4>1
        <4>4. DOMAIN events' = 1..n /\ DOMAIN events = 1..Len(events)
          BY <4>1, <4>2, AppendFacts
        <4>5. events'[n] = e /\ \A i \in DOMAIN events : events'[i] = events[i]
          BY <4>1, <4>2, AppendFacts
        <4>6. events' # <<>>
          BY <4>1, <4>2
        <4> QED BY <4>3, <4>4, <4>5, <4>6
      <3>3. ~faulted' => ~faulted /\ (ok \/ Tolerated(c, kind))
        BY <2>1 DEF Answer
      <3>4. TalkingCmds # {} => TalkingCmds' # {} \/ c # "Reset"
        <4> SUFFICES ASSUME NEW i \in TalkingCmds, c = "Reset"
                     PROVE  i - 1 \in TalkingCmds'
          OBVIOUS
        <4>1. i # 1 /\ i \in 1..Len(cmds) /\ Len(cmds) \in Nat
          BY <3>1 DEF TalkingCmds
        <4>2. i - 1 \in 1..(Len(cmds) - 1) /\ (i - 1) + 1 = i
          BY <4>1
        <4>3. i - 1 \in DOMAIN cmds' /\ cmds'[i - 1] = cmds[i]
          BY <3>1, <4>2, TailFacts
        <4> QED BY <4>3 DEF TalkingCmds
      <3>5. TalkingCmds # {} \/ TalkingEvents # {} =>
                TalkingCmds' # {} \/ TalkingEvents' # {}
        <4>1. TalkingEvents # {} => TalkingEvents' # {}
          BY <3>2 DEF TalkingEvents
        <4>2. c # "Reset" => n \in TalkingEvents'
          BY <3>2 DEF TalkingEvents
        <4> QED BY <3>4, <4>1, <4>2
      <3>6. UNCHANGED <<power, Started, Initialized, chip>>
        BY <2>1 DEF Answer
      <3>7. ~faulted' => \A i \in DOMAIN events' :
                events'[i].ok \/ Tolerated(events'[i].cmd, events'[i].kind)
        BY <3>2, <3>3 DEF StallInv
      <3> QED BY <3>2, <3>3, <3>5, <3>6, <3>7 DEF StallInv, TooOld
    <2>2. CASE InterruptReader
      <3> \A d \in {"Read_BD_ADDR", "Read_Buffer_Size", "Read_Local_Version_Info",
                    "Write_Scan_Enable", "Write_Simple_Pairing_Mode",
                    "Write_Authentication_Enable"} : d \in Commands \ {"Reset"}
        BY DEF Commands, SspCommands, SspProbes
      <3>1. ASSUME NEW sent \in BOOLEAN, ResetComplete(sent) PROVE StallInv'
        <4>1. /\ Reads("complete", "Reset", TRUE) /\ Started'
              /\ HCI_Command("Read_BD_ADDR", sent)
          BY <3>1 DEF ResetComplete
        <4>2. (faulted => faulted') /\ (~sent => faulted')
          BY <4>1 DEF HCI_Command
        <4>3. TalkingCmds = {}
          BY <3>1 DEF ResetComplete, ConversationInv, IdleUnlessStarted
        <4>4. sent => TalkingCmds' # {}
          BY <4>1, <4>3, SendStartsTalk
        <4> QED BY <4>1, <4>2, <4>4, ReadStall DEF StallInv
      <3>2. ASSUME NEW sent \in BOOLEAN,
                   ReadBdAddrComplete(sent) \/ ReadBufferSizeComplete(sent)
            PROVE  StallInv'
        BY <3>2, HandlerStall DEF ReadBdAddrComplete, ReadBufferSizeComplete
      <3>3. ASSUME NEW sent \in BOOLEAN, VersionUnsupported(sent)
            PROVE  StallInv'
        <4>1. /\ Reads("complete", "Read_Local_Version_Info", TRUE)
              /\ HCI_Command("Reset", sent) /\ TooOld
          BY <3>3 DEF VersionUnsupported, Unsupported, TooOld
        <4>2. (faulted => faulted') /\ (~sent => faulted') /\ (sent => cmds' # <<>>)
          BY <4>1, SendFills DEF HCI_Command, Commands
        <4> QED BY <4>1, <4>2, ReadStall DEF StallInv
      <3>4. ASSUME NEW sent \in BOOLEAN, VersionSupported(sent) PROVE StallInv'
        <4> DEFINE d == IF DisableSSP THEN "Write_Scan_Enable"
                        ELSE "Write_Simple_Pairing_Mode"
        <4>1. d \in Commands \ {"Reset"} /\ HCI_Command(d, sent)
          BY <3>4 DEF VersionSupported
        <4>2. Reads("complete", "Read_Local_Version_Info", TRUE)
              /\ Started' = Started
          BY <3>4 DEF VersionSupported
        <4> QED BY <4>1, <4>2, HandlerStall
      <3>5. ASSUME NEW sent \in BOOLEAN, NEW c \in SspProbes,
                   ProbeAccepted(c, sent)
            PROVE  StallInv'
        BY <3>5, HandlerStall, Successors DEF ProbeAccepted, SspProbes
      <3>6. ASSUME NEW sent \in BOOLEAN, NEW c \in SspProbes,
                   NEW kind \in {"complete", "status"},
                   ProbeRefused(kind, c, sent)
            PROVE  StallInv'
        BY <3>6, HandlerStall DEF ProbeRefused, SspProbes
      <3>7. ASSUME NEW sent \in BOOLEAN, NEW ok \in BOOLEAN,
                   DebugModeComplete(ok, sent)
            PROVE  StallInv'
        BY <3>7, HandlerStall DEF DebugModeComplete
      <3>8. ASSUME NEW sent \in BOOLEAN, NEW c \in ConfigCommands,
                   ConfigComplete(c, sent)
            PROVE  StallInv'
        BY <3>8, HandlerStall, Successors DEF ConfigComplete, ConfigCommands
      <3>9. CASE ResetWhileStarted
        <4>1. Reads("complete", "Reset", TRUE) /\ Started
              /\ UNCHANGED <<Started, Initialized, cmds, faulted>>
          BY <3>9 DEF ResetWhileStarted, Ignore
        <4>2. TalkingEvents # {} => TalkingEvents' # {}
          BY <4>1, ReadKeepsTalk
        <4>3. TalkingCmds' = TalkingCmds
          BY <4>1 DEF TalkingCmds
        <4> QED BY <4>1, <4>2, <4>3, ReadStall DEF StallInv
      <3>10. CASE ScanEnableComplete
        <4>1. Reads("complete", "Write_Scan_Enable", TRUE) /\ Initialized'
              /\ UNCHANGED <<Started, faulted>>
          BY <3>10 DEF ScanEnableComplete
        <4>2. Started
          BY <4>1, ReadEndsTalk
        <4> QED BY <4>1, <4>2, ReadStall DEF StallInv
      <3>11. CASE ConnectionRequest
        BY <3>11 DEF ConnectionRequest, StallInv, TalkingCmds, TalkingEvents,
                     TooOld
      <3>12. ASSUME NEW kind, NEW c, RefusalIgnored(kind, c) PROVE StallInv'
        <4>1. Reads(kind, c, FALSE) /\ ~Tolerated(c, kind) /\ UNCHANGED faulted
          BY <3>12 DEF RefusalIgnored, Ignore
        <4>2. faulted /\ faulted'
          BY <4>1, ReadStall
        <4> QED BY <4>2 DEF StallInv
      <3> QED
        BY <2>2, <3>1, <3>2, <3>3, <3>4, <3>5, <3>6, <3>7, <3>8, <3>9, <3>10,
           <3>11, <3>12 DEF InterruptReader
    <2>3. CASE Power
      <3>1. ASSUME NEW sent \in BOOLEAN, D0EntryReset(sent) \/ D0ExitReset(sent)
            PROVE  StallInv'
        <4>1. /\ HCI_Command("Reset", sent)
              /\ UNCHANGED <<Started, Initialized, events, chip>>
          BY <3>1 DEF D0EntryReset, D0ExitReset
        <4>2. TalkingCmds' = TalkingCmds /\ TalkingEvents' = TalkingEvents
          BY <4>1, SendReset DEF TalkingEvents
        <4>3. /\ faulted => faulted'
              /\ ~sent => faulted'
              /\ sent => cmds' # <<>>
          BY <4>1, SendFills DEF HCI_Command, Commands
        <4> QED BY <4>1, <4>2, <4>3 DEF StallInv, TooOld
      <3>2. CASE \E n \in 0..3 : D0EntryStart(n)
        BY <3>2 DEF D0EntryStart, StallInv, TalkingCmds, TalkingEvents, TooOld
      <3>3. CASE Remove
        BY <3>3 DEF Remove, StallInv, TalkingCmds, TalkingEvents, TooOld
      <3>4. CASE D0ExitStop
        BY <3>4 DEF D0ExitStop, StallInv, TalkingCmds, TalkingEvents, TooOld
      <3>5. CASE Replug
        BY <3>5 DEF Replug, StallInv, TalkingCmds, TalkingEvents, TooOld
      <3> QED BY <2>3, <3>1, <3>2, <3>3, <3>4, <3>5 DEF Power
    <2>4. CASE UNCHANGED vars
      BY <2>4 DEF vars, StallInv, TalkingCmds, TalkingEvents, TooOld
    <2> QED BY <2>1, <2>2, <2>3, <2>4 DEF Next, Controller
  <1>3. TypeOK /\ StallInv => StallsOnlyOnFault
    <2> SUFFICES ASSUME TypeOK, StallInv, power = "D0", ~TooOld, ~faulted,
                        ~Initialized, cmds = <<>>, events = <<>>
                 PROVE  FALSE
      BY DEF StallsOnlyOnFault
    <2> QED BY DEF StallInv, TalkingCmds, TalkingEvents
  <1>4. TypeOK /\ OneConversation /\ IdleUnlessStarted => ConversationInv
    BY DEF ConversationInv
  <1> QED BY <1>1, <1>2, <1>3, <1>4, TypeCorrect, ConversationCorrect, PTL DEF Spec
-----------------------------------------------------------------------------
(* The first time in D0.  Until the device leaves D0 exactly one message   *)
(* is under way, and the place its command has in the conversation tells   *)
(* which set-up commands the controller has executed.                      *)

SetUp == SspProbes \cup ConfigCommands
UnderWay == Len(cmds) + Len(events)

\* The place of a command in the conversation: after so many of the set-up.
Place ==
    [Reset |-> 0, Read_BD_ADDR |-> 0, Read_Buffer_Size |-> 0,
     Read_Local_Version_Info |-> 0, Write_Simple_Pairing_Mode |-> 0,
     Write_Simple_Pairing_Debug_Mode |-> 1, Write_Authentication_Enable |-> 1,
     Set_Event_Mask |-> 2, Write_Page_Timeout |-> 3,
     Write_Page_Scan_Activity |-> 4, Write_Page_Scan_Type |-> 5,
     Write_Inquiry_Scan_Activity |-> 6, Write_Inquiry_Scan_Type |-> 7,
     Write_Inquiry_Mode |-> 8, Write_Class_of_Device |-> 9,
     Write_Extended_Inquiry_Response |-> 10, Write_Local_Name |-> 11,
     Write_Scan_Enable |-> 12]

Before(c) == {d \in SetUp : Place[d] < Place[c]}

\* Where c is under way, the driver knows its address, and the controller
\* has executed what comes before c.
Ready(c) ==
    /\ c \notin {"Reset", "Read_BD_ADDR"} => BluetoothHostAddress = "read"
    /\ DisableSSP \/ Before(c) \subseteq accepted

FirstInv ==
    ~cycled =>
        /\ UnderWay <= 1
        /\ power # "Exiting"
        /\ power \in {"D3", "Entering"} =>
               ~Initialized /\ UnderWay = 0 /\ accepted = {}
        /\ Initialized => /\ UnderWay = 0
                          /\ BluetoothHostAddress = "read"
                          /\ "Write_Scan_Enable" \in accepted
        /\ "Write_Scan_Enable" \in accepted =>
               DisableSSP \/ SetUp \subseteq accepted
        /\ \A i \in DOMAIN cmds : Ready(cmds[i])
        /\ \A i \in DOMAIN events :
               /\ Ready(events[i].cmd)
               /\ events[i].ok => events[i].cmd \in accepted \cup {"Reset"}

\* The places follow the conversation.
LEMMA Places ==
    /\ \A c \in {"Reset", "Read_BD_ADDR", "Read_Buffer_Size",
                 "Read_Local_Version_Info", "Write_Simple_Pairing_Mode"} :
           Before(c) = {}
    /\ \A c \in SspProbes : Before(AfterProbe[c]) \subseteq Before(c) \cup {c}
    /\ \A c \in ConfigCommands :
           Before(AfterConfig[c]) \subseteq Before(c) \cup {c}
    /\ Before("Write_Authentication_Enable")
           = Before("Write_Simple_Pairing_Debug_Mode")
    /\ Before("Write_Scan_Enable") = SetUp
  BY DEF Before, Place, SetUp, SspProbes, ConfigCommands, AfterProbe, AfterConfig

\* Where at most one is left and one is here, the other place is empty.
LEMMA OnlyOne ==
    \A m, n \in Nat : m + n <= 1 /\ m # 0 => m = 1 /\ n = 0
  OBVIOUS

\* The one event under way is read, and nothing is left.
LEMMA ReadAlone ==
    ASSUME TypeOK, FirstInv, ~cycled, NEW kind, NEW c, NEW ok, Reads(kind, c, ok)
    PROVE  /\ Len(cmds) = 0 /\ Len(events') = 0
           /\ ~Initialized /\ power \notin {"D3", "Entering"}
           /\ Ready(c) /\ (ok => c \in accepted \cup {"Reset"})
  <1>1. /\ events # <<>> /\ events \in Seq(Events) /\ cmds \in Seq(Commands)
        /\ events' = Tail(events)
    BY DEF Reads, TypeOK
  <1>2. Len(events) \in Nat /\ Len(events) # 0 /\ Len(cmds) \in Nat
    BY <1>1
  <1>3. Len(cmds) = 0 /\ Len(events) = 1 /\ UnderWay # 0
    <2>1. Len(cmds) + Len(events) <= 1
      BY DEF FirstInv, UnderWay
    <2>2. Len(cmds) = 0 /\ Len(events) = 1
      BY <1>2, <2>1
    <2> QED BY <2>2 DEF UnderWay
  <1>4. Len(events') = 0
    BY <1>1, <1>3
  <1>5. ~Initialized /\ power \notin {"D3", "Entering"}
    BY <1>3 DEF FirstInv
  <1>6. /\ Ready(events[1].cmd)
        /\ events[1].ok => events[1].cmd \in accepted \cup {"Reset"}
    BY ReadShifts DEF FirstInv
  <1> QED BY <1>3, <1>4, <1>5, <1>6, ReadShifts

\* A command that is sent when nothing is under way is alone.
LEMMA SendAlone ==
    ASSUME TypeOK, Len(cmds) = 0, NEW d \in Commands, NEW sent \in BOOLEAN,
           HCI_Command(d, sent)
    PROVE  Len(cmds') \in {0, 1} /\ \A i \in DOMAIN cmds' : cmds'[i] = d
  <1>1. cmds \in Seq(Commands) /\ DOMAIN cmds = {}
    BY DEF TypeOK
  <1>2. \A i \in DOMAIN cmds' : cmds'[i] = d
    BY <1>1, SendAdds
  <1>3. Len(cmds') \in {0, 1}
    BY <1>1 DEF HCI_Command
  <1> QED BY <1>2, <1>3

\* What comes next is ready: the event that is read tells that its command was.
LEMMA NextReady ==
    ASSUME TypeOK, FirstInv, NEW kind, NEW c, NEW ok, Reads(kind, c, ok),
           c \notin {"Reset", "Read_BD_ADDR"},
           BluetoothHostAddress' = BluetoothHostAddress,
           DisableSSP => DisableSSP', NEW d,
           \/ DisableSSP'
           \/ Before(d) \subseteq Before(c)
           \/ ok /\ Before(d) \subseteq Before(c) \cup {c}
    PROVE  ~cycled => Ready(d)'
  <1> SUFFICES ASSUME ~cycled PROVE Ready(d)'
    OBVIOUS
  <1>1. Ready(c) /\ (ok => c \in accepted \cup {"Reset"})
    BY ReadAlone
  <1>2. BluetoothHostAddress' = "read" /\ accepted' = accepted
    BY <1>1 DEF Ready, Reads
  <1>3. DisableSSP \/ Before(c) \subseteq accepted
    BY <1>1 DEF Ready
  <1>4. DisableSSP' \/ Before(d) \subseteq accepted'
    BY <1>1, <1>2, <1>3
  <1> QED BY <1>2, <1>4 DEF Ready

\* A handler that answers an event with the command that is next.
LEMMA HandlerFirst ==
    ASSUME TypeOK, FirstInv, NEW kind, NEW c, NEW ok, Reads(kind, c, ok),
           NEW d \in Commands, NEW sent \in BOOLEAN, HCI_Command(d, sent),
           ~cycled => Ready(d)', Initialized' = Initialized,
           DisableSSP => DisableSSP'
    PROVE  FirstInv'
  <1> SUFFICES ASSUME ~cycled PROVE FirstInv'
    BY DEF Reads, FirstInv
  <1>1. Len(cmds') \in {0, 1} /\ \A i \in DOMAIN cmds' : cmds'[i] = d
    BY ReadAlone, SendAlone
  <1>2. DOMAIN events' = {}
    BY ReadAlone, ReadType
  <1>3. /\ ~Initialized' /\ accepted' = accepted
        /\ power' \notin {"D3", "Entering", "Exiting"}
    BY ReadAlone DEF Reads, FirstInv
  <1>4. UnderWay' <= 1
    <2>1. Len(events') = 0
      BY ReadAlone
    <2>2. Len(cmds') = 0 \/ Len(cmds') = 1
      BY <1>1
    <2>3. UnderWay' = Len(cmds') + Len(events')
      BY DEF UnderWay
    <2> QED BY <2>1, <2>2, <2>3
  <1>5. (\A i \in DOMAIN cmds : Ready(cmds[i]))'
    BY <1>1 DEF Ready
  <1>6. ("Write_Scan_Enable" \in accepted =>
             DisableSSP \/ SetUp \subseteq accepted)'
    BY <1>3 DEF FirstInv
  <1> QED BY <1>2, <1>3, <1>4, <1>5, <1>6 DEF FirstInv

\* The driver makes the controller visible only after the whole set-up
\* (HciBringUp.ScanOnlyWhenConfigured) and calls it initialised only when it
\* knows its address and the controller is visible
\* (HciBringUp.InitializedMeansVisible), as long as the device stays in D0.
THEOREM FirstTimeCorrect ==
    Spec => [](ScanOnlyWhenConfigured /\ InitializedMeansVisible)
  <1>1. Init => FirstInv
    BY DEF Init, FirstInv, UnderWay
  <1>2. FirstInv /\ TypeOK /\ [Next]_vars => FirstInv'
    <2> SUFFICES ASSUME FirstInv, TypeOK, [Next]_vars PROVE FirstInv'
      OBVIOUS
    <2> USE DEF driver
    <2>1. ASSUME NEW c \in Commands, NEW kind \in {"complete", "status"},
                 NEW ok \in BOOLEAN, Answer(c, kind, ok), ~cycled
          PROVE  FirstInv'
      <3> DEFINE e == [kind |-> kind, cmd |-> c, ok |-> ok]
      <3>1. /\ cmds # <<>> /\ c = cmds[1] /\ 1 \in DOMAIN cmds
            /\ cmds \in Seq(Commands) /\ events \in Seq(Events) /\ e \in Events
            /\ cmds' = Tail(cmds) /\ events' = Append(events, e)
        BY <2>1, TailFacts DEF Answer, TypeOK, Events
      <3>2. Len(cmds) \in Nat /\ Len(cmds) # 0 /\ Len(events) \in Nat
        BY <3>1
      <3>3. Len(cmds) = 1 /\ Len(events) = 0 /\ UnderWay # 0
        <4>1. Len(cmds) + Len(events) <= 1
          BY <2>1 DEF FirstInv, UnderWay
        <4>2. Len(cmds) = 1 /\ Len(events) = 0
          BY <3>2, <4>1, OnlyOne
        <4>3. UnderWay = Len(cmds) + Len(events)
          BY DEF UnderWay
        <4> QED BY <4>2, <4>3
      <3>4. Len(cmds') = 0 /\ Len(events') = 1 /\ DOMAIN cmds' = {}
        BY <3>1, <3>3
      <3>5. DOMAIN events' = {1} /\ events'[1] = e
        BY <3>1, <3>3, AppendFacts
      <3>6. UnderWay' <= 1
        BY <3>4 DEF UnderWay
      <3>7. /\ UNCHANGED <<power, Initialized, DisableSSP, BluetoothHostAddress>>
            /\ ~Initialized /\ power \notin {"D3", "Entering", "Exiting"}
        BY <2>1, <3>3 DEF Answer, FirstInv
      <3>8. Ready(c)
        BY <2>1, <3>1 DEF FirstInv
      <3>9. Ready(c)'
        <4>1. c = "Reset" \/ accepted \subseteq accepted'
          BY <2>1 DEF Answer
        <4> QED BY <3>7, <3>8, <4>1, Places DEF Ready
      <3>10. ok => c \in accepted' \cup {"Reset"}
        BY <2>1 DEF Answer
      <3>11. "Write_Scan_Enable" \in accepted' => DisableSSP' \/ SetUp \subseteq accepted'
        <4>1. CASE "Write_Scan_Enable" \in accepted /\ c # "Reset"
          BY <2>1, <3>7, <4>1 DEF Answer, FirstInv
        <4>2. CASE c = "Reset"
          BY <2>1, <3>7, <4>2 DEF Answer, FirstInv
        <4>3. CASE "Write_Scan_Enable" \notin accepted /\ c # "Write_Scan_Enable"
          BY <2>1, <4>3 DEF Answer
        <4>4. CASE c = "Write_Scan_Enable"
          BY <3>9, <4>4, Places DEF Ready
        <4> QED BY <4>1, <4>2, <4>3, <4>4
      <3>12. (\A i \in DOMAIN events :
                 /\ Ready(events[i].cmd)
                 /\ events[i].ok => events[i].cmd \in accepted \cup {"Reset"})'
        BY <3>5, <3>9, <3>10 DEF Ready
      <3> QED BY <3>4, <3>6, <3>7, <3>11, <3>12 DEF FirstInv
    <2>2. CASE InterruptReader
      <3>1. ASSUME NEW sent \in BOOLEAN, ResetComplete(sent) PROVE FirstInv'
        <4>1. "Read_BD_ADDR" \in Commands /\ Ready("Read_BD_ADDR")'
          BY Places DEF Commands, Ready
        <4> QED BY <3>1, <4>1, HandlerFirst DEF ResetComplete
      <3>2. ASSUME NEW sent \in BOOLEAN, ReadBdAddrComplete(sent) PROVE FirstInv'
        <4>1. "Read_Buffer_Size" \in Commands /\ Ready("Read_Buffer_Size")'
          BY <3>2, Places DEF Commands, Ready, ReadBdAddrComplete
        <4> QED BY <3>2, <4>1, HandlerFirst DEF ReadBdAddrComplete
      <3>3. ASSUME NEW sent \in BOOLEAN, ReadBufferSizeComplete(sent)
            PROVE  FirstInv'
        <4>1. "Read_Local_Version_Info" \in Commands
          BY DEF Commands
        <4>2. Reads("complete", "Read_Buffer_Size", TRUE)
              /\ UNCHANGED <<BluetoothHostAddress, DisableSSP>>
          BY <3>3 DEF ReadBufferSizeComplete
        <4>3. ~cycled => Ready("Read_Local_Version_Info")'
          <5>1. Before("Read_Local_Version_Info") \subseteq Before("Read_Buffer_Size")
            BY Places
          <5> QED BY <4>2, <5>1, NextReady DEF ReadBufferSizeComplete
        <4> QED BY <3>3, <4>1, <4>3, HandlerFirst DEF ReadBufferSizeComplete
      <3>4. ASSUME NEW sent \in BOOLEAN, VersionUnsupported(sent)
            PROVE  FirstInv'
        <4>1. "Reset" \in Commands /\ Ready("Reset")'
          BY Places DEF Commands, Ready
        <4> QED BY <3>4, <4>1, HandlerFirst DEF VersionUnsupported
      <3>5. ASSUME NEW sent \in BOOLEAN, VersionSupported(sent) PROVE FirstInv'
        <4> DEFINE d == IF DisableSSP THEN "Write_Scan_Enable"
                        ELSE "Write_Simple_Pairing_Mode"
        <4>1. d \in Commands
          BY DEF Commands, SspCommands, SspProbes
        <4>2. /\ Reads("complete", "Read_Local_Version_Info", TRUE)
              /\ HCI_Command(d, sent)
              /\ UNCHANGED <<BluetoothHostAddress, DisableSSP, Initialized>>
          BY <3>5 DEF VersionSupported
        <4>3. ~cycled => Ready(d)'
          <5>1. DisableSSP' \/ Before(d) \subseteq Before("Read_Local_Version_Info")
            BY <4>2, Places
          <5> QED BY <4>2, <5>1, NextReady
        <4> QED BY <4>1, <4>2, <4>3, HandlerFirst
      <3>6. ASSUME NEW sent \in BOOLEAN, NEW c \in SspProbes,
                   ProbeAccepted(c, sent)
            PROVE  FirstInv'
        <4>1. AfterProbe[c] \in Commands
          BY Successors
        <4>2. /\ Reads("complete", c, TRUE)
              /\ UNCHANGED <<BluetoothHostAddress, DisableSSP, accepted>>
          BY <3>6 DEF ProbeAccepted, Reads
        <4>3. ~cycled => Ready(AfterProbe[c])'
          <5>1. c \notin {"Reset", "Read_BD_ADDR"}
            BY DEF SspProbes
          <5>2. Before(AfterProbe[c]) \subseteq Before(c) \cup {c}
            BY Places
          <5> QED BY <4>2, <5>1, <5>2, NextReady
        <4> QED BY <3>6, <4>1, <4>3, HandlerFirst DEF ProbeAccepted
      <3>7. ASSUME NEW sent \in BOOLEAN, NEW c \in SspProbes,
                   NEW kind \in {"complete", "status"},
                   ProbeRefused(kind, c, sent)
            PROVE  FirstInv'
        <4>1. "Write_Scan_Enable" \in Commands
          BY DEF Commands
        <4>2. /\ Reads(kind, c, FALSE) /\ DisableSSP'
              /\ UNCHANGED BluetoothHostAddress
          BY <3>7 DEF ProbeRefused
        <4>3. ~cycled => Ready("Write_Scan_Enable")'
          <5>1. c \notin {"Reset", "Read_BD_ADDR"}
            BY DEF SspProbes
          <5> QED BY <4>2, <5>1, NextReady
        <4> QED BY <3>7, <4>1, <4>3, HandlerFirst DEF ProbeRefused
      <3>8. ASSUME NEW sent \in BOOLEAN, NEW ok \in BOOLEAN,
                   DebugModeComplete(ok, sent)
            PROVE  FirstInv'
        <4>1. "Write_Authentication_Enable" \in Commands
          BY DEF Commands, SspCommands, SspProbes
        <4>2. /\ Reads("complete", "Write_Simple_Pairing_Debug_Mode", ok)
              /\ UNCHANGED <<BluetoothHostAddress, DisableSSP, accepted>>
          BY <3>8 DEF DebugModeComplete, Reads
        <4>3. ~cycled => Ready("Write_Authentication_Enable")'
          BY <4>2, Places, NextReady
        <4> QED BY <3>8, <4>1, <4>3, HandlerFirst DEF DebugModeComplete
      <3>9. ASSUME NEW sent \in BOOLEAN, NEW c \in ConfigCommands,
                   ConfigComplete(c, sent)
            PROVE  FirstInv'
        <4>1. AfterConfig[c] \in Commands
          BY Successors
        <4>2. /\ Reads("complete", c, TRUE)
              /\ UNCHANGED <<BluetoothHostAddress, DisableSSP, accepted>>
          BY <3>9 DEF ConfigComplete, Reads
        <4>3. ~cycled => Ready(AfterConfig[c])'
          <5>1. c \notin {"Reset", "Read_BD_ADDR"}
            BY DEF ConfigCommands
          <5>2. Before(AfterConfig[c]) \subseteq Before(c) \cup {c}
            BY Places
          <5> QED BY <4>2, <5>1, <5>2, NextReady
        <4> QED BY <3>9, <4>1, <4>3, HandlerFirst DEF ConfigComplete
      <3>10. ASSUME NEW kind, NEW c, NEW ok, Reads(kind, c, ok), Ignore
             PROVE  FirstInv'
        <4> SUFFICES ASSUME ~cycled PROVE FirstInv'
          BY <3>10 DEF Reads, FirstInv
        <4>1. /\ UNCHANGED <<power, accepted, cmds, Initialized>>
              /\ Len(cmds') = 0 /\ Len(events') = 0 /\ ~Initialized'
              /\ power \notin {"D3", "Entering"}
              /\ UNCHANGED DisableSSP
          BY <3>10, ReadAlone DEF Reads, Ignore
        <4>2. cmds' \in Seq(Commands) /\ events' \in Seq(Events)
          BY <3>10, <4>1, ReadType DEF TypeOK
        <4>3. DOMAIN cmds' = {} /\ DOMAIN events' = {} /\ UnderWay' <= 1
          BY <4>1, <4>2 DEF UnderWay
        <4> QED BY <4>1, <4>3 DEF FirstInv
      <3>11. CASE ScanEnableComplete
        <4> SUFFICES ASSUME ~cycled PROVE FirstInv'
          BY <3>11 DEF ScanEnableComplete, Reads, FirstInv
        <4>1. Reads("complete", "Write_Scan_Enable", TRUE)
              /\ UNCHANGED <<cmds, DisableSSP, BluetoothHostAddress>>
          BY <3>11 DEF ScanEnableComplete
        <4>2. /\ UNCHANGED <<power, accepted>>
              /\ Len(cmds') = 0 /\ Len(events') = 0
              /\ power \notin {"D3", "Entering"}
              /\ Ready("Write_Scan_Enable") /\ "Write_Scan_Enable" \in accepted
          BY <4>1, ReadAlone DEF Reads
        <4>3. cmds' \in Seq(Commands) /\ events' \in Seq(Events)
          BY <4>1, ReadType DEF TypeOK
        <4>4. DOMAIN cmds' = {} /\ DOMAIN events' = {} /\ UnderWay' = 0
          BY <4>2, <4>3 DEF UnderWay
        <4>5. BluetoothHostAddress' = "read"
          BY <4>1, <4>2 DEF Ready
        <4> QED BY <4>1, <4>2, <4>4, <4>5 DEF FirstInv
      <3>12. CASE ConnectionRequest
        BY <3>12 DEF ConnectionRequest, FirstInv, UnderWay, Ready
      <3> QED
        BY <2>2, <3>1, <3>2, <3>3, <3>4, <3>5, <3>6, <3>7, <3>8, <3>9, <3>10,
           <3>11, <3>12 DEF InterruptReader, ResetWhileStarted, RefusalIgnored
    <2>3. CASE Power
      <3>1. ASSUME NEW sent \in BOOLEAN, D0EntryReset(sent), ~cycled
            PROVE  FirstInv'
        <4>1. /\ ~Initialized' /\ accepted' = {} /\ UnderWay = 0
              /\ power' \in {"D0", "Failed"} /\ UNCHANGED events
              /\ HCI_Command("Reset", sent)
          BY <3>1 DEF D0EntryReset, FirstInv
        <4>2. /\ cmds \in Seq(Commands) /\ events \in Seq(Events)
              /\ Len(cmds) = 0 /\ Len(events) = 0
          BY <4>1 DEF TypeOK, UnderWay
        <4>3. Len(cmds') \in {0, 1} /\ \A i \in DOMAIN cmds' : cmds'[i] = "Reset"
          BY <4>1, <4>2, SendAlone DEF Commands
        <4>4. Ready("Reset")'
          BY Places DEF Ready
        <4>5. UnderWay' <= 1 /\ DOMAIN events' = {}
          BY <4>1, <4>2, <4>3 DEF UnderWay
        <4> QED BY <4>1, <4>3, <4>4, <4>5 DEF FirstInv
      <3>2. ASSUME NEW n \in 0..3, D0EntryStart(n) PROVE FirstInv'
        BY <3>2 DEF D0EntryStart, FirstInv, UnderWay, Ready
      <3>3. ASSUME NEW sent \in BOOLEAN, D0ExitReset(sent) PROVE FirstInv'
        BY <3>3 DEF D0ExitReset, FirstInv
      <3>4. CASE D0ExitStop
        BY <3>4 DEF D0ExitStop, FirstInv
      <3>5. CASE Remove
        BY <3>5 DEF Remove, FirstInv, UnderWay, Ready
      <3>6. CASE Replug
        BY <3>6 DEF Replug, FirstInv, UnderWay
      <3>7. ASSUME NEW sent \in BOOLEAN, D0EntryReset(sent), cycled
            PROVE  FirstInv'
        BY <3>7 DEF D0EntryReset, FirstInv
      <3> QED BY <2>3, <3>1, <3>2, <3>3, <3>4, <3>5, <3>6, <3>7 DEF Power
    <2>4. CASE UNCHANGED vars
      BY <2>4 DEF vars, FirstInv, UnderWay, Ready
    <2>5. ASSUME NEW c \in Commands, NEW kind \in {"complete", "status"},
                 NEW ok \in BOOLEAN, Answer(c, kind, ok), cycled
          PROVE  FirstInv'
      BY <2>5 DEF Answer, FirstInv
    <2> QED BY <2>1, <2>2, <2>3, <2>4, <2>5 DEF Next, Controller
  <1>3. FirstInv => ScanOnlyWhenConfigured /\ InitializedMeansVisible
    BY DEF FirstInv, ScanOnlyWhenConfigured, InitializedMeansVisible, SetUp
  <1> QED BY <1>1, <1>2, <1>3, TypeCorrect, PTL DEF Spec

\* Until the device has left D0 for the first time, a controller that counts
\* as initialised is known by its address and visible
\* (HciBringUp.InitializedMeansVisible).
THEOREM VisibleCorrect == Spec => []InitializedMeansVisible
  BY FirstTimeCorrect, PTL
=============================================================================
