-------------------------- MODULE DevicePnp_proofs ---------------------------
(***************************************************************************)
(* Safety of the host radio's device object, for every set of layouts and  *)
(* any number of restarts: the handles in the context are those of         *)
(* existing pipes, except where the code cannot know.                      *)
(***************************************************************************)
EXTENDS DevicePnp, TLAPS

\* What the phases between the callbacks promise to the next one: the
\* handles are current, or those of pipes that are not there are null, or
\* nobody is left to use them.
Between ==
    /\ pnp \in {"None", "Added"} => ~timer
    /\ pnp = "Storing" /\ ~narrowed =>
          \A k \in Kinds \ config.pipes : pipe[k] = Null
    /\ pnp \in {"Configuring", "Stopped"} /\ ~narrowed => Exist(Kinds) = Kinds
    /\ pnp = "Selecting" /\ ~narrowed /\ timer => Exist(Kinds) = Kinds

PnpInv == TypeOK /\ OneTarget /\ HandlesCurrent /\ Between

\* When all handles are current, so is each of them.
LEMMA ExistAll ==
    ASSUME Exist(Kinds) = Kinds, NEW ks \in SUBSET Kinds
    PROVE  Exist(ks) = ks
  BY DEF Exist

\* The pipes that exist do not depend on anything but handles and
\* configuration.
LEMMA ExistStable ==
    ASSUME pipe' = pipe, config' = config, NEW ks PROVE Exist(ks)' = Exist(ks)
  BY DEF Exist

\* The orders in which pipes are started and readers configured.
LEMMA Orders ==
    /\ \A n \in 0..2 : {ReaderOrder[i] : i \in 1..n} \subseteq ReadKinds
    /\ \A n \in 0..2 : {ReaderOrder[i] : i \in (1..(n + 1)) \cap (1..2)}
                           \subseteq ReadKinds
    /\ {ReaderOrder[i] : i \in 1..2} = ReadKinds
    /\ \A n \in 0..3 : {PipeOrder[i] : i \in 1..n} \subseteq Kinds
    /\ \A n \in 0..3 : {PipeOrder[i] : i \in (1..(n + 1)) \cap (1..3)}
                           \subseteq Kinds
    /\ ReadKinds \subseteq Kinds
  BY DEF ReaderOrder, PipeOrder, ReadKinds, Kinds

\* A new device object starts with a correct context.
LEMMA InitCorrect == Init => PnpInv
  <1> SUFFICES ASSUME Init PROVE PnpInv
    OBVIOUS
  <1>1. /\ pipe \in [Kinds -> Nat]
        /\ reads \in [ReadKinds -> {"stopped", "reading", "failed"}]
    BY DEF Init, NoReads, Null
  <1>2. config \in [number : Nat, pipes : Layouts \cup {{}}]
    BY DEF Init, NoConfig, Null
  <1>3. TypeOK
    BY <1>1, <1>2 DEF Init, TypeOK, Phases
  <1>4. OneTarget /\ HandlesCurrent /\ Between
    BY DEF Init, OneTarget, HandlesCurrent, Between
  <1> QED BY <1>3, <1>4 DEF PnpInv

\* Types.
LEMMA TypeStep == TypeOK /\ [Next]_vars => TypeOK'
  <1> SUFFICES ASSUME TypeOK, [Next]_vars PROVE TypeOK'
    OBVIOUS
  <1> USE DEF TypeOK, context, usb
  <1>1. ASSUME NEW ok \in BOOLEAN, WireShockCreateDevice(ok) PROVE TypeOK'
    BY <1>1 DEF WireShockCreateDevice, Phases
  <1>2. ASSUME NEW ok \in BOOLEAN, PrepareHardware(ok) PROVE TypeOK'
    <2>1. UsbDevice' \in BOOLEAN /\ objects' \in Nat
      BY <1>2 DEF PrepareHardware, CreateTarget
    <2> QED BY <1>2, <2>1 DEF PrepareHardware, Phases
  <1>3. ASSUME NEW ok \in BOOLEAN, StorePipes(ok) PROVE TypeOK'
    <2>1. pipe' \in [Kinds -> Nat]
      BY <1>3 DEF StorePipes, Stored
    <2> QED BY <1>3, <2>1 DEF StorePipes, Phases
  <1>4. ASSUME NEW layout \in Layouts, SelectConfig(layout) PROVE TypeOK'
    <2>1. narrowed' \in BOOLEAN
      BY <1>4 DEF SelectConfig
    <2> QED BY <1>4, <2>1 DEF SelectConfig, NoReads, Phases
  <1>5. CASE SelectConfigFails
    BY <1>5 DEF SelectConfigFails, Phases
  <1>6. ASSUME NEW n \in 0..2, ConfigureReaders(n) PROVE TypeOK'
    <2>1. readers' \subseteq ReadKinds
      BY <1>6, Orders DEF ConfigureReaders, Exist
    <2>2. stale' \in BOOLEAN
      BY <1>6 DEF ConfigureReaders, Uses
    <2> QED BY <1>6, <2>1, <2>2 DEF ConfigureReaders, Phases
  <1>7. ASSUME NEW n \in 0..3, D0Entry(n) PROVE TypeOK'
    <2>1. started' \subseteq Kinds
      BY <1>7, Orders DEF D0Entry, Exist
    <2>2. stale' \in BOOLEAN
      BY <1>7 DEF D0Entry, Uses
    <2> QED BY <1>7, <2>1, <2>2 DEF D0Entry, Phases
  <1>8. ASSUME NEW next \in {"Suspended", "Stopped"}, D0Exit(next) PROVE TypeOK'
    <2>1. stale' \in BOOLEAN
      BY <1>8 DEF D0Exit, Uses
    <2> QED BY <1>8, <2>1 DEF D0Exit, Phases
  <1>9. CASE Stop
    BY <1>9 DEF Stop, Phases
  <1>10. CASE Remove
    BY <1>10 DEF Remove, NoReads, NoConfig, Null, Phases
  <1>11. ASSUME NEW k \in ReadKinds, ReadFails(k) \/ ReadAgain(k) PROVE TypeOK'
    BY <1>11 DEF ReadFails, ReadAgain
  <1>12. CASE StartTimer \/ DeleteChild
    BY <1>12 DEF StartTimer, DeleteChild
  <1>13. CASE WriteBulkPipe
    <2>1. stale' \in BOOLEAN
      BY <1>13 DEF WriteBulkPipe, Uses
    <2> QED BY <1>13, <2>1 DEF WriteBulkPipe
  <1>14. CASE UNCHANGED vars
    BY <1>14 DEF vars
  <1> QED
    BY <1>1, <1>2, <1>3, <1>4, <1>5, <1>6, <1>7, <1>8, <1>9, <1>10, <1>11,
       <1>12, <1>13, <1>14 DEF Next

\* The rest of the invariant, action by action.
LEMMA InvStep == PnpInv /\ [Next]_vars => PnpInv'
  <1> SUFFICES ASSUME PnpInv, [Next]_vars
               PROVE  OneTarget' /\ HandlesCurrent' /\ Between'
    BY TypeStep DEF PnpInv
  <1> DEFINE Goal == OneTarget' /\ HandlesCurrent' /\ Between'
  <1> USE DEF PnpInv, OneTarget, HandlesCurrent, Between,
              context, usb
  <1>1. ASSUME NEW ok \in BOOLEAN, WireShockCreateDevice(ok) PROVE Goal
    BY <1>1, ExistStable DEF WireShockCreateDevice
  <1>2. ASSUME NEW ok \in BOOLEAN, PrepareHardware(ok) PROVE Goal
    <2>1. OneTarget'
      BY <1>2 DEF PrepareHardware, CreateTarget
    <2>2. HandlesCurrent' /\ Between'
      BY <1>2, ExistStable DEF PrepareHardware
    <2> QED BY <2>1, <2>2
  <1>3. ASSUME NEW ok \in BOOLEAN, StorePipes(ok) PROVE Goal
    <2>1. pnp' = "Configuring" /\ ~narrowed' => Exist(Kinds)' = Kinds
      <3> SUFFICES ASSUME pnp' = "Configuring", ~narrowed', NEW k \in Kinds
                   PROVE  pipe'[k] = config'.number /\ k \in config'.pipes
        BY DEF Exist
      <3>1. pipe' = Stored /\ pipe'[k] # Null /\ config' = config /\ ~narrowed
        BY <1>3 DEF StorePipes
      <3>2. k \in config.pipes
        BY <1>3, <3>1 DEF StorePipes, Stored
      <3> QED BY <3>1, <3>2 DEF Stored
    <2>2. pnp' \in {"Configuring", "Failed"}
      BY <1>3 DEF StorePipes
    <2>3. OneTarget'
      BY <1>3 DEF StorePipes
    <2> QED BY <2>1, <2>2, <2>3
  <1>4. ASSUME NEW layout \in Layouts, SelectConfig(layout) PROVE Goal
    BY <1>4 DEF SelectConfig
  <1>5. CASE SelectConfigFails
    BY <1>5 DEF SelectConfigFails
  <1>6. ASSUME NEW n \in 0..2, ConfigureReaders(n) PROVE Goal
    <2>1. ~narrowed => Exist(Kinds) = Kinds /\ Exist(Kinds)' = Kinds
      BY <1>6, ExistStable DEF ConfigureReaders
    <2>2. n = 2 /\ ~narrowed => readers' = ReadKinds
      BY <1>6, <2>1, Orders, ExistAll DEF ConfigureReaders
    <2>3. pnp' \in {"Prepared", "Failed"} /\ (pnp' = "Prepared" => n = 2)
      BY <1>6 DEF ConfigureReaders
    <2>4. narrowed' = narrowed /\ started' = started /\ OneTarget'
      BY <1>6 DEF ConfigureReaders
    <2> QED BY <1>6, <2>1, <2>2, <2>3, <2>4 DEF ConfigureReaders
  <1>7. ASSUME NEW n \in 0..3, D0Entry(n) PROVE Goal
    BY <1>7, ExistStable DEF D0Entry
  <1>8. ASSUME NEW next \in {"Suspended", "Stopped"}, D0Exit(next) PROVE Goal
    <2>1. started' = {}
      BY <1>8 DEF D0Exit, TypeOK, StoppedTargets
    <2> QED BY <1>8, <2>1, ExistStable DEF D0Exit
  <1>9. CASE Stop
    BY <1>9, ExistStable DEF Stop
  <1>10. CASE Remove
    BY <1>10 DEF Remove
  <1>11. ASSUME NEW k \in ReadKinds, ReadFails(k) \/ ReadAgain(k) PROVE Goal
    BY <1>11, ExistStable DEF ReadFails, ReadAgain
  <1>12. CASE StartTimer \/ DeleteChild
    BY <1>12, ExistStable DEF StartTimer, DeleteChild
  <1>13. CASE WriteBulkPipe
    BY <1>13, ExistStable DEF WriteBulkPipe
  <1>14. CASE UNCHANGED vars
    BY <1>14, ExistStable DEF vars
  <1> QED
    BY <1>1, <1>2, <1>3, <1>4, <1>5, <1>6, <1>7, <1>8, <1>9, <1>10, <1>11,
       <1>12, <1>13, <1>14 DEF Next

\* The type invariant of the device (DevicePnp.TypeOK).
THEOREM TypeCorrect == Spec => []TypeOK
  <1>1. Init => TypeOK
    BY InitCorrect DEF PnpInv
  <1> QED BY <1>1, TypeStep, PTL DEF Spec

\* PnpInv holds in every reachable state.
LEMMA Invariance == Spec => []PnpInv
  BY InitCorrect, InvStep, PTL DEF Spec

\* Over any number of restarts there is one USB target device, and a
\* prepared device has three current handles and both its readers
\* (DevicePnp.OneTarget, DevicePnp.HandlesCurrent).
THEOREM HandlesCorrect == Spec => [](OneTarget /\ HandlesCurrent)
  <1>1. PnpInv => OneTarget /\ HandlesCurrent
    BY DEF PnpInv
  <1> QED BY <1>1, Invariance, PTL

\* The handle of a deleted pipe is used in no other step than those that
\* DevicePnp.StaleOnlyOnRestart names.
THEOREM StaleHandles == Spec => StaleOnlyOnRestart
  <1> DEFINE Excused == narrowed \/ (timer /\ pnp \in {"Storing", "Failed"})
  <1>1. PnpInv /\ [Next]_vars => (~stale /\ stale' => Excused)
    <2> SUFFICES ASSUME PnpInv, [Next]_vars, ~stale, stale', ~narrowed
                 PROVE  timer /\ pnp \in {"Storing", "Failed"}
      OBVIOUS
    <2> USE DEF PnpInv, context, usb
    <2>1. ASSUME NEW n \in 0..2, ConfigureReaders(n) PROVE FALSE
      <3>1. Exist(Kinds) = Kinds
        BY <2>1 DEF ConfigureReaders, Between
      <3> QED BY <2>1, <3>1, Orders, ExistAll DEF ConfigureReaders, Uses
    <2>2. ASSUME NEW n \in 0..3, D0Entry(n) PROVE FALSE
      <3>1. Exist(Kinds) = Kinds
        BY <2>2 DEF D0Entry, HandlesCurrent
      <3> QED BY <2>2, <3>1, Orders, ExistAll DEF D0Entry, Uses
    <2>3. ASSUME NEW next \in {"Suspended", "Stopped"}, D0Exit(next) PROVE FALSE
      <3>1. Exist(Kinds) = Kinds
        BY <2>3 DEF D0Exit, HandlesCurrent
      <3> QED BY <2>3, <3>1 DEF D0Exit, Uses, StoppedTargets
    <2>4. CASE WriteBulkPipe
      <3>1. timer /\ Exist({"BulkWritePipe"}) # {"BulkWritePipe"}
        BY <2>4 DEF WriteBulkPipe, Uses
      <3>2. Exist(Kinds) # Kinds
        BY <3>1, ExistAll DEF Kinds
      <3> QED BY <3>1, <3>2 DEF Between, HandlesCurrent, TypeOK, Phases
    <2>5. ASSUME NEW ok \in BOOLEAN,
                 WireShockCreateDevice(ok) \/ PrepareHardware(ok) \/ StorePipes(ok)
          PROVE  FALSE
      BY <2>5 DEF WireShockCreateDevice, PrepareHardware, StorePipes
    <2>6. ASSUME NEW layout \in Layouts, SelectConfig(layout) PROVE FALSE
      BY <2>6 DEF SelectConfig
    <2>7. CASE SelectConfigFails \/ Stop \/ Remove \/ StartTimer \/ DeleteChild
      BY <2>7 DEF SelectConfigFails, Stop, Remove, StartTimer, DeleteChild
    <2>8. ASSUME NEW k \in ReadKinds, ReadFails(k) \/ ReadAgain(k) PROVE FALSE
      BY <2>8 DEF ReadFails, ReadAgain
    <2>9. CASE UNCHANGED vars
      BY <2>9 DEF vars
    <2> QED
      BY <2>1, <2>2, <2>3, <2>4, <2>5, <2>6, <2>7, <2>8, <2>9 DEF Next
  <1>2. PnpInv /\ [Next]_vars => [~stale /\ stale' => Excused]_vars
    BY <1>1
  <1>3. [][~stale /\ stale' => Excused]_vars <=> StaleOnlyOnRestart
    BY PTL DEF StaleOnlyOnRestart
  <1> QED BY <1>2, <1>3, Invariance, PTL DEF Spec
==============================================================================
