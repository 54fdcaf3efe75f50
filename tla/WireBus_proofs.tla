--------------------------- MODULE WireBus_proofs ---------------------------
(***************************************************************************)
(* Safety of the child list for any number of devices, handles, entries,   *)
(* pool blocks and queued messages, and that the copies the callbacks      *)
(* retrieve, change and write back implement the abstract bus.             *)
(***************************************************************************)
EXTENDS WireBus, SequenceTheorems, FiniteSetTheorems, NaturalsInduction,
        WellFoundedInduction, TLAPS

-----------------------------------------------------------------------------
(* Sequences and the least number of a set.                                *)

\* A queue's head and what is left of it.
LEMMA TailFacts ==
    ASSUME NEW S, NEW q \in Seq(S), q # <<>>
    PROVE  /\ Tail(q) \in Seq(S)
           /\ Head(q) \in S
           /\ Head(q) = q[1]
           /\ 1 \in DOMAIN q
           /\ DOMAIN Tail(q) = 1..(Len(q) - 1)
           /\ \A i \in DOMAIN Tail(q) :
                 i + 1 \in DOMAIN q /\ Tail(q)[i] = q[i + 1] /\ i + 1 # 1
  OBVIOUS

\* A queue with one more element.
LEMMA AppendFacts ==
    ASSUME NEW S, NEW q \in Seq(S), NEW m \in S
    PROVE  /\ Append(q, m) \in Seq(S)
           /\ DOMAIN Append(q, m) = 1..(Len(q) + 1)
           /\ DOMAIN q = 1..Len(q)
           /\ Append(q, m)[Len(q) + 1] = m
           /\ \A i \in DOMAIN q : Append(q, m)[i] = q[i]
  OBVIOUS

\* The empty queue.
LEMMA EmptyFacts == \A S : <<>> \in Seq(S)
  OBVIOUS

\* A non-empty set of numbers has a least one.
LEMMA MinFact ==
    ASSUME NEW S \in SUBSET Nat, S # {}
    PROVE  Min(S) \in S /\ \A y \in S : Min(S) <= y
  <1> DEFINE R == OpToRel(<, Nat)
  <1>1. IsWellFoundedOn(R, Nat)
    BY NatLessThanWellFounded
  <1>2. PICK x \in S : \A y \in S : ~ (<<y, x>> \in R)
    <2> HIDE DEF R
    <2> QED BY <1>1, WFMin
  <1>3. ASSUME NEW y \in S PROVE x <= y
    <2>1. ~ (<<y, x>> \in R)
      BY <1>2
    <2>2. R = {ss \in Nat \X Nat : ss[1] < ss[2]}
      BY DEF OpToRel
    <2>3. ~(y < x)
      BY <2>1, <2>2
    <2> QED BY <2>3
  <1>4. \E z \in S : \A y \in S : z =< y
    BY <1>3
  <1> QED BY <1>4 DEF Min

\* Removing the element at one place moves the later ones one place forward.
LEMMA RemoveAtFacts ==
    ASSUME NEW S, NEW s \in Seq(S), NEW i \in 1..Len(s)
    PROVE  /\ RemoveAt(s, i) \in Seq(S)
           /\ Len(RemoveAt(s, i)) = Len(s) - 1
           /\ \A n \in 1..(Len(s) - 1) :
                 RemoveAt(s, i)[n] = IF n < i THEN s[n] ELSE s[n + 1]
  <1> DEFINE s1 == SubSeq(s, 1, i - 1)
             s2 == SubSeq(s, i + 1, Len(s))
  <1>1. Len(s) \in Nat /\ i \in Int /\ 1 <= i /\ i <= Len(s)
    OBVIOUS
  <1>2. /\ s1 \in Seq(S) /\ Len(s1) = i - 1
        /\ \A n \in 1..(i - 1) : s1[n] = s[n]
    <2>1. \A n \in 1..(i - 1) : s[n] \in S
      BY <1>1
    <2>2. s1 \in Seq(S) /\ Len(s1) = (IF 1 <= i - 1 THEN (i - 1) - 1 + 1 ELSE 0)
          /\ \A n \in 1..((i - 1) - 1 + 1) : s1[n] = s[1 + n - 1]
      BY <1>1, <2>1, SubSeqProperties
    <2> QED BY <1>1, <2>2
  <1>3. /\ s2 \in Seq(S) /\ Len(s2) = Len(s) - i
        /\ \A n \in 1..(Len(s) - i) : s2[n] = s[n + i]
    <2>1. \A n \in (i + 1)..Len(s) : s[n] \in S
      BY <1>1
    <2>2. /\ s2 \in Seq(S)
          /\ Len(s2) = (IF i + 1 <= Len(s) THEN Len(s) - (i + 1) + 1 ELSE 0)
          /\ \A n \in 1..(Len(s) - (i + 1) + 1) : s2[n] = s[(i + 1) + n - 1]
      BY <1>1, <2>1, SubSeqProperties
    <2> QED BY <1>1, <2>2
  <1> HIDE DEF s1, s2
  <1>4. /\ s1 \o s2 \in Seq(S)
        /\ Len(s1 \o s2) = Len(s1) + Len(s2)
        /\ \A n \in 1..(Len(s1) + Len(s2)) :
              (s1 \o s2)[n] = IF n <= Len(s1) THEN s1[n] ELSE s2[n - Len(s1)]
    BY <1>2, <1>3, ConcatProperties
  <1>5. RemoveAt(s, i) = s1 \o s2
    BY DEF RemoveAt, s1, s2
  <1>6. ASSUME NEW n \in 1..(Len(s) - 1)
        PROVE  (s1 \o s2)[n] = IF n < i THEN s[n] ELSE s[n + 1]
    <2>1. n \in 1..(Len(s1) + Len(s2)) /\ n \in Int
      BY <1>1, <1>2, <1>3
    <2>2. CASE n < i
      <3>1. n \in 1..(i - 1) /\ n <= Len(s1)
        BY <1>1, <1>2, <2>1, <2>2
      <3> QED BY <1>2, <1>4, <2>1, <2>2, <3>1
    <2>3. CASE ~(n < i)
      <3>1. n - (i - 1) \in 1..(Len(s) - i) /\ (n - (i - 1)) + i = n + 1
            /\ ~(n <= i - 1)
        BY <1>1, <2>1, <2>3
      <3> QED BY <1>2, <1>3, <1>4, <2>1, <2>3, <3>1
    <2> QED BY <2>2, <2>3
  <1>7. Len(s1) + Len(s2) = Len(s) - 1
    BY <1>1, <1>2, <1>3
  <1> QED BY <1>4, <1>5, <1>6, <1>7

\* Removing an element that is there once removes its place.
LEMMA RemoveFirstFacts ==
    ASSUME NEW S, NEW s \in Seq(S), NEW e,
           NEW k \in 1..Len(s), s[k] = e,
           \A n, m \in 1..Len(s) : s[n] = s[m] => n = m
    PROVE  RemoveFirst(s, e) = RemoveAt(s, k)
  <1> DEFINE I == {i \in 1..Len(s) : s[i] = e}
  <1>1. I = {k} /\ I \in SUBSET Nat
    OBVIOUS
  <1>2. RemoveFirst(s, e) = RemoveAt(s, Min(I))
    BY <1>1 DEF RemoveFirst, SelectInSeq
  <1>3. Min(I) \in I
    BY <1>1, MinFact
  <1> QED BY <1>1, <1>2, <1>3

\* A list an element is removed from is a list of the same type.
LEMMA RemoveFirstType ==
    ASSUME NEW S, NEW s \in Seq(S), NEW e
    PROVE  RemoveFirst(s, e) \in Seq(S)
  <1>1. CASE \E i \in 1..Len(s) : s[i] = e
    <2> DEFINE I == {i \in 1..Len(s) : s[i] = e}
    <2>1. I # {} /\ I \in SUBSET Nat
      BY <1>1
    <2>2. RemoveFirst(s, e) = RemoveAt(s, Min(I))
      BY <1>1, <2>1 DEF RemoveFirst, SelectInSeq
    <2>3. Min(I) \in I
      BY <2>1, MinFact
    <2> QED BY <2>2, <2>3, RemoveAtFacts
  <1>2. CASE ~\E i \in 1..Len(s) : s[i] = e
    BY <1>2 DEF RemoveFirst
  <1> QED BY <1>1, <1>2

-----------------------------------------------------------------------------
(* Types.  They need that a link that is up has a handle, and what the     *)
(* interrupt reader may be in the middle of.                               *)

StageLists == {<<>>, <<"request">>, <<"handle">>, <<"report">>,
               <<"type", "report">>, <<"name", "report">>,
               <<"name", "type", "report">>}

IntrShape ==
    /\ intr.stages \in StageLists
    /\ ~IntrBusy => intr = IntrIdle
    /\ IntrBusy => intr.addr \in Devices
    /\ ~intr.held => intr.snap = Zeroed
    /\ IntrBusy /\ Stage = "handle" => intr.handle \in Handles

LinkShape == \A a \in Devices : link[a] = "up" <=> handleOf[a] # NoHandle

TypeInv == TypeOK /\ IntrShape /\ LinkShape

\* A child that is present is in the list once, an entry without a device is
\* unused, no device has two children; what the others are in the middle of.
Listed ==
    /\ \A n, m \in DOMAIN order : order[n] = order[m] => n = m
    /\ \A i \in Ids :
          entries[i].present <=> \E n \in DOMAIN order : order[n] = i
Named == \A i \in Ids : entries[i].addr = Nobody => entries[i] = Free
OneEach == \A i, j \in PresentAll : entries[i].addr = entries[j].addr => i = j
PnpShape ==
    /\ PnpBusy => /\ entries[pnp.id].addr # Nobody
                  /\ entries[pnp.id].pdo = "none"
    /\ ~PnpBusy => pnp = PnpIdle
BulkShape ==
    /\ BulkBusy => bulk.addr \in Devices
    /\ ~BulkBusy => bulk = BulkIdle
TimerShape == \A i \in Ids : ~timers[i].busy => timers[i] = TimerIdle

Shape == Listed /\ Named /\ OneEach /\ PnpShape /\ BulkShape /\ TimerShape

\* The lists of stages: the first and what is left.
LEMMA StageFacts ==
    \A s \in StageLists \ {<<>>} :
        /\ s \in Seq(Stages) /\ s # <<>>
        /\ Head(s) \in Stages
        /\ Tail(s) \in StageLists
        /\ Tail(s) # <<>> => Head(s) \in {"name", "type"}
        /\ Head(s) = "name" => Head(Tail(s)) \in {"type", "report"}
        /\ Head(s) = "type" => Head(Tail(s)) = "report"
        /\ Head(s) \in {"request", "handle", "report"} => Tail(s) = <<>>
        /\ Head(s) \in {"name", "type"} => Tail(s) # <<>>
  <1>1. <<"request">> \in Seq(Stages) /\ Head(<<"request">>) = "request"
        /\ Tail(<<"request">>) = <<>> /\ <<"request">> # <<>>
    BY DEF Stages
  <1>2. <<"handle">> \in Seq(Stages) /\ Head(<<"handle">>) = "handle"
        /\ Tail(<<"handle">>) = <<>> /\ <<"handle">> # <<>>
    BY DEF Stages
  <1>3. <<"report">> \in Seq(Stages) /\ Head(<<"report">>) = "report"
        /\ Tail(<<"report">>) = <<>> /\ <<"report">> # <<>>
    BY DEF Stages
  <1>4. <<"type", "report">> \in Seq(Stages)
        /\ Head(<<"type", "report">>) = "type"
        /\ Tail(<<"type", "report">>) = <<"report">>
        /\ <<"type", "report">> # <<>>
    BY DEF Stages
  <1>5. <<"name", "report">> \in Seq(Stages)
        /\ Head(<<"name", "report">>) = "name"
        /\ Tail(<<"name", "report">>) = <<"report">>
        /\ <<"name", "report">> # <<>>
    BY DEF Stages
  <1>6. <<"name", "type", "report">> \in Seq(Stages)
        /\ Head(<<"name", "type", "report">>) = "name"
        /\ Tail(<<"name", "type", "report">>) = <<"type", "report">>
        /\ <<"name", "type", "report">> # <<>>
    BY DEF Stages
  <1> QED BY <1>1, <1>2, <1>3, <1>4, <1>5, <1>6, Zenon DEF StageLists, Stages

-----------------------------------------------------------------------------
(* The operators of the child list.                                        *)

\* A non-empty set of places has a first one.
LEMMA LeastExists ==
    ASSUME NEW S \in SUBSET Nat, S # {}
    PROVE  \E x \in S : \A y \in S : x <= y
  BY MinFact

\* Changing a member of an entry or of a description keeps its type.
LEMMA MemberSet ==
    /\ \A e \in Entries :
          /\ e.addr \in Devices \cup {Nobody} /\ e.present \in BOOLEAN
          /\ e.pdo \in {"none", "created"} /\ e.desc \in Descs
          /\ e.ticking \in BOOLEAN
          /\ [e EXCEPT !.present = FALSE] \in Entries
          /\ [e EXCEPT !.ticking = TRUE] \in Entries
          /\ \A d \in Descs : /\ [e EXCEPT !.desc = d] \in Entries
                              /\ [e EXCEPT !.desc = d, !.pdo = "created"]
                                    \in Entries
    /\ \A d \in Descs :
          /\ d.handle \in Handles \cup {NoHandle} /\ d.name \in Pool \cup {Null}
          /\ d.type \in Types /\ d.buffer \in Pool \cup {Null}
          /\ d.objs \in 0..MaxEntries /\ d.open \in BOOLEAN
          /\ \A h \in Handles : [d EXCEPT !.handle = h] \in Descs
          /\ \A b \in Pool : /\ [d EXCEPT !.name = b] \in Descs
                             /\ [d EXCEPT !.buffer = b] \in Descs
          /\ \A t \in Types : [d EXCEPT !.type = t] \in Descs
          /\ \A i \in Ids : [d EXCEPT !.objs = i] \in Descs
          /\ [d EXCEPT !.open = TRUE] \in Descs
  <1>1. Ids \subseteq 0..MaxEntries
    BY MaxEntriesAssumption DEF Ids
  <1>2. \A e \in Entries :
          /\ e.addr \in Devices \cup {Nobody} /\ e.present \in BOOLEAN
          /\ e.pdo \in {"none", "created"} /\ e.desc \in Descs
          /\ e.ticking \in BOOLEAN
          /\ [e EXCEPT !.present = FALSE] \in Entries
          /\ [e EXCEPT !.ticking = TRUE] \in Entries
          /\ \A d \in Descs : /\ [e EXCEPT !.desc = d] \in Entries
                              /\ [e EXCEPT !.desc = d, !.pdo = "created"]
                                    \in Entries
    BY DEF Entries
  <1>3. \A d \in Descs :
          /\ d.handle \in Handles \cup {NoHandle} /\ d.name \in Pool \cup {Null}
          /\ d.type \in Types /\ d.buffer \in Pool \cup {Null}
          /\ d.objs \in 0..MaxEntries /\ d.open \in BOOLEAN
          /\ \A h \in Handles : [d EXCEPT !.handle = h] \in Descs
          /\ \A b \in Pool : /\ [d EXCEPT !.name = b] \in Descs
                             /\ [d EXCEPT !.buffer = b] \in Descs
          /\ \A t \in Types : [d EXCEPT !.type = t] \in Descs
          /\ \A i \in Ids : [d EXCEPT !.objs = i] \in Descs
          /\ [d EXCEPT !.open = TRUE] \in Descs
    BY <1>1 DEF Descs
  <1> QED BY <1>2, <1>3

\* The entry of a device that is present.
LEMMA IdFacts ==
    ASSUME NEW a, IsPresent(a)
    PROVE  /\ IdOf(a) \in Ids
           /\ entries[IdOf(a)].present
           /\ entries[IdOf(a)].addr = a
  BY DEF IsPresent, IdOf, PresentIds

\* The entry a lookup by handle returns: the first whose handle matches, and
\* no entry up to it is without a PDO.
LEMMA LookupFacts ==
    ASSUME order \in Seq(Ids), NEW h, FoundByHandle(h)
    PROVE  \E n \in DOMAIN order :
              /\ ByHandle(h) = order[n]
              /\ ByHandle(h) \in Ids
              /\ entries[ByHandle(h)].desc.handle = h
              /\ entries[ByHandle(h)].pdo = "created"
              /\ n \in Reachable
  <1> DEFINE S == Matches(h) \cap Reachable
             k == CHOOSE i \in S : \A j \in S : i <= j
  <1>1. S # {} /\ S \in SUBSET Nat /\ S \subseteq DOMAIN order
    BY DEF FoundByHandle, Matches, Reachable
  <1>2. k \in S
    <2> HIDE DEF S
    <2>1. \E i \in S : \A j \in S : i <= j
      BY <1>1, LeastExists
    <2> QED BY <2>1
  <1>3. ByHandle(h) = order[k]
    BY DEF ByHandle
  <1>4. /\ k \in DOMAIN order /\ k \in Nat
        /\ k \in Matches(h) /\ k \in Reachable
    <2> HIDE DEF k
    <2>1. k \in Matches(h) /\ k \in Reachable
      BY <1>2
    <2> QED BY <1>1, <1>2, <2>1
  <1>5. order[k] \in Ids /\ entries[order[k]].desc.handle = h
        /\ entries[order[k]].pdo = "created"
    <2> HIDE DEF k
    <2>1. k \in 1..k
      BY <1>4 DEF Matches
    <2> QED BY <1>4, <2>1 DEF Matches, Reachable
  <1> HIDE DEF k
  <1> QED BY <1>3, <1>4, <1>5

\* What AddOrUpdate does to the list.
LEMMA AddFacts ==
    ASSUME TypeOK, NEW a \in Devices \cup {Nobody}, NEW d \in Descs,
           AddOrUpdate(a, d)
    PROVE  /\ entries' \in [Ids -> Entries]
           /\ order' \in Seq(Ids)
           /\ \E i \in Ids :
                 \/ /\ IsPresent(a) /\ i = IdOf(a) /\ order' = order
                    /\ entries' = [entries EXCEPT ![i].desc = d]
                 \/ /\ ~IsPresent(a) /\ entries[i] = Free
                    /\ order' = Append(order, i)
                    /\ entries' = [entries EXCEPT ![i] =
                           [addr |-> a, present |-> TRUE, pdo |-> "none",
                            desc |-> d, ticking |-> FALSE]]
  <1>1. CASE IsPresent(a)
    <2>1. /\ IdOf(a) \in Ids /\ order' = order
          /\ entries' = [entries EXCEPT ![IdOf(a)].desc = d]
      BY <1>1, IdFacts DEF AddOrUpdate
    <2>2. [entries[IdOf(a)] EXCEPT !.desc = d] \in Entries
      BY <2>1, MemberSet DEF TypeOK, BusTypeOK
    <2>3. entries' \in [Ids -> Entries]
      BY <2>1, <2>2 DEF TypeOK, BusTypeOK
    <2> QED BY <1>1, <2>1, <2>3 DEF TypeOK, BusTypeOK
  <1>2. CASE ~IsPresent(a)
    <2> DEFINE e == [addr |-> a, present |-> TRUE, pdo |-> "none", desc |-> d,
                     ticking |-> FALSE]
    <2>1. PICK i \in Ids : /\ entries[i] = Free
                           /\ order' = Append(order, i)
                           /\ entries' = [entries EXCEPT ![i] = e]
      BY <1>2 DEF AddOrUpdate
    <2>2. e \in Entries
      BY DEF Entries
    <2> HIDE DEF e
    <2>3. entries' \in [Ids -> Entries] /\ order' \in Seq(Ids)
      BY <2>1, <2>2, AppendFacts DEF TypeOK, BusTypeOK
    <2> QED BY <1>2, <2>1, <2>3 DEF e
  <1> QED BY <1>1, <1>2

\* What MarkMissing and EmptyScan do to the types of the list.
LEMMA MissingType ==
    ASSUME TypeOK, NEW i \in Ids, MarkMissing(i) \/ EmptyScan
    PROVE  entries' \in [Ids -> Entries] /\ order' \in Seq(Ids)
  <1>1. order' \in Seq(Ids)
    <2>1. order \in Seq(Ids)
      BY DEF TypeOK, BusTypeOK
    <2>2. CASE MarkMissing(i)
      BY <2>1, <2>2, RemoveFirstType DEF MarkMissing
    <2>3. CASE EmptyScan
      BY <2>3, EmptyFacts DEF EmptyScan
    <2> QED BY <2>2, <2>3
  <1>2. \A j \in Ids : [entries[j] EXCEPT !.present = FALSE] \in Entries
    BY MemberSet DEF TypeOK, BusTypeOK
  <1>3. entries \in [Ids -> Entries]
    BY DEF TypeOK, BusTypeOK
  <1>4. CASE MarkMissing(i)
    BY <1>1, <1>2, <1>3, <1>4 DEF MarkMissing
  <1>5. CASE EmptyScan
    BY <1>1, <1>2, <1>3, <1>5 DEF EmptyScan
  <1> QED BY <1>4, <1>5

\* An unused entry has its type.
LEMMA FreeType == Free \in Entries /\ Zeroed \in Descs
  BY MaxEntriesAssumption
     DEF Free, Zeroed, Entries, Descs, Types

\* An unused pool block is found when there is one.
LEMMA FreshFacts ==
    ASSUME Fresh # {}
    PROVE  /\ Min(Fresh) \in Pool /\ Min(Fresh) # Null
           /\ Min(Fresh) \notin live /\ Min(Fresh) \notin Referenced
  <1>1. Pool \subseteq Nat /\ Null \notin Pool
    BY PoolSizeAssumption DEF Pool, Null
  <1>2. Fresh \in SUBSET Nat
    BY <1>1 DEF Fresh
  <1>3. Min(Fresh) \in Fresh
    BY <1>2, MinFact
  <1> QED BY <1>1, <1>3 DEF Fresh

-----------------------------------------------------------------------------
(* The interrupt reader's stages.                                          *)

\* What a step leaves alone keeps its shape.
LEMMA SameShape ==
    /\ IntrShape /\ UNCHANGED intr => IntrShape'
    /\ LinkShape /\ UNCHANGED <<link, handleOf>> => LinkShape'
  BY DEF IntrShape, IntrBusy, Stage, LinkShape

\* What the reader is in the middle of.
LEMMA BusyFacts ==
    ASSUME TypeOK, IntrShape, IntrBusy
    PROVE  /\ intr.addr \in Devices
           /\ intr.stages \in StageLists \ {<<>>}
           /\ Stage \in Stages
           /\ Told \subseteq Types
           /\ Stage = "type" => "NONE" \notin Told
           /\ Stage = "handle" => intr.handle \in Handles
  <1>1. intr.stages \in StageLists \ {<<>>}
    BY DEF IntrShape, IntrBusy
  <1>2. Stage \in Stages /\ intr.stages \in Seq(Stages) /\ intr.stages # <<>>
    BY <1>1, StageFacts DEF Stage
  <1>3. intr.addr \in Devices /\ (Stage = "handle" => intr.handle \in Handles)
    BY DEF IntrShape
  <1>4. TypesOf[intr.addr] \subseteq Types /\ "NONE" \in Types
    BY <1>3, TypesOfAssumption DEF Types
  <1> QED BY <1>1, <1>2, <1>3, <1>4 DEF Told

\* The reader goes on with its next stage.
LEMMA NextStageFacts ==
    ASSUME TypeOK, IntrShape, IntrBusy, intr' = NextStage
    PROVE  /\ intr' \in IntrStates
           /\ IntrShape'
           /\ ~intr'.held
           /\ IntrBusy' => /\ intr'.addr = intr.addr
                           /\ Stage \in {"name", "type"}
                           /\ Stage' \in {"type", "report"}
                           /\ Stage = "type" => Stage' = "report"
           /\ Stage \in {"name", "type"} => IntrBusy'
           /\ ~IntrBusy' => intr' = IntrIdle
  <1>1. intr.stages \in StageLists \ {<<>>} /\ intr.addr \in Devices
    BY BusyFacts
  <1> DEFINE t == Tail(intr.stages)
  <1>2. /\ t \in StageLists /\ t \in Seq(Stages)
        /\ t # <<>> => Stage \in {"name", "type"}
        /\ Stage \in {"name", "type"} => t # <<>>
        /\ Stage = "name" => Head(t) \in {"type", "report"}
        /\ Stage = "type" => Head(t) = "report"
    BY <1>1, StageFacts, TailFacts DEF Stage
  <1> HIDE DEF t
  <1>4. CASE t = <<>>
    <2>1. intr' = IntrIdle
      BY <1>4 DEF NextStage, t
    <2>2. /\ intr'.stages = <<>> /\ intr'.held = FALSE /\ intr'.snap = Zeroed
          /\ intr' \in IntrStates
      BY <2>1, FreeType, EmptyFacts DEF IntrIdle, IntrStates
    <2>3. IntrShape' /\ ~IntrBusy'
      BY <2>1, <2>2 DEF IntrShape, IntrBusy, StageLists
    <2> QED BY <1>2, <1>4, <2>1, <2>2, <2>3
  <1>5. CASE t # <<>>
    <2>1. intr' = [intr EXCEPT !.stages = t, !.held = FALSE, !.snap = Zeroed]
      BY <1>5 DEF NextStage, t
    <2>2. /\ intr'.stages = t /\ intr'.addr = intr.addr /\ intr'.held = FALSE
          /\ intr'.snap = Zeroed /\ intr'.handle = intr.handle
          /\ intr' \in IntrStates
      BY <1>2, <2>1, FreeType DEF TypeOK, CallbackTypeOK, IntrStates
    <2>3. IntrBusy' /\ Stage' = Head(t)
      BY <1>5, <2>2 DEF IntrBusy, Stage
    <2>4. Stage' \in {"type", "report"} /\ (Stage = "type" => Stage' = "report")
          /\ Stage \in {"name", "type"}
      BY <1>2, <1>5, <2>3
    <2>5. IntrShape'
      BY <1>1, <1>2, <2>2, <2>3, <2>4 DEF IntrShape
    <2> QED BY <1>2, <2>2, <2>3, <2>4, <2>5
  <1> QED BY <1>4, <1>5

\* An event that is queued comes last.
LEMMA AddedEvent ==
    ASSUME TypeOK, NEW e \in EventSet, events' = Append(events, e)
    PROVE  /\ events' \in Seq(EventSet)
           /\ \A n \in DOMAIN events' :
                 \/ n \in DOMAIN events /\ events'[n] = events[n]
                 \/ n = Len(events) + 1 /\ events'[n] = e
           /\ \A n \in DOMAIN events : n \in DOMAIN events' /\ events'[n] = events[n]
           /\ Len(events) + 1 \in DOMAIN events' /\ events'[Len(events) + 1] = e
           /\ \A n \in DOMAIN events : n \in Nat /\ n < Len(events) + 1
           /\ Len(events) \in Nat
  <1>1. events \in Seq(EventSet) /\ Len(events) \in Nat
    BY DEF TypeOK, RadioTypeOK
  <1>2. /\ \A n \in 1..(Len(events) + 1) :
              n \in 1..Len(events) \/ n = Len(events) + 1
        /\ \A n \in 1..Len(events) : /\ n \in 1..(Len(events) + 1)
                                     /\ n \in Nat /\ n < Len(events) + 1
        /\ Len(events) + 1 \in 1..(Len(events) + 1)
    BY <1>1
  <1>3. /\ events' \in Seq(EventSet) /\ DOMAIN events' = 1..(Len(events) + 1)
        /\ DOMAIN events = 1..Len(events)
        /\ events'[Len(events) + 1] = e
        /\ \A n \in DOMAIN events : events'[n] = events[n]
    BY <1>1, AppendFacts
  <1>4. \A n \in DOMAIN events' :
                 \/ n \in DOMAIN events /\ events'[n] = events[n]
                 \/ n = Len(events) + 1 /\ events'[n] = e
    BY <1>2, <1>3
  <1> QED BY <1>1, <1>2, <1>3, <1>4

\* What the queue of events keeps when its head is taken.
LEMMA EventFacts ==
    \A e \in EventSet :
        /\ e.type \in {"ConnectionRequest", "ConnectionFailed",
                       "ConnectionComplete", "RemoteName"} => e.addr \in Devices
        /\ e.type \in {"ConnectionComplete", "DisconnectionComplete"} =>
               e.handle \in Handles
  BY DEF EventSet

\* The event that is taken is the first; the others move forward.
LEMMA TakenEvent ==
    ASSUME TypeOK, NEW type, Take(type)
    PROVE  /\ events' \in Seq(EventSet) /\ Head(events) \in EventSet
           /\ Head(events).type = type
           /\ 1 \in DOMAIN events /\ events[1] = Head(events)
           /\ \A n \in DOMAIN events' : /\ n + 1 \in DOMAIN events
                                        /\ events'[n] = events[n + 1]
                                        /\ n + 1 # 1 /\ n \in Nat
  <1>1. events \in Seq(EventSet) /\ events # <<>> /\ events' = Tail(events)
    BY DEF TypeOK, RadioTypeOK, Take
  <1>2. /\ events' \in Seq(EventSet) /\ Head(events) \in EventSet
        /\ 1 \in DOMAIN events /\ events[1] = Head(events)
        /\ \A n \in DOMAIN events' : /\ n + 1 \in DOMAIN events
                                     /\ events'[n] = events[n + 1]
                                     /\ n + 1 # 1
    BY <1>1, TailFacts
  <1>3. \A n \in DOMAIN events' : n \in Nat
    BY <1>2
  <1> QED BY <1>2, <1>3 DEF Take

\* What the radio does keeps the types.
LEMMA RadioType == TypeInv /\ Radio => TypeInv'
  <1> SUFFICES ASSUME TypeInv, Radio PROVE TypeInv'
    OBVIOUS
  <1> USE DEF bus, radio, host, excuses, history
  <1> TypeOK /\ IntrShape /\ LinkShape
    BY DEF TypeInv
  <1>0. NoHandle \notin Handles
    BY HandlesAssumption
  <1>1. ASSUME NEW a \in Devices, RequestLink(a) PROVE TypeInv'
    <2> DEFINE e == [type |-> "ConnectionRequest", addr |-> a]
    <2>1. e \in EventSet
      BY DEF EventSet
    <2>2. events' = Append(events, e)
      BY <1>1 DEF RequestLink
    <2> HIDE DEF e
    <2>3. events' \in Seq(EventSet)
      BY <2>1, <2>2, AddedEvent
    <2>4. TypeOK'
      BY <1>1, <2>3 DEF RequestLink, TypeOK, BusTypeOK, RadioTypeOK,
                                CallbackTypeOK, HostTypeOK
    <2>5. LinkShape'
      BY <1>1 DEF RequestLink, LinkShape, TypeOK, RadioTypeOK
    <2>6. IntrShape'
      BY <1>1, SameShape DEF RequestLink
    <2> QED BY <2>3, <2>4, <2>5, <2>6 DEF TypeInv
  <1>2. ASSUME NEW a \in Devices, LinkUp(a) PROVE TypeInv'
    <2>1. PICK h \in Handles :
             /\ handleOf' = [handleOf EXCEPT ![a] = h]
             /\ events' = Append(events, [type |-> "ConnectionComplete",
                                          addr |-> a, handle |-> h])
      BY <1>2 DEF LinkUp, FreeHandles
    <2> DEFINE e == [type |-> "ConnectionComplete", addr |-> a, handle |-> h]
    <2>2. e \in EventSet /\ events' = Append(events, e)
      BY <2>1 DEF EventSet
    <2> HIDE DEF e
    <2>3. events' \in Seq(EventSet)
      BY <2>2, AddedEvent
    <2>4. TypeOK'
      BY <1>2, <2>1, <2>3 DEF LinkUp, TypeOK, BusTypeOK, RadioTypeOK,
                                CallbackTypeOK, HostTypeOK
    <2>5. LinkShape'
      BY <1>0, <1>2, <2>1 DEF LinkUp, LinkShape, TypeOK, RadioTypeOK
    <2>6. IntrShape'
      BY <1>2, SameShape DEF LinkUp
    <2> QED BY <2>3, <2>4, <2>5, <2>6 DEF TypeInv
  <1>3. ASSUME NEW a \in Devices, LinkFails(a) PROVE TypeInv'
    <2> DEFINE e == [type |-> "ConnectionFailed", addr |-> a]
    <2>1. e \in EventSet
      BY DEF EventSet
    <2>2. events' = Append(events, e)
      BY <1>3 DEF LinkFails
    <2> HIDE DEF e
    <2>3. events' \in Seq(EventSet)
      BY <2>1, <2>2, AddedEvent
    <2>4. TypeOK'
      BY <1>3, <2>3 DEF LinkFails, TypeOK, BusTypeOK, RadioTypeOK,
                                CallbackTypeOK, HostTypeOK
    <2>5. LinkShape'
      BY <1>3 DEF LinkFails, LinkShape, TypeOK, RadioTypeOK
    <2>6. IntrShape'
      BY <1>3, SameShape DEF LinkFails
    <2> QED BY <2>3, <2>4, <2>5, <2>6 DEF TypeInv
  <1>4. ASSUME NEW a \in Devices, LinkDown(a) PROVE TypeInv'
    <2> DEFINE e == [type |-> "DisconnectionComplete", handle |-> handleOf[a]]
    <2>0. handleOf[a] \in Handles
      BY <1>4 DEF LinkDown, LinkShape, TypeOK, RadioTypeOK
    <2>1. e \in EventSet
      BY <2>0 DEF EventSet
    <2>2. events' = Append(events, e)
      BY <1>4 DEF LinkDown
    <2> HIDE DEF e
    <2>3. events' \in Seq(EventSet)
      BY <2>1, <2>2, AddedEvent
    <2>4. TypeOK'
      BY <1>4, <2>3 DEF LinkDown, TypeOK, BusTypeOK, RadioTypeOK,
                                CallbackTypeOK, HostTypeOK
    <2>5. LinkShape'
      BY <1>4 DEF LinkDown, LinkShape, TypeOK, RadioTypeOK
    <2>6. IntrShape'
      BY <1>4, SameShape DEF LinkDown
    <2> QED BY <2>3, <2>4, <2>5, <2>6 DEF TypeInv
  <1>5. ASSUME NEW a \in Devices, NameAnswer(a) PROVE TypeInv'
    <2> DEFINE e == [type |-> "RemoteName", addr |-> a]
    <2>1. e \in EventSet
      BY DEF EventSet
    <2>2. events' = Append(events, e)
      BY <1>5 DEF NameAnswer
    <2> HIDE DEF e
    <2>3. events' \in Seq(EventSet)
      BY <2>1, <2>2, AddedEvent
    <2>4. TypeOK'
      BY <1>5, <2>3 DEF NameAnswer, TypeOK, BusTypeOK, RadioTypeOK,
                                CallbackTypeOK, HostTypeOK
    <2>5. LinkShape' /\ IntrShape'
      BY <1>5, SameShape DEF NameAnswer
    <2> QED BY <2>3, <2>4, <2>5 DEF TypeInv
  <1>6. ASSUME NEW a \in Devices, NEW type \in {"signal", "report"},
               SendPacket(a, type)
        PROVE  TypeInv'
    <2> DEFINE p == [handle |-> handleOf[a], type |-> type]
    <2>1. handleOf[a] \in Handles
      BY <1>6 DEF SendPacket, LinkShape, TypeOK, RadioTypeOK
    <2>2. p \in Packets /\ packets \in Seq(Packets) /\ packets' = Append(packets, p)
      BY <1>6, <2>1 DEF SendPacket, TypeOK, RadioTypeOK, Packets
    <2>3. packets' \in Seq(Packets)
      <3> HIDE DEF p
      <3> QED BY <2>2, AppendFacts
    <2>4. TypeOK'
      BY <1>6, <2>3 DEF SendPacket, TypeOK, BusTypeOK, RadioTypeOK,
                                CallbackTypeOK, HostTypeOK
    <2>5. LinkShape' /\ IntrShape'
      BY <1>6, SameShape DEF SendPacket
    <2> QED BY <2>4, <2>5 DEF TypeInv
  <1> QED BY <1>1, <1>2, <1>3, <1>4, <1>5, <1>6 DEF Radio

\* The copy that is retrieved, and what is written back of it, have their types.
LEMMA DescTypes ==
    ASSUME TypeOK
    PROVE  /\ \A i \in Ids : entries[i] \in Entries /\ entries[i].desc \in Descs
                             /\ entries[i].addr \in Devices \cup {Nobody}
           /\ \A a : IsPresent(a) => DescOf(a) \in Descs
           /\ intr.snap \in Descs /\ bulk.snap \in Descs /\ pnp.snap \in Descs
           /\ intr.addr \in Devices \cup {Nobody}
           /\ bulk.addr \in Devices \cup {Nobody}
           /\ pnp.id \in 0..MaxEntries
           /\ (PnpBusy => pnp.id \in Ids)
           /\ \A i \in Ids : timers[i] \in TimerStates /\ timers[i].snap \in Descs
  <1>1. \A i \in Ids : entries[i] \in Entries /\ entries[i].desc \in Descs
                       /\ entries[i].addr \in Devices \cup {Nobody}
    BY MemberSet DEF TypeOK, BusTypeOK
  <1>2. \A a : IsPresent(a) => DescOf(a) \in Descs
    BY <1>1, IdFacts DEF DescOf
  <1>3. /\ intr.snap \in Descs /\ bulk.snap \in Descs /\ pnp.snap \in Descs
        /\ intr.addr \in Devices \cup {Nobody} /\ bulk.addr \in Devices \cup {Nobody}
        /\ pnp.id \in 0..MaxEntries
        /\ \A i \in Ids : timers[i] \in TimerStates /\ timers[i].snap \in Descs
    BY DEF TypeOK, CallbackTypeOK, IntrStates, BulkStates, PnpStates, TimerStates
  <1>4. PnpBusy => pnp.id \in Ids
    BY <1>3, MaxEntriesAssumption DEF PnpBusy, Ids
  <1> QED BY <1>1, <1>2, <1>3, <1>4

\* The changed copy is a description.
LEMMA ChangedType ==
    ASSUME TypeInv, IntrBusy, NEW t \in Told,
           NEW b \in Pool \cup {Null}, Allocates => b \in Pool
    PROVE  Changed(intr.snap, b, t) \in Descs
  <1> TypeOK /\ IntrShape
    BY DEF TypeInv
  <1>1. /\ intr.snap \in Descs /\ Stage \in Stages
        /\ t \in Types
        /\ Stage = "handle" => intr.handle \in Handles
    BY BusyFacts, DescTypes
  <1>2. CASE Stage = "request"
    BY <1>1, <1>2 DEF Changed
  <1>3. CASE Stage = "handle"
    BY <1>1, <1>3, MemberSet DEF Changed
  <1>4. CASE Stage = "name"
    BY <1>1, <1>4, MemberSet DEF Changed, Allocates
  <1>5. CASE Stage = "type"
    BY <1>1, <1>5, MemberSet DEF Changed
  <1>6. CASE Stage = "report"
    BY <1>1, <1>6, MemberSet DEF Changed
  <1> QED BY <1>1, <1>2, <1>3, <1>4, <1>5, <1>6 DEF Stages

\* Freeing blocks.
LEMMA FreeTypes ==
    ASSUME TypeOK, NEW ps, FreePool(ps)
    PROVE  live' \subseteq Pool
           /\ bugcheck' \in {"none", "null pointer", "freed memory", "freed twice"}
  BY DEF TypeOK, BusTypeOK, HostTypeOK, FreePool

\* The commands the reader sends.
LEMMA CommandTypes ==
    ASSUME TypeInv, IntrBusy, NEW sent \in BOOLEAN, Commands(sent),
           handleOf' = handleOf
    PROVE  /\ link' \in [Devices -> {"down", "requested", "accepted", "up"}]
           /\ naming' \subseteq Devices
           /\ LinkShape'
  <1>1. intr.addr \in Devices
    BY BusyFacts DEF TypeInv
  <1> QED BY <1>1 DEF TypeInv, TypeOK, RadioTypeOK, Commands, LinkShape

\* The reader begins to work on a child.
LEMMA HandleTypes ==
    ASSUME TypeInv, NEW type, Take(type), NEW a \in Devices,
           NEW s \in StageLists \ {<<>>}, NEW h \in Handles \cup {NoHandle},
           s = <<"handle">> => h \in Handles,
           s \in {<<"request">>, <<"handle">>, <<"name", "report">>,
                  <<"name", "type", "report">>},
           Handle(a, s, h),
           abandoned' \cup late' \cup uncreated' \subseteq Devices,
           starved' \in BOOLEAN, renamed' \in BOOLEAN
    PROVE  TypeInv'
  <1> USE DEF bus, radio, host, excuses, history
  <1> TypeOK /\ IntrShape /\ LinkShape
    BY DEF TypeInv
  <1>1. intr' = [IntrIdle EXCEPT !.stages = s, !.addr = a, !.handle = h]
    BY DEF Handle
  <1>2. /\ intr'.stages = s /\ intr'.addr = a /\ intr'.handle = h
        /\ intr'.held = FALSE /\ intr'.snap = Zeroed
        /\ intr' \in IntrStates
    BY <1>1, FreeType, StageFacts DEF IntrIdle, IntrStates
  <1>3. events' \in Seq(EventSet)
    BY TakenEvent
  <1>4. overlapped' \in BOOLEAN
    BY DEF Handle, Begin, TypeOK, HostTypeOK
  <1>5. TypeOK'
    BY <1>2, <1>3, <1>4
       DEF Handle, TypeOK, BusTypeOK, RadioTypeOK, CallbackTypeOK, HostTypeOK
  <1>6. LinkShape'
    BY DEF Handle, LinkShape
  <1>7. Head(s) = "handle" => s = <<"handle">>
    BY DEF StageLists
  <1>8. IntrShape'
    BY <1>2, <1>7 DEF IntrShape, IntrBusy, Stage
  <1> QED BY <1>3, <1>5, <1>6, <1>8 DEF TypeInv

\* What the interrupt reader does keeps the types.
LEMMA InterruptType == TypeInv /\ Interrupt => TypeInv'
  <1> SUFFICES ASSUME TypeInv, Interrupt PROVE TypeInv'
    OBVIOUS
  <1> USE DEF bus, radio, host, excuses, history
  <1> TypeOK /\ IntrShape /\ LinkShape
    BY DEF TypeInv
  <1>0. /\ starved \in BOOLEAN /\ renamed \in BOOLEAN
        /\ abandoned \cup late \cup uncreated \subseteq Devices
        /\ NoHandle \in Handles \cup {NoHandle}
        /\ Null \in Pool \cup {Null}
    BY DEF TypeOK, HostTypeOK
  <1>1. CASE ConnectionRequest
    <2> DEFINE a == Head(events).addr
    <2>1. Take("ConnectionRequest") /\ Handle(a, <<"request">>, NoHandle)
          /\ abandoned' \cup late' \cup uncreated' \subseteq Devices
          /\ starved' \in BOOLEAN /\ renamed' \in BOOLEAN
      BY <1>1, <1>0 DEF ConnectionRequest
    <2>2. a \in Devices
      BY <2>1, TakenEvent, EventFacts
    <2>3. <<"request">> \in StageLists \ {<<>>} /\ <<"request">> # <<"handle">>
      BY DEF StageLists
    <2> HIDE DEF a
    <2> QED BY <1>0, <2>1, <2>2, <2>3, HandleTypes
  <1>2. CASE ConnectionComplete
    <2> DEFINE e == Head(events)
    <2>1. Take("ConnectionComplete") /\ Handle(e.addr, <<"handle">>, e.handle)
          /\ abandoned' \cup late' \cup uncreated' \subseteq Devices
          /\ starved' \in BOOLEAN /\ renamed' \in BOOLEAN
      BY <1>2, <1>0 DEF ConnectionComplete
    <2>2. e.addr \in Devices /\ e.handle \in Handles
      BY <2>1, TakenEvent, EventFacts
    <2>3. <<"handle">> \in StageLists \ {<<>>}
      BY DEF StageLists
    <2> HIDE DEF e
    <2> QED BY <1>0, <2>1, <2>2, <2>3, HandleTypes
  <1>3. CASE RemoteNameComplete
    <2> DEFINE a == Head(events).addr
               s2 == <<"name", "report">>
               s3 == <<"name", "type", "report">>
    <2>1. Take("RemoteName")
          /\ abandoned' \cup late' \cup uncreated' \subseteq Devices
          /\ starved' \in BOOLEAN /\ renamed' \in BOOLEAN
      BY <1>3, <1>0 DEF RemoteNameComplete
    <2>2. a \in Devices
      BY <2>1, TakenEvent, EventFacts
    <2>3. PICK t \in TypesOf[a] :
              Handle(a, IF t = "NONE" THEN s2 ELSE s3, NoHandle)
      BY <1>3 DEF RemoteNameComplete
    <2>4. /\ s2 \in StageLists \ {<<>>} /\ s2 # <<"handle">>
          /\ s3 \in StageLists \ {<<>>} /\ s3 # <<"handle">>
      BY DEF StageLists
    <2>5. CASE t = "NONE"
      <3>1. Handle(a, s2, NoHandle)
        BY <2>3, <2>5
      <3> HIDE DEF a
      <3> QED BY <1>0, <2>1, <2>2, <2>4, <3>1, HandleTypes
    <2>6. CASE t # "NONE"
      <3>1. Handle(a, s3, NoHandle)
        BY <2>3, <2>6
      <3> HIDE DEF a
      <3> QED BY <1>0, <2>1, <2>2, <2>4, <3>1, HandleTypes
    <2> QED BY <2>5, <2>6
  <1>4. CASE ConnectionFailed
    <2>1. Take("ConnectionFailed") /\ Head(events).addr \in Devices
      BY <1>4, TakenEvent, EventFacts DEF ConnectionFailed
    <2>2. events' \in Seq(EventSet)
      BY <2>1, TakenEvent
    <2>3. TypeOK'
      BY <1>4, <2>1, <2>2 DEF ConnectionFailed, TypeOK, BusTypeOK, RadioTypeOK,
                              CallbackTypeOK, HostTypeOK
    <2>4. LinkShape' /\ IntrShape'
      BY <1>4, SameShape DEF ConnectionFailed
    <2> QED BY <2>2, <2>3, <2>4 DEF TypeInv
  <1>5. CASE DisconnectionComplete
    <2> DEFINE h == Head(events).handle
    <2>1. Take("DisconnectionComplete")
      BY <1>5 DEF DisconnectionComplete
    <2>2. events' \in Seq(EventSet)
      BY <2>1, TakenEvent
    <2>3. BusTypeOK'
      <3>1. CASE FoundByHandle(h)
        <4>1. MarkMissing(ByHandle(h)) /\ live' = live
          BY <1>5, <3>1 DEF DisconnectionComplete
        <4>2. ByHandle(h) \in Ids
          BY <3>1, LookupFacts DEF TypeOK, BusTypeOK
        <4> QED BY <4>1, <4>2, MissingType DEF TypeOK, BusTypeOK
      <3>2. CASE ~FoundByHandle(h)
        BY <1>5, <3>2 DEF DisconnectionComplete, TypeOK, BusTypeOK
      <3> QED BY <3>1, <3>2
    <2>4. overlapped' \in BOOLEAN /\ cutShort' \in BOOLEAN
      BY <1>5 DEF DisconnectionComplete, Begin, TypeOK, HostTypeOK
    <2>5. TypeOK'
      BY <1>5, <2>2, <2>3, <2>4
         DEF DisconnectionComplete, TypeOK, RadioTypeOK, CallbackTypeOK, HostTypeOK
    <2>6. LinkShape' /\ IntrShape'
      BY <1>5, SameShape DEF DisconnectionComplete
    <2> QED BY <2>2, <2>5, <2>6 DEF TypeInv
  <1>6. CASE IntrSkip
    <2>1. IntrBusy /\ intr' = NextStage
      BY <1>6 DEF IntrSkip
    <2>2. PICK sent \in BOOLEAN : Commands(sent)
      BY <1>6 DEF IntrSkip
    <2>3. intr' \in IntrStates /\ IntrShape'
      BY <2>1, NextStageFacts
    <2>4. /\ link' \in [Devices -> {"down", "requested", "accepted", "up"}]
          /\ naming' \subseteq Devices /\ LinkShape'
      BY <1>6, <2>1, <2>2, CommandTypes DEF IntrSkip
    <2>5. TypeOK'
      BY <1>6, <2>3, <2>4, SameShape
         DEF IntrSkip, TypeOK, BusTypeOK, RadioTypeOK, CallbackTypeOK, HostTypeOK
    <2> QED BY <2>3, <2>4, <2>5 DEF TypeInv
  <1>7. CASE IntrRetrieve
    <2> DEFINE d == IF IsPresent(intr.addr) THEN DescOf(intr.addr) ELSE Zeroed
    <2>1. /\ intr' = [intr EXCEPT !.held = TRUE, !.snap = d] /\ IntrBusy
          /\ d \in Descs
      BY <1>7, DescTypes, FreeType DEF IntrRetrieve
    <2>2. live' \subseteq Pool
          /\ bugcheck' \in {"none", "null pointer", "freed memory", "freed twice"}
      BY <1>7, FreeTypes DEF IntrRetrieve
    <2> HIDE DEF d
    <2>3. /\ intr' \in IntrStates /\ intr'.stages = intr.stages
          /\ intr'.addr = intr.addr /\ intr'.handle = intr.handle /\ intr'.held
      BY <2>1 DEF TypeOK, CallbackTypeOK, IntrStates
    <2>4. IntrShape'
      BY <2>1, <2>3 DEF IntrShape, IntrBusy, Stage
    <2>5. TypeOK' /\ LinkShape'
      BY <1>7, <2>2, <2>3, SameShape
         DEF IntrRetrieve, TypeOK, BusTypeOK, RadioTypeOK, CallbackTypeOK, HostTypeOK
    <2> QED BY <2>4, <2>5 DEF TypeInv
  <1>8. CASE IntrWrite
    <2>1. IntrBusy /\ intr' = NextStage /\ intr.addr \in Devices
      BY <1>8, BusyFacts DEF IntrWrite
    <2>2. PICK sent \in BOOLEAN : Commands(sent)
      BY <1>8 DEF IntrWrite
    <2>3. intr' \in IntrStates /\ IntrShape'
      BY <2>1, NextStageFacts
    <2>4. /\ link' \in [Devices -> {"down", "requested", "accepted", "up"}]
          /\ naming' \subseteq Devices /\ LinkShape'
      BY <1>8, <2>1, <2>2, CommandTypes DEF IntrWrite
    <2>5. PICK t \in Told :
            /\ Allocates => /\ Fresh # {} /\ live' = live \cup {Min(Fresh)}
                            /\ AddOrUpdate(intr.addr,
                                           Changed(intr.snap, Min(Fresh), t))
            /\ ~Allocates => /\ AddOrUpdate(intr.addr, Changed(intr.snap, Null, t))
                             /\ live' = live
            /\ renamed' = (renamed \/ Renames(t))
      BY <1>8 DEF IntrWrite
    <2>6. BusTypeOK'
      <3>1. CASE Allocates
        <4> DEFINE b == Min(Fresh)
        <4>1. /\ live' = live \cup {b} /\ b \in Pool
              /\ AddOrUpdate(intr.addr, Changed(intr.snap, b, t))
          BY <2>5, <3>1, FreshFacts
        <4> HIDE DEF b
        <4>2. Changed(intr.snap, b, t) \in Descs
          BY <2>1, <4>1, ChangedType
        <4> QED BY <2>1, <4>1, <4>2, AddFacts DEF TypeOK, BusTypeOK
      <3>2. CASE ~Allocates
        <4>1. Changed(intr.snap, Null, t) \in Descs
          BY <1>0, <2>1, <3>2, ChangedType
        <4> QED BY <2>1, <2>5, <3>2, <4>1, AddFacts DEF TypeOK, BusTypeOK
      <3> QED BY <3>1, <3>2
    <2>7. renamed' \in BOOLEAN
      BY <1>0, <2>5 DEF Renames
    <2>8. TypeOK'
      BY <1>8, <2>1, <2>3, <2>4, <2>6, <2>7, SameShape
         DEF IntrWrite, TypeOK, RadioTypeOK, CallbackTypeOK, HostTypeOK
    <2> QED BY <2>3, <2>4, <2>8 DEF TypeInv
  <1>9. CASE IntrWriteFails
    <2>1. IntrBusy /\ intr' = NextStage /\ intr.addr \in Devices
      BY <1>9, BusyFacts DEF IntrWriteFails
    <2>2. intr' \in IntrStates /\ IntrShape'
      BY <2>1, NextStageFacts
    <2>3. /\ link' \in [Devices -> {"down", "requested", "accepted", "up"}]
          /\ naming' \subseteq Devices /\ LinkShape'
      <3>1. CASE Stage = "request"
        BY <1>9, <3>1, SameShape DEF IntrWriteFails, TypeOK, RadioTypeOK
      <3>2. CASE Stage # "request"
        BY <1>9, <2>1, <3>2, CommandTypes DEF IntrWriteFails
      <3> QED BY <3>1, <3>2
    <2>4. live' \subseteq Pool
      BY <1>9, FreshFacts DEF IntrWriteFails, TypeOK, BusTypeOK
    <2>5. TypeOK'
      BY <1>9, <2>1, <2>2, <2>3, <2>4, SameShape
         DEF IntrWriteFails, TypeOK, BusTypeOK, RadioTypeOK, CallbackTypeOK,
             HostTypeOK
    <2> QED BY <2>2, <2>3, <2>5 DEF TypeInv
  <1>10. CASE IntrAllocationFails
    <2>1. TypeOK' /\ LinkShape' /\ IntrShape'
      BY <1>10, SameShape
         DEF IntrAllocationFails, TypeOK, BusTypeOK, RadioTypeOK, CallbackTypeOK,
             HostTypeOK
    <2> QED BY <2>1 DEF TypeInv
  <1> QED
    BY <1>1, <1>2, <1>3, <1>4, <1>5, <1>6, <1>7, <1>8, <1>9, <1>10 DEF Interrupt

\* What the bulk reader does keeps the types.
LEMMA BulkType == TypeInv /\ Bulk => TypeInv'
  <1> SUFFICES ASSUME TypeInv, Bulk PROVE TypeInv'
    OBVIOUS
  <1> USE DEF bus, radio, host, excuses, history
  <1> TypeOK /\ IntrShape /\ LinkShape
    BY DEF TypeInv
  <1>0. /\ packets # <<>> => /\ Head(packets) \in Packets
                             /\ Tail(packets) \in Seq(Packets)
        /\ bulk \in BulkStates /\ bulk.snap \in Descs
        /\ order \in Seq(Ids)
    BY TailFacts DEF TypeOK, BusTypeOK, RadioTypeOK, CallbackTypeOK, BulkStates
  <1>1. CASE BulkLookup
    <2> DEFINE p == Head(packets)
               i == ByHandle(p.handle)
    <2>1. i \in Ids
      BY <1>0, <1>1, LookupFacts DEF BulkLookup
    <2>2. /\ p.type \in {"signal", "report"} /\ entries[i].desc \in Descs
          /\ entries[i].addr \in Devices \cup {Nobody}
      BY <1>0, <1>1, <2>1, DescTypes DEF BulkLookup, Packets
    <2>3. bulk' = [type |-> p.type, addr |-> entries[i].addr,
                   snap |-> entries[i].desc]
      BY <1>1 DEF BulkLookup
    <2> HIDE DEF p, i
    <2>4. bulk' \in BulkStates
      BY <2>2, <2>3 DEF BulkStates
    <2>5. overlapped' \in BOOLEAN
      BY <1>1 DEF BulkLookup, Begin, TypeOK, HostTypeOK
    <2>6. TypeOK'
      BY <1>0, <1>1, <2>4, <2>5
         DEF BulkLookup, TypeOK, BusTypeOK, RadioTypeOK, CallbackTypeOK, HostTypeOK
    <2>7. LinkShape' /\ IntrShape'
      BY <1>1, SameShape DEF BulkLookup
    <2> QED BY <2>6, <2>7 DEF TypeInv
  <1>2. CASE BulkDrop
    <2>1. TypeOK'
      BY <1>0, <1>2
         DEF BulkDrop, TypeOK, BusTypeOK, RadioTypeOK, CallbackTypeOK, HostTypeOK
    <2>2. LinkShape' /\ IntrShape'
      BY <1>2, SameShape DEF BulkDrop
    <2> QED BY <2>1, <2>2 DEF TypeInv
  <1>3. CASE BulkSignal
    <2>1. [bulk.snap EXCEPT !.open = TRUE] \in Descs
      BY <1>0, MemberSet
    <2>2. bulk' = [bulk EXCEPT !.type = "write back",
                               !.snap = [bulk.snap EXCEPT !.open = TRUE]]
      BY <1>0, <1>3 DEF BulkSignal, BulkStates
    <2>3. bulk' \in BulkStates
      BY <1>0, <2>1, <2>2 DEF BulkStates
    <2>4. entries' \in [Ids -> Entries]
      <3>1. CASE Use(bulk.snap) = "none"
        <4> DEFINE i == bulk.snap.objs
        <4>1. i \in 0..MaxEntries /\ i # 0
          BY <1>0, <3>1, MemberSet DEF Use
        <4>2. i \in Ids
          BY <4>1, MaxEntriesAssumption DEF Ids
        <4>3. entries' = [entries EXCEPT ![i] = [entries[i] EXCEPT !.ticking = TRUE]]
          BY <1>3, <3>1, <4>2 DEF BulkSignal, TypeOK, BusTypeOK
        <4> HIDE DEF i
        <4> QED BY <4>2, <4>3, MemberSet DEF TypeOK, BusTypeOK
      <3>2. CASE Use(bulk.snap) # "none"
        BY <1>3, <3>2 DEF BulkSignal, TypeOK, BusTypeOK
      <3> QED BY <3>1, <3>2
    <2>5. bugcheck' \in {"none", "null pointer", "freed memory", "freed twice"}
      BY <1>3 DEF BulkSignal, Use
    <2>6. TypeOK'
      BY <1>3, <2>3, <2>4, <2>5
         DEF BulkSignal, TypeOK, BusTypeOK, RadioTypeOK, CallbackTypeOK, HostTypeOK
    <2>7. LinkShape' /\ IntrShape'
      BY <1>3, SameShape DEF BulkSignal
    <2> QED BY <2>6, <2>7 DEF TypeInv
  <1>4. ASSUME NEW valid \in BOOLEAN, BulkReport(valid) PROVE TypeInv'
    <2>1. bugcheck' \in {"none", "null pointer", "freed memory", "freed twice"}
      BY <1>4 DEF BulkReport, Use
    <2>2. bulk' \in BulkStates
      BY <1>0, <1>4 DEF BulkReport, BulkStates
    <2>3. TypeOK'
      BY <1>4, <2>1, <2>2
         DEF BulkReport, TypeOK, BusTypeOK, RadioTypeOK, CallbackTypeOK, HostTypeOK
    <2>4. LinkShape' /\ IntrShape'
      BY <1>4, SameShape DEF BulkReport
    <2> QED BY <2>3, <2>4 DEF TypeInv
  <1>5. CASE BulkWriteBack
    <2>1. bulk' \in BulkStates
      BY <1>5, FreeType DEF BulkWriteBack, BulkIdle, BulkStates
    <2>2. entries' \in [Ids -> Entries] /\ order' \in Seq(Ids)
      BY <1>0, <1>5, DescTypes, AddFacts DEF BulkWriteBack, TypeOK, BusTypeOK
    <2>3. starved' \in BOOLEAN
      BY <1>5 DEF BulkWriteBack, TypeOK, HostTypeOK
    <2>4. TypeOK'
      BY <1>5, <2>1, <2>2, <2>3
         DEF BulkWriteBack, TypeOK, BusTypeOK, RadioTypeOK, CallbackTypeOK, HostTypeOK
    <2>5. LinkShape' /\ IntrShape'
      BY <1>5, SameShape DEF BulkWriteBack
    <2> QED BY <2>4, <2>5 DEF TypeInv
  <1> QED BY <1>1, <1>2, <1>3, <1>4, <1>5 DEF Bulk

\* The creation of a PDO, the timer and the clean-up keep the types.
LEMMA ChildrenType == TypeInv /\ PnpShape /\ Children => TypeInv'
  <1> SUFFICES ASSUME TypeInv, PnpShape, Children PROVE TypeInv'
    OBVIOUS
  <1> USE DEF bus, radio, host, excuses, history
  <1> TypeOK /\ IntrShape /\ LinkShape
    BY DEF TypeInv
  <1>0. /\ entries \in [Ids -> Entries] /\ order \in Seq(Ids)
        /\ timers \in [Ids -> TimerStates] /\ Ids \subseteq 0..MaxEntries
        /\ \A i \in Ids : /\ entries[i].addr \in Devices \cup {Nobody}
                          /\ entries[i].desc \in Descs
        /\ PnpBusy => pnp.id \in Ids
        /\ pnp.snap \in Descs
    BY DescTypes, MaxEntriesAssumption DEF TypeOK, BusTypeOK, CallbackTypeOK, Ids
  <1>1. CASE PnpEnd
    <2> DEFINE i == pnp.id
               d == [pnp.snap EXCEPT !.objs = i]
    <2>1. i \in Ids /\ d \in Descs
      BY <1>0, <1>1, MemberSet DEF PnpEnd
    <2>2. entries' = [entries EXCEPT ![i] = [entries[i] EXCEPT !.desc = d,
                                                              !.pdo = "created"]]
      BY <1>0, <1>1, <2>1 DEF PnpEnd, Entries
    <2>3. pnp' \in PnpStates
      BY <1>0, <1>1, FreeType, MaxEntriesAssumption DEF PnpEnd, PnpIdle, PnpStates
    <2> HIDE DEF i, d
    <2>4. entries' \in [Ids -> Entries]
      BY <1>0, <2>1, <2>2, MemberSet
    <2>5. TypeOK'
      BY <1>1, <2>3, <2>4
         DEF PnpEnd, TypeOK, BusTypeOK, RadioTypeOK, CallbackTypeOK, HostTypeOK
    <2>6. LinkShape' /\ IntrShape'
      BY <1>1, SameShape DEF PnpEnd
    <2> QED BY <2>5, <2>6 DEF TypeInv
  <1>2. CASE PnpFails
    <2>1. pnp.id \in Ids
      BY <1>0, <1>2 DEF PnpFails
    <2>2. entries' \in [Ids -> Entries] /\ order' \in Seq(Ids)
      BY <1>0, <1>2, FreeType, RemoveFirstType DEF PnpFails
    <2>3. pnp' \in PnpStates
      BY <1>2, FreeType, MaxEntriesAssumption DEF PnpFails, PnpIdle, PnpStates
    <2>4. live' \subseteq Pool
          /\ bugcheck' \in {"none", "null pointer", "freed memory", "freed twice"}
      BY <1>2, FreeTypes DEF PnpFails
    <2>5. abandoned' \cup late' \cup uncreated' \subseteq Devices
      BY <1>0, <1>2, <2>1 DEF PnpFails, PnpShape, TypeOK, HostTypeOK
    <2>6. TypeOK'
      BY <1>2, <2>2, <2>3, <2>4, <2>5
         DEF PnpFails, TypeOK, BusTypeOK, RadioTypeOK, CallbackTypeOK, HostTypeOK
    <2>7. LinkShape' /\ IntrShape'
      BY <1>2, SameShape DEF PnpFails
    <2> QED BY <2>6, <2>7 DEF TypeInv
  <1>3. ASSUME NEW i \in Ids, PnpBegin(i) PROVE TypeInv'
    <2>1. pnp' \in PnpStates
      BY <1>0, <1>3 DEF PnpBegin, PnpStates
    <2>2. overlapped' \in BOOLEAN
      BY <1>3 DEF PnpBegin, Begin, TypeOK, HostTypeOK
    <2>3. TypeOK'
      BY <1>3, <2>1, <2>2
         DEF PnpBegin, TypeOK, BusTypeOK, RadioTypeOK, CallbackTypeOK, HostTypeOK
    <2>4. LinkShape' /\ IntrShape'
      BY <1>3, SameShape DEF PnpBegin
    <2> QED BY <2>3, <2>4 DEF TypeInv
  <1>4. ASSUME NEW i \in Ids, TimerBegin(i) PROVE TypeInv'
    <2>1. [busy |-> TRUE, snap |-> entries[i].desc] \in TimerStates
      BY <1>0 DEF TimerStates
    <2>2. timers' \in [Ids -> TimerStates]
      BY <1>0, <1>4, <2>1 DEF TimerBegin
    <2>3. overlapped' \in BOOLEAN
      BY <1>4 DEF TimerBegin, Begin, TypeOK, HostTypeOK
    <2>4. TypeOK'
      BY <1>4, <2>2, <2>3
         DEF TimerBegin, TypeOK, BusTypeOK, RadioTypeOK, CallbackTypeOK, HostTypeOK
    <2>5. LinkShape' /\ IntrShape'
      BY <1>4, SameShape DEF TimerBegin
    <2> QED BY <2>4, <2>5 DEF TypeInv
  <1>5. ASSUME NEW i \in Ids, TimerSend(i) PROVE TypeInv'
    <2>1. TimerIdle \in TimerStates
      BY FreeType DEF TimerIdle, TimerStates
    <2>2. timers' \in [Ids -> TimerStates]
      BY <1>0, <1>5, <2>1 DEF TimerSend
    <2>3. bugcheck' \in {"none", "null pointer", "freed memory", "freed twice"}
      BY <1>5 DEF TimerSend
    <2>4. TypeOK'
      BY <1>5, <2>2, <2>3
         DEF TimerSend, TypeOK, BusTypeOK, RadioTypeOK, CallbackTypeOK, HostTypeOK
    <2>5. LinkShape' /\ IntrShape'
      BY <1>5, SameShape DEF TimerSend
    <2> QED BY <2>4, <2>5 DEF TypeInv
  <1>6. ASSUME NEW i \in Ids, Cleanup(i) PROVE TypeInv'
    <2>1. entries' \in [Ids -> Entries]
      BY <1>0, <1>6, FreeType DEF Cleanup
    <2>2. live' \subseteq Pool
          /\ bugcheck' \in {"none", "null pointer", "freed memory", "freed twice"}
      BY <1>6, FreeTypes DEF Cleanup
    <2>3. TypeOK'
      BY <1>6, <2>1, <2>2
         DEF Cleanup, TypeOK, BusTypeOK, RadioTypeOK, CallbackTypeOK, HostTypeOK
    <2>4. LinkShape' /\ IntrShape'
      BY <1>6, SameShape DEF Cleanup
    <2> QED BY <2>3, <2>4 DEF TypeInv
  <1> QED BY <1>1, <1>2, <1>3, <1>4, <1>5, <1>6 DEF Children

\* Leaving D0 and the removal keep the types.
LEMMA PowerType == TypeInv /\ Power => TypeInv'
  <1> SUFFICES ASSUME TypeInv, Power PROVE TypeInv'
    OBVIOUS
  <1> USE DEF bus, radio, host, excuses, history
  <1> TypeOK /\ IntrShape /\ LinkShape
    BY DEF TypeInv
  <1>0. 1 \in Ids
    BY MaxEntriesAssumption DEF Ids
  <1>1. CASE D0ExitScan
    <2>1. EmptyScan /\ overlapped' \in BOOLEAN
      BY <1>1 DEF D0ExitScan, Begin, TypeOK, HostTypeOK
    <2>2. TypeOK'
      BY <1>0, <1>1, <2>1, MissingType
         DEF D0ExitScan, TypeOK, BusTypeOK, RadioTypeOK, CallbackTypeOK, HostTypeOK
    <2>3. LinkShape' /\ IntrShape'
      BY <1>1, SameShape DEF D0ExitScan
    <2> QED BY <2>2, <2>3 DEF TypeInv
  <1>2. CASE D0ExitStop
    <2>1. TypeOK'
      BY <1>2, EmptyFacts
         DEF D0ExitStop, TypeOK, BusTypeOK, RadioTypeOK, CallbackTypeOK, HostTypeOK
    <2>2. LinkShape'
      BY <1>2 DEF D0ExitStop, LinkShape
    <2>3. IntrShape'
      BY <1>2, SameShape DEF D0ExitStop
    <2> QED BY <2>1, <2>2, <2>3 DEF TypeInv
  <1>3. CASE Resume
    <2>1. TypeOK' /\ LinkShape' /\ IntrShape'
      BY <1>3, SameShape
         DEF Resume, TypeOK, BusTypeOK, RadioTypeOK, CallbackTypeOK, HostTypeOK
    <2> QED BY <2>1 DEF TypeInv
  <1>4. CASE RemoveDevice
    <2>1. EmptyScan /\ overlapped' \in BOOLEAN
      BY <1>4 DEF RemoveDevice, Begin, TypeOK, HostTypeOK
    <2>2. TypeOK'
      BY <1>0, <1>4, <2>1, MissingType
         DEF RemoveDevice, TypeOK, BusTypeOK, RadioTypeOK, CallbackTypeOK,
             HostTypeOK
    <2>3. LinkShape' /\ IntrShape'
      BY <1>4, SameShape DEF RemoveDevice
    <2> QED BY <2>2, <2>3 DEF TypeInv
  <1>5. CASE Replug
    <2>1. TypeOK' /\ LinkShape' /\ IntrShape'
      BY <1>5, SameShape
         DEF Replug, TypeOK, BusTypeOK, RadioTypeOK, CallbackTypeOK, HostTypeOK
    <2> QED BY <2>1 DEF TypeInv
  <1> QED BY <1>1, <1>2, <1>3, <1>4, <1>5 DEF Power

\* The initial state has the types.
LEMMA InitType == Init => TypeInv
  <1> SUFFICES ASSUME Init PROVE TypeInv
    OBVIOUS
  <1>1. BusTypeOK
    BY FreeType, EmptyFacts DEF Init, BusTypeOK
  <1>2. RadioTypeOK
    BY EmptyFacts DEF Init, RadioTypeOK
  <1>3. CallbackTypeOK
    <2>1. intr \in IntrStates
      BY FreeType, EmptyFacts DEF Init, IntrStates, IntrIdle
    <2>2. bulk \in BulkStates
      BY FreeType DEF Init, BulkStates, BulkIdle
    <2>3. pnp \in PnpStates
      BY FreeType, MaxEntriesAssumption DEF Init, PnpStates, PnpIdle
    <2>4. timers \in [Ids -> TimerStates]
      BY FreeType DEF Init, TimerStates, TimerIdle
    <2> QED BY <2>1, <2>2, <2>3, <2>4 DEF CallbackTypeOK
  <1>4. HostTypeOK
    BY DEF Init, HostTypeOK
  <1>5. LinkShape
    BY DEF Init, LinkShape
  <1>6. IntrShape
    BY DEF Init, IntrShape, IntrIdle, IntrBusy, StageLists
  <1> QED BY <1>1, <1>2, <1>3, <1>4, <1>5, <1>6 DEF TypeInv, TypeOK

\* A step that changes nothing keeps the types.
LEMMA StutterType == TypeInv /\ UNCHANGED vars => TypeInv'
  <1> SUFFICES ASSUME TypeInv, UNCHANGED vars PROVE TypeInv'
    OBVIOUS
  <1> USE DEF vars, bus, radio, host, excuses, history
  <1>1. LinkShape' /\ IntrShape'
    BY SameShape DEF TypeInv
  <1>2. TypeOK'
    BY DEF TypeInv, TypeOK, BusTypeOK, RadioTypeOK, CallbackTypeOK, HostTypeOK
  <1> QED BY <1>1, <1>2 DEF TypeInv

-----------------------------------------------------------------------------
(* The shape of the child list.                                            *)

\* One entry is changed, but not its device.
LEMMA ChangedShape ==
    ASSUME TypeOK, Shape, NEW i \in Ids, NEW e \in Entries,
           entries[i].addr # Nobody, order' = order,
           entries' = [entries EXCEPT ![i] = e],
           e.addr = entries[i].addr, e.present = entries[i].present
    PROVE  /\ Listed' /\ Named' /\ OneEach'
           /\ UNCHANGED pnp /\ e.pdo = entries[i].pdo => PnpShape'
  <1>1. \A j \in Ids : /\ entries'[j].addr = entries[j].addr
                       /\ entries'[j].present = entries[j].present
                       /\ j # i => entries'[j] = entries[j]
                       /\ e.pdo = entries[i].pdo =>
                              entries'[j].pdo = entries[j].pdo
    BY DEF TypeOK, BusTypeOK
  <1>2. Listed'
    BY <1>1 DEF Shape, Listed
  <1>3. Named'
    BY <1>1 DEF Shape, Named
  <1>4. OneEach'
    BY <1>1 DEF Shape, OneEach, PresentAll
  <1>5. UNCHANGED pnp /\ e.pdo = entries[i].pdo => PnpShape'
    BY <1>1, DescTypes DEF Shape, PnpShape, PnpBusy
  <1> QED BY <1>2, <1>3, <1>4, <1>5

\* A description is written to a child, or a child is reported with it.
LEMMA AddedShape ==
    ASSUME TypeOK, Shape, NEW a \in Devices, NEW d \in Descs, AddOrUpdate(a, d)
    PROVE  /\ Listed' /\ Named' /\ OneEach'
           /\ UNCHANGED pnp => PnpShape'
  <1>0. a # Nobody
    BY DevicesAssumption
  <1>1. CASE IsPresent(a)
    <2> DEFINE i == IdOf(a)
               e == [entries[i] EXCEPT !.desc = d]
    <2>1. i \in Ids /\ entries[i].addr = a /\ entries[i] \in Entries
      BY <1>1, IdFacts DEF TypeOK, BusTypeOK
    <2>2. order' = order /\ entries' = [entries EXCEPT ![i] = e]
      BY <1>1, <2>1 DEF AddOrUpdate, TypeOK, BusTypeOK
    <2>3. /\ e \in Entries /\ e.addr = entries[i].addr
          /\ e.present = entries[i].present /\ e.pdo = entries[i].pdo
      BY <2>1, MemberSet DEF Entries
    <2> HIDE DEF i, e
    <2> QED BY <1>0, <2>1, <2>2, <2>3, ChangedShape
  <1>2. CASE ~IsPresent(a)
    <2> DEFINE e == [addr |-> a, present |-> TRUE, pdo |-> "none", desc |-> d,
                     ticking |-> FALSE]
    <2>1. PICK i \in Ids : /\ entries[i] = Free /\ order' = Append(order, i)
                           /\ entries' = [entries EXCEPT ![i] = e]
      BY <1>2 DEF AddOrUpdate
    <2>2. /\ entries[i].present = FALSE /\ entries[i].addr = Nobody
          /\ e.present = TRUE /\ e.addr = a
      BY <2>1 DEF Free
    <2> HIDE DEF e
    <2>3. \A j \in Ids : entries'[j] = IF j = i THEN e ELSE entries[j]
      BY <2>1 DEF TypeOK, BusTypeOK
    <2>4. /\ \A n \in DOMAIN order : /\ n \in DOMAIN order' /\ order'[n] = order[n]
                                     /\ order[n] # i
          /\ Len(order) + 1 \in DOMAIN order' /\ order'[Len(order) + 1] = i
          /\ \A n \in DOMAIN order' : n \in DOMAIN order \/ n = Len(order) + 1
      <3>1. order \in Seq(Ids) /\ Len(order) \in Nat
        BY DEF TypeOK, BusTypeOK
      <3>2. /\ DOMAIN order' = 1..(Len(order) + 1) /\ DOMAIN order = 1..Len(order)
            /\ order'[Len(order) + 1] = i
            /\ \A n \in DOMAIN order : order'[n] = order[n]
        BY <2>1, <3>1, AppendFacts
      <3>3. \A n \in DOMAIN order : order[n] # i
        BY <2>2 DEF Shape, Listed
      <3>4. /\ \A n \in 1..(Len(order) + 1) : n \in 1..Len(order) \/ n = Len(order) + 1
            /\ \A n \in 1..Len(order) : n \in 1..(Len(order) + 1)
            /\ Len(order) + 1 \in 1..(Len(order) + 1)
        BY <3>1
      <3> QED BY <3>2, <3>3, <3>4
    <2>5. Listed'
      <3>1. (\A n, m \in DOMAIN order : order[n] = order[m] => n = m)'
        BY <2>4 DEF Shape, Listed
      <3>2. ASSUME NEW j \in Ids
            PROVE  (entries[j].present <=> \E n \in DOMAIN order : order[n] = j)'
        <4>1. CASE j = i
          BY <2>2, <2>3, <2>4, <4>1
        <4>2. CASE j # i
          BY <2>3, <2>4, <4>2 DEF Shape, Listed
        <4> QED BY <4>1, <4>2
      <3> QED BY <3>1, <3>2 DEF Listed
    <2>6. Named'
      BY <1>0, <2>2, <2>3 DEF Shape, Named
    <2>7. OneEach'
      <3>1. \A j \in PresentAll : entries[j].addr # a
        BY <1>2 DEF IsPresent, PresentIds, PresentAll
      <3> QED BY <2>2, <2>3, <3>1 DEF Shape, OneEach, PresentAll
    <2>8. UNCHANGED pnp => PnpShape'
      BY <2>2, <2>3, DescTypes DEF Shape, PnpShape, PnpBusy
    <2> QED BY <2>5, <2>6, <2>7, <2>8
  <1> QED BY <1>1, <1>2

\* One entry leaves the list, if it is in it.
LEMMA RemovedShape ==
    ASSUME TypeOK, Shape, NEW i \in Ids,
           \/ order' = RemoveFirst(order, i)
           \/ order' = order /\ ~entries[i].present,
           entries' \in [Ids -> Entries],
           \A j \in Ids \ {i} : entries'[j] = entries[j],
           entries'[i] \in {Free, [entries[i] EXCEPT !.present = FALSE]}
    PROVE  Listed' /\ Named' /\ OneEach'
  <1>1. ~entries'[i].present
    BY DescTypes DEF Free, Entries
  <1>2. Named'
    <2>1. ASSUME entries[i] # Free PROVE
             entries'[i].addr = Nobody => entries'[i] = Free
      BY <2>1, DescTypes DEF Shape, Named, Entries
    <2>2. ASSUME entries[i] = Free PROVE
             entries'[i].addr = Nobody => entries'[i] = Free
      BY <2>2 DEF Free
    <2> QED BY <2>1, <2>2 DEF Shape, Named
  <1>3. OneEach'
    BY <1>1 DEF Shape, OneEach, PresentAll
  <1>4. Listed'
    <2>0. order \in Seq(Ids) /\ Len(order) \in Nat /\ DOMAIN order = 1..Len(order)
      BY DEF TypeOK, BusTypeOK
    <2>1. CASE order' = order /\ \A n \in DOMAIN order : order[n] # i
      BY <1>1, <2>1 DEF Shape, Listed
    <2>2. CASE order' = RemoveFirst(order, i) /\ \E n \in DOMAIN order : order[n] = i
      <3>1. PICK k \in 1..Len(order) : order[k] = i
        BY <2>0, <2>2
      <3>2. \A n, m \in 1..Len(order) : order[n] = order[m] => n = m
        BY <2>0 DEF Shape, Listed
      <3>3. order' = RemoveAt(order, k)
        BY <2>0, <2>2, <3>1, <3>2, RemoveFirstFacts
      <3>4. /\ order' \in Seq(Ids) /\ Len(order') = Len(order) - 1
            /\ \A n \in 1..(Len(order) - 1) :
                  order'[n] = IF n < k THEN order[n] ELSE order[n + 1]
        <4>1. /\ RemoveAt(order, k) \in Seq(Ids)
              /\ Len(RemoveAt(order, k)) = Len(order) - 1
              /\ \A n \in 1..(Len(order) - 1) : RemoveAt(order, k)[n] =
                    IF n < k THEN order[n] ELSE order[n + 1]
          <5>1. order \in Seq(Ids) /\ k \in 1..Len(order)
            BY <2>0
          <5> HIDE <2>0, <3>1
          <5> QED BY <5>1, RemoveAtFacts, Zenon
        <4> QED BY <3>3, <4>1, Zenon
      <3>5. DOMAIN order' = 1..(Len(order) - 1)
        BY <3>4
      <3>6. k \in Nat /\ 1 <= k /\ k <= Len(order)
        BY <2>0, <3>1
      <3>7. (\A n, m \in DOMAIN order : order[n] = order[m] => n = m)'
        <4> SUFFICES ASSUME NEW n \in DOMAIN order', NEW m \in DOMAIN order',
                            order'[n] = order'[m]
                     PROVE  n = m
          OBVIOUS
        <4>1. /\ n \in 1..Len(order) /\ m \in 1..Len(order)
              /\ n + 1 \in 1..Len(order) /\ m + 1 \in 1..Len(order)
          BY <2>0, <3>5
        <4>2. n \in 1..(Len(order) - 1) /\ m \in 1..(Len(order) - 1)
          BY <3>5
        <4>3. n \in Int /\ m \in Int
          BY <4>2
        <4>a. /\ order'[n] = IF n < k THEN order[n] ELSE order[n + 1]
              /\ order'[m] = IF m < k THEN order[m] ELSE order[m + 1]
          BY <3>4, <4>2
        <4>b. (IF n < k THEN order[n] ELSE order[n + 1])
                = (IF m < k THEN order[m] ELSE order[m + 1])
          BY <4>a
        <4> HIDE DEF Listed
        <4>4. CASE n < k /\ m < k
          <5>1. order[n] = order[m]
            BY <4>b, <4>4, Zenon
          <5> QED BY <3>2, <4>1, <5>1
        <4>5. CASE n < k /\ ~(m < k)
          <5>1. order[n] = order[m + 1]
            BY <4>b, <4>5, Zenon
          <5>2. n = m + 1
            BY <3>2, <4>1, <5>1
          <5> QED BY <3>6, <4>3, <4>5, <5>2
        <4>6. CASE ~(n < k) /\ m < k
          <5>1. order[n + 1] = order[m]
            BY <4>b, <4>6, Zenon
          <5>2. n + 1 = m
            BY <3>2, <4>1, <5>1
          <5> QED BY <3>6, <4>3, <4>6, <5>2
        <4>7. CASE ~(n < k) /\ ~(m < k)
          <5>1. order[n + 1] = order[m + 1]
            BY <4>b, <4>7, Zenon
          <5>2. n + 1 = m + 1
            BY <3>2, <4>1, <5>1
          <5> QED BY <4>3, <5>2
        <4> QED BY <4>4, <4>5, <4>6, <4>7
      <3>8. ASSUME NEW j \in Ids
            PROVE  (entries[j].present <=> \E n \in DOMAIN order : order[n] = j)'
        <4>1. CASE j = i
          <5>1. ASSUME NEW n \in 1..(Len(order) - 1), order'[n] = i PROVE FALSE
            <6>1. n \in 1..Len(order) /\ n + 1 \in 1..Len(order) /\ n \in Int
              BY <2>0
            <6>2. CASE n < k
              <7>1. n = k
                BY <3>1, <3>2, <3>4, <5>1, <6>1, <6>2
              <7> QED BY <3>6, <6>1, <6>2, <7>1
            <6>3. CASE ~(n < k)
              <7>1. n + 1 = k
                BY <3>1, <3>2, <3>4, <5>1, <6>1, <6>3
              <7> QED BY <3>6, <6>1, <6>3, <7>1
            <6> QED BY <6>2, <6>3
          <5> QED BY <1>1, <3>5, <4>1, <5>1
        <4>2. CASE j # i
          <5>1. entries'[j].present <=> \E n \in 1..Len(order) : order[n] = j
            BY <2>0, <4>2 DEF Shape, Listed
          <5>2. ASSUME NEW n \in 1..(Len(order) - 1), order'[n] = j
                PROVE  \E m \in 1..Len(order) : order[m] = j
            <6>1. n \in 1..Len(order) /\ n + 1 \in 1..Len(order)
              BY <2>0
            <6> QED BY <3>4, <5>2, <6>1
          <5>3. ASSUME NEW m \in 1..Len(order), order[m] = j
                PROVE  \E n \in 1..(Len(order) - 1) : order'[n] = j
            <6>1. m # k
              BY <3>1, <4>2, <5>3
            <6>2. CASE m < k
              <7>1. m \in 1..(Len(order) - 1)
                BY <3>6, <6>2
              <7> QED BY <3>4, <5>3, <6>2, <7>1
            <6>3. CASE m > k
              <7>1. /\ m - 1 \in 1..(Len(order) - 1) /\ ~(m - 1 < k)
                    /\ (m - 1) + 1 = m
                BY <3>6, <6>3
              <7>2. order'[m - 1] = order[(m - 1) + 1]
                BY <3>4, <7>1
              <7> QED BY <5>3, <7>1, <7>2
            <6> QED BY <3>6, <6>1, <6>2, <6>3
          <5> QED BY <3>5, <5>1, <5>2, <5>3
        <4> QED BY <4>1, <4>2
      <3> QED BY <3>7, <3>8 DEF Listed
    <2>3. CASE order' = RemoveFirst(order, i) /\ ~\E n \in DOMAIN order : order[n] = i
      <3>1. RemoveFirst(order, i) = order
        BY <2>0, <2>3 DEF RemoveFirst
      <3> QED BY <2>1, <2>3, <3>1
    <2>4. CASE order' = order /\ ~entries[i].present
      <3>1. \A n \in DOMAIN order : order[n] # i
        BY <2>4 DEF Shape, Listed
      <3> QED BY <2>1, <2>4, <3>1
    <2> QED BY <2>2, <2>3, <2>4
  <1> QED BY <1>2, <1>3, <1>4

\* All leave it.
LEMMA EmptyShape ==
    ASSUME TypeOK, Shape, EmptyScan
    PROVE  Listed' /\ Named' /\ OneEach' /\ (UNCHANGED pnp => PnpShape')
  <1>1. /\ \A j \in Ids : entries'[j] = [entries[j] EXCEPT !.present = FALSE]
        /\ order' = <<>>
    BY DEF EmptyScan
  <1>2. \A j \in Ids : /\ ~entries'[j].present /\ entries'[j].addr = entries[j].addr
                       /\ entries'[j].pdo = entries[j].pdo
                       /\ entries[j] = Free => entries'[j] = Free
    <2>1. \A e \in Entries : /\ [e EXCEPT !.present = FALSE].present = FALSE
                             /\ [e EXCEPT !.present = FALSE].addr = e.addr
                             /\ [e EXCEPT !.present = FALSE].pdo = e.pdo
      BY DEF Entries
    <2>2. [Free EXCEPT !.present = FALSE] = Free
      <3>1. \A e \in Entries : e.present = FALSE => [e EXCEPT !.present = FALSE] = e
        BY DEF Entries
      <3>2. Free.present = FALSE
        BY DEF Free
      <3> QED BY <3>1, <3>2, FreeType
    <2>3. \A j \in Ids : entries[j] = Free => entries'[j] = Free
      BY <1>1, <2>2, Zenon
    <2>4. \A j \in Ids : entries[j] \in Entries
      BY DescTypes
    <2> QED BY <1>1, <2>1, <2>3, <2>4, Zenon
  <1>3. Listed'
    BY <1>1, <1>2 DEF Listed
  <1>4. Named'
    BY <1>2 DEF Shape, Named
  <1>5. OneEach'
    BY <1>2 DEF OneEach, PresentAll
  <1>6. UNCHANGED pnp => PnpShape'
    BY <1>2, DescTypes DEF Shape, PnpShape, PnpBusy
  <1> QED BY <1>3, <1>4, <1>5, <1>6

\* What a step leaves alone keeps its shape.
LEMMA UnchangedShape ==
    ASSUME Shape
    PROVE  /\ UNCHANGED <<entries, order>> => Listed' /\ Named' /\ OneEach'
           /\ UNCHANGED <<entries, pnp>> => PnpShape'
           /\ UNCHANGED bulk => BulkShape'
           /\ UNCHANGED timers => TimerShape'
  <1>1. UNCHANGED <<entries, order>> => Listed'
    BY DEF Shape, Listed
  <1>2. UNCHANGED <<entries, order>> => Named' /\ OneEach'
    BY DEF Shape, Named, OneEach, PresentAll
  <1>3. UNCHANGED <<entries, pnp>> => PnpShape'
    BY DEF Shape, PnpShape, PnpBusy
  <1>4. UNCHANGED bulk => BulkShape'
    BY DEF Shape, BulkShape, BulkBusy
  <1>5. UNCHANGED timers => TimerShape'
    BY DEF Shape, TimerShape
  <1> QED BY <1>1, <1>2, <1>3, <1>4, <1>5

\* A present child has a device, an entry in use too.
LEMMA DeviceFacts ==
    ASSUME TypeOK, Shape
    PROVE  /\ \A i \in Ids : entries[i] # Free <=> entries[i].addr \in Devices
           /\ \A i \in Ids : entries[i].present => entries[i].addr \in Devices
           /\ \A n \in DOMAIN order : /\ order[n] \in Ids
                                      /\ entries[order[n]].present
           /\ \A i \in PresentAll : /\ IsPresent(entries[i].addr)
                                    /\ IdOf(entries[i].addr) = i
           /\ PnpBusy => pnp.id \in Ids /\ entries[pnp.id].addr \in Devices
  <1>1. \A i \in Ids : /\ entries[i].addr \in Devices \cup {Nobody}
                       /\ entries[i].addr = Nobody => entries[i] = Free
    BY DescTypes DEF Shape, Named
  <1>2. Free.addr = Nobody /\ Free.present = FALSE /\ Nobody \notin Devices
    BY DevicesAssumption DEF Free
  <1>3. \A i \in Ids : /\ entries[i] # Free <=> entries[i].addr \in Devices
                       /\ entries[i].present => entries[i].addr \in Devices
    BY <1>1, <1>2
  <1>4. \A n \in DOMAIN order : order[n] \in Ids /\ entries[order[n]].present
    BY DEF TypeOK, BusTypeOK, Shape, Listed
  <1>5. ASSUME NEW i \in PresentAll
        PROVE  IsPresent(entries[i].addr) /\ IdOf(entries[i].addr) = i
    <2>1. i \in PresentIds(entries[i].addr)
      BY DEF PresentAll, PresentIds
    <2>2. IsPresent(entries[i].addr)
      BY <2>1 DEF IsPresent
    <2>3. IdOf(entries[i].addr) \in PresentAll
          /\ entries[IdOf(entries[i].addr)].addr = entries[i].addr
      BY <2>2, IdFacts DEF PresentAll
    <2> QED BY <2>2, <2>3 DEF Shape, OneEach
  <1>6. PnpBusy => pnp.id \in Ids /\ entries[pnp.id].addr \in Devices
    BY <1>1, DescTypes DEF Shape, PnpShape
  <1> QED BY <1>3, <1>4, <1>5, <1>6

-----------------------------------------------------------------------------
(* Every step keeps the shape.                                             *)

\* Every step keeps the shape of the child list and of those at work.
LEMMA ShapeStep == TypeInv /\ Shape /\ [Next]_vars => Shape'
  <1> SUFFICES ASSUME TypeInv, Shape, [Next]_vars PROVE Shape'
    OBVIOUS
  <1> USE DEF bus, radio, host, excuses, history
  <1> TypeOK /\ IntrShape
    BY DEF TypeInv
  <1>0. /\ entries \in [Ids -> Entries] /\ timers \in [Ids -> TimerStates]
        /\ \A i \in Ids : entries[i] \in Entries
    BY DescTypes DEF TypeOK, BusTypeOK, CallbackTypeOK
  <1>1. CASE UNCHANGED <<entries, order, pnp, bulk, timers>>
    BY <1>1, UnchangedShape DEF Shape
  <1>2. CASE Radio
    BY <1>1, <1>2
       DEF Radio, RequestLink, LinkUp, LinkFails, LinkDown, NameAnswer, SendPacket
  <1>3. CASE ConnectionRequest \/ ConnectionComplete \/ RemoteNameComplete
    BY <1>1, <1>3
       DEF ConnectionRequest, ConnectionComplete, RemoteNameComplete, Handle
  <1>4. CASE ConnectionFailed \/ IntrSkip \/ IntrRetrieve \/ IntrWriteFails
             \/ IntrAllocationFails
    BY <1>1, <1>4
       DEF ConnectionFailed, IntrSkip, IntrRetrieve, IntrWriteFails,
           IntrAllocationFails
  <1>5. CASE DisconnectionComplete
    <2> DEFINE h == Head(events).handle
    <2>1. CASE FoundByHandle(h)
      <3> DEFINE i == ByHandle(h)
      <3>1. i \in Ids
        BY <2>1, LookupFacts DEF TypeOK, BusTypeOK
      <3>2. MarkMissing(i)
        BY <1>5, <2>1 DEF DisconnectionComplete
      <3> HIDE DEF i
      <3>3. /\ entries' = [entries EXCEPT ![i] = [entries[i] EXCEPT !.present = FALSE]]
            /\ order' = RemoveFirst(order, i)
        BY <1>0, <3>1, <3>2 DEF MarkMissing
      <3>4. entries' \in [Ids -> Entries]
        BY <3>1, <3>2, MissingType
      <3>5. /\ \A j \in Ids \ {i} : entries'[j] = entries[j]
            /\ entries'[i] = [entries[i] EXCEPT !.present = FALSE]
        BY <1>0, <3>1, <3>3
      <3>6. Listed' /\ Named' /\ OneEach'
        BY <3>1, <3>3, <3>4, <3>5, RemovedShape
      <3>7. [entries[i] EXCEPT !.present = FALSE].addr = entries[i].addr
            /\ [entries[i] EXCEPT !.present = FALSE].pdo = entries[i].pdo
        BY <1>0, <3>1 DEF Entries
      <3>8. \A j \in Ids : entries'[j].addr = entries[j].addr
                           /\ entries'[j].pdo = entries[j].pdo
        BY <3>5, <3>7
      <3>9. pnp' = pnp /\ bulk' = bulk /\ timers' = timers
        BY <1>5 DEF DisconnectionComplete
      <3>10. PnpShape'
        BY <3>8, <3>9, DescTypes DEF Shape, PnpShape, PnpBusy
      <3> QED BY <3>6, <3>9, <3>10, UnchangedShape DEF Shape
    <2>2. CASE ~FoundByHandle(h)
      BY <1>1, <1>5, <2>2 DEF DisconnectionComplete
    <2> QED BY <2>1, <2>2
  <1>6. CASE IntrWrite
    <2>1. intr.addr \in Devices /\ IntrBusy
      BY <1>6, BusyFacts DEF IntrWrite
    <2>2. \E d \in Descs : AddOrUpdate(intr.addr, d)
      <3>1. \E b \in Pool \cup {Null}, t \in Told :
                /\ Allocates => b \in Pool
                /\ AddOrUpdate(intr.addr, Changed(intr.snap, b, t))
        BY <1>6, FreshFacts DEF IntrWrite
      <3> QED BY <2>1, <3>1, ChangedType
    <2>3. pnp' = pnp /\ bulk' = bulk /\ timers' = timers
      BY <1>6 DEF IntrWrite
    <2> QED BY <2>1, <2>2, <2>3, AddedShape, UnchangedShape DEF Shape
  <1>7. CASE BulkLookup
    <2> DEFINE i == ByHandle(Head(packets).handle)
    <2>1. i \in Ids /\ entries[i].present
      <3>1. FoundByHandle(Head(packets).handle)
        BY <1>7 DEF BulkLookup
      <3>2. PICK n \in DOMAIN order : i = order[n] /\ i \in Ids
        BY <3>1, LookupFacts DEF TypeOK, BusTypeOK
      <3> QED BY <3>2, DeviceFacts
    <2>2. bulk'.type = Head(packets).type /\ bulk'.addr = entries[i].addr
      BY <1>7 DEF BulkLookup
    <2>3. Head(packets) \in Packets
      BY <1>7, TailFacts DEF BulkLookup, TypeOK, RadioTypeOK
    <2>4. Head(packets).type # "none"
      BY <2>3 DEF Packets
    <2>5. bulk'.addr \in Devices /\ BulkBusy'
      BY <2>1, <2>2, <2>4, DeviceFacts DEF BulkBusy
    <2>6. UNCHANGED <<entries, order, pnp, timers>>
      BY <1>7 DEF BulkLookup
    <2> QED BY <2>5, <2>6, UnchangedShape DEF Shape, BulkShape
  <1>8. CASE BulkDrop
    BY <1>1, <1>8 DEF BulkDrop
  <1>9. CASE BulkSignal
    <2>1. bulk'.type = "write back" /\ bulk'.addr = bulk.addr /\ bulk.addr \in Devices
      BY <1>9 DEF BulkSignal, BulkBusy, Shape, BulkShape, TypeOK, CallbackTypeOK,
                  BulkStates
    <2>2. BulkShape'
      BY <2>1 DEF BulkShape, BulkBusy
    <2>3. UNCHANGED <<order, pnp, timers>>
      BY <1>9 DEF BulkSignal
    <2>4. CASE Use(bulk.snap) = "none"
      <3> DEFINE i == bulk.snap.objs
                 e == [entries[i] EXCEPT !.ticking = TRUE]
      <3>1. i \in 0..MaxEntries /\ i # 0 /\ entries[i] # Free
        BY <2>4, DescTypes, MemberSet DEF Use
      <3>2. i \in Ids
        BY <3>1, MaxEntriesAssumption DEF Ids
      <3>3. /\ e \in Entries /\ e.addr = entries[i].addr /\ e.pdo = entries[i].pdo
            /\ e.present = entries[i].present
        <4>1. entries[i] \in Entries
          BY <1>0, <3>2
        <4>2. e \in Entries
          BY <4>1, MemberSet, Zenon
        <4> QED BY <4>1, <4>2 DEF Entries
      <3>4. entries[i].addr # Nobody
        BY <3>1, <3>2 DEF Shape, Named
      <3>5. entries' = [entries EXCEPT ![i] = e]
        BY <1>0, <1>9, <2>4, <3>2 DEF BulkSignal
      <3> HIDE DEF i, e
      <3>6. Listed' /\ Named' /\ OneEach' /\ PnpShape'
        BY <2>3, <3>2, <3>3, <3>4, <3>5, ChangedShape
      <3> QED BY <2>2, <2>3, <3>6, UnchangedShape DEF Shape
    <2>5. CASE Use(bulk.snap) # "none"
      BY <1>9, <2>2, <2>3, <2>5, UnchangedShape DEF BulkSignal, Shape
    <2> QED BY <2>4, <2>5
  <1>10. ASSUME NEW valid \in BOOLEAN, BulkReport(valid) PROVE Shape'
    <2>1. bulk'.type = "write back" /\ bulk'.addr = bulk.addr /\ bulk.addr \in Devices
      BY <1>10 DEF BulkReport, BulkBusy, Shape, BulkShape, TypeOK, CallbackTypeOK,
                   BulkStates
    <2>2. BulkShape'
      BY <2>1 DEF BulkShape, BulkBusy
    <2> QED BY <1>10, <2>2, UnchangedShape DEF BulkReport, Shape
  <1>11. CASE BulkWriteBack
    <2>1. bulk' = BulkIdle /\ ~BulkBusy'
      BY <1>11 DEF BulkWriteBack, BulkIdle, BulkBusy
    <2>2. BulkShape'
      BY <2>1 DEF BulkShape
    <2>3. pnp' = pnp /\ timers' = timers
      BY <1>11 DEF BulkWriteBack
    <2>4. bulk.addr \in Devices /\ bulk.snap \in Descs
      BY <1>11, DescTypes DEF BulkWriteBack, BulkBusy, Shape, BulkShape
    <2>5. CASE AddOrUpdate(bulk.addr, bulk.snap)
      BY <2>2, <2>3, <2>4, <2>5, AddedShape, UnchangedShape DEF Shape
    <2>6. CASE UNCHANGED <<entries, order>>
      BY <2>2, <2>3, <2>6, UnchangedShape DEF Shape
    <2> QED BY <1>11, <2>5, <2>6 DEF BulkWriteBack
  <1>12. CASE PnpEnd
    <2> DEFINE i == pnp.id
               d == [pnp.snap EXCEPT !.objs = i]
               e == [entries[i] EXCEPT !.desc = d, !.pdo = "created"]
    <2>1. i \in Ids /\ entries[i].addr # Nobody /\ d \in Descs
      BY <1>12, DescTypes, MemberSet DEF PnpEnd, Shape, PnpShape
    <2>2. entries' = [entries EXCEPT ![i] = e]
      BY <1>0, <1>12, <2>1 DEF PnpEnd, Entries
    <2> HIDE DEF d
    <2>3. e \in Entries /\ e.addr = entries[i].addr /\ e.present = entries[i].present
      <3>1. entries[i] \in Entries
        BY <1>0, <2>1
      <3>2. e \in Entries
        BY <2>1, <3>1, MemberSet, Zenon
      <3> QED BY <3>1, <3>2 DEF Entries
    <2> HIDE DEF i, e
    <2>4. Listed' /\ Named' /\ OneEach'
      BY <1>12, <2>1, <2>2, <2>3, ChangedShape DEF PnpEnd
    <2>5. pnp' = PnpIdle /\ ~PnpBusy' /\ UNCHANGED <<bulk, timers>>
      BY <1>12 DEF PnpEnd, PnpIdle, PnpBusy
    <2>6. PnpShape'
      BY <2>5 DEF PnpShape
    <2> QED BY <2>4, <2>5, <2>6, UnchangedShape DEF Shape
  <1>13. CASE PnpFails
    <2> DEFINE i == pnp.id
    <2>1. i \in Ids
      BY <1>13, DescTypes DEF PnpFails
    <2>2. /\ entries' = [entries EXCEPT ![i] = Free]
          /\ order' = RemoveFirst(order, i)
      BY <1>13 DEF PnpFails
    <2> HIDE DEF i
    <2>3. /\ entries' \in [Ids -> Entries] /\ entries'[i] = Free
          /\ \A j \in Ids \ {i} : entries'[j] = entries[j]
      BY <1>0, <2>1, <2>2, FreeType
    <2>4. Listed' /\ Named' /\ OneEach'
      BY <2>1, <2>2, <2>3, RemovedShape
    <2>5. pnp' = PnpIdle /\ ~PnpBusy' /\ UNCHANGED <<bulk, timers>>
      BY <1>13 DEF PnpFails, PnpIdle, PnpBusy
    <2>6. PnpShape'
      BY <2>5 DEF PnpShape
    <2> QED BY <2>4, <2>5, <2>6, UnchangedShape DEF Shape
  <1>14. ASSUME NEW i \in Ids, PnpBegin(i) PROVE Shape'
    <2>1. \E n \in DOMAIN order : order[n] = i
      BY <1>14 DEF PnpBegin
    <2>2. entries[i].addr # Nobody /\ entries[i].pdo = "none"
      BY <1>14, <2>1, DeviceFacts, DevicesAssumption DEF PnpBegin
    <2>3. pnp'.id = i /\ i # 0 /\ UNCHANGED <<entries, order, bulk, timers>>
      BY <1>14 DEF PnpBegin, Ids
    <2>4. PnpShape'
      BY <2>2, <2>3 DEF PnpShape, PnpBusy
    <2> QED BY <2>3, <2>4, UnchangedShape DEF Shape
  <1>15. ASSUME NEW i \in Ids, TimerBegin(i) \/ TimerSend(i) PROVE Shape'
    <2>1. UNCHANGED <<entries, order, pnp, bulk>>
      BY <1>15 DEF TimerBegin, TimerSend
    <2>2. TimerShape'
      <3>1. CASE TimerBegin(i)
        BY <1>0, <3>1 DEF TimerBegin, Shape, TimerShape
      <3>2. CASE TimerSend(i)
        BY <1>0, <3>2 DEF TimerSend, Shape, TimerShape
      <3> QED BY <1>15, <3>1, <3>2
    <2> QED BY <2>1, <2>2, UnchangedShape DEF Shape
  <1>16. ASSUME NEW i \in Ids, Cleanup(i) PROVE Shape'
    <2>1. /\ entries' = [entries EXCEPT ![i] = Free] /\ order' = order
          /\ ~entries[i].present /\ pnp.id # i
      BY <1>16 DEF Cleanup
    <2>2. /\ entries' \in [Ids -> Entries] /\ entries'[i] = Free
          /\ \A j \in Ids \ {i} : entries'[j] = entries[j]
      BY <1>0, <2>1, FreeType
    <2>3. Listed' /\ Named' /\ OneEach'
      BY <2>1, <2>2, RemovedShape
    <2>4. UNCHANGED <<bulk, timers, pnp>>
      BY <1>16 DEF Cleanup
    <2>5. PnpShape'
      BY <2>1, <2>2, <2>4, DescTypes DEF Shape, PnpShape, PnpBusy
    <2> QED BY <2>3, <2>4, <2>5, UnchangedShape DEF Shape
  <1>17. CASE D0ExitScan \/ RemoveDevice
    <2>1. EmptyScan /\ UNCHANGED <<pnp, bulk, timers>>
      BY <1>17 DEF D0ExitScan, RemoveDevice
    <2> QED BY <2>1, EmptyShape, UnchangedShape DEF Shape
  <1>18. CASE D0ExitStop \/ Resume \/ Replug
    BY <1>1, <1>18 DEF D0ExitStop, Resume, Replug
  <1>19. CASE UNCHANGED vars
    BY <1>1, <1>19 DEF vars
  <1> QED
    BY <1>2, <1>3, <1>4, <1>5, <1>6, <1>7, <1>8, <1>9, <1>10, <1>11, <1>12,
       <1>13, <1>14, <1>15, <1>16, <1>17, <1>18, <1>19
       DEF Next, Interrupt, Bulk, Children, Power

\* The empty list has it.
LEMMA InitShape == Init => Shape
  <1> SUFFICES ASSUME Init PROVE Shape
    OBVIOUS
  <1>1. Listed /\ Named /\ OneEach
    BY DEF Init, Listed, Named, OneEach, PresentAll, Free
  <1>2. PnpShape /\ BulkShape /\ TimerShape
    BY DEF Init, PnpShape, PnpBusy, PnpIdle, BulkShape, BulkBusy, BulkIdle,
           TimerShape, TimerIdle
  <1> QED BY <1>1, <1>2 DEF Shape

\* The inductive invariant behind the types.
THEOREM ShapeCorrect == Spec => [](TypeInv /\ Shape)
  <1>1. TypeInv /\ Shape /\ [Next]_vars => TypeInv'
    <2>1. Shape => PnpShape
      BY DEF Shape
    <2> QED BY <2>1, RadioType, InterruptType, BulkType, ChildrenType, PowerType,
               StutterType DEF Next
  <1> QED BY <1>1, InitType, InitShape, ShapeStep, PTL DEF Spec

\* Every variable keeps to its set: the child list and the descriptions in it,
\* the copies of them, the links, the queues and the pool.
THEOREM TypeCorrect == Spec => []TypeOK
  <1>1. TypeInv => TypeOK
    BY DEF TypeInv
  <1> QED BY <1>1, ShapeCorrect, PTL

-----------------------------------------------------------------------------
(* While callbacks do not overlap, no lookup stops too early and nothing    *)
(* fails unnoticed, every copy is as good as the description it was copied  *)
(* from.                                                                   *)

IntrAt(a) == IntrBusy /\ intr.addr = a

\* Nobody works on a child somebody else works on.
Apart ==
    /\ IntrBusy /\ BulkBusy => intr.addr # bulk.addr
    /\ PnpBusy => /\ IntrBusy => intr.addr # entries[pnp.id].addr
                  /\ BulkBusy => bulk.addr # entries[pnp.id].addr
    /\ \A i \in Ids : timers[i].busy =>
          /\ IntrBusy => intr.addr # entries[i].addr
          /\ BulkBusy => bulk.addr # entries[i].addr
          /\ PnpBusy => entries[pnp.id].addr # entries[i].addr
          /\ \A j \in Ids \ {i} : timers[j].busy => entries[j].addr # entries[i].addr

\* The copies are those of the descriptions in the list.
IntrCurrent == IntrBusy /\ intr.held =>
    /\ \A i \in PresentAll :
          entries[i].addr = intr.addr => intr.snap = entries[i].desc
    /\ (\A i \in PresentAll : entries[i].addr # intr.addr) =>
          Stage = "request" /\ intr.snap = Zeroed
BulkCurrent == BulkBusy => \E i \in PresentAll :
    /\ entries[i].addr = bulk.addr
    /\ entries[i].pdo = "created"
    /\ entries[i].desc.handle # NoHandle
    /\ \/ bulk.snap = entries[i].desc
       \/ /\ bulk.type = "write back"
          /\ bulk.snap = [entries[i].desc EXCEPT !.open = TRUE]
PnpCurrent == PnpBusy =>
    entries[pnp.id].present /\ pnp.snap = entries[pnp.id].desc
TimersCurrent == \A i \in Ids : timers[i].busy =>
    entries[i].ticking /\ timers[i].snap = entries[i].desc
Current == IntrCurrent /\ BulkCurrent /\ PnpCurrent /\ TimersCurrent

\* What belongs together in a description is there together: the queue with
\* the PDO, the type with the name, the output report with the type, the
\* channels with the handle.
EntryOK(i) ==
    /\ entries[i].pdo = "created" => entries[i].desc.objs = i
    /\ entries[i].pdo = "none" => /\ entries[i].desc.objs = 0
                                  /\ ~entries[i].ticking
                                  /\ ~entries[i].desc.open
    /\ entries[i].desc.type # "NONE" => entries[i].desc.name # Null
    /\ entries[i].desc.buffer # Null => entries[i].desc.type = "PS3_DUALSHOCK"
    /\ entries[i].desc.type = "PS3_DUALSHOCK" /\ entries[i].desc.buffer = Null =>
          IntrAt(entries[i].addr) /\ Stage = "report" /\ entries[i].present
    /\ entries[i].desc.open => entries[i].desc.handle # NoHandle
    /\ entries[i].present /\ IntrAt(entries[i].addr) /\ Stage = "type" =>
          entries[i].desc.name # Null
Complete == \A i \in Ids : EntryOK(i)

\* The block that has been freed and is still in the description.
Freed == {b \in Pool : intr.held /\ \/ Stage = "name" /\ b = intr.snap.name
                                    \/ Stage = "report" /\ b = intr.snap.buffer}
Owns(i, b) == b = entries[i].desc.name \/ b = entries[i].desc.buffer
PoolOK ==
    /\ \A b \in Pool : b \in live <=> b \notin Freed /\ \E i \in Ids : Owns(i, b)
    /\ \A i, j \in Ids, b \in Pool : Owns(i, b) /\ Owns(j, b) => i = j
    /\ \A i \in Ids : entries[i].desc.name # Null =>
          entries[i].desc.name # entries[i].desc.buffer

Safe == Running /\ Apart /\ Current /\ Complete /\ PoolOK
CleanInv == Clean => Safe

\* The three excuses do not go away.
LEMMA CleanBack == TypeOK /\ [Next]_vars /\ Clean' => Clean
  <1> SUFFICES ASSUME TypeOK, [Next]_vars, ~Clean PROVE ~Clean'
    OBVIOUS
  <1> USE DEF bus, radio, host, excuses, history, Clean
  <1>1. CASE Radio
    BY <1>1
       DEF Radio, RequestLink, LinkUp, LinkFails, LinkDown, NameAnswer, SendPacket
  <1>2. CASE Interrupt
    BY <1>2
       DEF Interrupt, ConnectionRequest, ConnectionComplete, ConnectionFailed,
           DisconnectionComplete, RemoteNameComplete, IntrSkip, IntrRetrieve,
           IntrWrite, IntrWriteFails, IntrAllocationFails, Handle, Begin
  <1>3. CASE Bulk
    BY <1>3 DEF Bulk, BulkLookup, BulkDrop, BulkSignal, BulkReport, BulkWriteBack,
                Begin
  <1>4. CASE Children
    BY <1>4 DEF Children, PnpEnd, PnpFails, PnpBegin, TimerBegin, TimerSend,
                Cleanup, Begin
  <1>5. CASE Power
    BY <1>5 DEF Power, D0ExitScan, D0ExitStop, Resume, RemoveDevice, Replug, Begin
  <1>6. CASE UNCHANGED vars
    BY <1>6 DEF vars
  <1> QED BY <1>1, <1>2, <1>3, <1>4, <1>5, <1>6 DEF Next

\* A callback that begins finds nobody at work on the child.
LEMMA NobodyThere ==
    ASSUME Clean', NEW as, Begin(as), NEW a \in as
    PROVE  /\ IntrBusy => intr.addr # a
           /\ BulkBusy => bulk.addr # a
           /\ PnpBusy => entries[pnp.id].addr # a
           /\ \A i \in Ids : timers[i].busy => entries[i].addr # a
  <1>1. ~Busy(a)
    BY DEF Clean, Begin
  <1> QED BY <1>1 DEF Busy

\* A step nobody is concerned by.
LEMMA SameSafe ==
    ASSUME Safe, UNCHANGED <<entries, live, intr, bulk, pnp, timers, bugcheck>>
    PROVE  Safe'
  <1> USE DEF IntrBusy, BulkBusy, PnpBusy, Stage, PresentAll, IntrAt
  <1>1. Running'
    BY DEF Safe, Running
  <1>2. Apart'
    BY DEF Safe, Apart
  <1>3. IntrCurrent'
    BY DEF Safe, Current, IntrCurrent
  <1>4. BulkCurrent'
    BY DEF Safe, Current, BulkCurrent
  <1>5. PnpCurrent' /\ TimersCurrent'
    BY DEF Safe, Current, PnpCurrent, TimersCurrent
  <1>6. Complete'
    BY DEF Safe, Complete, EntryOK
  <1>7. PoolOK'
    BY DEF Safe, PoolOK, Freed, Owns
  <1> QED BY <1>1, <1>2, <1>3, <1>4, <1>5, <1>6, <1>7 DEF Safe, Current

\* Nobody begins anything, and those at work stay where they are.
LEMMA SameApart ==
    ASSUME Apart, TypeOK,
           IntrBusy' => IntrBusy /\ intr'.addr = intr.addr,
           BulkBusy' => BulkBusy /\ bulk'.addr = bulk.addr,
           PnpBusy' => /\ PnpBusy /\ pnp'.id = pnp.id
                       /\ entries'[pnp.id].addr = entries[pnp.id].addr,
           \A i \in Ids : timers'[i].busy =>
               timers[i].busy /\ entries'[i].addr = entries[i].addr
    PROVE  Apart'
  BY DEF Apart

\* One entry is changed; those who work on others keep their copies.
LEMMA ElsewhereCurrent ==
    ASSUME TypeOK, Shape, Current, NEW i \in Ids,
           \A j \in Ids \ {i} : entries'[j] = entries[j]
    PROVE  /\ UNCHANGED intr
              /\ (IntrBusy => /\ entries[i].addr # intr.addr
                              /\ entries'[i].addr # intr.addr) => IntrCurrent'
           /\ UNCHANGED bulk /\ (BulkBusy => entries[i].addr # bulk.addr) =>
                 BulkCurrent'
           /\ UNCHANGED pnp /\ (PnpBusy => pnp.id # i) => PnpCurrent'
           /\ UNCHANGED timers /\ ~timers[i].busy => TimersCurrent'
  <1>1. ASSUME UNCHANGED intr,
               IntrBusy => entries[i].addr # intr.addr /\ entries'[i].addr # intr.addr
        PROVE  IntrCurrent'
    BY <1>1 DEF Current, IntrCurrent, IntrBusy, Stage, PresentAll
  <1>2. ASSUME UNCHANGED bulk, BulkBusy => entries[i].addr # bulk.addr
        PROVE  BulkCurrent'
    <2>1. CASE ~BulkBusy
      BY <1>2, <2>1 DEF BulkCurrent, BulkBusy
    <2>2. CASE BulkBusy
      <3>1. PICK k \in PresentAll :
               /\ entries[k].addr = bulk.addr
               /\ entries[k].pdo = "created"
               /\ entries[k].desc.handle # NoHandle
               /\ \/ bulk.snap = entries[k].desc
                  \/ /\ bulk.type = "write back"
                     /\ bulk.snap = [entries[k].desc EXCEPT !.open = TRUE]
        BY <2>2 DEF Current, BulkCurrent
      <3>2. k \in Ids \ {i}
        BY <1>2, <2>2, <3>1 DEF PresentAll
      <3>3. entries'[k] = entries[k] /\ k \in PresentAll'
        BY <3>2 DEF PresentAll
      <3> QED BY <1>2, <3>1, <3>3 DEF BulkCurrent
    <2> QED BY <2>1, <2>2
  <1>3. ASSUME UNCHANGED pnp, PnpBusy => pnp.id # i PROVE PnpCurrent'
    BY <1>3, DescTypes DEF Current, PnpCurrent, PnpBusy
  <1>4. ASSUME UNCHANGED timers, ~timers[i].busy PROVE TimersCurrent'
    BY <1>4 DEF Current, TimersCurrent
  <1> QED BY <1>1, <1>2, <1>3, <1>4

\* An entry that is not changed stays complete, if it is not the one the
\* interrupt reader is or was about.
LEMMA ElsewhereEntry ==
    ASSUME Complete, NEW j \in Ids, entries'[j] = entries[j],
           \/ UNCHANGED intr
           \/ /\ entries[j].present => ~IntrAt(entries[j].addr)
              /\ entries[j].present /\ IntrAt(entries[j].addr)' => Stage' # "type"
    PROVE  EntryOK(j)'
  BY DEF Complete, EntryOK, IntrAt, IntrBusy, Stage

\* The pool is not concerned.
LEMMA SamePool ==
    ASSUME PoolOK, UNCHANGED live, Freed' = Freed,
           \A j \in Ids : /\ entries'[j].desc.name = entries[j].desc.name
                          /\ entries'[j].desc.buffer = entries[j].desc.buffer
    PROVE  PoolOK'
  BY DEF PoolOK, Owns

\* The interrupt reader begins to work on a child.
LEMMA HandleSafe ==
    ASSUME TypeInv, Shape, Safe, Clean', NEW type, Take(type), NEW a, NEW h,
           NEW s \in StageLists \ {<<>>}, Head(s) # "type", Handle(a, s, h)
    PROVE  Safe'
  <1> USE DEF bus, radio, host
  <1>1. intr = IntrIdle /\ ~IntrBusy
    BY DEF Take, TypeInv, IntrShape
  <1>2. /\ intr'.addr = a /\ intr'.stages = s /\ intr'.held = FALSE
        /\ UNCHANGED <<entries, live, bulk, pnp, timers, bugcheck>>
        /\ Stage' # "type"
    BY DEF Handle, IntrIdle, Stage
  <1>3. /\ BulkBusy => bulk.addr # a
        /\ PnpBusy => entries[pnp.id].addr # a
        /\ \A i \in Ids : timers[i].busy => entries[i].addr # a
    BY NobodyThere DEF Handle
  <1>4. Running'
    BY <1>2 DEF Safe, Running
  <1>5. Apart'
    BY <1>1, <1>2, <1>3 DEF Safe, Apart, BulkBusy, PnpBusy
  <1>6. IntrCurrent'
    BY <1>2 DEF IntrCurrent
  <1>7. BulkCurrent' /\ PnpCurrent' /\ TimersCurrent'
    BY <1>2 DEF Safe, Current, BulkCurrent, PnpCurrent, TimersCurrent, BulkBusy,
                PnpBusy, PresentAll
  <1>8. Complete'
    BY <1>1, <1>2 DEF Safe, Complete, EntryOK, IntrAt
  <1>9. Freed' = {} /\ Freed = {}
    BY <1>1, <1>2 DEF Freed, IntrIdle
  <1>10. PoolOK'
    BY <1>2, <1>9, SamePool DEF Safe
  <1> QED BY <1>4, <1>5, <1>6, <1>7, <1>8, <1>10 DEF Safe, Current

\* A stage is given up.
LEMMA SkipSafe ==
    ASSUME TypeInv, Shape, Safe, IntrSkip
    PROVE  Safe'
  <1> USE DEF bus, radio, host
  <1> TypeOK /\ IntrShape
    BY DEF TypeInv
  <1>1. /\ intr' = NextStage /\ IntrBusy /\ ~IsPresent(intr.addr) /\ ~intr.held
        /\ UNCHANGED <<entries, live, bulk, pnp, timers, bugcheck>>
    BY DEF IntrSkip
  <1>2. ~intr'.held /\ (IntrBusy' => intr'.addr = intr.addr)
    BY <1>1, NextStageFacts
  <1>3. \A j \in Ids : entries[j].present => entries[j].addr # intr.addr
    BY <1>1 DEF IsPresent, PresentIds
  <1>4. Running'
    BY <1>1 DEF Safe, Running
  <1>5. Apart'
    BY <1>1, <1>2, SameApart DEF Safe, BulkBusy, PnpBusy
  <1>6. IntrCurrent'
    BY <1>2 DEF IntrCurrent
  <1>7. BulkCurrent' /\ PnpCurrent' /\ TimersCurrent'
    BY <1>1 DEF Safe, Current, BulkCurrent, PnpCurrent, TimersCurrent, BulkBusy,
                PnpBusy, PresentAll
  <1>8. Complete'
    BY <1>1, <1>2, <1>3, ElsewhereEntry DEF Safe, Complete, IntrAt
  <1>9. Freed' = {} /\ Freed = {}
    BY <1>1, <1>2 DEF Freed
  <1>10. PoolOK'
    BY <1>1, <1>9, SamePool DEF Safe
  <1> QED BY <1>4, <1>5, <1>6, <1>7, <1>8, <1>10 DEF Safe, Current

\* A copy is retrieved, and the block that will be replaced freed.
LEMMA RetrieveSafe ==
    ASSUME TypeInv, Shape, Safe, IntrRetrieve
    PROVE  Safe'
  <1> USE DEF bus, radio, host
  <1> TypeOK /\ IntrShape
    BY DEF TypeInv
  <1> DEFINE d == IF IsPresent(intr.addr) THEN DescOf(intr.addr) ELSE Zeroed
             ps == CASE Stage = "name" -> {d.name}
                     [] Stage = "report" -> {d.buffer}
                     [] OTHER -> {}
  <1>1. /\ IntrBusy /\ ~intr.held /\ intr' = [intr EXCEPT !.held = TRUE, !.snap = d]
        /\ Stage = "request" \/ IsPresent(intr.addr)
        /\ UNCHANGED <<entries, bulk, pnp, timers>>
        /\ FreePool(ps)
    BY DEF IntrRetrieve
  <1>2. d \in Descs
    BY DescTypes, FreeType
  <1>3. /\ \A i \in PresentAll : entries[i].addr = intr.addr => d = entries[i].desc
        /\ (\A i \in PresentAll : entries[i].addr # intr.addr) =>
              Stage = "request" /\ d = Zeroed
    <2>1. ASSUME NEW i \in PresentAll, entries[i].addr = intr.addr
          PROVE  d = entries[i].desc
      BY <2>1, DeviceFacts DEF DescOf
    <2>2. ASSUME \A i \in PresentAll : entries[i].addr # intr.addr
          PROVE  ~IsPresent(intr.addr)
      BY <2>2 DEF IsPresent, PresentIds, PresentAll
    <2> QED BY <1>1, <2>1, <2>2
  <1>4. \A b \in Pool : b \in ps => \E i \in Ids : Owns(i, b)
    <2>1. CASE Stage = "request"
      BY <2>1
    <2>2. CASE Stage # "request"
      <3>1. IdOf(intr.addr) \in Ids /\ d = entries[IdOf(intr.addr)].desc
        BY <1>1, <2>2, IdFacts DEF DescOf
      <3> QED BY <3>1 DEF Owns
    <2> QED BY <2>1, <2>2
  <1>5. \A b \in ps : b = Null \/ b \in Pool
    <2>1. d.name \in Pool \cup {Null} /\ d.buffer \in Pool \cup {Null}
      BY <1>2, MemberSet
    <2> HIDE DEF d
    <2> QED BY <2>1
  <1>6. \A b \in Pool : b \in ps <=> \/ Stage = "name" /\ b = d.name
                                     \/ Stage = "report" /\ b = d.buffer
    <2> HIDE DEF d
    <2>1. CASE Stage = "name"
      <3>1. ps = {d.name}
        BY <2>1
      <3> QED BY <2>1, <3>1
    <2>2. CASE Stage = "report"
      BY <2>2
    <2>3. CASE Stage \notin {"name", "report"}
      BY <2>3
    <2> QED BY <2>1, <2>2, <2>3
  <1> HIDE DEF d, ps
  <1>7. /\ intr'.stages = intr.stages /\ intr'.addr = intr.addr /\ intr'.held
        /\ intr'.snap = d /\ Stage' = Stage /\ IntrBusy'
    BY <1>1 DEF TypeOK, CallbackTypeOK, IntrStates, Stage, IntrBusy
  <1>8. Freed = {}
    BY <1>1 DEF Freed
  <1>9. ps \ {Null} \subseteq live
    BY <1>4, <1>5, <1>8 DEF Safe, PoolOK
  <1>10. Running'
    BY <1>1, <1>9 DEF FreePool, Safe, Running
  <1>11. Apart'
    BY <1>1, <1>7, SameApart DEF Safe, BulkBusy, PnpBusy
  <1>12. IntrCurrent'
    BY <1>1, <1>3, <1>7 DEF IntrCurrent, PresentAll
  <1>13. BulkCurrent' /\ PnpCurrent' /\ TimersCurrent'
    BY <1>1 DEF Safe, Current, BulkCurrent, PnpCurrent, TimersCurrent, BulkBusy,
                PnpBusy, PresentAll
  <1>14. Complete'
    BY <1>1, <1>7 DEF Safe, Complete, EntryOK, IntrAt, IntrBusy
  <1>15. PoolOK'
    <2>1. \A b \in Pool : b \in Freed' <=> b \in ps
      <3>1. \A b \in Pool : b \in Freed' <=> \/ Stage' = "name" /\ b = intr'.snap.name
                                             \/ Stage' = "report" /\ b = intr'.snap.buffer
        BY <1>7 DEF Freed
      <3> QED BY <1>6, <1>7, <3>1
    <2>2. \A b \in Pool : b \in live' <=> b \in live /\ b \notin ps
      <3>1. Null \notin Pool
        BY PoolSizeAssumption DEF Null, Pool
      <3> QED BY <1>1, <3>1 DEF FreePool
    <2>3. entries' = entries
      BY <1>1
    <2> QED BY <1>8, <2>1, <2>2, <2>3 DEF Safe, PoolOK, Owns
  <1> QED BY <1>10, <1>11, <1>12, <1>13, <1>14, <1>15 DEF Safe, Current

\* A block of one description is replaced by a new one.
Replaced(i, old, kept, new) ==
    /\ \A c \in Pool : c \in live <=> c # old /\ \E j \in Ids : Owns(j, c)
    /\ \/ /\ entries[i].desc.name = old /\ entries[i].desc.buffer = kept
          /\ entries'[i].desc.name = new /\ entries'[i].desc.buffer = kept
       \/ /\ entries[i].desc.name = kept /\ entries[i].desc.buffer = old
          /\ entries'[i].desc.name = kept /\ entries'[i].desc.buffer = new
    /\ \A j \in Ids \ {i} : entries'[j] = entries[j]
    /\ \A j \in Ids : ~Owns(j, new)
    /\ old \in Pool => old # kept
    /\ live' = live \cup {new}
    /\ Freed' = {}
    /\ entries'[i].desc.name # entries'[i].desc.buffer

\* The pool is as it should be after such a replacement.
LEMMA ReplacedPool ==
    ASSUME PoolOK, NEW i \in Ids, NEW old, NEW kept, NEW new \in Pool,
           Replaced(i, old, kept, new)
    PROVE  PoolOK'
  <1> USE DEF Replaced
  <1>0. \A c \in Pool : /\ Owns(i, c) <=> c = old \/ c = kept
                        /\ Owns(i, c)' <=> c = new \/ c = kept
    BY DEF Owns
  <1>1. \A j \in Ids \ {i}, c \in Pool : Owns(j, c)' <=> Owns(j, c)
    BY DEF Owns
  <1>2. ASSUME NEW c \in Pool
        PROVE  c \in live' <=> \E j \in Ids : Owns(j, c)'
    <2>1. CASE c = new
      BY <1>0, <2>1
    <2>2. CASE c # new
      <3>1. ASSUME c \in live PROVE \E j \in Ids : Owns(j, c)'
        <4>1. PICK j \in Ids : Owns(j, c)
          BY <3>1
        <4>2. CASE j = i
          BY <1>0, <3>1, <4>1, <4>2
        <4>3. CASE j # i
          BY <1>1, <4>1, <4>3
        <4> QED BY <4>2, <4>3
      <3>2. ASSUME NEW j \in Ids, Owns(j, c)' PROVE c \in live
        <4>1. CASE j = i
          BY <1>0, <2>2, <3>2, <4>1
        <4>2. CASE j # i
          <5>1. Owns(j, c)
            BY <1>1, <3>2, <4>2
          <5>2. c # old
            BY <1>0, <4>2, <5>1 DEF PoolOK
          <5> QED BY <5>1, <5>2
        <4> QED BY <4>1, <4>2
      <3> QED BY <2>2, <3>1, <3>2
    <2> QED BY <2>1, <2>2
  <1>3. ASSUME NEW j \in Ids, NEW k \in Ids, NEW c \in Pool,
               Owns(j, c)', Owns(k, c)'
        PROVE  j = k
    <2>1. \A n \in Ids : Owns(n, c)' => (n = i /\ c = new) \/ Owns(n, c)
      BY <1>0, <1>1
    <2>2. CASE c = new
      BY <1>3, <2>1, <2>2
    <2>3. CASE c # new
      BY <1>3, <2>1, <2>3 DEF PoolOK
    <2> QED BY <2>2, <2>3
  <1>4. \A j \in Ids : entries'[j].desc.name # Null =>
                          entries'[j].desc.name # entries'[j].desc.buffer
    BY DEF PoolOK
  <1> QED BY <1>2, <1>3, <1>4 DEF PoolOK

\* What the interrupt reader writes back.
LEMMA WriteFacts ==
    ASSUME TypeInv, IntrWrite
    PROVE  /\ IntrBusy /\ intr.held /\ intr' = NextStage /\ intr.addr \in Devices
           /\ UNCHANGED <<bulk, pnp, timers, bugcheck>>
           /\ \E b \in Pool \cup {Null}, t \in Told :
                 /\ Changed(intr.snap, b, t) \in Descs
                 /\ AddOrUpdate(intr.addr, Changed(intr.snap, b, t))
                 /\ Allocates => /\ b \in Pool /\ live' = live \cup {b}
                                 /\ \A i \in Ids : ~Owns(i, b)
                 /\ ~Allocates => live' = live
                 /\ renamed' = (renamed \/ Renames(t))
  <1> TypeOK /\ IntrShape
    BY DEF TypeInv
  <1>1. /\ IntrBusy /\ intr.held /\ intr' = NextStage /\ intr.addr \in Devices
        /\ UNCHANGED <<bulk, pnp, timers, bugcheck>>
    BY BusyFacts DEF IntrWrite
  <1>2. CASE Allocates
    <2> DEFINE b == Min(Fresh)
    <2>1. PICK t \in Told :
            /\ Fresh # {} /\ live' = live \cup {b}
            /\ AddOrUpdate(intr.addr, Changed(intr.snap, b, t))
            /\ renamed' = (renamed \/ Renames(t))
      BY <1>2 DEF IntrWrite
    <2>2. b \in Pool /\ b # Null /\ b \notin Referenced
      BY <2>1, FreshFacts
    <2> HIDE DEF b
    <2>3. \A i \in Ids : ~Owns(i, b)
      <3>1. \A i \in Ids : Pointers(entries[i].desc) \subseteq Referenced
        BY DEF Referenced
      <3> QED BY <2>2, <3>1 DEF Pointers, Owns
    <2>4. Changed(intr.snap, b, t) \in Descs
      BY <1>1, <2>2, ChangedType
    <2> QED BY <1>1, <1>2, <2>1, <2>2, <2>3, <2>4
  <1>3. CASE ~Allocates
    <2>1. PICK t \in Told :
            /\ AddOrUpdate(intr.addr, Changed(intr.snap, Null, t))
            /\ live' = live
            /\ renamed' = (renamed \/ Renames(t))
      BY <1>3 DEF IntrWrite
    <2>2. Changed(intr.snap, Null, t) \in Descs
      BY <1>1, <1>3, ChangedType
    <2> QED BY <1>1, <1>3, <2>1, <2>2
  <1> QED BY <1>2, <1>3

\* The members of the changed copy.
LEMMA ChangedFacts ==
    ASSUME TypeOK, IntrBusy, NEW d \in Descs, NEW b, NEW t, Stage \in Stages,
           intr.snap = d
    PROVE  LET c == Changed(d, b, t) IN
           /\ c.objs = d.objs /\ c.open = d.open
           /\ c.handle = IF Stage = "handle" THEN intr.handle ELSE d.handle
           /\ c.name = IF Stage = "name" THEN b ELSE d.name
           /\ c.type = IF Stage = "type" THEN t ELSE d.type
           /\ c.buffer = IF Stage = "report" /\ d.type = "PS3_DUALSHOCK" THEN b
                         ELSE d.buffer
           /\ Stage = "request" => c = d
           /\ Allocates <=> \/ Stage = "name"
                            \/ Stage = "report" /\ d.type = "PS3_DUALSHOCK"
  <1>1. CASE Stage = "request"
    BY <1>1 DEF Changed, Allocates, Descs
  <1>2. CASE Stage = "handle"
    BY <1>2 DEF Changed, Allocates, Descs
  <1>3. CASE Stage = "name"
    BY <1>3 DEF Changed, Allocates, Descs
  <1>4. CASE Stage = "type"
    BY <1>4 DEF Changed, Allocates, Descs
  <1>5. CASE Stage = "report"
    BY <1>5 DEF Changed, Allocates, Descs
  <1> QED BY <1>1, <1>2, <1>3, <1>4, <1>5 DEF Stages

\* The changed copy is written back.  A type that is told again is the same.
LEMMA WriteSafe ==
    ASSUME TypeInv, Shape, Safe, IntrWrite, Clean'
    PROVE  Safe'
  <1> TypeOK /\ IntrShape
    BY DEF TypeInv
  <1> DEFINE a == intr.addr
             d == intr.snap
  <1>1. /\ IntrBusy /\ intr.held /\ intr' = NextStage /\ a \in Devices
        /\ UNCHANGED <<bulk, pnp, timers, bugcheck>>
    BY WriteFacts
  <1>2. PICK b \in Pool \cup {Null}, t \in Told :
          /\ Changed(d, b, t) \in Descs
          /\ AddOrUpdate(a, Changed(d, b, t))
          /\ Allocates => /\ b \in Pool /\ live' = live \cup {b}
                          /\ \A i \in Ids : ~Owns(i, b)
          /\ ~Allocates => live' = live
          /\ renamed' = (renamed \/ Renames(t))
    BY WriteFacts
  <1> DEFINE c == Changed(d, b, t)
  <1>3. /\ ~intr'.held /\ (IntrBusy' => intr'.addr = a)
        /\ IntrBusy' => /\ Stage \in {"name", "type"}
                        /\ Stage' \in {"type", "report"}
                        /\ Stage = "type" => Stage' = "report"
        /\ Stage \in {"name", "type"} => IntrBusy'
    BY <1>1, NextStageFacts
  <1>4. /\ Stage \in Stages /\ (Stage = "handle" => intr.handle \in Handles)
        /\ d \in Descs
    BY <1>1, BusyFacts, DescTypes
  <1>5. /\ c.objs = d.objs /\ c.open = d.open
        /\ c.handle = IF Stage = "handle" THEN intr.handle ELSE d.handle
        /\ c.name = IF Stage = "name" THEN b ELSE d.name
        /\ c.type = IF Stage = "type" THEN t ELSE d.type
        /\ c.buffer = IF Stage = "report" /\ d.type = "PS3_DUALSHOCK" THEN b
                      ELSE d.buffer
        /\ Stage = "request" => c = d
        /\ Allocates <=> \/ Stage = "name"
                         \/ Stage = "report" /\ d.type = "PS3_DUALSHOCK"
    BY <1>1, <1>4, ChangedFacts
  <1>6. entries \in [Ids -> Entries] /\ entries' \in [Ids -> Entries]
    BY <1>1, <1>2, AddFacts DEF TypeOK, BusTypeOK
  <1> HIDE DEF c
  <1>7. PICK i \in Ids :
          \/ /\ IsPresent(a) /\ i = IdOf(a)
             /\ entries' = [entries EXCEPT ![i].desc = c]
          \/ /\ ~IsPresent(a) /\ entries[i] = Free
             /\ entries' = [entries EXCEPT ![i] =
                    [addr |-> a, present |-> TRUE, pdo |-> "none",
                     desc |-> c, ticking |-> FALSE]]
    <2>1. AddOrUpdate(a, c) /\ c \in Descs /\ a \in Devices \cup {Nobody}
      BY <1>1, <1>2 DEF c
    <2> HIDE DEF a, d
    <2> QED BY <2>1, AddFacts
  <1>8. \/ /\ entries[i].present /\ entries[i].addr = a /\ d = entries[i].desc
           /\ entries'[i].pdo = entries[i].pdo
           /\ entries'[i].ticking = entries[i].ticking
        \/ /\ ~IsPresent(a) /\ entries[i] = Free /\ Stage = "request" /\ d = Zeroed
           /\ entries'[i].pdo = "none" /\ entries'[i].ticking = FALSE
    <2>1. CASE IsPresent(a)
      <3>1. i = IdOf(a) /\ entries' = [entries EXCEPT ![i].desc = c]
        BY <1>7, <2>1
      <3>2. entries[i].present /\ entries[i].addr = a
        BY <2>1, <3>1, IdFacts
      <3>3. d = entries[i].desc
        BY <1>1, <3>2 DEF Safe, Current, IntrCurrent, PresentAll
      <3>4. /\ entries'[i].pdo = entries[i].pdo
            /\ entries'[i].ticking = entries[i].ticking
        BY <1>6, <3>1 DEF Entries
      <3> QED BY <3>2, <3>3, <3>4
    <2>2. CASE ~IsPresent(a)
      <3>1. \A k \in PresentAll : entries[k].addr # a
        BY <2>2 DEF IsPresent, PresentIds, PresentAll
      <3>2. Stage = "request" /\ d = Zeroed
        BY <1>1, <3>1 DEF Safe, Current, IntrCurrent
      <3>3. entries'[i].pdo = "none" /\ entries'[i].ticking = FALSE
        BY <1>6, <1>7, <2>2
      <3> QED BY <1>7, <2>2, <3>2, <3>3
    <2> QED BY <2>1, <2>2
  <1>9. /\ \A j \in Ids \ {i} : entries'[j] = entries[j]
        /\ entries'[i].present /\ entries'[i].addr = a /\ entries'[i].desc = c
    <2>1. CASE IsPresent(a)
      <3>1. entries' = [entries EXCEPT ![i].desc = c]
        BY <1>7, <2>1
      <3>2. entries[i].present /\ entries[i].addr = a
        BY <1>8, <2>1
      <3> QED BY <1>6, <3>1, <3>2 DEF Entries
    <2>2. CASE ~IsPresent(a)
      BY <1>6, <1>7, <2>2
    <2> QED BY <2>1, <2>2
  <1>10. \A j \in Ids \ {i} : entries[j].present => entries[j].addr # a
    <2>1. CASE ~IsPresent(a)
      BY <2>1 DEF IsPresent, PresentIds
    <2>2. CASE entries[i].present /\ entries[i].addr = a
      BY <2>2 DEF Shape, OneEach, PresentAll
    <2> QED BY <1>8, <2>1, <2>2
  <1>11. /\ Free.ticking = FALSE /\ Free.addr = Nobody /\ Nobody \notin Devices
         /\ Free.desc = Zeroed
    BY DevicesAssumption DEF Free
  <1>12. /\ BulkBusy => bulk.addr \in Devices /\ bulk.addr # a
         /\ PnpBusy => pnp.id \in Ids /\ entries[pnp.id].addr \in Devices
                       /\ entries[pnp.id].addr # a
         /\ \A j \in Ids : timers[j].busy => entries[j].addr # a
    BY <1>1, DeviceFacts DEF Safe, Apart, Shape, BulkShape
  <1>13. /\ BulkBusy => entries[i].addr # bulk.addr
         /\ PnpBusy => pnp.id # i
         /\ ~timers[i].busy
    <2>1. CASE entries[i].addr = a
      BY <1>12, <2>1
    <2>2. CASE entries[i] = Free
      BY <1>11, <1>12, <2>2 DEF Safe, Current, TimersCurrent
    <2> QED BY <1>8, <2>1, <2>2
  <1>14. Running'
    BY <1>1 DEF Safe, Running
  <1>15. Apart'
    <2>1. BulkBusy' => BulkBusy
      BY <1>1 DEF BulkBusy
    <2>2. PnpBusy' => PnpBusy /\ entries'[pnp.id].addr = entries[pnp.id].addr
      BY <1>1, <1>9, <1>12, <1>13 DEF PnpBusy
    <2>3. \A j \in Ids : timers'[j].busy =>
              timers[j].busy /\ entries'[j].addr = entries[j].addr
      BY <1>1, <1>9, <1>13
    <2> QED BY <1>1, <1>3, <2>1, <2>2, <2>3, SameApart DEF Safe
  <1>16. IntrCurrent'
    BY <1>3 DEF IntrCurrent
  <1>17. BulkCurrent' /\ PnpCurrent' /\ TimersCurrent'
    BY <1>1, <1>9, <1>13, ElsewhereCurrent DEF Safe
  <1>18. Complete'
    <2>1. \A j \in Ids \ {i} : EntryOK(j)'
      BY <1>3, <1>9, <1>10, ElsewhereEntry DEF Safe, IntrAt
    <2>2. EntryOK(i)
      BY DEF Safe, Complete
    <2>3. EntryOK(i)'
      <3>1. CASE ~IsPresent(a)
        <4>1. Stage = "request" /\ c = Zeroed /\ ~IntrBusy'
          BY <1>3, <1>5, <1>8, <3>1, IdFacts DEF IsPresent, PresentIds
        <4>2. entries'[i].pdo = "none" /\ entries'[i].ticking = FALSE
              /\ entries'[i].desc = Zeroed
          BY <1>8, <1>9, <3>1, <4>1 DEF IsPresent, PresentIds
        <4> QED BY <4>1, <4>2 DEF EntryOK, IntrAt, Zeroed
      <3>2. CASE IsPresent(a)
        <4>1. /\ entries[i].present /\ entries[i].addr = a /\ d = entries[i].desc
              /\ entries'[i].pdo = entries[i].pdo
              /\ entries'[i].ticking = entries[i].ticking
          BY <1>8, <3>2
        <4>2. IntrAt(entries[i].addr)
          BY <1>1, <4>1 DEF IntrAt
        <4>3. \A b2 \in Pool : b2 # Null
          BY PoolSizeAssumption DEF Pool, Null
        <4>4. Stage = "handle" => c.handle # NoHandle
          BY <1>4, <1>5, HandlesAssumption
        <4> HIDE DEF a, d
        <4>5. CASE Stage = "request" \/ Stage = "handle"
          <5>1. /\ c.name = d.name /\ c.type = d.type /\ c.buffer = d.buffer
                /\ c.objs = d.objs /\ c.open = d.open /\ ~IntrBusy'
                /\ (c.handle = d.handle \/ c.handle # NoHandle)
            BY <1>3, <1>5, <4>4, <4>5
          <5> QED BY <1>9, <2>2, <4>1, <4>5, <5>1 DEF EntryOK, IntrAt
        <4>6. CASE Stage = "name"
          <5>1. /\ c.name # Null /\ c.type = d.type /\ c.buffer = d.buffer
                /\ c.objs = d.objs /\ c.open = d.open /\ c.handle = d.handle
            BY <1>2, <1>5, <4>3, <4>6
          <5> QED BY <1>9, <2>2, <4>1, <4>6, <5>1 DEF EntryOK, IntrAt
        <4>7. CASE Stage = "type"
          <5>1. /\ c.name = d.name /\ c.type = t /\ c.buffer = d.buffer
                /\ c.objs = d.objs /\ c.open = d.open /\ c.handle = d.handle
                /\ IntrBusy' /\ Stage' = "report" /\ intr'.addr = a
            BY <1>3, <1>5, <4>7 DEF a
          <5>2. d.name # Null
            BY <2>2, <4>1, <4>2, <4>7 DEF EntryOK
          <5>3. d.type \in {"NONE", t} /\ t # "NONE"
            BY <1>1, <1>2, <4>7, BusyFacts DEF Clean, Renames, d
          <5> QED BY <1>9, <2>2, <4>1, <4>7, <5>1, <5>2, <5>3 DEF EntryOK, IntrAt
        <4>8. CASE Stage = "report"
          <5>1. /\ c.name = d.name /\ c.type = d.type
                /\ c.objs = d.objs /\ c.open = d.open /\ c.handle = d.handle
                /\ ~IntrBusy'
                /\ d.type = "PS3_DUALSHOCK" => c.buffer # Null
                /\ d.type # "PS3_DUALSHOCK" => c.buffer = d.buffer
            BY <1>2, <1>3, <1>5, <4>3, <4>8
          <5> QED BY <1>9, <2>2, <4>1, <4>8, <5>1 DEF EntryOK, IntrAt
        <4> QED BY <1>4, <4>5, <4>6, <4>7, <4>8 DEF Stages
      <3> QED BY <3>1, <3>2
    <2> QED BY <2>1, <2>3 DEF Complete
  <1>19. PoolOK'
    <2>1. Freed' = {}
      BY <1>3 DEF Freed
    <2>2. d = entries[i].desc
      BY <1>8, <1>11
    <2>3. \A x \in Pool : x \in live <=> x \notin Freed /\ \E j \in Ids : Owns(j, x)
      BY DEF Safe, PoolOK
    <2>4. d.name # Null => d.name # d.buffer
      BY <2>2 DEF Safe, PoolOK
    <2>5. Null \notin Pool
      BY PoolSizeAssumption DEF Pool, Null
    <2>6. d.name \in Pool \cup {Null} /\ d.buffer \in Pool \cup {Null}
      BY <1>4, MemberSet
    <2> HIDE DEF a, d
    <2>7. CASE Stage = "name"
      <3>1. /\ b \in Pool /\ live' = live \cup {b} /\ \A j \in Ids : ~Owns(j, b)
            /\ c.name = b /\ c.buffer = d.buffer
        BY <1>2, <1>5, <2>7
      <3>2. \A x \in Pool : x \in live <=> x # d.name /\ \E j \in Ids : Owns(j, x)
        BY <1>1, <2>3, <2>7 DEF Freed, d
      <3>3. /\ entries[i].desc.name = d.name /\ entries[i].desc.buffer = d.buffer
            /\ entries'[i].desc.name = b /\ entries'[i].desc.buffer = d.buffer
        BY <1>9, <2>2, <3>1
      <3>4. entries'[i].desc.name # entries'[i].desc.buffer
        BY <1>9, <2>2, <3>1 DEF Owns
      <3>5. d.name \in Pool => d.name # d.buffer
        BY <2>4, <2>5
      <3>6. PoolOK
        BY DEF Safe
      <3>7. Replaced(i, d.name, d.buffer, b)
        BY <1>9, <2>1, <3>1, <3>2, <3>3, <3>4, <3>5 DEF Replaced
      <3> QED BY <3>1, <3>6, <3>7, ReplacedPool
    <2>8. CASE Stage = "report" /\ d.type = "PS3_DUALSHOCK"
      <3>1. /\ b \in Pool /\ live' = live \cup {b} /\ \A j \in Ids : ~Owns(j, b)
            /\ c.name = d.name /\ c.buffer = b
        BY <1>2, <1>5, <2>8
      <3>2. \A x \in Pool : x \in live <=> x # d.buffer /\ \E j \in Ids : Owns(j, x)
        BY <1>1, <2>3, <2>8 DEF Freed, d
      <3>3. /\ entries[i].desc.buffer = d.buffer /\ entries[i].desc.name = d.name
            /\ entries'[i].desc.buffer = b /\ entries'[i].desc.name = d.name
        BY <1>9, <2>2, <3>1
      <3>4. entries'[i].desc.name # entries'[i].desc.buffer
        BY <1>9, <2>2, <3>1 DEF Owns
      <3>5. d.buffer \in Pool => d.buffer # d.name
        BY <2>4, <2>5
      <3>6. PoolOK
        BY DEF Safe
      <3>7. Replaced(i, d.buffer, d.name, b)
        BY <1>9, <2>1, <3>1, <3>2, <3>3, <3>4, <3>5 DEF Replaced
      <3> QED BY <3>1, <3>6, <3>7, ReplacedPool
    <2>9. CASE ~(Stage = "name" \/ (Stage = "report" /\ d.type = "PS3_DUALSHOCK"))
      <3>1. live' = live /\ c.name = d.name /\ c.buffer = d.buffer
        <4>1. ~Allocates
          BY <1>5, <2>9
        <4>2. live' = live
          BY <1>2, <4>1
        <4>3. c.name = d.name /\ c.buffer = d.buffer
          BY <1>5, <2>9
        <4> QED BY <4>2, <4>3
      <3>2. Freed = {}
        <4>1. Stage = "report" => d.buffer = Null
          BY <2>2, <2>9 DEF Safe, Complete, EntryOK
        <4> QED BY <2>5, <2>9, <4>1 DEF Freed, d
      <3>3. \A j \in Ids : /\ entries'[j].desc.name = entries[j].desc.name
                           /\ entries'[j].desc.buffer = entries[j].desc.buffer
        BY <1>9, <2>2, <3>1
      <3> QED BY <2>1, <3>1, <3>2, <3>3, SamePool DEF Safe
    <2> QED BY <2>7, <2>8, <2>9
  <1> QED BY <1>14, <1>15, <1>16, <1>17, <1>18, <1>19 DEF Safe, Current

\* A connection request that is not answered.
LEMMA WriteFailsSafe ==
    ASSUME TypeInv, Shape, Safe, Clean', IntrWriteFails
    PROVE  Safe'
  <1> TypeOK /\ IntrShape
    BY DEF TypeInv
  <1>1. /\ intr' = NextStage /\ IntrBusy /\ Stage = "request"
        /\ UNCHANGED <<entries, bulk, pnp, timers, bugcheck>>
    BY DEF IntrWriteFails, Clean
  <1>2. /\ ~IntrBusy' /\ ~intr'.held
    BY <1>1, NextStageFacts
  <1>3. live' = live
    BY <1>1 DEF IntrWriteFails, Allocates
  <1>4. Running'
    BY <1>1 DEF Safe, Running
  <1>5. Apart'
    BY <1>1, <1>2, SameApart DEF Safe, BulkBusy, PnpBusy
  <1>6. IntrCurrent'
    BY <1>2 DEF IntrCurrent
  <1>7. BulkCurrent' /\ PnpCurrent' /\ TimersCurrent'
    BY <1>1 DEF Safe, Current, BulkCurrent, PnpCurrent, TimersCurrent, BulkBusy,
                PnpBusy, PresentAll
  <1>8. Complete'
    BY <1>1, <1>2 DEF Safe, Complete, EntryOK, IntrAt
  <1>9. Freed' = {} /\ Freed = {}
    BY <1>1, <1>2 DEF Freed
  <1>10. PoolOK'
    BY <1>1, <1>3, <1>9, SamePool DEF Safe
  <1> QED BY <1>4, <1>5, <1>6, <1>7, <1>8, <1>10 DEF Safe, Current

\* A child is marked as missing.
LEMMA DropSafe ==
    ASSUME TypeInv, Shape, Safe, Clean', DisconnectionComplete
    PROVE  Safe'
  <1> USE DEF bus, radio, host, excuses
  <1> TypeOK /\ IntrShape
    BY DEF TypeInv
  <1> DEFINE h == Head(events).handle
             i == ByHandle(h)
  <1>1. /\ intr = IntrIdle /\ ~IntrBusy
        /\ UNCHANGED <<live, intr, bulk, pnp, timers, bugcheck>>
    BY DEF DisconnectionComplete, Take, IntrShape
  <1>2. CASE ~FoundByHandle(h)
    <2>1. UNCHANGED <<entries, live, intr, bulk, pnp, timers, bugcheck>>
      BY <1>1, <1>2 DEF DisconnectionComplete
    <2> QED BY <2>1, SameSafe
  <1>3. CASE FoundByHandle(h)
    <2>1. i \in Ids
      BY <1>3, LookupFacts DEF TypeOK, BusTypeOK
    <2>2. Begin({entries[i].addr}) /\ MarkMissing(i)
      BY <1>3 DEF DisconnectionComplete
    <2> HIDE DEF i
    <2>3. /\ BulkBusy => bulk.addr # entries[i].addr
          /\ PnpBusy => entries[pnp.id].addr # entries[i].addr
          /\ \A j \in Ids : timers[j].busy => entries[j].addr # entries[i].addr
      BY <2>2, NobodyThere
    <2>4. entries \in [Ids -> Entries] /\ entries[i] \in Entries
      BY <2>1 DEF TypeOK, BusTypeOK
    <2>5. entries' = [entries EXCEPT ![i].present = FALSE]
      BY <2>2 DEF MarkMissing
    <2>6. /\ \A j \in Ids \ {i} : entries'[j] = entries[j]
          /\ entries'[i].addr = entries[i].addr /\ entries'[i].desc = entries[i].desc
          /\ entries'[i].pdo = entries[i].pdo
          /\ entries'[i].ticking = entries[i].ticking
          /\ entries'[i].present = FALSE
      BY <2>1, <2>4, <2>5 DEF Entries
    <2>7. \A j \in Ids : /\ entries'[j].addr = entries[j].addr
                         /\ entries'[j].desc = entries[j].desc
                         /\ entries'[j].pdo = entries[j].pdo
                         /\ entries'[j].ticking = entries[j].ticking
      BY <2>6
    <2>8. Running'
      BY <1>1 DEF Safe, Running
    <2>9. Apart'
      BY <1>1, <2>7, SameApart, DescTypes DEF Safe, IntrBusy, BulkBusy, PnpBusy
    <2>10. Current'
      <3>1. /\ PnpBusy => pnp.id # i
            /\ ~timers[i].busy
        BY <2>1, <2>3
      <3>2. IntrCurrent'
        BY <1>1 DEF IntrCurrent, IntrIdle
      <3>3. BulkCurrent' /\ PnpCurrent' /\ TimersCurrent'
        BY <1>1, <2>1, <2>3, <2>6, <3>1, ElsewhereCurrent DEF Safe
      <3> QED BY <3>2, <3>3 DEF Current
    <2>11. Complete'
      <3>1. ~IntrBusy'
        BY <1>1 DEF IntrBusy
      <3> QED BY <1>1, <2>7, <3>1 DEF Safe, Complete, EntryOK, IntrAt
    <2>12. PoolOK'
      <3>1. Freed' = Freed
        BY <1>1 DEF Freed, Stage
      <3> QED BY <1>1, <2>7, <3>1, SamePool DEF Safe
    <2> QED BY <2>8, <2>9, <2>10, <2>11, <2>12 DEF Safe
  <1> QED BY <1>2, <1>3

\* All children are marked as missing.
LEMMA ScanSafe ==
    ASSUME TypeInv, Shape, Safe, Clean', EmptyScan,
           Begin({entries[i].addr : i \in PresentAll}),
           UNCHANGED <<live, intr, bulk, pnp, timers, bugcheck>>
    PROVE  Safe'
  <1> TypeOK /\ IntrShape
    BY DEF TypeInv
  <1>1. \A i \in PresentAll :
           /\ IntrBusy => intr.addr # entries[i].addr
           /\ BulkBusy => bulk.addr # entries[i].addr
           /\ PnpBusy => entries[pnp.id].addr # entries[i].addr
    <2> SUFFICES ASSUME NEW i \in PresentAll
                 PROVE  /\ IntrBusy => intr.addr # entries[i].addr
                        /\ BulkBusy => bulk.addr # entries[i].addr
                        /\ PnpBusy => entries[pnp.id].addr # entries[i].addr
      OBVIOUS
    <2>1. PICK as : as = {entries[j].addr : j \in PresentAll}
      OBVIOUS
    <2>2. Begin(as) /\ entries[i].addr \in as
      BY <2>1, Zenon
    <2> QED BY <2>2, NobodyThere, Zenon
  <1>2. ~BulkBusy /\ ~PnpBusy
    BY <1>1, DeviceFacts
       DEF Safe, Current, BulkCurrent, PnpCurrent, PresentAll
  <1>3. IntrBusy /\ intr.held => Stage = "request" /\ intr.snap = Zeroed
    BY <1>1 DEF Safe, Current, IntrCurrent
  <1>4. \A j \in Ids : entries[j] \in Entries
                       /\ entries'[j] = [entries[j] EXCEPT !.present = FALSE]
    BY DescTypes DEF EmptyScan
  <1>5. \A j \in Ids : /\ entries'[j].addr = entries[j].addr
                       /\ entries'[j].desc = entries[j].desc
                       /\ entries'[j].pdo = entries[j].pdo
                       /\ entries'[j].ticking = entries[j].ticking
                       /\ entries'[j].present = FALSE
    BY <1>4 DEF Entries
  <1>6. Running'
    BY DEF Safe, Running
  <1>7. Apart'
    BY <1>5, SameApart, DescTypes DEF Safe, IntrBusy, BulkBusy, PnpBusy
  <1>8. Current'
    <2>1. IntrCurrent'
      BY <1>3, <1>5 DEF IntrCurrent, IntrBusy, Stage, PresentAll
    <2>2. BulkCurrent' /\ PnpCurrent'
      BY <1>2 DEF BulkCurrent, PnpCurrent, BulkBusy, PnpBusy
    <2>3. TimersCurrent'
      BY <1>5 DEF Safe, Current, TimersCurrent
    <2> QED BY <2>1, <2>2, <2>3 DEF Current
  <1>9. Complete'
    <2>1. ASSUME NEW j \in Ids PROVE EntryOK(j)'
      <3>1. entries[j].present => ~IntrAt(entries[j].addr)
        BY <1>1 DEF IntrAt, PresentAll
      <3>2. EntryOK(j)
        BY DEF Safe, Complete
      <3> QED BY <1>5, <3>1, <3>2 DEF EntryOK, IntrAt, IntrBusy, Stage
    <2> QED BY <2>1 DEF Complete
  <1>10. PoolOK'
    <2>1. Freed' = Freed
      BY DEF Freed, Stage
    <2> QED BY <1>5, <2>1, SamePool DEF Safe
  <1> QED BY <1>6, <1>7, <1>8, <1>9, <1>10 DEF Safe

\* The child of the packet the bulk reader works on.
LEMMA BulkChild ==
    ASSUME TypeOK, Shape, Safe, BulkBusy
    PROVE  \E i \in Ids :
              /\ entries[i].present /\ entries[i].addr = bulk.addr
              /\ i = IdOf(bulk.addr) /\ IsPresent(bulk.addr)
              /\ entries[i].pdo = "created" /\ entries[i].desc.objs = i
              /\ entries[i].desc.handle # NoHandle /\ entries[i] # Free
              /\ \/ bulk.snap = entries[i].desc
                 \/ /\ bulk.type = "write back"
                    /\ bulk.snap = [entries[i].desc EXCEPT !.open = TRUE]
              /\ IntrBusy => intr.addr # entries[i].addr
              /\ PnpBusy => entries[pnp.id].addr # entries[i].addr /\ pnp.id # i
              /\ \A j \in Ids : timers[j].busy =>
                    j # i /\ entries[j].addr # entries[i].addr
              /\ \A j \in Ids \ {i} :
                    entries[j].present => entries[j].addr # bulk.addr
  <1>1. PICK i \in PresentAll :
          /\ entries[i].addr = bulk.addr
          /\ entries[i].pdo = "created"
          /\ entries[i].desc.handle # NoHandle
          /\ \/ bulk.snap = entries[i].desc
             \/ /\ bulk.type = "write back"
                /\ bulk.snap = [entries[i].desc EXCEPT !.open = TRUE]
    BY DEF Safe, Current, BulkCurrent
  <1>2. i \in Ids /\ entries[i].present
    BY DEF PresentAll
  <1>3. i = IdOf(bulk.addr) /\ IsPresent(bulk.addr)
    BY <1>1, DeviceFacts
  <1>4. entries[i] # Free
    BY <1>2 DEF Free
  <1>5. entries[i].desc.objs = i
    BY <1>1, <1>2 DEF Safe, Complete, EntryOK
  <1>6. /\ IntrBusy => intr.addr # entries[i].addr
        /\ PnpBusy => entries[pnp.id].addr # entries[i].addr
        /\ \A j \in Ids : timers[j].busy => entries[j].addr # entries[i].addr
    BY <1>1 DEF Safe, Apart
  <1>7. \A j \in Ids \ {i} : entries[j].present => entries[j].addr # bulk.addr
    BY <1>1, <1>2 DEF Shape, OneEach, PresentAll
  <1> QED BY <1>1, <1>2, <1>3, <1>4, <1>5, <1>6, <1>7

\* A packet's child is looked up.
LEMMA LookupSafe ==
    ASSUME TypeInv, Shape, Safe, Clean', BulkLookup
    PROVE  Safe'
  <1> USE DEF bus, radio, host
  <1> TypeOK
    BY DEF TypeInv
  <1> DEFINE p == Head(packets)
             i == ByHandle(p.handle)
  <1>1. /\ FoundByHandle(p.handle) /\ Begin({entries[i].addr}) /\ ~BulkBusy
        /\ bulk' = [type |-> p.type, addr |-> entries[i].addr,
                    snap |-> entries[i].desc]
        /\ UNCHANGED <<entries, live, intr, pnp, timers, bugcheck>>
    BY DEF BulkLookup
  <1>2. p \in Packets
    BY TailFacts DEF BulkLookup, TypeOK, RadioTypeOK
  <1>3. /\ i \in Ids /\ entries[i].present /\ entries[i].pdo = "created"
        /\ entries[i].desc.handle = p.handle
    <2>1. PICK n \in DOMAIN order :
             /\ i = order[n] /\ i \in Ids /\ entries[i].pdo = "created"
             /\ entries[i].desc.handle = p.handle
      BY <1>1, LookupFacts DEF TypeOK, BusTypeOK
    <2> QED BY <2>1, DeviceFacts
  <1>4. p.handle # NoHandle
    BY <1>2, HandlesAssumption DEF Packets
  <1> HIDE DEF p, i
  <1>5. /\ IntrBusy => intr.addr # entries[i].addr
        /\ PnpBusy => entries[pnp.id].addr # entries[i].addr
        /\ \A j \in Ids : timers[j].busy => entries[j].addr # entries[i].addr
    BY <1>1, NobodyThere
  <1>6. Running'
    BY <1>1 DEF Safe, Running
  <1>7. Apart'
    BY <1>1, <1>5 DEF Safe, Apart, IntrBusy, PnpBusy
  <1>8. Current'
    <2>1. IntrCurrent' /\ PnpCurrent' /\ TimersCurrent'
      BY <1>1 DEF Safe, Current, IntrCurrent, PnpCurrent, TimersCurrent, IntrBusy,
                  Stage, PnpBusy, PresentAll
    <2>2. i \in PresentAll' /\ entries' = entries
      BY <1>1, <1>3 DEF PresentAll
    <2>3. BulkCurrent'
      BY <1>1, <1>3, <1>4, <2>2 DEF BulkCurrent
    <2> QED BY <2>1, <2>3 DEF Current
  <1>9. Complete'
    BY <1>1, ElsewhereEntry DEF Safe, Complete
  <1>10. PoolOK'
    <2>1. Freed' = Freed
      BY <1>1 DEF Freed, Stage
    <2> QED BY <1>1, <2>1, SamePool DEF Safe
  <1> QED BY <1>6, <1>7, <1>8, <1>9, <1>10 DEF Safe

\* The channels are complete.
LEMMA SignalSafe ==
    ASSUME TypeInv, Shape, Safe, BulkSignal
    PROVE  Safe'
  <1> USE DEF bus, radio, host
  <1> TypeOK
    BY DEF TypeInv
  <1>0. BulkBusy /\ bulk.type = "signal"
    BY DEF BulkSignal, BulkBusy
  <1>1. PICK i \in Ids :
              /\ entries[i].present /\ entries[i].addr = bulk.addr
              /\ entries[i].pdo = "created" /\ entries[i].desc.objs = i
              /\ entries[i].desc.handle # NoHandle /\ entries[i] # Free
              /\ bulk.snap = entries[i].desc
              /\ PnpBusy => pnp.id # i
              /\ \A j \in Ids : timers[j].busy => j # i
    BY <1>0, BulkChild
  <1>2. i # 0 /\ Use(bulk.snap) = "none"
    BY <1>1 DEF Use, Ids
  <1>3. /\ entries' = [entries EXCEPT ![i].ticking = TRUE]
        /\ bugcheck' = "none"
        /\ UNCHANGED <<live, intr, pnp, timers>>
    BY <1>1, <1>2 DEF BulkSignal
  <1>4. /\ bulk'.type = "write back" /\ bulk'.addr = bulk.addr
        /\ bulk'.snap = [bulk.snap EXCEPT !.open = TRUE]
    BY DEF BulkSignal, TypeOK, CallbackTypeOK, BulkStates
  <1>5. /\ \A j \in Ids \ {i} : entries'[j] = entries[j]
        /\ entries'[i].addr = entries[i].addr /\ entries'[i].desc = entries[i].desc
        /\ entries'[i].pdo = entries[i].pdo
        /\ entries'[i].present = entries[i].present
        /\ entries'[i].ticking = TRUE
    <2>1. entries \in [Ids -> Entries]
      BY DEF TypeOK, BusTypeOK
    <2> QED BY <1>3, <2>1 DEF Entries
  <1>6. \A j \in Ids : /\ entries'[j].addr = entries[j].addr
                       /\ entries'[j].desc = entries[j].desc
                       /\ entries'[j].pdo = entries[j].pdo
                       /\ entries'[j].present = entries[j].present
    BY <1>5
  <1>7. Running'
    BY <1>3 DEF Running
  <1>8. Apart'
    BY <1>0, <1>3, <1>4, <1>6, SameApart, DescTypes DEF Safe, IntrBusy, PnpBusy
  <1>9. Current'
    <2>1. IntrCurrent'
      BY <1>3, <1>6 DEF Safe, Current, IntrCurrent, IntrBusy, Stage, PresentAll
    <2>2. BulkCurrent'
      <3>1. i \in PresentAll'
        BY <1>1, <1>6 DEF PresentAll
      <3>2. bulk'.snap = [entries'[i].desc EXCEPT !.open = TRUE]
        BY <1>1, <1>4, <1>5, Zenon
      <3>3. /\ entries'[i].addr = bulk'.addr /\ entries'[i].pdo = "created"
            /\ entries'[i].desc.handle # NoHandle
        BY <1>1, <1>4, <1>5, Zenon
      <3> QED BY <1>4, <3>1, <3>2, <3>3, Zenon DEF BulkCurrent
    <2>3. PnpCurrent' /\ TimersCurrent'
      BY <1>1, <1>3, <1>5, ElsewhereCurrent DEF Safe
    <2> QED BY <2>1, <2>2, <2>3 DEF Current
  <1>10. Complete'
    <2>1. \A j \in Ids \ {i} : EntryOK(j)'
      BY <1>3, <1>5, ElsewhereEntry DEF Safe
    <2>2. EntryOK(i)'
      <3>1. EntryOK(i)
        BY DEF Safe, Complete
      <3> QED BY <1>1, <1>3, <1>6, <3>1 DEF EntryOK, IntrAt, IntrBusy, Stage
    <2> QED BY <2>1, <2>2 DEF Complete
  <1>11. PoolOK'
    <2>1. Freed' = Freed
      BY <1>3 DEF Freed, Stage
    <2> QED BY <1>3, <1>6, <2>1, SamePool DEF Safe
  <1> QED BY <1>7, <1>8, <1>9, <1>10, <1>11 DEF Safe

\* A report is handed to a read request.
LEMMA ReportSafe ==
    ASSUME TypeInv, Shape, Safe, NEW valid \in BOOLEAN, BulkReport(valid)
    PROVE  Safe'
  <1> USE DEF bus, radio, host
  <1> TypeOK
    BY DEF TypeInv
  <1>0. BulkBusy /\ bulk.type = "report"
    BY DEF BulkReport, BulkBusy
  <1>1. PICK i \in Ids :
              /\ entries[i].present /\ entries[i].addr = bulk.addr
              /\ entries[i].pdo = "created" /\ entries[i].desc.objs = i
              /\ entries[i].desc.handle # NoHandle /\ entries[i] # Free
              /\ bulk.snap = entries[i].desc
    BY <1>0, BulkChild
  <1>2. i # 0 /\ Use(bulk.snap) = "none"
    BY <1>1 DEF Use, Ids
  <1>3. bugcheck' = "none" /\ UNCHANGED <<entries, live, intr, pnp, timers>>
    BY <1>2 DEF BulkReport
  <1>4. /\ bulk'.type = "write back" /\ bulk'.addr = bulk.addr
        /\ bulk'.snap = bulk.snap
    BY DEF BulkReport, TypeOK, CallbackTypeOK, BulkStates
  <1>5. Running'
    BY <1>3 DEF Running
  <1>6. Apart'
    BY <1>0, <1>3, <1>4, SameApart DEF Safe, IntrBusy, PnpBusy
  <1>7. Current'
    <2>1. IntrCurrent' /\ PnpCurrent' /\ TimersCurrent'
      BY <1>3 DEF Safe, Current, IntrCurrent, PnpCurrent, TimersCurrent, IntrBusy,
                  Stage, PnpBusy, PresentAll
    <2>2. i \in PresentAll' /\ entries' = entries
      BY <1>1, <1>3 DEF PresentAll
    <2>3. BulkCurrent'
      BY <1>1, <1>4, <2>2 DEF BulkCurrent
    <2> QED BY <2>1, <2>3 DEF Current
  <1>8. Complete'
    BY <1>3, ElsewhereEntry DEF Safe, Complete
  <1>9. PoolOK'
    <2>1. Freed' = Freed
      BY <1>3 DEF Freed, Stage
    <2> QED BY <1>3, <2>1, SamePool DEF Safe
  <1> QED BY <1>5, <1>6, <1>7, <1>8, <1>9 DEF Safe

\* The copy is written back.
LEMMA WriteBackSafe ==
    ASSUME TypeInv, Shape, Safe, Clean', BulkWriteBack
    PROVE  Safe'
  <1> USE DEF bus, radio, host
  <1> TypeOK
    BY DEF TypeInv
  <1>0. BulkBusy /\ AddOrUpdate(bulk.addr, bulk.snap)
    BY DEF BulkWriteBack, BulkBusy, Clean
  <1>1. PICK i \in Ids :
              /\ entries[i].present /\ entries[i].addr = bulk.addr
              /\ i = IdOf(bulk.addr) /\ IsPresent(bulk.addr)
              /\ entries[i].pdo = "created" /\ entries[i].desc.objs = i
              /\ entries[i].desc.handle # NoHandle
              /\ \/ bulk.snap = entries[i].desc
                 \/ bulk.snap = [entries[i].desc EXCEPT !.open = TRUE]
              /\ IntrBusy => intr.addr # entries[i].addr
              /\ PnpBusy => pnp.id # i
              /\ \A j \in Ids : timers[j].busy => j # i
              /\ \A j \in Ids \ {i} :
                    entries[j].present => entries[j].addr # bulk.addr
    BY <1>0, BulkChild
  <1>2. /\ entries' = [entries EXCEPT ![i].desc = bulk.snap]
        /\ UNCHANGED <<live, intr, pnp, timers, bugcheck>>
        /\ bulk' = BulkIdle /\ ~BulkBusy'
    BY <1>0, <1>1 DEF AddOrUpdate, BulkWriteBack, BulkBusy, BulkIdle
  <1>3. /\ \A j \in Ids \ {i} : entries'[j] = entries[j]
        /\ entries'[i].addr = entries[i].addr /\ entries'[i].desc = bulk.snap
        /\ entries'[i].pdo = entries[i].pdo
        /\ entries'[i].present = entries[i].present
        /\ entries'[i].ticking = entries[i].ticking
    <2>1. entries \in [Ids -> Entries]
      BY DEF TypeOK, BusTypeOK
    <2> QED BY <1>2, <2>1 DEF Entries
  <1>4. LET d == entries[i].desc IN
        /\ bulk.snap.name = d.name /\ bulk.snap.buffer = d.buffer
        /\ bulk.snap.handle = d.handle /\ bulk.snap.type = d.type
        /\ bulk.snap.objs = d.objs
    <2>1. entries[i].desc \in Descs
      BY DescTypes
    <2> QED BY <1>1, <2>1 DEF Descs
  <1>5. Running'
    BY <1>2 DEF Safe, Running
  <1>6. Apart'
    BY <1>2, <1>3, SameApart, DescTypes DEF Safe, IntrBusy, PnpBusy
  <1>7. Current'
    <2>1. IntrCurrent' /\ PnpCurrent' /\ TimersCurrent'
      BY <1>1, <1>2, <1>3, ElsewhereCurrent DEF Safe
    <2>2. BulkCurrent'
      BY <1>2 DEF BulkCurrent
    <2> QED BY <2>1, <2>2 DEF Current
  <1>8. Complete'
    <2>1. \A j \in Ids \ {i} : EntryOK(j)'
      BY <1>2, <1>3, ElsewhereEntry DEF Safe
    <2>2. EntryOK(i)'
      <3>1. EntryOK(i)
        BY DEF Safe, Complete
      <3> QED BY <1>1, <1>2, <1>3, <1>4, <3>1 DEF EntryOK, IntrAt, IntrBusy, Stage
    <2> QED BY <2>1, <2>2 DEF Complete
  <1>9. PoolOK'
    <2>1. Freed' = Freed
      BY <1>2 DEF Freed, Stage
    <2>2. \A j \in Ids : /\ entries'[j].desc.name = entries[j].desc.name
                         /\ entries'[j].desc.buffer = entries[j].desc.buffer
      BY <1>3, <1>4
    <2> QED BY <1>2, <2>1, <2>2, SamePool DEF Safe
  <1> QED BY <1>5, <1>6, <1>7, <1>8, <1>9 DEF Safe

\* The creation of a PDO begins.
LEMMA PnpBeginSafe ==
    ASSUME TypeInv, Shape, Safe, Clean', NEW i \in Ids, PnpBegin(i)
    PROVE  Safe'
  <1> USE DEF bus, radio, host
  <1> TypeOK
    BY DEF TypeInv
  <1>1. /\ Begin({entries[i].addr}) /\ ~PnpBusy
        /\ pnp' = [id |-> i, snap |-> entries[i].desc]
        /\ UNCHANGED <<entries, live, intr, bulk, timers, bugcheck>>
    BY DEF PnpBegin
  <1>2. entries[i].present
    <2>1. \E n \in DOMAIN order : order[n] = i
      BY DEF PnpBegin
    <2> QED BY <2>1, DeviceFacts
  <1>3. /\ IntrBusy => intr.addr # entries[i].addr
        /\ BulkBusy => bulk.addr # entries[i].addr
        /\ \A j \in Ids : timers[j].busy => entries[j].addr # entries[i].addr
    BY <1>1, NobodyThere
  <1>4. Running'
    BY <1>1 DEF Safe, Running
  <1>5. Apart'
    BY <1>1, <1>3 DEF Safe, Apart, IntrBusy, BulkBusy
  <1>6. Current'
    BY <1>1, <1>2 DEF Safe, Current, IntrCurrent, BulkCurrent, PnpCurrent,
                      TimersCurrent, IntrBusy, Stage, BulkBusy, PresentAll
  <1>7. Complete'
    BY <1>1, ElsewhereEntry DEF Safe, Complete
  <1>8. PoolOK'
    <2>1. Freed' = Freed
      BY <1>1 DEF Freed, Stage
    <2> QED BY <1>1, <2>1, SamePool DEF Safe
  <1> QED BY <1>4, <1>5, <1>6, <1>7, <1>8 DEF Safe

\* The PDO whose creation is under way.
LEMMA PnpChild ==
    ASSUME TypeOK, Shape, Safe, PnpBusy
    PROVE  LET i == pnp.id IN
           /\ i \in Ids /\ entries[i].present /\ entries[i].pdo = "none"
           /\ pnp.snap = entries[i].desc
           /\ entries[i].addr \in Devices
           /\ IntrBusy => intr.addr # entries[i].addr
           /\ BulkBusy => bulk.addr # entries[i].addr
           /\ ~timers[i].busy
  <1>1. /\ pnp.id \in Ids /\ entries[pnp.id].addr \in Devices
        /\ entries[pnp.id].present /\ entries[pnp.id].pdo = "none"
        /\ pnp.snap = entries[pnp.id].desc
    BY DeviceFacts DEF Safe, Current, PnpCurrent, Shape, PnpShape
  <1> QED BY <1>1 DEF Safe, Apart

\* The PDO is created.
LEMMA PnpEndSafe ==
    ASSUME TypeInv, Shape, Safe, PnpEnd
    PROVE  Safe'
  <1> USE DEF bus, radio, host
  <1> TypeOK
    BY DEF TypeInv
  <1>0. PICK i \in Ids : i = pnp.id
    BY PnpChild DEF PnpEnd
  <1>1. /\ PnpBusy /\ pnp' = PnpIdle /\ ~PnpBusy'
        /\ entries' = [entries EXCEPT ![i].desc = [pnp.snap EXCEPT !.objs = i],
                                      ![i].pdo = "created"]
        /\ UNCHANGED <<live, intr, bulk, timers, bugcheck>>
    BY <1>0 DEF PnpEnd, PnpIdle, PnpBusy
  <1>2. /\ i \in Ids /\ entries[i].present /\ entries[i].pdo = "none"
        /\ pnp.snap = entries[i].desc
        /\ entries[i].addr \in Devices
        /\ IntrBusy => intr.addr # entries[i].addr
        /\ BulkBusy => bulk.addr # entries[i].addr
        /\ ~timers[i].busy
    BY <1>0, <1>1, PnpChild
  <1>3. /\ \A j \in Ids \ {i} : entries'[j] = entries[j]
        /\ entries'[i].addr = entries[i].addr
        /\ entries'[i].desc = [pnp.snap EXCEPT !.objs = i]
        /\ entries'[i].pdo = "created"
        /\ entries'[i].present = entries[i].present
        /\ entries'[i].ticking = entries[i].ticking
    <2>1. entries \in [Ids -> Entries]
      BY DEF TypeOK, BusTypeOK
    <2> QED BY <1>1, <1>2, <2>1 DEF Entries
  <1>4. LET d == entries[i].desc c == entries'[i].desc IN
        /\ c.name = d.name /\ c.buffer = d.buffer /\ c.handle = d.handle
        /\ c.type = d.type /\ c.open = d.open /\ c.objs = i
    <2>1. entries[i].desc \in Descs
      BY <1>2, DescTypes
    <2> QED BY <1>2, <1>3, <2>1 DEF Descs
  <1>5. Running'
    BY <1>1 DEF Safe, Running
  <1>6. Apart'
    BY <1>1, <1>3, SameApart DEF Safe, IntrBusy, BulkBusy
  <1>7. Current'
    <2>1. IntrCurrent' /\ BulkCurrent' /\ TimersCurrent'
      BY <1>1, <1>2, <1>3, ElsewhereCurrent DEF Safe
    <2>2. PnpCurrent'
      BY <1>1 DEF PnpCurrent
    <2> QED BY <2>1, <2>2 DEF Current
  <1>8. Complete'
    <2>1. \A j \in Ids \ {i} : EntryOK(j)'
      BY <1>1, <1>3, ElsewhereEntry DEF Safe
    <2>2. EntryOK(i)'
      <3>1. EntryOK(i)
        BY <1>2 DEF Safe, Complete
      <3> QED BY <1>1, <1>2, <1>3, <1>4, <3>1 DEF EntryOK, IntrAt, IntrBusy, Stage
    <2> QED BY <2>1, <2>2 DEF Complete
  <1>9. PoolOK'
    <2>1. Freed' = Freed
      BY <1>1 DEF Freed, Stage
    <2>2. \A j \in Ids : /\ entries'[j].desc.name = entries[j].desc.name
                         /\ entries'[j].desc.buffer = entries[j].desc.buffer
      BY <1>3, <1>4
    <2> QED BY <1>1, <2>1, <2>2, SamePool DEF Safe
  <1> QED BY <1>5, <1>6, <1>7, <1>8, <1>9 DEF Safe

\* An entry is given up, and the blocks its description points to.
LEMMA FreedSafe ==
    ASSUME TypeInv, Shape, Safe, NEW i \in Ids, entries[i] # Free,
           IntrBusy /\ entries[i].present => intr.addr # entries[i].addr,
           BulkBusy /\ entries[i].present => bulk.addr # entries[i].addr,
           ~timers[i].busy,
           UNCHANGED <<intr, bulk, timers>>,
           (pnp' = pnp /\ pnp.id # i) \/ pnp' = PnpIdle,
           entries' = [entries EXCEPT ![i] = Free],
           FreePool({entries[i].desc.name, entries[i].desc.buffer})
    PROVE  Safe'
  <1> TypeOK /\ IntrShape
    BY DEF TypeInv
  <1>1. /\ \A j \in Ids \ {i} : entries'[j] = entries[j]
        /\ entries'[i] = Free
    BY DEF TypeOK, BusTypeOK
  <1>2. /\ Free.addr = Nobody /\ Free.present = FALSE /\ Free.pdo = "none"
        /\ Free.desc = Zeroed /\ Free.ticking = FALSE
        /\ Zeroed.name = Null /\ Zeroed.buffer = Null /\ Zeroed.objs = 0
        /\ Zeroed.open = FALSE /\ Zeroed.type = "NONE"
        /\ Nobody \notin Devices /\ Null \notin Pool
    BY DevicesAssumption, PoolSizeAssumption DEF Free, Zeroed, Null, Pool
  <1>3. entries[i].desc.name \in Pool \cup {Null}
        /\ entries[i].desc.buffer \in Pool \cup {Null}
    BY DescTypes, MemberSet
  <1>4. \A b \in Freed : \E j \in Ids \ {i} : Owns(j, b)
    <2> SUFFICES ASSUME NEW b \in Freed PROVE \E j \in Ids \ {i} : Owns(j, b)
      OBVIOUS
    <2>1. /\ b \in Pool /\ intr.held /\ Stage # "request"
          /\ b = intr.snap.name \/ b = intr.snap.buffer
      BY DEF Freed
    <2>2. IntrBusy
      BY <2>1 DEF IntrShape, IntrIdle
    <2>3. PICK j \in PresentAll : entries[j].addr = intr.addr
      BY <2>1, <2>2 DEF Safe, Current, IntrCurrent
    <2>4. intr.snap = entries[j].desc
      BY <2>1, <2>2, <2>3 DEF Safe, Current, IntrCurrent
    <2>5. j \in Ids \ {i}
      BY <2>2, <2>3 DEF PresentAll
    <2> QED BY <2>1, <2>4, <2>5 DEF Owns
  <1>5. {entries[i].desc.name, entries[i].desc.buffer} \ {Null} \subseteq live
    <2> SUFFICES ASSUME NEW b \in Pool,
                        b = entries[i].desc.name \/ b = entries[i].desc.buffer
                 PROVE  b \in live
      BY <1>3
    <2>1. Owns(i, b)
      BY DEF Owns
    <2>2. b \notin Freed
      BY <1>4, <2>1 DEF Safe, PoolOK
    <2> QED BY <2>1, <2>2 DEF Safe, PoolOK
  <1>6. /\ bugcheck' = bugcheck
        /\ live' = live \ ({entries[i].desc.name, entries[i].desc.buffer} \ {Null})
    BY <1>5 DEF FreePool
  <1>7. Running'
    BY <1>6 DEF Safe, Running
  <1>8. PnpBusy' => PnpBusy /\ pnp' = pnp /\ pnp.id # i
    BY DEF PnpBusy, PnpIdle
  <1>9. Apart'
    <2>1. PnpBusy' => entries'[pnp.id].addr = entries[pnp.id].addr
      BY <1>1, <1>8, DescTypes
    <2>2. \A j \in Ids : timers'[j].busy =>
              timers[j].busy /\ entries'[j].addr = entries[j].addr
      BY <1>1
    <2>3. (IntrBusy' => IntrBusy) /\ (BulkBusy' => BulkBusy)
      BY DEF IntrBusy, BulkBusy
    <2> QED BY <1>8, <2>1, <2>2, <2>3, SameApart DEF Safe
  <1>10. Current'
    <2>1. IntrCurrent'
      <3>1. \A k \in Ids : k \in PresentAll' <=> k \in PresentAll /\ k # i
        BY <1>1, <1>2 DEF PresentAll
      <3> QED BY <1>1, <3>1 DEF Safe, Current, IntrCurrent, IntrBusy, Stage,
                                PresentAll
    <2>2. BulkCurrent'
      <3>1. CASE ~BulkBusy
        BY <3>1 DEF BulkCurrent, BulkBusy
      <3>2. CASE BulkBusy
        <4>1. PICK k \in Ids :
              /\ entries[k].present /\ entries[k].addr = bulk.addr
              /\ entries[k].pdo = "created"
              /\ entries[k].desc.handle # NoHandle
              /\ \/ bulk.snap = entries[k].desc
                 \/ /\ bulk.type = "write back"
                    /\ bulk.snap = [entries[k].desc EXCEPT !.open = TRUE]
          BY <3>2, BulkChild
        <4>2. entries'[k] = entries[k] /\ k \in PresentAll'
          BY <1>1, <3>2, <4>1 DEF PresentAll
        <4> QED BY <4>1, <4>2 DEF BulkCurrent
      <3> QED BY <3>1, <3>2
    <2>3. PnpCurrent'
      BY <1>1, <1>8, DescTypes DEF Safe, Current, PnpCurrent, PnpBusy
    <2>4. TimersCurrent'
      BY <1>1, ElsewhereCurrent DEF Safe
    <2> QED BY <2>1, <2>2, <2>3, <2>4 DEF Current
  <1>11. Complete'
    <2>1. \A j \in Ids \ {i} : EntryOK(j)'
      BY <1>1, ElsewhereEntry DEF Safe
    <2>2. EntryOK(i)'
      BY <1>1, <1>2 DEF EntryOK, Null
    <2> QED BY <2>1, <2>2 DEF Complete
  <1>12. PoolOK'
    <2>1. Freed' = Freed
      BY DEF Freed, Stage
    <2>2. \A b \in Pool : ~Owns(i, b)'
      BY <1>1, <1>2 DEF Owns
    <2>3. \A b \in Pool, j \in Ids \ {i} : Owns(j, b)' <=> Owns(j, b)
      BY <1>1 DEF Owns
    <2>4. \A b \in Pool : b \in live' <=> b \in live /\ ~Owns(i, b)
      BY <1>2, <1>6 DEF Owns
    <2>5. ASSUME NEW b \in Pool
          PROVE  b \in live' <=> b \notin Freed /\ \E j \in Ids : Owns(j, b)'
      <3>1. b \in live' => \E j \in Ids : Owns(j, b)'
        <4> SUFFICES ASSUME b \in live, ~Owns(i, b) PROVE \E j \in Ids : Owns(j, b)'
          BY <2>4
        <4>1. PICK j \in Ids : Owns(j, b)
          BY DEF Safe, PoolOK
        <4> QED BY <2>3, <4>1
      <3>2. b \in live' => b \notin Freed
        BY <2>4 DEF Safe, PoolOK
      <3>3. ASSUME b \notin Freed, NEW j \in Ids, Owns(j, b)' PROVE b \in live'
        <4>1. j # i /\ Owns(j, b)
          BY <2>2, <2>3, <3>3
        <4>2. ~Owns(i, b) /\ b \in live
          BY <3>3, <4>1 DEF Safe, PoolOK
        <4> QED BY <2>4, <4>2
      <3> QED BY <3>1, <3>2, <3>3
    <2>6. ASSUME NEW j \in Ids, NEW k \in Ids, NEW b \in Pool,
                 Owns(j, b)', Owns(k, b)'
          PROVE  j = k
      <3>1. Owns(j, b) /\ Owns(k, b)
        BY <2>2, <2>3, <2>6
      <3> QED BY <3>1 DEF Safe, PoolOK
    <2>7. \A j \in Ids : entries'[j].desc.name # Null =>
              entries'[j].desc.name # entries'[j].desc.buffer
      BY <1>1, <1>2 DEF Safe, PoolOK
    <2> QED BY <2>1, <2>5, <2>6, <2>7 DEF PoolOK
  <1> QED BY <1>7, <1>9, <1>10, <1>11, <1>12 DEF Safe

\* The creation of a PDO fails, or the PDO of a missing child is deleted.
LEMMA GoneSafe ==
    ASSUME TypeInv, Shape, Safe, PnpFails \/ \E i \in Ids : Cleanup(i)
    PROVE  Safe'
  <1> USE DEF bus, radio, host
  <1> TypeOK
    BY DEF TypeInv
  <1>1. CASE PnpFails
    <2>1. /\ PnpBusy /\ pnp' = PnpIdle /\ UNCHANGED <<intr, bulk, timers>>
          /\ entries' = [entries EXCEPT ![pnp.id] = Free]
          /\ FreePool({entries[pnp.id].desc.name, entries[pnp.id].desc.buffer})
      BY <1>1 DEF PnpFails
    <2>2. /\ pnp.id \in Ids /\ entries[pnp.id].present
          /\ IntrBusy => intr.addr # entries[pnp.id].addr
          /\ BulkBusy => bulk.addr # entries[pnp.id].addr
          /\ ~timers[pnp.id].busy
      BY <2>1, PnpChild
    <2>3. entries[pnp.id] # Free
      BY <2>2 DEF Free
    <2> QED BY <2>1, <2>2, <2>3, FreedSafe
  <1>2. ASSUME NEW i \in Ids, Cleanup(i) PROVE Safe'
    BY <1>2, FreedSafe DEF Cleanup
  <1> QED BY <1>1, <1>2

\* The timer's callback begins.
LEMMA TimerBeginSafe ==
    ASSUME TypeInv, Shape, Safe, Clean', NEW i \in Ids, TimerBegin(i)
    PROVE  Safe'
  <1> USE DEF bus, radio, host
  <1> TypeOK
    BY DEF TypeInv
  <1>1. /\ Begin({entries[i].addr}) /\ ~timers[i].busy /\ entries[i].ticking
        /\ timers' = [timers EXCEPT ![i] = [busy |-> TRUE, snap |-> entries[i].desc]]
        /\ UNCHANGED <<entries, live, intr, bulk, pnp, bugcheck>>
    BY DEF TimerBegin
  <1>2. /\ IntrBusy => intr.addr # entries[i].addr
        /\ BulkBusy => bulk.addr # entries[i].addr
        /\ PnpBusy => entries[pnp.id].addr # entries[i].addr
        /\ \A j \in Ids : timers[j].busy => entries[j].addr # entries[i].addr
    BY <1>1, NobodyThere
  <1>3. /\ \A j \in Ids \ {i} : timers'[j] = timers[j]
        /\ timers'[i].busy /\ timers'[i].snap = entries[i].desc
    BY <1>1 DEF TypeOK, CallbackTypeOK
  <1>4. Running'
    BY <1>1 DEF Safe, Running
  <1>5. Apart'
    BY <1>1, <1>2, <1>3 DEF Safe, Apart, IntrBusy, BulkBusy, PnpBusy
  <1>6. Current'
    <2>1. IntrCurrent' /\ BulkCurrent' /\ PnpCurrent'
      BY <1>1 DEF Safe, Current, IntrCurrent, BulkCurrent, PnpCurrent, IntrBusy,
                  Stage, BulkBusy, PnpBusy, PresentAll
    <2>2. TimersCurrent'
      BY <1>1, <1>3 DEF Safe, Current, TimersCurrent
    <2> QED BY <2>1, <2>2 DEF Current
  <1>7. Complete'
    BY <1>1, ElsewhereEntry DEF Safe, Complete
  <1>8. PoolOK'
    <2>1. Freed' = Freed
      BY <1>1 DEF Freed, Stage
    <2> QED BY <1>1, <2>1, SamePool DEF Safe
  <1> QED BY <1>4, <1>5, <1>6, <1>7, <1>8 DEF Safe

\* The timer sends the output report.
LEMMA TimerSendSafe ==
    ASSUME TypeInv, Shape, Safe, NEW i \in Ids, TimerSend(i)
    PROVE  Safe'
  <1> USE DEF bus, radio, host
  <1> TypeOK /\ IntrShape
    BY DEF TypeInv
  <1> DEFINE d == entries[i].desc
  <1>1. /\ timers[i].busy /\ timers[i].snap = d
        /\ timers' = [timers EXCEPT ![i] = TimerIdle]
        /\ UNCHANGED <<entries, live, intr, bulk, pnp>>
    BY DEF TimerSend, Safe, Current, TimersCurrent
  <1>2. IntrBusy => intr.addr # entries[i].addr
    BY <1>1 DEF Safe, Apart
  <1>3. d.type = "PS3_DUALSHOCK" => d.buffer \in live
    <2> SUFFICES ASSUME d.type = "PS3_DUALSHOCK" PROVE d.buffer \in live
      OBVIOUS
    <2>1. d.buffer # Null
      BY <1>2 DEF Safe, Complete, EntryOK, IntrAt
    <2>2. d.buffer \in Pool
      BY <2>1, DescTypes, MemberSet
    <2>3. Owns(i, d.buffer)
      BY DEF Owns
    <2>4. d.buffer \notin Freed
      <3> SUFFICES ASSUME d.buffer \in Freed PROVE FALSE
        OBVIOUS
      <3>1. /\ intr.held /\ Stage # "request"
            /\ d.buffer = intr.snap.name \/ d.buffer = intr.snap.buffer
        BY DEF Freed
      <3>2. IntrBusy
        BY <3>1 DEF IntrShape, IntrIdle
      <3>3. PICK j \in PresentAll : entries[j].addr = intr.addr
        BY <3>1, <3>2 DEF Safe, Current, IntrCurrent
      <3>4. intr.snap = entries[j].desc
        BY <3>1, <3>2, <3>3 DEF Safe, Current, IntrCurrent
      <3>5. j \in Ids /\ j # i
        BY <1>2, <3>2, <3>3 DEF PresentAll
      <3>6. Owns(j, d.buffer)
        BY <3>1, <3>4 DEF Owns
      <3> QED BY <2>2, <2>3, <3>5, <3>6 DEF Safe, PoolOK
    <2> QED BY <2>2, <2>3, <2>4 DEF Safe, PoolOK
  <1>4. bugcheck' = "none"
    BY <1>1, <1>3 DEF TimerSend
  <1> HIDE DEF d
  <1>5. /\ \A j \in Ids \ {i} : timers'[j] = timers[j]
        /\ ~timers'[i].busy
    BY <1>1 DEF TypeOK, CallbackTypeOK, TimerIdle
  <1>6. Running'
    BY <1>4 DEF Running
  <1>7. Apart'
    BY <1>1, <1>5, SameApart DEF Safe, IntrBusy, BulkBusy, PnpBusy
  <1>8. Current'
    <2>1. IntrCurrent' /\ BulkCurrent' /\ PnpCurrent'
      BY <1>1 DEF Safe, Current, IntrCurrent, BulkCurrent, PnpCurrent, IntrBusy,
                  Stage, BulkBusy, PnpBusy, PresentAll
    <2>2. TimersCurrent'
      BY <1>1, <1>5 DEF Safe, Current, TimersCurrent
    <2> QED BY <2>1, <2>2 DEF Current
  <1>9. Complete'
    BY <1>1, ElsewhereEntry DEF Safe, Complete
  <1>10. PoolOK'
    <2>1. Freed' = Freed
      BY <1>1 DEF Freed, Stage
    <2> QED BY <1>1, <2>1, SamePool DEF Safe
  <1> QED BY <1>6, <1>7, <1>8, <1>9, <1>10 DEF Safe

\* Every step keeps the copies good.
LEMMA CleanStep == TypeInv /\ Shape /\ CleanInv /\ [Next]_vars => CleanInv'
  <1> SUFFICES ASSUME TypeInv, Shape, CleanInv, [Next]_vars, Clean'
               PROVE  Safe'
    BY DEF CleanInv
  <1> USE DEF bus, radio, host, excuses, history
  <1> TypeOK
    BY DEF TypeInv
  <1>1. Clean /\ Safe
    BY CleanBack DEF CleanInv
  <1>2. CASE UNCHANGED <<entries, live, intr, bulk, pnp, timers, bugcheck>>
    BY <1>1, <1>2, SameSafe
  <1>3. CASE Radio
    BY <1>2, <1>3
       DEF Radio, RequestLink, LinkUp, LinkFails, LinkDown, NameAnswer, SendPacket
  <1>4. CASE ConnectionRequest \/ ConnectionComplete \/ RemoteNameComplete
    <2>1. \E type, a, h : \E s \in StageLists \ {<<>>} :
             Head(s) # "type" /\ Take(type) /\ Handle(a, s, h)
      <3>1. <<"request">> \in StageLists \ {<<>>} /\ Head(<<"request">>) # "type"
        BY DEF StageLists
      <3>2. <<"handle">> \in StageLists \ {<<>>} /\ Head(<<"handle">>) # "type"
        BY DEF StageLists
      <3>3. <<"name", "report">> \in StageLists \ {<<>>}
            /\ Head(<<"name", "report">>) # "type"
        BY DEF StageLists
      <3>4. <<"name", "type", "report">> \in StageLists \ {<<>>}
            /\ Head(<<"name", "type", "report">>) # "type"
        BY DEF StageLists
      <3>5. CASE ConnectionRequest
        BY <3>1, <3>5, Zenon DEF ConnectionRequest
      <3>6. CASE ConnectionComplete
        BY <3>2, <3>6, Zenon DEF ConnectionComplete
      <3>7. CASE RemoteNameComplete
        <4>1. Take("RemoteName")
          BY <3>7 DEF RemoteNameComplete
        <4>2. PICK t : Handle(Head(events).addr,
                              IF t = "NONE" THEN <<"name", "report">>
                              ELSE <<"name", "type", "report">>, NoHandle)
          BY <3>7 DEF RemoteNameComplete
        <4>3. CASE t = "NONE"
          <5>1. Handle(Head(events).addr, <<"name", "report">>, NoHandle)
            BY <4>2, <4>3
          <5> QED BY <3>3, <4>1, <5>1, Zenon
        <4>4. CASE t # "NONE"
          <5>1. Handle(Head(events).addr, <<"name", "type", "report">>, NoHandle)
            BY <4>2, <4>4
          <5> QED BY <3>4, <4>1, <5>1, Zenon
        <4> QED BY <4>3, <4>4
      <3> QED BY <1>4, <3>5, <3>6, <3>7
    <2> QED BY <1>1, <2>1, HandleSafe
  <1>5. CASE ConnectionFailed \/ BulkDrop
    BY <1>2, <1>5 DEF ConnectionFailed, BulkDrop
  <1>6. CASE DisconnectionComplete
    BY <1>1, <1>6, DropSafe
  <1>7. CASE IntrSkip
    BY <1>1, <1>7, SkipSafe
  <1>8. CASE IntrRetrieve
    BY <1>1, <1>8, RetrieveSafe
  <1>9. CASE IntrWrite
    BY <1>1, <1>9, WriteSafe
  <1>10. CASE IntrWriteFails
    BY <1>1, <1>10, WriteFailsSafe
  <1>11. CASE IntrAllocationFails
    BY <1>11 DEF IntrAllocationFails, Clean
  <1>12. CASE BulkLookup
    BY <1>1, <1>12, LookupSafe
  <1>13. CASE BulkSignal
    BY <1>1, <1>13, SignalSafe
  <1>14. CASE \E valid \in BOOLEAN : BulkReport(valid)
    BY <1>1, <1>14, ReportSafe
  <1>15. CASE BulkWriteBack
    BY <1>1, <1>15, WriteBackSafe
  <1>16. CASE PnpEnd
    BY <1>1, <1>16, PnpEndSafe
  <1>17. CASE PnpFails \/ \E i \in Ids : Cleanup(i)
    BY <1>1, <1>17, GoneSafe
  <1>18. CASE \E i \in Ids : PnpBegin(i)
    BY <1>1, <1>18, PnpBeginSafe
  <1>19. CASE \E i \in Ids : TimerBegin(i)
    BY <1>1, <1>19, TimerBeginSafe
  <1>20. CASE \E i \in Ids : TimerSend(i)
    BY <1>1, <1>20, TimerSendSafe
  <1>21. CASE D0ExitScan \/ RemoveDevice
    BY <1>1, <1>21, ScanSafe DEF D0ExitScan, RemoveDevice
  <1>22. CASE D0ExitStop \/ Resume \/ Replug
    BY <1>2, <1>22 DEF D0ExitStop, Resume, Replug
  <1>23. CASE UNCHANGED vars
    BY <1>2, <1>23 DEF vars
  <1> QED
    BY <1>3, <1>4, <1>5, <1>6, <1>7, <1>8, <1>9, <1>10, <1>11, <1>12, <1>13,
       <1>14, <1>15, <1>16, <1>17, <1>18, <1>19, <1>20, <1>21, <1>22, <1>23
       DEF Next, Interrupt, Bulk, Children, Power

\* At first there is no copy.
LEMMA InitClean == Init => CleanInv
  <1> SUFFICES ASSUME Init PROVE Safe
    BY DEF CleanInv
  <1> USE DEF Init, IntrIdle, BulkIdle, PnpIdle, TimerIdle, IntrBusy, BulkBusy,
              PnpBusy
  <1>1. Running /\ Apart
    BY DEF Running, Apart
  <1>2. Current
    BY DEF Current, IntrCurrent, BulkCurrent, PnpCurrent, TimersCurrent
  <1>3. Complete
    BY DEF Complete, EntryOK, IntrAt, Free, Zeroed
  <1>4. PoolOK
    <2>1. Null \notin Pool
      BY PoolSizeAssumption DEF Null, Pool
    <2> QED BY <2>1 DEF PoolOK, Freed, Owns, Free, Zeroed
  <1> QED BY <1>1, <1>2, <1>3, <1>4 DEF Safe

\* The inductive invariant of what holds while callbacks do not overlap.
THEOREM CleanCorrect == Spec => [](TypeInv /\ Shape /\ CleanInv)
  <1>1. TypeInv /\ Shape /\ [Next]_vars => TypeInv'
    <2>1. Shape => PnpShape
      BY DEF Shape
    <2> QED BY <2>1, RadioType, InterruptType, BulkType, ChildrenType, PowerType,
               StutterType DEF Next
  <1> QED BY <1>1, InitType, InitShape, InitClean, ShapeStep, CleanStep, PTL
          DEF Spec

\* While callbacks do not overlap, nobody uses a null pointer, freed memory or
\* the queue and timer of a PDO that is gone, and nothing is freed twice.
THEOREM BugcheckCorrect == Spec => []NoBugcheck
  <1>1. CleanInv => NoBugcheck
    BY DEF CleanInv, Safe, NoBugcheck
  <1> QED BY <1>1, CleanCorrect, PTL

\* While callbacks do not overlap and nobody is at work, the allocated blocks
\* are those the descriptions point to, each from one place.
THEOREM PoolCorrect == Spec => []PoolExact
  <1>1. TypeInv /\ Shape /\ CleanInv => PoolExact
    <2> SUFFICES ASSUME TypeInv, Shape, CleanInv, Clean,
                        \A a \in Devices : ~Busy(a)
                 PROVE  LET used == {i \in Ids : entries[i] # Free}
                            all == UNION {Pointers(entries[i].desc) : i \in used}
                        IN  /\ live = all
                            /\ \A i, j \in used : i # j =>
                                  Pointers(entries[i].desc)
                                      \cap Pointers(entries[j].desc) = {}
                            /\ \A i \in used : entries[i].desc.name # Null =>
                                  entries[i].desc.name # entries[i].desc.buffer
      BY DEF PoolExact
    <2> DEFINE used == {i \in Ids : entries[i] # Free}
               all == UNION {Pointers(entries[i].desc) : i \in used}
    <2>1. PoolOK
      BY DEF CleanInv, Safe
    <2>2. Freed = {}
      BY DEF TypeInv, IntrShape, IntrIdle, Busy, Freed
    <2>3. \A i \in Ids : /\ entries[i].desc.name \in Pool \cup {Null}
                         /\ entries[i].desc.buffer \in Pool \cup {Null}
      BY DescTypes, MemberSet DEF TypeInv
    <2>4. Null \notin Pool
      BY PoolSizeAssumption DEF Null, Pool
    <2>5. \A i \in Ids : \A b : b \in Pointers(entries[i].desc) <=>
                                    b \in Pool /\ Owns(i, b)
      BY <2>3, <2>4 DEF Pointers, Owns
    <2>6. \A i \in Ids, b \in Pool : Owns(i, b) => i \in used
      BY <2>4 DEF Owns, Free, Zeroed
    <2>7. live \subseteq Pool
      BY DEF TypeInv, TypeOK, BusTypeOK
    <2>8. \A b : b \in all <=> \E i \in used : b \in Pointers(entries[i].desc)
      OBVIOUS
    <2> HIDE DEF all
    <2>9. \A b : b \in live <=> b \in all
      BY <2>1, <2>2, <2>5, <2>6, <2>7, <2>8 DEF PoolOK
    <2>10. ASSUME NEW i \in used, NEW j \in used, i # j
           PROVE  Pointers(entries[i].desc) \cap Pointers(entries[j].desc) = {}
      BY <2>1, <2>5, <2>10 DEF PoolOK
    <2>11. \A i \in used : entries[i].desc.name # Null =>
               entries[i].desc.name # entries[i].desc.buffer
      BY <2>1 DEF PoolOK
    <2>12. live = all
      BY <2>9
    <2> QED BY <2>10, <2>11, <2>12 DEF all
  <1> QED BY <1>1, CleanCorrect, PTL

-----------------------------------------------------------------------------
(* The abstract bus: its children are those of the entries.                *)

\* The abstract children that a child list es stands for.
Chosen(es, a) == {i \in Ids : es[i].present /\ es[i].addr = a}
Kids(es) == [a \in {d \in Devices : Chosen(es, d) # {}} |->
                Shared(es[CHOOSE i \in Chosen(es, a) : TRUE].desc)]
Single(es) ==
    /\ es \in [Ids -> Entries]
    /\ \A i \in Ids : es[i].present => es[i].addr \in Devices
    /\ \A i, j \in Ids : /\ es[i].present /\ es[j].present
                         /\ es[i].addr = es[j].addr
                         => i = j

\* The refinement mapping is about nothing else.
LEMMA Mapping ==
    /\ Child = Kids(entries)
    /\ Child' = Kids(entries')
  BY DEF Child, Kids, Chosen, IsPresent, PresentIds, DescOf, IdOf

\* A present entry is the child of its device.
LEMMA KidsFacts ==
    ASSUME NEW es, Single(es)
    PROVE  /\ DOMAIN Kids(es) = {d \in Devices : Chosen(es, d) # {}}
           /\ \A a \in DOMAIN Kids(es) :
                 \E i \in Ids : es[i].present /\ es[i].addr = a
           /\ \A i \in Ids : \A a : es[i].present /\ es[i].addr = a =>
                 a \in DOMAIN Kids(es) /\ Kids(es)[a] = Shared(es[i].desc)
  <1>1. DOMAIN Kids(es) = {d \in Devices : Chosen(es, d) # {}}
    BY DEF Kids
  <1>2. \A a \in DOMAIN Kids(es) : \E i \in Ids : es[i].present /\ es[i].addr = a
    BY <1>1 DEF Chosen
  <1>3. ASSUME NEW i \in Ids, es[i].present
        PROVE  /\ es[i].addr \in DOMAIN Kids(es)
               /\ Kids(es)[es[i].addr] = Shared(es[i].desc)
    <2>1. Chosen(es, es[i].addr) = {i}
      BY <1>3 DEF Chosen, Single
    <2>2. es[i].addr \in DOMAIN Kids(es)
      BY <1>1, <1>3, <2>1 DEF Single
    <2>3. (CHOOSE j \in Chosen(es, es[i].addr) : TRUE) = i
      BY <2>1
    <2> QED BY <1>1, <2>2, <2>3 DEF Kids
  <1> QED BY <1>1, <1>2, <1>3

\* Children go and the others stay as they are.
Going(es, fs) == \A i \in Ids : fs[i].present =>
    /\ es[i].present /\ fs[i].addr = es[i].addr
    /\ Shared(fs[i].desc) = Shared(es[i].desc)

\* What is left of the children when some go.
LEMMA KidsGo ==
    ASSUME NEW es, NEW fs, Single(es), Single(fs), Going(es, fs)
    PROVE  \E as \in SUBSET Devices :
              Kids(fs) = [a \in DOMAIN Kids(es) \ as |-> Kids(es)[a]]
  <1>0. /\ \A i \in Ids : \A a : es[i].present /\ es[i].addr = a =>
              a \in DOMAIN Kids(es) /\ Kids(es)[a] = Shared(es[i].desc)
        /\ \A i \in Ids : \A a : fs[i].present /\ fs[i].addr = a =>
              a \in DOMAIN Kids(fs) /\ Kids(fs)[a] = Shared(fs[i].desc)
    BY KidsFacts
  <1>1. /\ DOMAIN Kids(es) \subseteq Devices /\ DOMAIN Kids(fs) \subseteq Devices
        /\ \A a \in DOMAIN Kids(fs) :
              a \in DOMAIN Kids(es) /\ Kids(fs)[a] = Kids(es)[a]
    <2>1. ASSUME NEW a \in DOMAIN Kids(fs)
          PROVE  a \in DOMAIN Kids(es) /\ Kids(fs)[a] = Kids(es)[a]
      <3>1. PICK i \in Ids : fs[i].present /\ fs[i].addr = a
        BY KidsFacts
      <3>2. es[i].present /\ es[i].addr = a
            /\ Shared(fs[i].desc) = Shared(es[i].desc)
        BY <3>1 DEF Going
      <3> QED BY <1>0, <3>1, <3>2
    <2> QED BY <2>1 DEF Kids
  <1>2. PICK as \in SUBSET Devices : DOMAIN Kids(fs) = DOMAIN Kids(es) \ as
    <2>1. DOMAIN Kids(fs) = DOMAIN Kids(es) \ (Devices \ DOMAIN Kids(fs))
      BY <1>1
    <2> QED BY <2>1
  <1>3. Kids(fs) = [a \in DOMAIN Kids(fs) |-> Kids(fs)[a]]
    BY DEF Kids
  <1>4. [a \in DOMAIN Kids(fs) |-> Kids(fs)[a]]
        = [a \in DOMAIN Kids(fs) |-> Kids(es)[a]]
    BY <1>1
  <1> QED BY <1>2, <1>3, <1>4, Zenon

\* One child changes.
LEMMA KidChanges ==
    ASSUME NEW es, NEW fs, Single(es), Single(fs), NEW i \in Ids, es[i].present,
           \A j \in Ids : fs[j].present = es[j].present /\ fs[j].addr = es[j].addr,
           \A j \in Ids \ {i} : fs[j].desc = es[j].desc
    PROVE  /\ es[i].addr \in DOMAIN Kids(es)
           /\ Kids(es)[es[i].addr] = Shared(es[i].desc)
           /\ Kids(fs) = [Kids(es) EXCEPT ![es[i].addr] = Shared(fs[i].desc)]
  <1> DEFINE s == Shared(fs[i].desc)
  <1>0. /\ \A j \in Ids : \A a : es[j].present /\ es[j].addr = a =>
              a \in DOMAIN Kids(es) /\ Kids(es)[a] = Shared(es[j].desc)
        /\ \A j \in Ids : \A a : fs[j].present /\ fs[j].addr = a =>
              a \in DOMAIN Kids(fs) /\ Kids(fs)[a] = Shared(fs[j].desc)
    BY KidsFacts
  <1>1. /\ es[i].addr \in DOMAIN Kids(es)
        /\ Kids(es)[es[i].addr] = Shared(es[i].desc)
        /\ Kids(fs)[es[i].addr] = s
    BY <1>0
  <1>2. DOMAIN Kids(fs) = DOMAIN Kids(es)
    <2>1. \A d : Chosen(fs, d) = Chosen(es, d)
      BY DEF Chosen
    <2> QED BY <2>1 DEF Kids
  <1>3. ASSUME NEW a \in DOMAIN Kids(es), a # es[i].addr
        PROVE  Kids(fs)[a] = Kids(es)[a]
    <2>1. PICK j \in Ids : es[j].present /\ es[j].addr = a
      BY KidsFacts
    <2>2. fs[j].present /\ fs[j].addr = a /\ fs[j].desc = es[j].desc
      BY <1>3, <2>1
    <2> QED BY <1>0, <2>1, <2>2
  <1>4. Kids(fs) = [a \in DOMAIN Kids(fs) |-> Kids(fs)[a]]
        /\ Kids(es) = [a \in DOMAIN Kids(es) |-> Kids(es)[a]]
    BY DEF Kids
  <1> HIDE DEF s
  <1>5. Kids(fs) = [Kids(es) EXCEPT ![es[i].addr] = s]
    BY <1>1, <1>2, <1>3, <1>4
  <1> QED BY <1>1, <1>5 DEF s

\* One child is new.
Coming(es, fs, i) ==
    /\ fs[i].present /\ Chosen(es, fs[i].addr) = {} /\ ~es[i].present
    /\ \A j \in Ids \ {i} : fs[j] = es[j]

\* The children with the new one.
LEMMA KidComes ==
    ASSUME NEW es, NEW fs, Single(es), Single(fs), NEW i \in Ids,
           Coming(es, fs, i)
    PROVE  /\ fs[i].addr \in Devices \ DOMAIN Kids(es)
           /\ Kids(fs) = [b \in DOMAIN Kids(es) \cup {fs[i].addr} |->
                 IF b = fs[i].addr THEN Shared(fs[i].desc) ELSE Kids(es)[b]]
  <1> USE DEF Coming
  <1>0. /\ \A j \in Ids : \A a : es[j].present /\ es[j].addr = a =>
              a \in DOMAIN Kids(es) /\ Kids(es)[a] = Shared(es[j].desc)
        /\ \A j \in Ids : \A a : fs[j].present /\ fs[j].addr = a =>
              a \in DOMAIN Kids(fs) /\ Kids(fs)[a] = Shared(fs[j].desc)
    BY KidsFacts
  <1>1. /\ \A a \in DOMAIN Kids(es) : \E j \in Ids : es[j].present /\ es[j].addr = a
        /\ \A a \in DOMAIN Kids(fs) : \E j \in Ids : fs[j].present /\ fs[j].addr = a
    BY KidsFacts
  <1>2. fs[i].addr \in Devices \ DOMAIN Kids(es)
    BY DEF Single, Kids
  <1>3. DOMAIN Kids(fs) = DOMAIN Kids(es) \cup {fs[i].addr}
    <2>1. ASSUME NEW a \in DOMAIN Kids(fs)
          PROVE  a \in DOMAIN Kids(es) \cup {fs[i].addr}
      <3>1. PICK j \in Ids : fs[j].present /\ fs[j].addr = a
        BY <1>1
      <3> QED BY <1>0, <3>1
    <2>2. ASSUME NEW a \in DOMAIN Kids(es) PROVE a \in DOMAIN Kids(fs)
      <3>1. PICK j \in Ids : es[j].present /\ es[j].addr = a
        BY <1>1
      <3>2. fs[j] = es[j]
        BY <3>1
      <3> QED BY <1>0, <3>1, <3>2
    <2> QED BY <1>0, <2>1, <2>2
  <1>4. Kids(fs)[fs[i].addr] = Shared(fs[i].desc)
    BY <1>0
  <1>5. ASSUME NEW a \in DOMAIN Kids(es) PROVE Kids(fs)[a] = Kids(es)[a]
    <2>1. PICK j \in Ids : es[j].present /\ es[j].addr = a
      BY <1>1
    <2>2. fs[j] = es[j]
      BY <2>1
    <2> QED BY <1>0, <2>1, <2>2
  <1>6. Kids(fs) = [b \in DOMAIN Kids(fs) |-> Kids(fs)[b]]
    BY DEF Kids
  <1>7. [b \in DOMAIN Kids(es) \cup {fs[i].addr} |-> Kids(fs)[b]]
        = [b \in DOMAIN Kids(es) \cup {fs[i].addr} |->
                 IF b = fs[i].addr THEN Shared(fs[i].desc) ELSE Kids(es)[b]]
    BY <1>2, <1>4, <1>5
  <1> QED BY <1>2, <1>3, <1>6, <1>7, Zenon

\* The child list has the form that the mapping needs.
LEMMA SingleFacts ==
    /\ TypeOK /\ Shape => Single(entries)
    /\ TypeOK' /\ Shape' => Single(entries')
  <1>1. Nobody \notin Devices /\ ~Free.present
    BY DevicesAssumption DEF Free
  <1>2. ASSUME TypeOK, Shape PROVE Single(entries)
    <2>1. \A i \in Ids : entries[i].addr \in Devices \cup {Nobody}
      BY <1>2, DescTypes
    <2> QED BY <1>1, <1>2, <2>1
            DEF Single, Shape, Named, OneEach, PresentAll, TypeOK, BusTypeOK
  <1>3. ASSUME TypeOK', Shape' PROVE Single(entries')
    <2>1. \A i \in Ids : entries'[i].addr \in Devices \cup {Nobody}
      <3>1. \A i \in Ids : entries'[i] \in Entries
        BY <1>3 DEF TypeOK, BusTypeOK
      <3> QED BY <3>1, MemberSet
    <2> QED BY <1>1, <1>3, <2>1
            DEF Single, Shape, Named, OneEach, PresentAll, TypeOK, BusTypeOK
  <1> QED BY <1>2, <1>3

\* The steps of the abstract bus, told by what they do to the children.
LEMMA BusSteps ==
    ASSUME Clean, Clean'
    PROVE  /\ \A as \in SUBSET Devices :
                 Child' = [a \in DOMAIN Child \ as |-> Child[a]] => B!Next
           /\ \A a \in Devices \ DOMAIN Child :
                 Child' = [b \in DOMAIN Child \cup {a} |->
                              IF b = a THEN B!New ELSE Child[b]] => B!Next
           /\ \A a \in DOMAIN Child : a \in Devices =>
                 /\ \A h \in Handles \ {NoHandle} :
                       Child' = [Child EXCEPT ![a].handle = h] => B!Next
                 /\ Child' = [Child EXCEPT ![a].named = TRUE] => B!Next
                 /\ \A t \in Types :
                       Child[a].named /\ Child' = [Child EXCEPT ![a].type = t]
                       => B!Next
                 /\ Child[a].type = "PS3_DUALSHOCK"
                    /\ Child' = [Child EXCEPT ![a].outputReport = TRUE] => B!Next
                 /\ Child' = [Child EXCEPT ![a].objects = TRUE] => B!Next
                 /\ Child[a].handle # NoHandle /\ Child[a].objects
                    /\ Child' = [Child EXCEPT ![a].open = TRUE] => B!Next
  BY DEF B!Next, B!Drop, B!Report, B!SetHandle, B!SetName, B!SetType,
         B!SetOutputReport, B!SetObjects, B!Open, B!Kept, B!Present, Clean

\* Children go, one or more or none.
LEMMA GoImplements ==
    ASSUME Clean, Clean', Single(entries), Single(entries'),
           Going(entries, entries')
    PROVE  B!Next
  <1>1. PICK as \in SUBSET Devices :
           Kids(entries') = [a \in DOMAIN Kids(entries) \ as |-> Kids(entries)[a]]
    BY KidsGo
  <1>2. Child' = [a \in DOMAIN Child \ as |-> Child[a]]
    BY <1>1, Mapping, Zenon
  <1> QED BY <1>2, BusSteps, Zenon

\* A child is reported.
LEMMA ComeImplements ==
    ASSUME Clean, Clean', Single(entries), Single(entries'), NEW i \in Ids,
           entries'[i].present, ~IsPresent(entries'[i].addr),
           entries'[i].desc = Zeroed,
           ~entries[i].present, \A j \in Ids \ {i} : entries'[j] = entries[j]
    PROVE  B!Next
  <1>1. Chosen(entries, entries'[i].addr) = {}
    BY DEF Chosen, IsPresent, PresentIds
  <1>. Coming(entries, entries', i)
    BY <1>1 DEF Coming
  <1>2. Shared(Zeroed) = B!New
    BY DEF Shared, Zeroed, B!New
  <1> DEFINE a == entries'[i].addr
  <1>3. /\ a \in Devices \ DOMAIN Kids(entries)
        /\ Kids(entries') = [b \in DOMAIN Kids(entries) \cup {a} |->
              IF b = a THEN Shared(entries'[i].desc) ELSE Kids(entries)[b]]
    BY <1>1, KidComes
  <1>4. Shared(entries'[i].desc) = B!New
    BY <1>2
  <1> HIDE DEF a
  <1>5. Child' = [b \in DOMAIN Child \cup {a} |->
                     IF b = a THEN B!New ELSE Child[b]]
    BY <1>3, <1>4, Mapping, Zenon
  <1>6. a \in Devices \ DOMAIN Child
    BY <1>3, Mapping, Zenon
  <1> QED BY <1>5, <1>6, BusSteps, Zenon

\* One member of the description of a child is set.
Sets(s, t) ==
    \/ \E h \in Handles \ {NoHandle} : t = [s EXCEPT !.handle = h]
    \/ t = [s EXCEPT !.named = TRUE]
    \/ s.named /\ \E c \in Types : t = [s EXCEPT !.type = c]
    \/ s.type = "PS3_DUALSHOCK" /\ t = [s EXCEPT !.outputReport = TRUE]
    \/ t = [s EXCEPT !.objects = TRUE]
    \/ s.handle # NoHandle /\ s.objects /\ t = [s EXCEPT !.open = TRUE]

\* Such a change is a step of the abstract bus.
LEMMA SetImplements ==
    ASSUME Clean, Clean', Single(entries), Single(entries'), NEW i \in Ids,
           entries[i].present,
           \A j \in Ids : /\ entries'[j].present = entries[j].present
                          /\ entries'[j].addr = entries[j].addr,
           \A j \in Ids \ {i} : entries'[j].desc = entries[j].desc,
           Sets(Shared(entries[i].desc), Shared(entries'[i].desc))
    PROVE  B!Next
  <1> DEFINE a == entries[i].addr
             t == Shared(entries'[i].desc)
  <1>1. /\ a \in DOMAIN Child /\ a \in Devices
        /\ Child[a] = Shared(entries[i].desc)
        /\ Child' = [Child EXCEPT ![a] = t]
    BY Mapping, KidChanges DEF Single
  <1>2. Sets(Child[a], t)
    BY <1>1
  <1> HIDE DEF a, t
  <1>3. CASE \E h \in Handles \ {NoHandle} : t = [Child[a] EXCEPT !.handle = h]
    <2>1. PICK h \in Handles \ {NoHandle} : t = [Child[a] EXCEPT !.handle = h]
      BY <1>3
    <2>2. Child' = [Child EXCEPT ![a].handle = h]
      BY <1>1, <2>1, Zenon
    <2> QED BY <1>1, <2>2, BusSteps, Zenon
  <1>4. CASE t = [Child[a] EXCEPT !.named = TRUE]
    <2>1. Child' = [Child EXCEPT ![a].named = TRUE]
      BY <1>1, <1>4, Zenon
    <2> QED BY <1>1, <2>1, BusSteps, Zenon
  <1>5. CASE Child[a].named /\ \E c \in Types : t = [Child[a] EXCEPT !.type = c]
    <2>1. PICK c \in Types : t = [Child[a] EXCEPT !.type = c]
      BY <1>5
    <2>2. Child' = [Child EXCEPT ![a].type = c]
      BY <1>1, <2>1, Zenon
    <2> QED BY <1>1, <1>5, <2>2, BusSteps, Zenon
  <1>6. CASE /\ Child[a].type = "PS3_DUALSHOCK"
             /\ t = [Child[a] EXCEPT !.outputReport = TRUE]
    <2>1. Child' = [Child EXCEPT ![a].outputReport = TRUE]
      BY <1>1, <1>6, Zenon
    <2> QED BY <1>1, <1>6, <2>1, BusSteps, Zenon
  <1>7. CASE t = [Child[a] EXCEPT !.objects = TRUE]
    <2>1. Child' = [Child EXCEPT ![a].objects = TRUE]
      BY <1>1, <1>7, Zenon
    <2> QED BY <1>1, <2>1, BusSteps, Zenon
  <1>8. CASE /\ Child[a].handle # NoHandle /\ Child[a].objects
             /\ t = [Child[a] EXCEPT !.open = TRUE]
    <2>1. Child' = [Child EXCEPT ![a].open = TRUE]
      BY <1>1, <1>8, Zenon
    <2> QED BY <1>1, <1>8, <2>1, BusSteps, Zenon
  <1> QED BY <1>2, <1>3, <1>4, <1>5, <1>6, <1>7, <1>8 DEF Sets

\* A description of the abstract bus.
Six(h, t, n, o, b, p) == [handle |-> h, type |-> t, named |-> n,
                          outputReport |-> o, objects |-> b, open |-> p]

\* Setting one of its Boolean members.
LEMMA SixFacts ==
    ASSUME NEW d
    PROVE  LET n == d.name # Null
               o == d.buffer # Null
               b == d.objs # 0
               S(x, y, z, w) == Six(d.handle, d.type, x, y, z, w)
           IN  /\ Shared(d) = S(n, o, b, d.open)
               /\ [Shared(d) EXCEPT !.named = TRUE] = S(TRUE, o, b, d.open)
               /\ [Shared(d) EXCEPT !.outputReport = TRUE] = S(n, TRUE, b, d.open)
               /\ [Shared(d) EXCEPT !.objects = TRUE] = S(n, o, TRUE, d.open)
               /\ [Shared(d) EXCEPT !.open = TRUE] = S(n, o, b, TRUE)
  <1> DEFINE n == d.name # Null
             o == d.buffer # Null
             b == d.objs # 0
             S(x, y, z, w) == Six(d.handle, d.type, x, y, z, w)
             Facts(x, y, z, w, v) ==
                 /\ [S(x, y, z, w) EXCEPT !.named = v] = S(v, y, z, w)
                 /\ [S(x, y, z, w) EXCEPT !.outputReport = v] = S(x, v, z, w)
                 /\ [S(x, y, z, w) EXCEPT !.objects = v] = S(x, y, v, w)
                 /\ [S(x, y, z, w) EXCEPT !.open = v] = S(x, y, z, v)
  <1>1. \A x : \A y : \A z : \A w : \A v : Facts(x, y, z, w, v)
    BY DEF Six
  <1>2. Facts(n, o, b, d.open, TRUE)
    <2> HIDE DEF Facts
    <2>1. \A y : \A z : \A w : \A v : Facts(n, y, z, w, v)
      BY <1>1, Zenon
    <2>2. \A z : \A w : \A v : Facts(n, o, z, w, v)
      BY <2>1, Zenon
    <2>3. \A w : \A v : Facts(n, o, b, w, v)
      BY <2>2, Zenon
    <2>4. \A v : Facts(n, o, b, d.open, v)
      BY <2>3, Zenon
    <2> QED BY <2>4, Zenon
  <1>3. Shared(d) = S(n, o, b, d.open)
    BY Zenon DEF Shared, Six
  <1> QED BY <1>2, <1>3, Zenon
\* What one of the parties changes in a copy sets one member.
Alike(d, c, m) ==
    \A x \in {"handle", "name", "type", "buffer", "objs", "open"} :
        x # m => c[x] = d[x]

\* Such a change sets a member of the abstract description.
LEMMA SharedSets ==
    ASSUME NEW d \in Descs, NEW c \in Descs
    PROVE  /\ Alike(d, c, "handle") /\ c.handle \in Handles \ {NoHandle}
              => Sets(Shared(d), Shared(c))
           /\ Alike(d, c, "name") /\ c.name # Null
              => Sets(Shared(d), Shared(c))
           /\ Alike(d, c, "type") /\ c.type \in Types /\ d.name # Null
              => Sets(Shared(d), Shared(c))
           /\ Alike(d, c, "buffer") /\ c.buffer # Null /\ d.type = "PS3_DUALSHOCK"
              => Sets(Shared(d), Shared(c))
           /\ Alike(d, c, "objs") /\ c.objs # 0
              => Sets(Shared(d), Shared(c))
           /\ Alike(d, c, "open") /\ c.open /\ d.handle # NoHandle /\ d.objs # 0
              => Sets(Shared(d), Shared(c))
  <1> DEFINE n == d.name # Null
             o == d.buffer # Null
             b == d.objs # 0
             S(x, y, z, w) == Six(d.handle, d.type, x, y, z, w)
  <1>1. ASSUME Alike(d, c, "handle"), c.handle \in Handles \ {NoHandle}
        PROVE  Sets(Shared(d), Shared(c))
    <2>1. /\ c.name = d.name /\ c.type = d.type /\ c.buffer = d.buffer
          /\ c.objs = d.objs /\ c.open = d.open
      BY <1>1 DEF Alike
    <2>2. Shared(c) = [Shared(d) EXCEPT !.handle = c.handle]
      BY <2>1 DEF Shared
    <2> QED BY <1>1, <2>2 DEF Sets
  <1>2. ASSUME Alike(d, c, "name"), c.name # Null
        PROVE  Sets(Shared(d), Shared(c))
    <2>1. /\ c.handle = d.handle /\ c.type = d.type /\ c.buffer = d.buffer
          /\ c.objs = d.objs /\ c.open = d.open
      BY <1>2 DEF Alike
    <2>2. Shared(c) = [Shared(d) EXCEPT !.named = TRUE]
      <3>1. (c.name # Null) = TRUE
        BY <1>2
      <3>2. Shared(c) = S(c.name # Null, o, b, d.open)
        BY <2>1, Zenon DEF Shared, Six
      <3>3. S(c.name # Null, o, b, d.open) = S(TRUE, o, b, d.open)
        BY <3>1, Zenon
      <3> QED BY <3>2, <3>3, SixFacts, Zenon
    <2> QED BY <1>2, <2>2 DEF Sets
  <1>3. ASSUME Alike(d, c, "type"), c.type \in Types /\ d.name # Null
        PROVE  Sets(Shared(d), Shared(c))
    <2>1. /\ c.handle = d.handle /\ c.name = d.name /\ c.buffer = d.buffer
          /\ c.objs = d.objs /\ c.open = d.open
      BY <1>3 DEF Alike
    <2>2. Shared(c) = [Shared(d) EXCEPT !.type = c.type]
      BY <2>1 DEF Shared
    <2>3. Shared(d).named
      BY <1>3 DEF Shared
    <2> QED BY <1>3, <2>2, <2>3 DEF Sets
  <1>4. ASSUME Alike(d, c, "buffer"), c.buffer # Null /\ d.type = "PS3_DUALSHOCK"
        PROVE  Sets(Shared(d), Shared(c))
    <2>1. /\ c.handle = d.handle /\ c.name = d.name /\ c.type = d.type
          /\ c.objs = d.objs /\ c.open = d.open
      BY <1>4 DEF Alike
    <2>2. Shared(c) = [Shared(d) EXCEPT !.outputReport = TRUE]
      <3>1. (c.buffer # Null) = TRUE
        BY <1>4
      <3>2. Shared(c) = S(n, c.buffer # Null, b, d.open)
        BY <2>1, Zenon DEF Shared, Six
      <3>3. S(n, c.buffer # Null, b, d.open) = S(n, TRUE, b, d.open)
        BY <3>1, Zenon
      <3> QED BY <3>2, <3>3, SixFacts, Zenon
    <2>3. Shared(d).type = "PS3_DUALSHOCK"
      BY <1>4 DEF Shared
    <2> QED BY <1>4, <2>2, <2>3 DEF Sets
  <1>5. ASSUME Alike(d, c, "objs"), c.objs # 0
        PROVE  Sets(Shared(d), Shared(c))
    <2>1. /\ c.handle = d.handle /\ c.name = d.name /\ c.type = d.type
          /\ c.buffer = d.buffer /\ c.open = d.open
      BY <1>5 DEF Alike
    <2>2. Shared(c) = [Shared(d) EXCEPT !.objects = TRUE]
      <3>1. (c.objs # 0) = TRUE
        BY <1>5
      <3>2. Shared(c) = S(n, o, c.objs # 0, d.open)
        BY <2>1, Zenon DEF Shared, Six
      <3>3. S(n, o, c.objs # 0, d.open) = S(n, o, TRUE, d.open)
        BY <3>1, Zenon
      <3> QED BY <3>2, <3>3, SixFacts, Zenon
    <2> QED BY <1>5, <2>2 DEF Sets
  <1>6. ASSUME Alike(d, c, "open"), c.open /\ d.handle # NoHandle /\ d.objs # 0
        PROVE  Sets(Shared(d), Shared(c))
    <2>1. /\ c.handle = d.handle /\ c.name = d.name /\ c.type = d.type
          /\ c.buffer = d.buffer /\ c.objs = d.objs
      BY <1>6 DEF Alike
    <2>2. Shared(c) = [Shared(d) EXCEPT !.open = TRUE]
      <3>1. (c.open) = TRUE
        BY <1>6
      <3>2. Shared(c) = S(n, o, b, c.open)
        BY <2>1, Zenon DEF Shared, Six
      <3>3. S(n, o, b, c.open) = S(n, o, b, TRUE)
        BY <3>1, Zenon
      <3> QED BY <3>2, <3>3, SixFacts, Zenon
    <2>3. Shared(d).handle # NoHandle /\ Shared(d).objects
      BY <1>6 DEF Shared
    <2> QED BY <1>6, <2>2, <2>3 DEF Sets
  <1> QED BY <1>1, <1>2, <1>3, <1>4, <1>5, <1>6

\* Nothing is promised once callbacks have overlapped.
LEMMA BreakImplements ==
    ASSUME TypeOK', Shape', ~Clean'
    PROVE  B!Next
  <1>1. Single(entries')
    BY SingleFacts
  <1>2. \A d \in Descs : Shared(d) \in B!Descriptions
    BY DEF Shared, Descs, B!Descriptions
  <1>3. \A a \in DOMAIN Child' : Child'[a] \in B!Descriptions
    <2>1. ASSUME NEW a \in DOMAIN Kids(entries')
          PROVE  Kids(entries')[a] \in B!Descriptions
      <3>1. PICK i \in Ids : entries'[i].present /\ entries'[i].addr = a
        BY <1>1, KidsFacts
      <3>2. Kids(entries')[a] = Shared(entries'[i].desc)
        BY <1>1, <3>1, KidsFacts
      <3>3. entries'[i].desc \in Descs
        BY MemberSet DEF TypeOK, BusTypeOK
      <3> QED BY <1>2, <3>2, <3>3
    <2> QED BY <2>1, Mapping
  <1>4. Child' = [a \in DOMAIN Child' |-> Child'[a]]
        /\ DOMAIN Child' \in SUBSET Devices
    BY Mapping DEF Kids
  <1>5. Child' \in [DOMAIN Child' -> B!Descriptions]
    BY <1>3, <1>4
  <1> QED BY <1>4, <1>5 DEF B!Next, B!Break

-----------------------------------------------------------------------------
(* Each step of the bus is one of the abstract bus.                        *)

\* The interrupt reader's write sets the member of its stage, or reports a
\* child.
LEMMA WriteImplements ==
    ASSUME TypeInv, Shape, Safe, Clean, Clean', Single(entries), Single(entries'),
           IntrWrite
    PROVE  B!Next
  <1> TypeOK /\ IntrShape
    BY DEF TypeInv
  <1> DEFINE a == intr.addr
             d == intr.snap
  <1>1. IntrBusy /\ intr.held /\ a \in Devices
    BY WriteFacts
  <1>2. PICK b \in Pool \cup {Null}, t \in Told :
           /\ Changed(d, b, t) \in Descs /\ AddOrUpdate(a, Changed(d, b, t))
           /\ Allocates => b \in Pool
    BY WriteFacts
  <1>3. d \in Descs /\ Stage \in Stages /\ \A i \in Ids : entries[i] \in Entries
    BY <1>1, BusyFacts, DescTypes
  <1>4. PICK c \in Descs : c = Changed(d, b, t)
    BY <1>2
  <1>5. /\ c.objs = d.objs /\ c.open = d.open
        /\ c.handle = IF Stage = "handle" THEN intr.handle ELSE d.handle
        /\ c.name = IF Stage = "name" THEN b ELSE d.name
        /\ c.type = IF Stage = "type" THEN t ELSE d.type
        /\ c.buffer = IF Stage = "report" /\ d.type = "PS3_DUALSHOCK" THEN b
                      ELSE d.buffer
        /\ Stage = "request" => c = d
        /\ Allocates <=> \/ Stage = "name"
                         \/ Stage = "report" /\ d.type = "PS3_DUALSHOCK"
    BY <1>1, <1>3, <1>4, ChangedFacts
  <1>6. AddOrUpdate(a, c)
    BY <1>2, <1>4
  <1>7. CASE IsPresent(a)
    <2> DEFINE i == IdOf(a)
    <2>1. i \in Ids /\ entries[i].present /\ entries[i].addr = a
      BY <1>7, IdFacts
    <2>2. entries' = [entries EXCEPT ![i].desc = c]
      BY <1>6, <1>7 DEF AddOrUpdate
    <2> HIDE DEF i
    <2>3. /\ \A j \in Ids : /\ entries'[j].present = entries[j].present
                            /\ entries'[j].addr = entries[j].addr
          /\ \A j \in Ids \ {i} : entries'[j].desc = entries[j].desc
          /\ entries'[i].desc = c
      BY <1>3, <2>1, <2>2 DEF TypeOK, BusTypeOK, Entries
    <2>4. d = entries[i].desc
      BY <1>1, <2>1 DEF Safe, Current, IntrCurrent, PresentAll
    <2>5. CASE c = d
      <3>1. Going(entries, entries')
        <4>1. \A j \in Ids : entries'[j].desc = entries[j].desc
          BY <2>3, <2>4, <2>5
        <4> QED BY <2>3, <4>1 DEF Going
      <3> QED BY <3>1, GoImplements
    <2>6. CASE Sets(Shared(d), Shared(c))
      BY <2>1, <2>3, <2>4, <2>6, SetImplements
    <2>7. CASE Stage = "handle"
      <3>1. c.handle \in Handles \ {NoHandle}
        BY <1>1, <1>5, <2>7, BusyFacts, HandlesAssumption
      <3>2. Alike(d, c, "handle")
        BY <1>5, <2>7 DEF Alike
      <3> QED BY <1>3, <2>6, <3>1, <3>2, SharedSets
    <2>8. CASE Stage = "name"
      <3>1. c.name # Null
        BY <1>2, <1>5, <2>8 DEF Pool, Null
      <3>2. Alike(d, c, "name")
        BY <1>5, <2>8 DEF Alike
      <3> QED BY <1>3, <2>6, <3>1, <3>2, SharedSets
    <2>9. CASE Stage = "type"
      <3>1. c.type \in Types
        BY <1>1, <1>5, <2>9, BusyFacts
      <3>2. d.name # Null
        BY <1>1, <2>1, <2>4, <2>9 DEF Safe, Complete, EntryOK, IntrAt
      <3>3. Alike(d, c, "type")
        BY <1>5, <2>9 DEF Alike
      <3> QED BY <1>3, <2>6, <3>1, <3>2, <3>3, SharedSets
    <2>10. CASE Stage = "report" /\ d.type = "PS3_DUALSHOCK"
      <3>1. c.buffer # Null
        BY <1>2, <1>5, <2>10 DEF Pool, Null
      <3>2. Alike(d, c, "buffer")
        BY <1>5, <2>10 DEF Alike
      <3> QED BY <1>3, <2>6, <2>10, <3>1, <3>2, SharedSets
    <2>11. CASE Stage = "report" /\ d.type # "PS3_DUALSHOCK"
      <3>1. c = d
        BY <1>3, <1>5, <2>11 DEF Descs
      <3> QED BY <2>5, <3>1
    <2> QED BY <1>3, <1>5, <2>5, <2>7, <2>8, <2>9, <2>10, <2>11 DEF Stages
  <1>8. CASE ~IsPresent(a)
    <2>1. \A i \in PresentAll : entries[i].addr # a
      BY <1>8 DEF IsPresent, PresentIds, PresentAll
    <2>2. c = Zeroed
      BY <1>1, <1>5, <2>1 DEF Safe, Current, IntrCurrent
    <2>3. PICK i \in Ids :
             /\ entries[i] = Free
             /\ entries' = [entries EXCEPT ![i] =
                    [addr |-> a, present |-> TRUE, pdo |-> "none", desc |-> c,
                     ticking |-> FALSE]]
      BY <1>6, <1>8 DEF AddOrUpdate
    <2>4. /\ entries'[i].present /\ entries'[i].addr = a /\ entries'[i].desc = Zeroed
          /\ ~entries[i].present /\ \A j \in Ids \ {i} : entries'[j] = entries[j]
      BY <2>2, <2>3 DEF TypeOK, BusTypeOK, Free
    <2> QED BY <1>8, <2>4, ComeImplements
  <1> QED BY <1>7, <1>8

\* The bulk reader opens the channels or changes nothing.
LEMMA WriteBackImplements ==
    ASSUME TypeInv, Shape, Safe, Clean, Clean', Single(entries), Single(entries'),
           BulkWriteBack
    PROVE  B!Next
  <1> TypeOK
    BY DEF TypeInv
  <1>1. BulkBusy /\ AddOrUpdate(bulk.addr, bulk.snap)
    BY DEF BulkWriteBack, BulkBusy, Clean
  <1>2. PICK i \in Ids :
              /\ entries[i].present /\ entries[i].addr = bulk.addr
              /\ i = IdOf(bulk.addr) /\ IsPresent(bulk.addr)
              /\ entries[i].desc.objs = i
              /\ entries[i].desc.handle # NoHandle
              /\ \/ bulk.snap = entries[i].desc
                 \/ bulk.snap = [entries[i].desc EXCEPT !.open = TRUE]
    BY <1>1, BulkChild
  <1>3. entries' = [entries EXCEPT ![i].desc = bulk.snap]
    BY <1>1, <1>2 DEF AddOrUpdate
  <1>4. bulk.snap \in Descs /\ \A j \in Ids : entries[j] \in Entries /\ entries[j].desc \in Descs
    BY DescTypes
  <1>5. /\ \A j \in Ids : /\ entries'[j].present = entries[j].present
                          /\ entries'[j].addr = entries[j].addr
        /\ \A j \in Ids \ {i} : entries'[j].desc = entries[j].desc
        /\ entries'[i].desc = bulk.snap
    BY <1>3, <1>4 DEF TypeOK, BusTypeOK, Entries
  <1>6. CASE bulk.snap = entries[i].desc
    <2>1. \A j \in Ids : entries'[j].desc = entries[j].desc
      BY <1>5, <1>6
    <2>2. Going(entries, entries')
      BY <1>5, <2>1 DEF Going
    <2> QED BY <2>2, GoImplements
  <1>7. CASE bulk.snap = [entries[i].desc EXCEPT !.open = TRUE]
    <2>1. PICK d \in Descs : d = entries[i].desc
      BY <1>4
    <2>2. PICK c \in Descs : c = bulk.snap
      BY <1>4
    <2>3. c.open /\ Alike(d, c, "open")
      BY <1>7, <2>1, <2>2 DEF Alike, Descs
    <2>4. d.handle # NoHandle /\ d.objs # 0
      BY <1>2, <2>1 DEF Ids
    <2>5. Sets(Shared(d), Shared(c))
      BY <2>3, <2>4, SharedSets
    <2>6. Sets(Shared(entries[i].desc), Shared(entries'[i].desc))
      BY <1>5, <2>1, <2>2, <2>5
    <2> QED BY <1>2, <1>5, <2>6, SetImplements
  <1> QED BY <1>2, <1>6, <1>7

\* The creation of the PDO sets the queue and the timer.
LEMMA PnpEndImplements ==
    ASSUME TypeInv, Shape, Safe, Clean, Clean', Single(entries), Single(entries'),
           PnpEnd
    PROVE  B!Next
  <1> TypeOK
    BY DEF TypeInv
  <1>1. PICK i \in Ids : i = pnp.id /\ entries[i].present
                         /\ pnp.snap = entries[i].desc
    BY PnpChild DEF PnpEnd
  <1>2. entries' = [entries EXCEPT ![i].desc = [pnp.snap EXCEPT !.objs = i],
                                   ![i].pdo = "created"]
    BY <1>1 DEF PnpEnd
  <1>3. \A j \in Ids : entries[j] \in Entries /\ entries[j].desc \in Descs
    BY DescTypes
  <1>4. /\ \A j \in Ids : /\ entries'[j].present = entries[j].present
                          /\ entries'[j].addr = entries[j].addr
        /\ \A j \in Ids \ {i} : entries'[j].desc = entries[j].desc
        /\ entries'[i].desc = [pnp.snap EXCEPT !.objs = i]
    BY <1>2, <1>3 DEF TypeOK, BusTypeOK, Entries
  <1>5. PICK d \in Descs : d = entries[i].desc
    BY <1>3
  <1>6. PICK c \in Descs : c = [d EXCEPT !.objs = i]
    BY MemberSet
  <1>7. c.objs # 0 /\ Alike(d, c, "objs")
    BY <1>6 DEF Alike, Descs, Ids
  <1>8. Sets(Shared(d), Shared(c))
    BY <1>7, SharedSets
  <1>9. Sets(Shared(entries[i].desc), Shared(entries'[i].desc))
    BY <1>1, <1>4, <1>5, <1>6, <1>8
  <1> QED BY <1>1, <1>4, <1>9, SetImplements

\* Every step of the bus is a step of the abstract bus.
LEMMA StepImplements ==
    ASSUME TypeInv, Shape, CleanInv, TypeInv', Shape', [Next]_vars
    PROVE  B!Next
  <1> USE DEF bus, radio, host, excuses, history
  <1> TypeOK /\ Single(entries) /\ Single(entries')
    BY SingleFacts DEF TypeInv
  <1>1. CASE ~Clean'
    BY <1>1, BreakImplements DEF TypeInv
  <1>2. CASE Clean'
    <2>1. Clean /\ Safe
      BY <1>2, CleanBack DEF CleanInv
    <2>2. CASE Going(entries, entries')
      BY <1>2, <2>1, <2>2, GoImplements
    <2>3. CASE UNCHANGED entries
      <3>1. Going(entries, entries')
        BY <2>3 DEF Going
      <3> QED BY <2>2, <3>1
    <2>4. \A j \in Ids : entries[j] \in Entries
      BY DescTypes
    <2>5. CASE Radio
      BY <2>3, <2>5
         DEF Radio, RequestLink, LinkUp, LinkFails, LinkDown, NameAnswer, SendPacket
    <2>6. CASE Interrupt /\ ~DisconnectionComplete /\ ~IntrWrite
      BY <2>3, <2>6
         DEF Interrupt, ConnectionRequest, ConnectionComplete, RemoteNameComplete,
             Handle, ConnectionFailed, IntrSkip, IntrRetrieve, IntrWriteFails,
             IntrAllocationFails
    <2>7. CASE DisconnectionComplete
      <3> DEFINE h == Head(events).handle
      <3>1. CASE FoundByHandle(h)
        <4>1. PICK i \in Ids : entries' = [entries EXCEPT ![i].present = FALSE]
          BY <2>7, <3>1, LookupFacts
             DEF DisconnectionComplete, MarkMissing, TypeOK, BusTypeOK
        <4>2. Going(entries, entries')
          BY <2>4, <4>1 DEF Going, TypeOK, BusTypeOK, Entries
        <4> QED BY <2>2, <4>2
      <3>2. CASE ~FoundByHandle(h)
        BY <2>3, <2>7, <3>2 DEF DisconnectionComplete
      <3> QED BY <3>1, <3>2
    <2>8. CASE IntrWrite
      BY <1>2, <2>1, <2>8, WriteImplements
    <2>9. CASE BulkWriteBack
      BY <1>2, <2>1, <2>9, WriteBackImplements
    <2>10. CASE BulkSignal
      <3>1. UNCHANGED entries
            \/ entries' = [entries EXCEPT ![bulk.snap.objs].ticking = TRUE]
        BY <2>10 DEF BulkSignal
      <3>2. \A j \in Ids : /\ entries'[j].present = entries[j].present
                           /\ entries'[j].addr = entries[j].addr
                           /\ entries'[j].desc = entries[j].desc
        BY <2>4, <3>1 DEF TypeOK, BusTypeOK, Entries
      <3>3. Going(entries, entries')
        BY <3>2 DEF Going
      <3> QED BY <2>2, <3>3
    <2>11. CASE Bulk /\ ~BulkWriteBack /\ ~BulkSignal
      BY <2>3, <2>11 DEF Bulk, BulkLookup, BulkDrop, BulkReport
    <2>12. CASE PnpEnd
      BY <1>2, <2>1, <2>12, PnpEndImplements
    <2>13. CASE PnpFails \/ \E i \in Ids : Cleanup(i)
      <3>1. PICK i \in Ids : entries' = [entries EXCEPT ![i] = Free]
        BY <2>13, DescTypes DEF PnpFails, Cleanup
      <3>2. \A j \in Ids : entries'[j] = entries[j] \/ entries'[j] = Free
        BY <3>1 DEF TypeOK, BusTypeOK
      <3>3. Going(entries, entries')
        BY <3>2 DEF Going, Free
      <3> QED BY <2>2, <3>3
    <2>14. CASE \E i \in Ids : PnpBegin(i) \/ TimerBegin(i) \/ TimerSend(i)
      BY <2>3, <2>14 DEF PnpBegin, TimerBegin, TimerSend
    <2>15. CASE D0ExitScan \/ RemoveDevice
      <3>1. EmptyScan
        BY <2>15 DEF D0ExitScan, RemoveDevice
      <3>2. \A j \in Ids : ~entries'[j].present
        BY <2>4, <3>1 DEF EmptyScan, Entries
      <3>3. Going(entries, entries')
        BY <3>2 DEF Going
      <3> QED BY <2>2, <3>3
    <2>16. CASE D0ExitStop \/ Resume \/ Replug
      BY <2>3, <2>16 DEF D0ExitStop, Resume, Replug
    <2>17. CASE UNCHANGED vars
      BY <2>3, <2>17 DEF vars
    <2>18. Interrupt => \/ Interrupt /\ ~DisconnectionComplete /\ ~IntrWrite
                        \/ DisconnectionComplete \/ IntrWrite
      OBVIOUS
    <2>19. Bulk => \/ Bulk /\ ~BulkWriteBack /\ ~BulkSignal
                   \/ BulkWriteBack \/ BulkSignal
      OBVIOUS
    <2> QED
      BY <2>5, <2>6, <2>7, <2>8, <2>9, <2>10, <2>11, <2>12, <2>13, <2>14, <2>15,
         <2>16, <2>17, <2>18, <2>19 DEF Next, Children, Power
  <1> QED BY <1>1, <1>2

\* At first there is no child.
LEMMA InitImplements == Init => B!Init
  <1> SUFFICES ASSUME Init PROVE B!Init
    OBVIOUS
  <1>1. Clean
    BY DEF Init, Clean
  <1>2. \A a \in Devices : ~IsPresent(a)
    BY DEF Init, Free, IsPresent, PresentIds
  <1>3. {d \in Devices : IsPresent(d)} = {}
    BY <1>2
  <1>4. Child = [a \in {} |-> Shared(DescOf(a))]
    BY <1>3, Zenon DEF Child
  <1>5. Child = [a \in {} |-> B!New]
    BY <1>4
  <1> QED BY <1>1, <1>5 DEF B!Init

\* The copies that are retrieved, changed and written back implement the
\* abstract bus, which sets one member of one description in a step.
THEOREM BusCorrect == Spec => ImplementsBus
  <1>1. TypeInv /\ Shape /\ CleanInv /\ (TypeInv /\ Shape /\ CleanInv)' /\ [Next]_vars
        => [B!Next]_B!vars
    BY StepImplements
  <1> QED BY <1>1, InitImplements, CleanCorrect, PTL DEF Spec, ImplementsBus, B!Spec

-----------------------------------------------------------------------------
(* What the bus driver inherits from the abstract bus: its state is read    *)
(* through the refinement mapping.                                          *)

LEMMA BusNewType == B!New \in B!Descriptions
  BY DEF B!New, B!Descriptions

LEMMA BusInit == B!Init => B!TypeOK /\ B!OpenIsUsable
  BY DEF B!Init, B!TypeOK, B!Present, B!OpenIsUsable

LEMMA BusMembers ==
    ASSUME NEW D \in B!Descriptions
    PROVE  /\ \A h \in Handles : [D EXCEPT !.handle = h] \in B!Descriptions
           /\ \A t \in Types : [D EXCEPT !.type = t] \in B!Descriptions
           /\ [D EXCEPT !.named = TRUE] \in B!Descriptions
           /\ [D EXCEPT !.outputReport = TRUE] \in B!Descriptions
           /\ [D EXCEPT !.objects = TRUE] \in B!Descriptions
           /\ [D EXCEPT !.open = TRUE] \in B!Descriptions
  BY DEF B!Descriptions

\* A child's description is replaced by another.
LEMMA BusReplaced ==
    ASSUME B!TypeOK, NEW a \in B!Present, NEW D \in B!Descriptions, B!Kept,
           Child' = [Child EXCEPT ![a] = D]
    PROVE  B!TypeOK'
  BY DEF B!TypeOK, B!Present, B!Kept

LEMMA BusTypeStep == B!TypeOK /\ [B!Next]_B!vars => B!TypeOK'
  <1> SUFFICES ASSUME B!TypeOK, [B!Next]_B!vars PROVE B!TypeOK'
      OBVIOUS
  <1>a. ASSUME NEW a \in B!Present PROVE Child[a] \in B!Descriptions
      BY <1>a DEF B!TypeOK, B!Present
  <1>1. ASSUME NEW a \in Devices, B!Report(a) PROVE B!TypeOK'
      BY <1>1, BusNewType DEF B!Report, B!Kept, B!TypeOK, B!Present
  <1>2. ASSUME NEW a \in Devices, B!SetHandle(a) PROVE B!TypeOK'
      BY <1>2, <1>a, BusMembers, BusReplaced DEF B!SetHandle
  <1>3. ASSUME NEW a \in Devices, B!SetName(a) PROVE B!TypeOK'
      BY <1>3, <1>a, BusMembers, BusReplaced DEF B!SetName
  <1>4. ASSUME NEW a \in Devices, B!SetType(a) PROVE B!TypeOK'
      BY <1>4, <1>a, BusMembers, BusReplaced DEF B!SetType
  <1>5. ASSUME NEW a \in Devices, B!SetOutputReport(a) PROVE B!TypeOK'
      BY <1>5, <1>a, BusMembers, BusReplaced DEF B!SetOutputReport
  <1>6. ASSUME NEW a \in Devices, B!SetObjects(a) PROVE B!TypeOK'
      BY <1>6, <1>a, BusMembers, BusReplaced DEF B!SetObjects
  <1>7. ASSUME NEW a \in Devices, B!Open(a) PROVE B!TypeOK'
      BY <1>7, <1>a, BusMembers, BusReplaced DEF B!Open
  <1>8. ASSUME NEW as \in SUBSET Devices, B!Drop(as) PROVE B!TypeOK'
      BY <1>8 DEF B!Drop, B!Kept, B!TypeOK, B!Present
  <1>9. CASE B!Break
      BY <1>9 DEF B!Break, B!TypeOK, B!Present
  <1>10. CASE UNCHANGED B!vars
      BY <1>10 DEF B!vars, B!TypeOK, B!Present
  <1> QED
      BY <1>1, <1>2, <1>3, <1>4, <1>5, <1>6, <1>7, <1>8, <1>9, <1>10 DEF B!Next

LEMMA BusUsableStep == B!TypeOK /\ B!OpenIsUsable /\ [B!Next]_B!vars => B!OpenIsUsable'
  <1> SUFFICES ASSUME B!TypeOK, B!OpenIsUsable, [B!Next]_B!vars PROVE B!OpenIsUsable'
      OBVIOUS
  <1> USE DEF B!TypeOK, B!Present, B!OpenIsUsable, B!Kept, B!Descriptions
  <1>1. ASSUME NEW a \in Devices, B!Report(a) PROVE B!OpenIsUsable'
      BY <1>1 DEF B!Report, B!New
  <1>2. ASSUME NEW a \in Devices, B!SetHandle(a) PROVE B!OpenIsUsable'
      BY <1>2 DEF B!SetHandle
  <1>3. ASSUME NEW a \in Devices, B!SetName(a) PROVE B!OpenIsUsable'
      BY <1>3 DEF B!SetName
  <1>4. ASSUME NEW a \in Devices, B!SetType(a) PROVE B!OpenIsUsable'
      BY <1>4 DEF B!SetType
  <1>5. ASSUME NEW a \in Devices, B!SetOutputReport(a) PROVE B!OpenIsUsable'
      BY <1>5 DEF B!SetOutputReport
  <1>6. ASSUME NEW a \in Devices, B!SetObjects(a) PROVE B!OpenIsUsable'
      BY <1>6 DEF B!SetObjects
  <1>7. ASSUME NEW a \in Devices, B!Open(a) PROVE B!OpenIsUsable'
      BY <1>7 DEF B!Open
  <1>8. ASSUME NEW as \in SUBSET Devices, B!Drop(as) PROVE B!OpenIsUsable'
      BY <1>8 DEF B!Drop
  <1>9. CASE B!Break
      BY <1>9 DEF B!Break
  <1>10. CASE UNCHANGED B!vars
      BY <1>10 DEF B!vars
  <1> QED
      BY <1>1, <1>2, <1>3, <1>4, <1>5, <1>6, <1>7, <1>8, <1>9, <1>10 DEF B!Next

\* In every implementation of the abstract bus a child whose channels are open
\* has its handle, its queue and its timer.
LEMMA BusUsable == B!Spec => [](B!TypeOK /\ B!OpenIsUsable)
  <1>1. B!TypeOK /\ B!OpenIsUsable /\ [B!Next]_B!vars => (B!TypeOK /\ B!OpenIsUsable)'
      BY BusTypeStep, BusUsableStep
  <1> QED
      BY BusInit, <1>1, PTL DEF B!Spec

\* As long as callbacks do not overlap on a child, a child whose channels the
\* bulk reader has opened has the handle it was found by and the queue and the
\* timer that its reports need (Bulkrwr.c:145, WireBus.c:256-310).
THEOREM UsableCorrect == Spec => []B!OpenIsUsable
  BY BusCorrect, BusUsable, PTL DEF ImplementsBus
=============================================================================
