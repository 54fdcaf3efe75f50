---------------------------- MODULE HidIo_proofs -----------------------------
(***************************************************************************)
(* Who owns a request, and the order in which reads are answered, for any  *)
(* number of requests and reports, every type of child and both modes.     *)
(***************************************************************************)
EXTENDS HidIo, FiniteSetTheorems, SequenceTheorems, TLAPS

\* The steps of the input report queue: a request enters at the end, ...
LEMMA AppendFacts ==
    ASSUME NEW S, NEW q \in Seq(S), NEW m \in S
    PROVE  /\ Append(q, m) \in Seq(S)
           /\ Len(q) \in Nat /\ DOMAIN q = 1..Len(q)
           /\ DOMAIN Append(q, m) = 1..(Len(q) + 1)
           /\ Append(q, m)[Len(q) + 1] = m
           /\ \A i \in 1..Len(q) : Append(q, m)[i] = q[i]
  OBVIOUS

\* ... leaves at the front, ...
LEMMA TailFacts ==
    ASSUME NEW S, NEW q \in Seq(S), q # <<>>
    PROVE  /\ Tail(q) \in Seq(S) /\ Head(q) \in S /\ Head(q) = q[1]
           /\ Len(q) \in Nat /\ 1 \in DOMAIN q /\ DOMAIN q = 1..Len(q)
           /\ DOMAIN Tail(q) = 1..(Len(q) - 1)
           /\ \A i \in 1..(Len(q) - 1) : Tail(q)[i] = q[i + 1]
  OBVIOUS

\* The places of a sequence.
LEMMA DomainFact ==
    ASSUME NEW S, NEW q \in Seq(S), NEW n, Len(q) = n
    PROVE  DOMAIN q = 1..n
  OBVIOUS

\* ... or is taken out at place p: the others keep their order.
Without(q, p) == SubSeq(q, 1, p - 1) \o SubSeq(q, p + 1, Len(q))
Moved(i, p) == IF i < p THEN i ELSE i + 1

LEMMA WithoutFacts ==
    ASSUME NEW S, NEW q \in Seq(S), NEW p \in DOMAIN q
    PROVE  /\ Without(q, p) \in Seq(S)
           /\ Len(q) \in Nat /\ DOMAIN q = 1..Len(q)
           /\ DOMAIN Without(q, p) = 1..(Len(q) - 1)
           /\ \A i \in 1..(Len(q) - 1) :
                 Moved(i, p) \in DOMAIN q /\ Without(q, p)[i] = q[Moved(i, p)]
  <1> DEFINE a == SubSeq(q, 1, p - 1)
             b == SubSeq(q, p + 1, Len(q))
  <1>1. Len(q) \in Nat /\ p \in 1..Len(q) /\ DOMAIN q = 1..Len(q)
    OBVIOUS
  <1>2. /\ a \in Seq(S) /\ Len(a) = p - 1
        /\ \A i \in 1..(p - 1) : a[i] = q[i]
    BY <1>1, SubSeqProperties
  <1>3. /\ b \in Seq(S) /\ Len(b) = Len(q) - p
        /\ \A i \in 1..(Len(q) - p) : b[i] = q[p + i]
    BY <1>1, SubSeqProperties
  <1> HIDE DEF a, b
  <1>4. /\ a \o b \in Seq(S) /\ Len(a \o b) = Len(q) - 1
        /\ \A i \in 1..(Len(q) - 1) :
              (a \o b)[i] = IF i <= p - 1 THEN a[i] ELSE b[i - (p - 1)]
    <2>1. Len(a) + Len(b) = Len(q) - 1 /\ Len(a) = p - 1
      BY <1>1, <1>2, <1>3
    <2>2. /\ a \o b \in Seq(S) /\ Len(a \o b) = Len(a) + Len(b)
          /\ \A i \in 1..(Len(a) + Len(b)) :
                (a \o b)[i] = IF i <= Len(a) THEN a[i] ELSE b[i - Len(a)]
      BY <1>2, <1>3, ConcatProperties
    <2> QED BY <2>1, <2>2
  <1>5. ASSUME NEW i \in 1..(Len(q) - 1)
        PROVE  Moved(i, p) \in DOMAIN q /\ (a \o b)[i] = q[Moved(i, p)]
    <2>1. CASE i < p
      BY <1>1, <1>2, <1>4, <2>1 DEF Moved
    <2>2. CASE ~(i < p)
      <3>1. i - (p - 1) \in 1..(Len(q) - p) /\ p + (i - (p - 1)) = i + 1
        BY <1>1, <2>2
      <3>2. b[i - (p - 1)] = q[i + 1] /\ i + 1 \in DOMAIN q
        BY <1>1, <1>3, <3>1
      <3> QED BY <1>1, <1>4, <2>2, <3>2 DEF Moved
    <2> QED BY <2>1, <2>2
  <1>6. DOMAIN (a \o b) = 1..(Len(q) - 1)
    BY <1>4, DomainFact
  <1> QED BY <1>1, <1>4, <1>5, <1>6 DEF Without, a, b

-----------------------------------------------------------------------------
(* Every request has one owner, and the routine that dispatched it knows   *)
(* whether that is the driver still.                                       *)

Forwarded == {q \in Requests : ticket[q] # 0}

Owned == \A r \in Requests :
    /\ owner[r] = "class" => status[r] = "returned"
    /\ owner[r] = "driver" <=> status[r] \in Dispatching \ {"PENDING"}
    /\ completions[r] = IF owner[r] = "done" THEN 1 ELSE 0
    /\ owner[r] = "queue" <=> \E i \in DOMAIN queue : queue[i] = r
    /\ owner[r] = "reader" <=> reader.request = r
    /\ owner[r] = "class" \/ status[r] = "entered" => ticket[r] = 0
QueuedOnce == \A i, j \in DOMAIN queue : queue[i] = queue[j] => i = j
Counted == \A r \in Requests : ticket[r] <= Cardinality(Forwarded)

Sizes == /\ IsFiniteSet(Forwarded) /\ Cardinality(Forwarded) \in Nat
         /\ Cardinality(Requests) \in Nat
         /\ Cardinality(Forwarded) <= Cardinality(Requests)

\* There are at most as many forwarded requests as requests.
LEMMA SizesHold == Sizes
  BY RequestsAssumption, FS_Subset, FS_CardinalityType DEF Forwarded, Sizes

\* Forwarding one more request counts one more.
LEMMA ForwardCounts ==
    ASSUME TypeOK, NEW r \in Requests, ticket[r] = 0, Forward(r)
    PROVE  Cardinality(Forwarded)' = Cardinality(Forwarded) + 1
           /\ ticket' = [ticket EXCEPT ![r] = Cardinality(Forwarded) + 1]
           /\ Cardinality(Forwarded) + 1 <= Cardinality(Requests)
  <1>1. ticket' = [ticket EXCEPT ![r] = Cardinality(Forwarded) + 1]
    BY DEF Forward, Forwarded
  <1>2. Forwarded' = Forwarded \cup {r}
    <2> DEFINE n == Cardinality(Forwarded) + 1
    <2>1. n # 0 /\ n \in Nat
      BY SizesHold DEF Sizes
    <2>2. ticket \in [Requests -> Nat]
      BY SizesHold DEF TypeOK, Sizes
    <2>3. ticket' = [ticket EXCEPT ![r] = n]
      BY <1>1
    <2> HIDE DEF n
    <2>4. \A q \in Requests : ticket'[q] # 0 <=> ticket[q] # 0 \/ q = r
      BY <2>1, <2>2, <2>3
    <2> QED BY <2>4 DEF Forwarded
  <1>3. r \notin Forwarded
    BY DEF Forwarded
  <1>4. Cardinality(Forwarded \cup {r}) = Cardinality(Forwarded) + 1
    BY <1>3, SizesHold, FS_AddElement DEF Sizes
  <1>5. Cardinality(Forwarded \cup {r}) <= Cardinality(Requests)
    <2>1. Forwarded \cup {r} \subseteq Requests
      BY DEF Forwarded
    <2> QED BY <2>1, RequestsAssumption, FS_Subset
  <1> QED BY <1>1, <1>2, <1>4, <1>5

\* What is answered at once is answered with a status of the routine.
LEMMA ImmediateType ==
    ASSUME NEW q
    PROVE  /\ Immediate(q) \in Outcomes
           /\ Immediate(q).report = 0
           /\ Immediate(q).status \in Dispatching \ {"entered", "PENDING"}
  <1>1. \A s \in Dispatching \ {"entered", "PENDING"} :
           /\ Done(s) = [status |-> s, report |-> 0, id |-> 0]
           /\ Done(s) \in Outcomes /\ Done(s).report = 0 /\ Done(s).status = s
    BY ReportsAssumption DEF Done, NoOutcome, Outcomes, Statuses, Dispatching
  <1>2. \E s \in Dispatching \ {"entered", "PENDING"} : Immediate(q) = Done(s)
    BY DEF Immediate, CopyDescriptor, CopyString, GetString, GetIndexedString,
           GetFeature, SetFeature, Dispatching
  <1> QED BY <1>1, <1>2

LEMMA DoneType ==
    \A s \in Statuses : Done(s) \in Outcomes /\ Done(s).report = 0
  BY ReportsAssumption DEF Done, NoOutcome, Outcomes

\* The reader's next delivery.
LEMMA NextIdType ==
    ASSUME TypeOK
    PROVE  /\ NextId(reader.id) \in [report : 0..MaxReports, id : 0..2,
                                     request : Requests \cup {Nobody}]
           /\ NextId(reader.id).request = Nobody
           /\ \/ NextId(reader.id).id = 0 /\ NextId(reader.id).report = 0
              \/ /\ reader.id = 1 /\ NextId(reader.id).id = 2
                 /\ NextId(reader.id).report = reader.report
  <1>1. reader.report \in 0..MaxReports /\ 2 \in 0..2 /\ 0 \in 0..2
        /\ 0 \in 0..MaxReports
    BY ReportsAssumption DEF TypeOK
  <1> QED BY <1>1 DEF NextId, ReaderIdle

\* Whoever has a request completes it once.
LEMMA CompleteType ==
    ASSUME TypeOK, Owned, NEW r \in Requests, NEW o \in Outcomes \cup {NoOutcome},
           Complete(r, o), owner[r] # "done"
    PROVE  /\ owner' \in [Requests -> {"class", "queue", "driver", "reader",
                                        "done"}]
           /\ outcome' \in [Requests -> Outcomes \cup {NoOutcome}]
           /\ completions' \in [Requests -> 0..1]
           /\ owner'[r] = "done" /\ completions'[r] = 1
           /\ outcome'[r] = o
           /\ \A q \in Requests \ {r} : /\ owner'[q] = owner[q]
                                         /\ completions'[q] = completions[q]
                                         /\ outcome'[q] = outcome[q]
  BY DEF TypeOK, Owned, Complete

OwnedInv == TypeOK /\ Owned /\ QueuedOnce /\ Counted

\* Types and owners, one action after the other.
LEMMA OwnedStep ==
    ASSUME OwnedInv, [Next]_vars
    PROVE  OwnedInv'
  <1> TypeOK /\ Owned /\ QueuedOnce /\ Counted
    BY DEF OwnedInv
  <1> SUFFICES TypeOK' /\ Owned' /\ QueuedOnce' /\ Counted'
    BY DEF OwnedInv
  <1>s. queue \in Seq(Requests)
    BY DEF TypeOK
  <1>n. Nobody \notin Requests
    BY RequestsAssumption
  <1>1. ASSUME NEW r \in Requests, NEW q \in Asks, Submit(r, q)
        PROVE  TypeOK' /\ Owned' /\ QueuedOnce' /\ Counted'
    <2>1. TypeOK'
      BY <1>1 DEF Submit, TypeOK, Dispatching
    <2>2. Owned'
      BY <1>1, <1>n DEF Submit, TypeOK, Owned, Dispatching
    <2>3. QueuedOnce' /\ Counted'
      BY <1>1 DEF Submit, QueuedOnce, Counted, Forwarded
    <2> QED BY <2>1, <2>2, <2>3
  <1>2. ASSUME NEW r \in Requests, RetrieveFails(r)
        PROVE  TypeOK' /\ Owned' /\ QueuedOnce' /\ Counted'
    <2>1. owner[r] = "driver" /\ Done("UNSUCCESSFUL") \in Outcomes
      BY <1>2, DoneType DEF RetrieveFails, Owned, Dispatching, Statuses
    <2>2. TypeOK'
      BY <1>2, <2>1, CompleteType DEF RetrieveFails, TypeOK
    <2>3. Owned'
      BY <1>2, <2>1, CompleteType DEF RetrieveFails, TypeOK, Owned, Dispatching
    <2>4. QueuedOnce' /\ Counted'
      BY <1>2 DEF RetrieveFails, QueuedOnce, Counted, Forwarded
    <2> QED BY <2>2, <2>3, <2>4
  <1>3. ASSUME NEW r \in Requests, Forward(r)
        PROVE  TypeOK' /\ Owned' /\ QueuedOnce' /\ Counted'
    <2>1. owner[r] = "driver" /\ ticket[r] = 0
      BY <1>3 DEF Forward, Owned, Dispatching
    <2> DEFINE n == Cardinality(Forwarded)
    <2>2. /\ Cardinality(Forwarded)' = n + 1 /\ ticket' = [ticket EXCEPT ![r] = n + 1]
          /\ n + 1 \in 0..Cardinality(Requests) /\ n \in Nat
          /\ Cardinality(Requests) \in Nat
      BY <1>3, <2>1, ForwardCounts, SizesHold DEF Sizes
    <2>3. /\ queue' \in Seq(Requests) /\ DOMAIN queue' = 1..(Len(queue) + 1)
          /\ queue'[Len(queue) + 1] = r /\ Len(queue) \in Nat
          /\ DOMAIN queue = 1..Len(queue)
          /\ \A i \in 1..Len(queue) : queue'[i] = queue[i]
      BY <1>3, <1>s, AppendFacts DEF Forward
    <2>4. \A i \in DOMAIN queue' : i \in DOMAIN queue \/ i = Len(queue) + 1
      BY <2>3
    <2>5. DOMAIN queue \subseteq DOMAIN queue' /\ Len(queue) + 1 \in DOMAIN queue'
      BY <2>3
    <2> HIDE DEF n
    <2>6. TypeOK'
      BY <1>3, <2>2, <2>3 DEF Forward, TypeOK, Dispatching
    <2>7. Owned'
      <3>1. \A x \in Requests \ {r} :
               (\E i \in DOMAIN queue' : queue'[i] = x)
                   <=> \E i \in DOMAIN queue : queue[i] = x
        BY <2>3, <2>4, <2>5
      <3>2. \E i \in DOMAIN queue' : queue'[i] = r
        BY <2>3, <2>5
      <3>3. reader.request # r
        BY <2>1 DEF Owned
      <3>4. \A x \in Requests \ {r} : /\ owner'[x] = owner[x]
                                     /\ status'[x] = status[x]
                                     /\ completions'[x] = completions[x]
                                     /\ ticket'[x] = ticket[x]
        BY <1>3, <2>2 DEF Forward, TypeOK
      <3>5. /\ owner'[r] = "queue" /\ status'[r] = "PENDING"
            /\ completions'[r] = completions[r] /\ reader' = reader
        BY <1>3 DEF Forward, TypeOK
      <3> QED BY <2>1, <3>1, <3>2, <3>3, <3>4, <3>5 DEF Owned, Dispatching
    <2>8. QueuedOnce'
      <3>1. \A i \in DOMAIN queue : queue[i] # r
        BY <2>1 DEF Owned
      <3> QED BY <2>3, <2>4, <3>1 DEF QueuedOnce
    <2>9. Counted'
      <3>1. \A x \in Requests : ticket[x] \in Nat /\ ticket[x] <= n
        BY <2>2 DEF Counted, TypeOK, n
      <3>2. \A x \in Requests : ticket'[x] = ticket[x] \/ ticket'[x] = n + 1
        BY <2>2 DEF TypeOK
      <3>3. \A x \in Requests : ticket'[x] <= n + 1
        BY <2>2, <3>1, <3>2
      <3> QED BY <2>2, <3>3 DEF Counted
    <2> QED BY <2>6, <2>7, <2>8, <2>9
  <1>4. ASSUME NEW r \in Requests, ForwardFails(r) \/ Answer(r)
        PROVE  TypeOK' /\ Owned' /\ QueuedOnce' /\ Counted'
    <2>1. PICK o \in Outcomes :
             /\ outcome' = [outcome EXCEPT ![r] = o]
             /\ \E s \in Dispatching \ {"entered", "PENDING"} :
                   status' = [status EXCEPT ![r] = s]
      BY <1>4, ImmediateType, DoneType DEF ForwardFails, Answer, Statuses,
                                           Dispatching
    <2>2. status[r] = "entered"
          /\ UNCHANGED <<pdo, owner, ask, completions, ticket, queue, reader,
                         arrived>>
      BY <1>4 DEF ForwardFails, Answer
    <2>3. TypeOK'
      BY <2>1, <2>2 DEF TypeOK
    <2>4. Owned'
      BY <2>1, <2>2 DEF TypeOK, Owned, Dispatching
    <2>5. QueuedOnce' /\ Counted'
      BY <2>2 DEF QueuedOnce, Counted, Forwarded
    <2> QED BY <2>3, <2>4, <2>5
  <1>5. ASSUME NEW r \in Requests, Return(r)
        PROVE  TypeOK' /\ Owned' /\ QueuedOnce' /\ Counted'
    <2>1. UNCHANGED <<pdo, ask, ticket, queue, reader, arrived>>
          /\ status' = [status EXCEPT ![r] = "returned"]
      BY <1>5 DEF Return
    <2>2. QueuedOnce' /\ Counted'
      BY <2>1 DEF QueuedOnce, Counted, Forwarded
    <2>3. CASE status[r] = "PENDING"
      <3>1. UNCHANGED <<owner, outcome, completions>>
        BY <1>5, <2>3 DEF Return
      <3>2. owner[r] # "driver"
        BY <2>3 DEF Owned
      <3>3. TypeOK' /\ Owned'
        BY <2>1, <2>3, <3>1, <3>2 DEF TypeOK, Owned, Dispatching
      <3> QED BY <2>2, <3>3
    <2>4. CASE status[r] # "PENDING"
      <3>1. owner[r] = "driver"
        BY <1>5, <2>4 DEF Return, TypeOK, Owned
      <3>2. Complete(r, outcome[r]) /\ outcome[r] \in Outcomes \cup {NoOutcome}
        BY <1>5, <2>4 DEF Return, TypeOK
      <3>3. TypeOK'
        BY <2>1, <3>1, <3>2, CompleteType DEF TypeOK
      <3>4. Owned'
        <4>1. /\ owner'[r] = "done" /\ completions'[r] = 1
              /\ \A x \in Requests \ {r} : /\ owner'[x] = owner[x]
                                           /\ completions'[x] = completions[x]
          BY <3>1, <3>2, CompleteType
        <4>2. /\ status'[r] = "returned"
              /\ \A x \in Requests \ {r} : status'[x] = status[x]
          BY <2>1 DEF TypeOK
        <4> QED BY <2>1, <3>1, <4>1, <4>2 DEF Owned, Dispatching
      <3> QED BY <2>2, <3>3, <3>4
    <2> QED BY <2>3, <2>4
  <1>6. ASSUME NEW valid \in BOOLEAN, ReportArrives(valid)
        PROVE  TypeOK' /\ Owned' /\ QueuedOnce' /\ Counted'
    <2>1. reader'.request = Nobody /\ reader.request = Nobody
      BY <1>6 DEF ReportArrives, ReaderIdle
    <2>2. TypeOK'
      <3>1. arrived + 1 \in 0..MaxReports /\ 0 \in 0..MaxReports
        BY <1>6, ReportsAssumption DEF ReportArrives, TypeOK
      <3>3. reader' \in [report : 0..MaxReports, id : 0..2,
                        request : Requests \cup {Nobody}]
        BY <1>6, <3>1 DEF ReportArrives, ReaderIdle
      <3> QED BY <1>6, <3>1, <3>3 DEF ReportArrives, TypeOK
    <2>3. Owned' /\ QueuedOnce' /\ Counted'
      BY <1>6, <2>1 DEF ReportArrives, Owned, QueuedOnce, Counted, Forwarded
    <2> QED BY <2>2, <2>3
  <1>7. CASE Retrieve
    <2> DEFINE r == Head(queue)
    <2>1. /\ queue' \in Seq(Requests) /\ DOMAIN queue' = 1..(Len(queue) - 1)
          /\ \A i \in 1..(Len(queue) - 1) : queue'[i] = queue[i + 1]
          /\ r \in Requests /\ r = queue[1] /\ 1 \in DOMAIN queue
          /\ Len(queue) \in Nat /\ DOMAIN queue = 1..Len(queue)
      BY <1>7, <1>s, TailFacts DEF Retrieve
    <2>2. owner[r] = "queue"
      BY <2>1 DEF Owned
    <2>3. /\ reader' = [reader EXCEPT !.request = r]
          /\ reader.request = Nobody
          /\ owner' = [owner EXCEPT ![r] = "reader"]
          /\ UNCHANGED <<pdo, ask, status, outcome, completions, ticket, arrived>>
      BY <1>7 DEF Retrieve
    <2> HIDE DEF r
    <2>4. TypeOK'
      BY <2>1, <2>3 DEF TypeOK
    <2>5. /\ \A i \in DOMAIN queue' : i + 1 \in DOMAIN queue /\ i + 1 # 1
          /\ \A i \in DOMAIN queue \ {1} : i - 1 \in DOMAIN queue'
                                         /\ queue'[i - 1] = queue[i]
      BY <2>1
    <2>6. /\ \A i \in DOMAIN queue' : queue'[i] # r
          /\ \A x \in Requests \ {r} :
                (\E i \in DOMAIN queue' : queue'[i] = x)
                    <=> \E i \in DOMAIN queue : queue[i] = x
      <3>1. \A i \in DOMAIN queue' : queue'[i] = queue[i + 1]
        BY <2>1
      <3>2. \A i \in DOMAIN queue' : queue'[i] # r
        BY <2>1, <2>5, <3>1 DEF QueuedOnce
      <3>3. ASSUME NEW x \in Requests \ {r}, NEW i \in DOMAIN queue, queue[i] = x
            PROVE  \E k \in DOMAIN queue' : queue'[k] = x
        <4>1. i # 1
          BY <2>1, <3>3
        <4> QED BY <2>5, <3>3, <4>1
      <3>4. ASSUME NEW x \in Requests \ {r}, NEW i \in DOMAIN queue', queue'[i] = x
            PROVE  \E k \in DOMAIN queue : queue[k] = x
        BY <2>5, <3>1, <3>4
      <3> QED BY <3>2, <3>3, <3>4
    <2>7. reader'.request = r
      BY <2>3 DEF TypeOK
    <2>8. Owned'
      <3>1. /\ owner'[r] = "reader"
            /\ \A x \in Requests \ {r} : owner'[x] = owner[x]
        BY <2>1, <2>3 DEF TypeOK
      <3>2. \A x \in Requests : owner[x] # "reader"
        BY <1>n, <2>3 DEF Owned
      <3>3. ASSUME NEW x \in Requests \ {r}
            PROVE  owner'[x] = "queue" <=> \E i \in DOMAIN queue' : queue'[i] = x
        BY <2>6, <3>1, <3>3 DEF Owned
      <3>4. \A x \in Requests \ {r} : owner'[x] # "reader" /\ reader'.request # x
        BY <2>7, <3>1, <3>2
      <3>5. /\ status[r] \notin Dispatching \ {"PENDING"}
            /\ completions[r] = 0
            /\ status[r] = "entered" => ticket[r] = 0
        BY <2>1, <2>2 DEF Owned
      <3> QED BY <2>1, <2>2, <2>3, <2>6, <2>7, <3>1, <3>3, <3>4, <3>5 DEF Owned
    <2>9. QueuedOnce'
      <3>1. ASSUME NEW i \in DOMAIN queue', NEW k \in DOMAIN queue',
                   queue'[i] = queue'[k]
            PROVE  i = k
        <4>1. i + 1 \in DOMAIN queue /\ k + 1 \in DOMAIN queue
              /\ queue[i + 1] = queue[k + 1]
          BY <2>1, <2>5, <3>1
        <4>2. i + 1 = k + 1
          BY <4>1 DEF QueuedOnce
        <4> QED BY <2>1, <4>2
      <3> QED BY <3>1 DEF QueuedOnce
    <2>10. Counted'
      BY <2>3 DEF Counted, Forwarded
    <2> QED BY <2>4, <2>8, <2>9, <2>10
  <1>8. CASE NoRequest
    <2>1. reader'.request = Nobody /\ reader.request = Nobody
      BY <1>8, NextIdType DEF NoRequest
    <2>2. TypeOK'
      BY <1>8, NextIdType DEF NoRequest, TypeOK
    <2>3. Owned' /\ QueuedOnce' /\ Counted'
      BY <1>8, <2>1 DEF NoRequest, Owned, QueuedOnce, Counted, Forwarded
    <2> QED BY <2>2, <2>3
  <1>9. CASE Deliver \/ BufferTooSmall
    <2>1. PICK r \in Requests, o \in Outcomes :
             /\ r = reader.request /\ Complete(r, o)
             /\ reader' \in {NextId(reader.id), ReaderIdle}
             /\ UNCHANGED <<pdo, ask, status, ticket, queue, arrived>>
      <3>1. reader.request \in Requests /\ reader.request # Nobody
        BY <1>9 DEF Deliver, BufferTooSmall, TypeOK
      <3>2. [status |-> "SUCCESS", report |-> reader.report, id |-> reader.id]
               \in Outcomes
        BY DEF TypeOK, Outcomes, Statuses, Dispatching
      <3>3. Done("BUFFER_TOO_SMALL") \in Outcomes
        BY DoneType DEF Statuses, Dispatching
      <3> QED BY <1>9, <3>1, <3>2, <3>3 DEF Deliver, BufferTooSmall
    <2>2. owner[r] = "reader"
      BY <2>1 DEF Owned
    <2>3. /\ reader' \in [report : 0..MaxReports, id : 0..2,
                          request : Requests \cup {Nobody}]
          /\ reader'.request = Nobody
      BY <2>1, NextIdType, ReportsAssumption DEF ReaderIdle
    <2>4. TypeOK'
      BY <2>1, <2>2, <2>3, CompleteType DEF TypeOK
    <2>5. Owned'
      BY <1>n, <2>1, <2>2, <2>3, CompleteType DEF Owned
    <2>6. QueuedOnce' /\ Counted'
      BY <2>1 DEF QueuedOnce, Counted, Forwarded
    <2> QED BY <2>4, <2>5, <2>6
  <1>10. ASSUME NEW r \in Requests, Cancel(r)
         PROVE  TypeOK' /\ Owned' /\ QueuedOnce' /\ Counted'
    <2>1. PICK p \in DOMAIN queue : queue[p] = r /\ queue' = Without(queue, p)
      BY <1>10 DEF Cancel, Without
    <2>2. /\ queue' \in Seq(Requests)
          /\ Len(queue) \in Nat /\ DOMAIN queue = 1..Len(queue)
          /\ DOMAIN queue' = 1..(Len(queue) - 1)
          /\ \A i \in 1..(Len(queue) - 1) :
                Moved(i, p) \in DOMAIN queue /\ queue'[i] = queue[Moved(i, p)]
      BY <1>s, <2>1, WithoutFacts
    <2>3. owner[r] = "queue" /\ Done("CANCELLED") \in Outcomes
          /\ Complete(r, Done("CANCELLED"))
          /\ UNCHANGED <<pdo, ask, status, ticket, reader, arrived>>
      BY <1>10, DoneType DEF Cancel, Statuses
    <2>4. TypeOK'
      BY <2>2, <2>3, CompleteType DEF TypeOK
    <2>5. /\ \A i \in DOMAIN queue' : Moved(i, p) # p
          /\ \A i, j \in DOMAIN queue' : Moved(i, p) = Moved(j, p) => i = j
          /\ \A k \in DOMAIN queue \ {p} : \E i \in DOMAIN queue' : Moved(i, p) = k
      <3>1. \A i \in DOMAIN queue' : i \in Nat /\ Moved(i, p) # p
        BY <2>1, <2>2 DEF Moved
      <3>2. \A i, j \in DOMAIN queue' : Moved(i, p) = Moved(j, p) => i = j
        BY <2>1, <2>2 DEF Moved
      <3>3. ASSUME NEW k \in DOMAIN queue \ {p}
            PROVE  \E i \in DOMAIN queue' : Moved(i, p) = k
        <4>1. CASE k < p
          <5>1. k \in DOMAIN queue' /\ Moved(k, p) = k
            BY <2>1, <2>2, <4>1 DEF Moved
          <5> QED BY <5>1
        <4>2. CASE ~(k < p)
          <5>1. k - 1 \in DOMAIN queue' /\ Moved(k - 1, p) = k
            BY <2>1, <2>2, <4>2 DEF Moved
          <5> QED BY <5>1
        <4> QED BY <4>1, <4>2
      <3> QED BY <3>1, <3>2, <3>3
    <2>6. /\ \A i \in DOMAIN queue' : queue'[i] # r
          /\ \A x \in Requests \ {r} :
                (\E i \in DOMAIN queue' : queue'[i] = x)
                    <=> \E i \in DOMAIN queue : queue[i] = x
      <3>1. \A i \in DOMAIN queue' :
               Moved(i, p) \in DOMAIN queue /\ queue'[i] = queue[Moved(i, p)]
        BY <2>2
      <3>2. \A i \in DOMAIN queue' : queue'[i] # r
        BY <2>1, <2>5, <3>1 DEF QueuedOnce
      <3>3. ASSUME NEW x \in Requests \ {r}, NEW i \in DOMAIN queue, queue[i] = x
            PROVE  \E k \in DOMAIN queue' : queue'[k] = x
        <4>1. i # p
          BY <2>1, <3>3
        <4>2. PICK k \in DOMAIN queue' : Moved(k, p) = i
          BY <2>5, <4>1
        <4> QED BY <3>1, <3>3, <4>2
      <3>4. ASSUME NEW x \in Requests \ {r}, NEW i \in DOMAIN queue', queue'[i] = x
            PROVE  \E k \in DOMAIN queue : queue[k] = x
        BY <3>1, <3>4
      <3> QED BY <3>2, <3>3, <3>4
    <2>7. Owned'
      BY <2>3, <2>6, CompleteType DEF Owned
    <2>8. QueuedOnce'
      BY <2>2, <2>5 DEF QueuedOnce
    <2>9. Counted'
      BY <2>3 DEF Counted, Forwarded
    <2> QED BY <2>4, <2>7, <2>8, <2>9
  <1>11. CASE RemovePdo
    BY <1>11 DEF RemovePdo, TypeOK, Owned, QueuedOnce, Counted, Forwarded
  <1>12. CASE UNCHANGED vars
    BY <1>12 DEF vars, TypeOK, Owned, QueuedOnce, Counted, Forwarded
  <1>13. ASSUME NEW r \in Requests, NEW i \in Ioctls, NEW fits \in BOOLEAN,
                NEW arg \in Arguments(i)
         PROVE  [ioctl |-> i, arg |-> arg, fits |-> fits] \in Asks
    BY DEF Asks
  <1> QED
    BY <1>1, <1>2, <1>3, <1>4, <1>5, <1>6, <1>7, <1>8, <1>9, <1>10, <1>11,
       <1>12, <1>13 DEF Next, Requested, Dispatch, Reader, Purge

LEMMA OwnedInit == Init => OwnedInv
  <1>1. /\ <<>> \in Seq(Requests) /\ DOMAIN <<>> = {}
        /\ Cardinality(Requests) \in Nat
    BY SizesHold DEF Sizes
  <1> SUFFICES ASSUME Init PROVE TypeOK /\ Owned /\ QueuedOnce /\ Counted
    BY DEF OwnedInv
  <1>2. TypeOK
    BY <1>1, ReportsAssumption DEF Init, TypeOK, ReaderIdle
  <1>3. Owned /\ QueuedOnce
    BY <1>1, RequestsAssumption DEF Init, Owned, QueuedOnce, ReaderIdle, Dispatching
  <1>4. Counted
    BY SizesHold DEF Init, Counted, Sizes
  <1> QED BY <1>2, <1>3, <1>4

\* The type invariant (HidIo.TypeOK).
THEOREM TypeCorrect == Spec => []TypeOK
  <1>1. OwnedInv => TypeOK
    BY DEF OwnedInv
  <1> QED BY <1>1, OwnedInit, OwnedStep, PTL DEF Spec

\* Each request is completed at most once, by who owns it
\* (HidIo.CompletedOnce), and not while its routine still works on it
\* (HidIo.NotTouchedAfterwards).
THEOREM OwnershipCorrect == Spec => [](CompletedOnce /\ NotTouchedAfterwards)
  <1>1. OwnedInv => CompletedOnce
    BY DEF OwnedInv, Owned, CompletedOnce
  <1>2. OwnedInv => NotTouchedAfterwards
    BY DEF OwnedInv, Owned, TypeOK, NotTouchedAfterwards
  <1> QED BY <1>1, <1>2, OwnedInit, OwnedStep, PTL DEF Spec

-----------------------------------------------------------------------------
(* The order of reads.  Tickets grow along the queue; the request that the *)
(* reader holds comes before the queue, and every answered one before it.  *)

\* An answered read has an older report than the one to deliver next.
Precedes(r) == \/ outcome[r].report < reader.report
               \/ outcome[r].report = reader.report /\ outcome[r].id < reader.id

QueueInOrder == \A i, j \in DOMAIN queue :
    i < j => ticket[queue[i]] < ticket[queue[j]]
ReaderInOrder ==
    /\ reader.report <= arrived
    /\ reader.request # Nobody =>
           /\ reader.id # 0
           /\ \A i \in DOMAIN queue : ticket[reader.request] < ticket[queue[i]]
AnsweredInOrder == \A r \in Answered :
    /\ owner[r] = "done"
    /\ outcome[r].report <= arrived
    /\ reader.request # Nobody => ticket[r] < ticket[reader.request]
    /\ reader.id # 0 => Precedes(r)
OrderInv == /\ QueueInOrder /\ ReaderInOrder /\ AnsweredInOrder
            /\ NoOvertaking /\ ReadsInOrder

\* Steps that neither forward nor answer.
LEMMA Quiet ==
    ASSUME OrderInv, UNCHANGED <<ticket, queue, reader, arrived>>,
           Answered' = Answered,
           \A r \in Answered : outcome'[r] = outcome[r] /\ owner'[r] = owner[r]
    PROVE  OrderInv'
  BY DEF OrderInv, QueueInOrder, ReaderInOrder, AnsweredInOrder, NoOvertaking,
         ReadsInOrder, Precedes, Before

\* A request that is not answered yet gets an outcome without a report.
LEMMA NoReport ==
    ASSUME TypeOK, NEW r \in Requests, NEW o, o.report = 0, r \notin Answered,
           outcome' = [outcome EXCEPT ![r] = o]
    PROVE  Answered' = Answered /\ \A q \in Answered : outcome'[q] = outcome[q]
  BY DEF TypeOK, Answered

LEMMA OrderStep ==
    ASSUME OwnedInv, OrderInv, [Next]_vars
    PROVE  OrderInv'
  <1> TypeOK /\ Owned /\ Counted
    BY DEF OwnedInv
  <1> AnsweredInOrder
    BY DEF OrderInv
  <1>d. ASSUME NEW r \in Requests, owner[r] # "done" PROVE r \notin Answered
    BY <1>d DEF AnsweredInOrder
  <1>s. queue \in Seq(Requests)
    BY DEF TypeOK
  <1>t. \A r \in Requests : ticket[r] \in Nat
    BY SizesHold DEF TypeOK, Sizes
  <1>o. \A r \in Answered : r \in Requests
    BY DEF Answered
  <1>1. ASSUME NEW r \in Requests, NEW q, Submit(r, q) PROVE OrderInv'
    <2>1. Answered' = Answered /\ r \notin Answered
      BY <1>1, <1>d DEF Submit, Answered
    <2>2. \A x \in Answered : outcome'[x] = outcome[x] /\ owner'[x] = owner[x]
      BY <1>1, <1>o, <2>1 DEF Submit, TypeOK
    <2> QED BY <1>1, <2>1, <2>2, Quiet DEF Submit
  <1>2. ASSUME NEW r \in Requests, RetrieveFails(r) \/ Return(r) PROVE OrderInv'
    <2>1. CASE UNCHANGED <<owner, outcome>>
      <3>1. Answered' = Answered
        BY <2>1 DEF Answered
      <3> QED BY <1>2, <2>1, <3>1, Quiet DEF RetrieveFails, Return
    <2>2. CASE ~UNCHANGED <<owner, outcome>>
      <3>1. owner[r] = "driver"
        BY <1>2, <2>2 DEF RetrieveFails, Return, Owned, TypeOK, Dispatching
      <3>2. r \notin Answered /\ outcome[r].report = 0
        BY <3>1, <1>d DEF Answered
      <3>3. PICK o : Complete(r, o) /\ o.report = 0
        BY <1>2, <2>2, <3>2, DoneType DEF RetrieveFails, Return, Statuses,
                                          Dispatching
      <3>4. Answered' = Answered /\ \A q \in Answered : outcome'[q] = outcome[q]
        BY <3>2, <3>3, NoReport DEF Complete
      <3>5. \A q \in Answered : owner'[q] = owner[q]
        BY <1>o, <3>2, <3>3 DEF Complete, TypeOK
      <3> QED BY <1>2, <3>4, <3>5, Quiet DEF RetrieveFails, Return
    <2> QED BY <2>1, <2>2
  <1>3. ASSUME NEW r \in Requests, ForwardFails(r) \/ Answer(r) PROVE OrderInv'
    <2>1. owner[r] = "driver"
      BY <1>3 DEF ForwardFails, Answer, Owned, Dispatching
    <2>2. PICK o : o.report = 0 /\ outcome' = [outcome EXCEPT ![r] = o]
      BY <1>3, ImmediateType, DoneType DEF ForwardFails, Answer, Statuses,
                                           Dispatching
    <2>3. Answered' = Answered /\ \A q \in Answered : outcome'[q] = outcome[q]
      BY <1>d, <2>1, <2>2, NoReport
    <2> QED BY <1>3, <2>3, Quiet DEF ForwardFails, Answer
  <1>4. ASSUME NEW r \in Requests, Forward(r) PROVE OrderInv'
    <2> DEFINE n == Cardinality(Forwarded)
    <2>1. owner[r] = "driver" /\ ticket[r] = 0
      BY <1>4 DEF Forward, Owned, Dispatching
    <2>2. ticket' = [ticket EXCEPT ![r] = n + 1] /\ n \in Nat
      BY <1>4, <2>1, ForwardCounts, SizesHold DEF Sizes
    <2>3. \A x \in Requests : ticket[x] <= n
      BY DEF Counted
    <2>4. /\ DOMAIN queue' = 1..(Len(queue) + 1) /\ Len(queue) \in Nat
          /\ queue'[Len(queue) + 1] = r /\ DOMAIN queue = 1..Len(queue)
          /\ \A i \in 1..Len(queue) : queue'[i] = queue[i]
      BY <1>4, <1>s, AppendFacts DEF Forward
    <2> HIDE DEF n
    <2>5. \A i \in DOMAIN queue : queue[i] \in Requests /\ queue[i] # r
      BY <1>s, <2>1, <2>4, ElementOfSeq DEF Owned
    <2>6. /\ ticket'[r] = n + 1
          /\ \A x \in Requests \ {r} : ticket'[x] = ticket[x] /\ ticket'[x] < n + 1
      BY <1>t, <2>2, <2>3 DEF TypeOK
    <2>7. Answered' = Answered /\ r \notin Answered /\ outcome' = outcome
          /\ reader' = reader /\ arrived' = arrived
      BY <1>4, <1>d, <2>1 DEF Forward, Answered
    <2>8. \A x \in Answered : owner'[x] = owner[x] /\ x # r
      BY <1>4, <1>o, <2>7 DEF Forward, TypeOK
    <2>9. reader.request # Nobody => reader.request \in Requests \ {r}
      BY <2>1 DEF Owned, TypeOK
    <2>10. \A i \in DOMAIN queue' :
              \/ i \in DOMAIN queue /\ queue'[i] = queue[i] /\ i < Len(queue) + 1
              \/ i = Len(queue) + 1 /\ queue'[i] = r
      BY <2>4
    <2>11. QueueInOrder'
      <3> SUFFICES ASSUME NEW i \in DOMAIN queue', NEW j \in DOMAIN queue', i < j
                   PROVE  ticket'[queue'[i]] < ticket'[queue'[j]]
        BY DEF QueueInOrder
      <3>1. i \in DOMAIN queue /\ queue'[i] = queue[i]
        BY <2>4, <2>10
      <3>2. CASE j \in DOMAIN queue /\ queue'[j] = queue[j]
        BY <2>5, <2>6, <3>1, <3>2 DEF OrderInv, QueueInOrder
      <3>3. CASE queue'[j] = r
        BY <2>5, <2>6, <3>1, <3>3
      <3> QED BY <2>10, <3>2, <3>3
    <2>12. ReaderInOrder'
      <3>1. reader.request # Nobody => \A i \in DOMAIN queue' :
               ticket'[reader.request] < ticket'[queue'[i]]
        BY <2>5, <2>6, <2>9, <2>10 DEF OrderInv, ReaderInOrder
      <3> QED BY <2>7, <3>1 DEF OrderInv, ReaderInOrder
    <2>13. AnsweredInOrder'
      BY <1>o, <2>6, <2>7, <2>8, <2>9 DEF AnsweredInOrder, Precedes
    <2>14. NoOvertaking'
      <3> SUFFICES ASSUME NEW x \in Answered, NEW i \in DOMAIN queue'
                   PROVE  ticket'[x] < ticket'[queue'[i]]
        BY <2>7 DEF NoOvertaking
      <3>1. x \in Requests \ {r}
        BY <1>o, <2>7
      <3>2. CASE i \in DOMAIN queue /\ queue'[i] = queue[i]
        BY <2>5, <2>6, <3>1, <3>2 DEF OrderInv, NoOvertaking
      <3>3. CASE queue'[i] = r
        BY <2>6, <3>1, <3>3
      <3> QED BY <2>10, <3>2, <3>3
    <2>15. ReadsInOrder'
      BY <1>o, <2>6, <2>7 DEF OrderInv, ReadsInOrder, Before
    <2> QED BY <2>11, <2>12, <2>13, <2>14, <2>15 DEF OrderInv
  <1>5. ASSUME NEW valid \in BOOLEAN, ReportArrives(valid) PROVE OrderInv'
    <2>1. arrived' = arrived + 1 /\ arrived \in Nat
      BY <1>5, ReportsAssumption DEF ReportArrives, TypeOK
    <2>2. /\ reader'.request = Nobody
          /\ \/ reader'.id = 0 /\ reader'.report = 0
             \/ reader'.report = arrived + 1
      BY <1>5 DEF ReportArrives, ReaderIdle
    <2>3. UNCHANGED <<owner, outcome, ticket, queue>> /\ Answered' = Answered
      BY <1>5 DEF ReportArrives, Answered
    <2>4. ReaderInOrder'
      BY <2>1, <2>2 DEF ReaderInOrder
    <2>5. \A x \in Answered : outcome[x].report \in Nat
      BY <1>o, ReportsAssumption DEF TypeOK, Outcomes, NoOutcome
    <2>6. AnsweredInOrder'
      BY <2>1, <2>2, <2>3, <2>5 DEF AnsweredInOrder, Precedes
    <2>7. (QueueInOrder /\ NoOvertaking /\ ReadsInOrder)'
      BY <2>3 DEF OrderInv, QueueInOrder, NoOvertaking, ReadsInOrder, Before
    <2> QED BY <2>4, <2>6, <2>7 DEF OrderInv
  <1>6. CASE Retrieve
    <2> DEFINE r == Head(queue)
    <2>1. /\ DOMAIN queue' = 1..(Len(queue) - 1) /\ Len(queue) \in Nat
          /\ \A i \in 1..(Len(queue) - 1) : queue'[i] = queue[i + 1]
          /\ r \in Requests /\ r = queue[1] /\ 1 \in DOMAIN queue
          /\ DOMAIN queue = 1..Len(queue)
      BY <1>6, <1>s, TailFacts DEF Retrieve
    <2>2. owner[r] = "queue" /\ r \notin Answered
      BY <1>d, <2>1 DEF Owned
    <2>3. /\ reader' = [reader EXCEPT !.request = r] /\ reader.id # 0
          /\ owner' = [owner EXCEPT ![r] = "reader"]
          /\ UNCHANGED <<outcome, ticket, arrived>> /\ Answered' = Answered
      BY <1>6 DEF Retrieve, Answered
    <2> HIDE DEF r
    <2>4. /\ reader'.request = r /\ reader'.id = reader.id
          /\ reader'.report = reader.report
      BY <2>3 DEF TypeOK
    <2>5. \A i \in DOMAIN queue' : i + 1 \in DOMAIN queue /\ 1 < i + 1
                                 /\ queue'[i] = queue[i + 1]
      BY <2>1
    <2>6. QueueInOrder'
      <3>1. \A i, j \in DOMAIN queue' : i < j => i + 1 < j + 1
        BY <2>1
      <3> QED BY <2>3, <2>5, <3>1 DEF OrderInv, QueueInOrder
    <2>7. ReaderInOrder'
      BY <2>1, <2>3, <2>4, <2>5 DEF OrderInv, ReaderInOrder, QueueInOrder
    <2>8. AnsweredInOrder'
      <3>1. \A x \in Answered : owner'[x] = owner[x] /\ ticket[x] < ticket[r]
        BY <1>o, <2>1, <2>2, <2>3 DEF OrderInv, NoOvertaking, TypeOK
      <3> QED BY <2>3, <2>4, <3>1 DEF AnsweredInOrder, Precedes
    <2>9. NoOvertaking' /\ ReadsInOrder'
      BY <2>3, <2>5 DEF OrderInv, NoOvertaking, ReadsInOrder, Before
    <2> QED BY <2>6, <2>7, <2>8, <2>9 DEF OrderInv
  <1>7. CASE NoRequest \/ Deliver \/ BufferTooSmall
    <2>1. /\ UNCHANGED <<ticket, queue, arrived>>
          /\ reader' \in {NextId(reader.id), ReaderIdle}
      BY <1>7 DEF NoRequest, Deliver, BufferTooSmall
    <2>2. /\ reader'.request = Nobody
          /\ \/ reader'.id = 0 /\ reader'.report = 0
             \/ reader.id = 1 /\ reader'.id = 2 /\ reader'.report = reader.report
      BY <2>1, NextIdType DEF ReaderIdle
    <2>3. reader.report \in Nat /\ reader.id \in Nat /\ arrived \in Nat
      BY ReportsAssumption DEF TypeOK
    <2>4. \A x \in Answered : outcome[x].report \in Nat /\ outcome[x].id \in Nat
      BY <1>o, ReportsAssumption DEF TypeOK, Outcomes, NoOutcome
    <2>5. QueueInOrder' /\ ReaderInOrder'
      BY <2>1, <2>2, <2>3 DEF OrderInv, QueueInOrder, ReaderInOrder
    <2>6. ASSUME Answered' = Answered, \A x \in Answered :
                    outcome'[x] = outcome[x] /\ owner'[x] = owner[x]
          PROVE  AnsweredInOrder' /\ NoOvertaking' /\ ReadsInOrder'
      <3>1. AnsweredInOrder'
        BY <2>1, <2>2, <2>3, <2>4, <2>6 DEF AnsweredInOrder, Precedes
      <3> QED BY <2>1, <2>6, <3>1 DEF OrderInv, NoOvertaking, ReadsInOrder, Before
    <2>7. CASE NoRequest
      <3>1. Answered' = Answered /\ UNCHANGED <<owner, outcome>>
        BY <2>7 DEF NoRequest, Answered
      <3> QED BY <2>5, <2>6, <3>1 DEF OrderInv
    <2>8. CASE Deliver \/ BufferTooSmall
      <3> DEFINE r == reader.request
      <3>1. r \in Requests /\ owner[r] = "reader" /\ r # Nobody
        BY <2>8 DEF Deliver, BufferTooSmall, Owned, TypeOK
      <3>2. r \notin Answered
        BY <1>d, <3>1
      <3>3. PICK o : /\ Complete(r, o)
                     /\ \/ o.report = 0
                        \/ o.report = reader.report /\ o.id = reader.id
        BY <2>8, DoneType DEF Deliver, BufferTooSmall, Statuses, Dispatching
      <3> HIDE DEF r
      <3>4. /\ outcome'[r] = o /\ owner'[r] = "done"
            /\ \A x \in Requests \ {r} :
                  outcome'[x] = outcome[x] /\ owner'[x] = owner[x]
        BY <3>1, <3>3 DEF Complete, TypeOK
      <3>5. Answered' = IF o.report = 0 THEN Answered ELSE Answered \cup {r}
        BY <3>1, <3>2, <3>4 DEF Answered
      <3>6. CASE o.report = 0
        BY <1>o, <2>5, <2>6, <3>2, <3>4, <3>5, <3>6 DEF OrderInv
      <3>7. CASE o.report # 0
        <4>1. Answered' = Answered \cup {r} /\ o.report = reader.report
              /\ o.id = reader.id
          BY <3>3, <3>5, <3>7
        <4>2. reader.id # 0 /\ reader.report <= arrived
              /\ \A i \in DOMAIN queue : ticket[r] < ticket[queue[i]]
          BY <3>1 DEF OrderInv, ReaderInOrder, r
        <4>3. \A x \in Answered : /\ outcome'[x] = outcome[x]
                                 /\ owner'[x] = owner[x] /\ x # r
                                 /\ ticket[x] < ticket[r] /\ Precedes(x)
          BY <1>o, <3>1, <3>2, <3>4, <4>2 DEF AnsweredInOrder, r
        <4>4. AnsweredInOrder'
          <5> SUFFICES ASSUME NEW x \in Answered'
                       PROVE  /\ owner'[x] = "done" /\ outcome'[x].report <= arrived'
                              /\ reader'.id # 0 => Precedes(x)'
            BY <2>2 DEF AnsweredInOrder
          <5>1. CASE x = r
            BY <2>1, <2>2, <2>3, <3>4, <4>1, <4>2, <5>1 DEF Precedes
          <5>2. CASE x \in Answered
            BY <2>1, <2>2, <2>3, <2>4, <4>3, <5>2 DEF AnsweredInOrder, Precedes
          <5> QED BY <4>1, <5>1, <5>2
        <4>5. NoOvertaking'
          BY <2>1, <4>1, <4>2 DEF OrderInv, NoOvertaking
        <4>6. ReadsInOrder'
          <5> SUFFICES ASSUME NEW x \in Answered', NEW y \in Answered',
                              ticket[x] < ticket[y]
                       PROVE  Before(x, y)'
            BY <2>1 DEF ReadsInOrder
          <5>1. CASE x \in Answered /\ y \in Answered
            BY <4>3, <5>1 DEF OrderInv, ReadsInOrder, Before
          <5>2. CASE x \in Answered /\ y = r
            BY <3>4, <4>1, <4>3, <5>2 DEF Before, Precedes
          <5>3. CASE x = r
            BY <1>o, <1>t, <3>1, <4>1, <4>3, <5>3
          <5> QED BY <4>1, <5>1, <5>2, <5>3
        <4> QED BY <2>5, <4>4, <4>5, <4>6 DEF OrderInv
      <3> QED BY <3>6, <3>7
    <2> QED BY <1>7, <2>7, <2>8
  <1>8. ASSUME NEW r \in Requests, Cancel(r) PROVE OrderInv'
    <2>1. PICK p \in DOMAIN queue : queue[p] = r /\ queue' = Without(queue, p)
      BY <1>8 DEF Cancel, Without
    <2>2. /\ Len(queue) \in Nat /\ DOMAIN queue = 1..Len(queue)
          /\ DOMAIN queue' = 1..(Len(queue) - 1)
          /\ \A i \in DOMAIN queue' :
                Moved(i, p) \in DOMAIN queue /\ queue'[i] = queue[Moved(i, p)]
      BY <1>s, <2>1, WithoutFacts
    <2>3. \A i, j \in DOMAIN queue' : i < j => Moved(i, p) < Moved(j, p)
      BY <2>1, <2>2 DEF Moved
    <2>4. owner[r] = "queue" /\ Complete(r, Done("CANCELLED"))
          /\ Done("CANCELLED").report = 0
          /\ UNCHANGED <<ticket, reader, arrived>>
      BY <1>8, DoneType DEF Cancel, Statuses
    <2>5. Answered' = Answered /\ \A x \in Answered :
             outcome'[x] = outcome[x] /\ owner'[x] = owner[x]
      <3>1. r \notin Answered
        BY <1>d, <2>4
      <3>2. Answered' = Answered /\ \A x \in Answered : outcome'[x] = outcome[x]
        BY <2>4, <3>1, NoReport DEF Complete
      <3>3. \A x \in Answered : owner'[x] = owner[x]
        BY <1>o, <2>4, <3>1 DEF Complete, TypeOK
      <3> QED BY <3>2, <3>3
    <2>6. QueueInOrder'
      BY <2>2, <2>3, <2>4 DEF OrderInv, QueueInOrder
    <2>7. ReaderInOrder'
      BY <2>2, <2>4 DEF OrderInv, ReaderInOrder
    <2>8. AnsweredInOrder'
      BY <2>4, <2>5 DEF AnsweredInOrder, Precedes
    <2>9. NoOvertaking' /\ ReadsInOrder'
      BY <2>2, <2>4, <2>5 DEF OrderInv, NoOvertaking, ReadsInOrder, Before
    <2> QED BY <2>6, <2>7, <2>8, <2>9 DEF OrderInv
  <1>9. CASE RemovePdo \/ UNCHANGED vars
    <2>1. UNCHANGED <<owner, outcome, ticket, queue, reader, arrived>>
      BY <1>9 DEF RemovePdo, vars
    <2> QED BY <2>1, Quiet DEF Answered
  <1> QED
    BY <1>1, <1>2, <1>3, <1>4, <1>5, <1>6, <1>7, <1>8, <1>9
       DEF Next, Requested, Dispatch, Reader, Purge

\* Reports are delivered in the order in which they arrive and were asked
\* for (HidIo.ReadsInOrder), and no waiting read is overtaken
\* (HidIo.NoOvertaking).
THEOREM OrderCorrect == Spec => [](ReadsInOrder /\ NoOvertaking)
  <1>1. Init => OrderInv
    <2> SUFFICES ASSUME Init PROVE OrderInv
      OBVIOUS
    <2>1. DOMAIN queue = {} /\ Answered = {}
      BY DEF Init, Answered, NoOutcome
    <2>2. reader.request = Nobody /\ reader.report = 0 /\ arrived = 0
      BY DEF Init, ReaderIdle
    <2> QED
      BY <2>1, <2>2 DEF OrderInv, QueueInOrder, ReaderInOrder, AnsweredInOrder,
                        NoOvertaking, ReadsInOrder
  <1>2. OrderInv => ReadsInOrder /\ NoOvertaking
    BY DEF OrderInv
  <1> QED BY <1>1, <1>2, OwnedInit, OwnedStep, OrderStep, PTL DEF Spec

\* A read that waits was forwarded after every read that is answered
\* (HidIo.NoOvertaking).
THEOREM OvertakingCorrect == Spec => []NoOvertaking
  BY OrderCorrect, PTL
=============================================================================
