------------------------ MODULE WireBusLinks_proofs ------------------------
(***************************************************************************)
(* That the child list follows the links, for any number of devices,       *)
(* handles and queued events: no two children have the same handle, a      *)
(* settled child has the handle of its link, and none outlives its link    *)
(* without a reason.  The invariant tells what the child list says already *)
(* from what is still queued about it.                                     *)
(***************************************************************************)
EXTENDS WireBus_proofs

-----------------------------------------------------------------------------
(* What the child list does not show yet: the connection event the         *)
(* interrupt reader is working on and, after it, the queued ones.          *)

Story == IntrBusy /\ Stage \in {"request", "handle"}
Pending ==
    IF Stage = "request"
    THEN [type |-> "ConnectionRequest", addr |-> intr.addr]
    ELSE [type |-> "ConnectionComplete", addr |-> intr.addr, handle |-> intr.handle]
Line == IF Story THEN <<Pending>> \o events ELSE events

\* What the n-th of the events q says.
Says(q, n, type) == n \in DOMAIN q /\ q[n].type = type
Requests(q, n, a) == Says(q, n, "ConnectionRequest") /\ q[n].addr = a
Fails(q, n, a) == Says(q, n, "ConnectionFailed") /\ q[n].addr = a
Completes(q, n, a, h) ==
    Says(q, n, "ConnectionComplete") /\ q[n].addr = a /\ q[n].handle = h
Drops(q, n, h) == Says(q, n, "DisconnectionComplete") /\ q[n].handle = h

\* What the entries es say; they are as old as place 0 of the line.
Kid(es, a) == \E i \in Ids : es[i].present /\ es[i].addr = a
Holds(es, a, h) ==
    \E i \in Ids : es[i].present /\ es[i].addr = a /\ es[i].desc.handle = h

\* At place n device a got handle h, and at place m this is over, or another
\* link of a or another use of h has begun.
Got(es, q, n, a, h) == (n = 0 /\ Holds(es, a, h)) \/ Completes(q, n, a, h)
Renews(q, m, a, h) == \/ Requests(q, m, a)
                      \/ \E g \in Handles : Completes(q, m, a, g)
                      \/ \E b \in Devices : Completes(q, m, b, h)

Places == Nat

\* Before a device or a handle is used again, the handle is dropped.
Between(es, q) == \A a \in Devices, h \in Handles : \A n, m \in Places :
    Got(es, q, n, a, h) /\ n < m /\ Renews(q, m, a, h) =>
        \E k \in Places : n < k /\ k < m /\ Drops(q, k, h)

\* A handle that is not the device's any more is dropped.
Ending(es, q, hs) == \A a \in Devices, h \in Handles : \A n \in Places :
    Got(es, q, n, a, h) =>
        hs[a] = h \/ \E k \in Places : n < k /\ Drops(q, k, h)

\* A device that is back after its handle was dropped has requested it.
Return(es, q, lk) == \A a \in Devices, h \in Handles : \A n, k \in Places :
    Got(es, q, n, a, h) /\ n < k /\ Drops(q, k, h) /\ lk[a] # "down" =>
        \E m \in Places : n < m /\ Requests(q, m, a)

\* A request has been followed by the handle, or by the end of the link.
Asked(q, lk, hs) == \A a \in Devices : \A n \in Places :
    lk[a] = "up" /\ Requests(q, n, a) =>
        \E k \in Places : n < k /\ Completes(q, k, a, hs[a])
Answered(q, lk) == \A a \in Devices : \A n \in Places :
    lk[a] = "down" /\ Requests(q, n, a) =>
        \E k \in Places : n < k /\ \/ Fails(q, k, a)
                                   \/ \E h \in Handles : Completes(q, k, a, h)

\* The handle of a link is in the child or on its way to it.
Known(es, q, lk, hs) == \A a \in Devices :
    Kid(es, a) /\ lk[a] = "up" =>
        \E n \in Places : Got(es, q, n, a, hs[a])

\* Two children have different handles.
Unique(es) == \A a, b \in Devices, h \in Handles :
    Holds(es, a, h) /\ Holds(es, b, h) => a = b

\* A device that was accepted has a child or has one coming.
Reported(es, q, lk, un) == \A a \in Devices \ un :
    lk[a] \in {"accepted", "up"} =>
        Kid(es, a) \/ \E n \in Places : Requests(q, n, a)

\* Why a child may be there while its link is down.
Excused(es, q, ex, a) ==
    \/ a \in ex
    \/ \E n \in Places : \/ Fails(q, n, a)
                         \/ Requests(q, n, a)
                         \/ \E h \in Handles :
                               \/ Completes(q, n, a, h)
                               \/ Holds(es, a, h) /\ Drops(q, n, h)
Ghosts(es, q, lk, ex) == \A a \in Devices :
    Kid(es, a) /\ lk[a] = "down" => Excused(es, q, ex, a)
Left(es, lt) == \A a \in Devices : Kid(es, a) => a \in lt

\* A host controller that nobody finds has nothing to tell; a handle belongs
\* to one link.
HostOK ==
    /\ power \in {"D3", "Removed"} => ~visible
    /\ ~visible => /\ events = <<>> /\ naming = {} /\ ~IntrBusy
                   /\ \A a \in Devices : link[a] = "down"
    /\ \A a, b \in Devices :
          handleOf[a] # NoHandle /\ handleOf[a] = handleOf[b] => a = b

\* The child list, with what is in the line, agrees with the links.  While
\* the host controller is not visible its links are gone without an event.
LinksOK ==
    /\ Between(entries, Line)
    /\ visible => Ending(entries, Line, handleOf)
    /\ Return(entries, Line, link)
    /\ Asked(Line, link, handleOf)
    /\ Answered(Line, link)
    /\ Known(entries, Line, link, handleOf)
    /\ Unique(entries)
    /\ power = "D0" => Reported(entries, Line, link, uncreated)
    /\ Ghosts(entries, Line, link, abandoned \cup late)
    /\ ~visible \/ power # "D0" => Left(entries, late)

LinksInv == HostOK /\ (Clean => LinksOK)

-----------------------------------------------------------------------------
(* The line grows at its end and is used up at its front.                  *)

\* r is q with one more event, or without its first one.
Extended(q, r, e) == \E N \in Nat :
    /\ DOMAIN q = 1..N /\ DOMAIN r = 1..(N + 1)
    /\ r[N + 1] = e
    /\ \A n \in 1..N : r[n] = q[n]
Shortened(q, r) == \E N \in Nat :
    /\ DOMAIN r = 1..N /\ DOMAIN q = 1..(N + 1)
    /\ \A n \in 1..N : r[n] = q[n + 1]

\* r says what q does, and at place N + 1 what e does.
SaysMore(q, r, e, N) == \A n \in Nat : \A a, h :
    /\ Requests(r, n, a) <=> \/ n <= N /\ Requests(q, n, a)
                             \/ /\ n = N + 1 /\ e.type = "ConnectionRequest"
                                /\ e.addr = a
    /\ Fails(r, n, a) <=> \/ n <= N /\ Fails(q, n, a)
                          \/ /\ n = N + 1 /\ e.type = "ConnectionFailed"
                             /\ e.addr = a
    /\ Completes(r, n, a, h) <=> \/ n <= N /\ Completes(q, n, a, h)
                                 \/ /\ n = N + 1 /\ e.type = "ConnectionComplete"
                                    /\ e.addr = a /\ e.handle = h
    /\ Drops(r, n, h) <=> \/ n <= N /\ Drops(q, n, h)
                          \/ /\ n = N + 1 /\ e.type = "DisconnectionComplete"
                             /\ e.handle = h

\* r says what q does, one place earlier, but for what q says first.
SaysLess(q, r) == \A n \in Nat : \A a, h :
    /\ Requests(r, n, a) <=> 0 < n /\ Requests(q, n + 1, a)
    /\ Fails(r, n, a) <=> 0 < n /\ Fails(q, n + 1, a)
    /\ Completes(r, n, a, h) <=> 0 < n /\ Completes(q, n + 1, a, h)
    /\ Drops(r, n, h) <=> 0 < n /\ Drops(q, n + 1, h)

\* Nothing is said before place 1 or after place N.
Within(q, N) == \A n \in Nat : \A a, h :
    Requests(q, n, a) \/ Fails(q, n, a) \/ Completes(q, n, a, h) \/ Drops(q, n, h)
    => 1 <= n /\ n <= N

\* One more event is queued: what the line says then.
LEMMA ExtendedSays ==
    ASSUME NEW q, NEW r, NEW e, Extended(q, r, e)
    PROVE  \E N \in Nat : Within(q, N) /\ SaysMore(q, r, e, N)
  <1>1. PICK N \in Nat : /\ DOMAIN q = 1..N /\ DOMAIN r = 1..(N + 1)
                         /\ r[N + 1] = e
                         /\ \A n \in 1..N : r[n] = q[n]
    BY DEF Extended
  <1>2. Within(q, N)
    BY <1>1 DEF Within, Says, Requests, Fails, Completes, Drops
  <1>3. ASSUME NEW n \in Nat
        PROVE  \/ n \in DOMAIN q /\ n \in DOMAIN r /\ n <= N /\ r[n] = q[n] /\ n # N + 1
               \/ n \notin DOMAIN q /\ n \in DOMAIN r /\ ~(n <= N) /\ r[n] = e /\ n = N + 1
               \/ n \notin DOMAIN q /\ n \notin DOMAIN r /\ n # N + 1
    BY <1>1
  <1>4. SaysMore(q, r, e, N)
    BY <1>3 DEF SaysMore, Says, Requests, Fails, Completes, Drops
  <1> QED BY <1>2, <1>4

\* The first event is used up: what the line says then.
LEMMA ShortenedSays ==
    ASSUME NEW q, NEW r, Shortened(q, r)
    PROVE  SaysLess(q, r) /\ \E N \in Nat : Within(q, N)
  <1>1. PICK N \in Nat : /\ DOMAIN r = 1..N /\ DOMAIN q = 1..(N + 1)
                         /\ \A n \in 1..N : r[n] = q[n + 1]
    BY DEF Shortened
  <1>2. Within(q, N + 1)
    BY <1>1 DEF Within, Says, Requests, Fails, Completes, Drops
  <1>3. ASSUME NEW n \in Nat
        PROVE  \/ n \in DOMAIN r /\ n + 1 \in DOMAIN q /\ 0 < n /\ r[n] = q[n + 1]
               \/ n \notin DOMAIN r /\ (~(0 < n) \/ n + 1 \notin DOMAIN q)
    BY <1>1
  <1>4. SaysLess(q, r)
    BY <1>3 DEF SaysLess, Says, Requests, Fails, Completes, Drops
  <1> QED BY <1>2, <1>4

\* Where a device that holds a handle after the first event has been handled
\* had it before, and that it has neither been dropped nor renewed since.
Carried(es, fs, q, r) == \A a \in Devices, h \in Handles : \A n \in Nat :
    Got(fs, r, n, a, h) =>
        \E s \in Nat : /\ s <= n + 1 /\ Got(es, q, s, a, h)
                       /\ \A k \in Nat : s < k /\ k <= n + 1 =>
                             ~Drops(q, k, h) /\ ~Renews(q, k, a, h)

\* It suffices to look at the children.
Inherited(es, fs, q) == \A a \in Devices, h \in Handles :
    Holds(fs, a, h) =>
        \/ Completes(q, 1, a, h)
        \/ Holds(es, a, h) /\ ~Drops(q, 1, h) /\ ~Renews(q, 1, a, h)

\* Who holds a handle afterwards got it before, if that is so of the children.
LEMMA InheritedCarried ==
    ASSUME NEW es, NEW fs, NEW q, NEW r, SaysLess(q, r), Inherited(es, fs, q)
    PROVE  Carried(es, fs, q, r)
  <1> SUFFICES ASSUME NEW a \in Devices, NEW h \in Handles, NEW n \in Nat,
                      Got(fs, r, n, a, h)
               PROVE  \E s \in Nat :
                         /\ s <= n + 1 /\ Got(es, q, s, a, h)
                         /\ \A k \in Nat : s < k /\ k <= n + 1 =>
                               ~Drops(q, k, h) /\ ~Renews(q, k, a, h)
    BY DEF Carried
  <1>1. CASE Completes(r, n, a, h)
    <2>1. Got(es, q, n + 1, a, h) /\ n + 1 \in Nat
      BY <1>1 DEF SaysLess, Got
    <2>2. \A k \in Nat : ~(n + 1 < k /\ k <= n + 1)
      OBVIOUS
    <2> QED BY <2>1, <2>2
  <1>2. CASE n = 0 /\ Holds(fs, a, h)
    <2>1. CASE Completes(q, 1, a, h)
      <3>1. Got(es, q, 1, a, h)
        BY <2>1 DEF Got
      <3>2. \A k \in Nat : ~(1 < k /\ k <= n + 1)
        BY <1>2
      <3> QED BY <1>2, <3>1, <3>2
    <2>2. CASE Holds(es, a, h) /\ ~Drops(q, 1, h) /\ ~Renews(q, 1, a, h)
      <3>1. Got(es, q, 0, a, h)
        BY <2>2 DEF Got
      <3>2. \A k \in Nat : 0 < k /\ k <= n + 1 => k = 1
        BY <1>2
      <3> QED BY <1>2, <2>2, <3>1, <3>2
    <2> QED BY <1>2, <2>1, <2>2 DEF Inherited
  <1> QED BY <1>1, <1>2 DEF Got

\* What follows a request still follows it.
LEMMA ShiftAnswers ==
    ASSUME NEW q, NEW r, NEW lk, NEW lm, NEW hs, SaysLess(q, r)
    PROVE  /\ Asked(q, lk, hs) /\ (\A a \in Devices :
                  lm[a] = "up" => lk[a] = "up") => Asked(r, lm, hs)
           /\ Answered(q, lk) /\ (\A a \in Devices :
                  lm[a] = "down" => lk[a] = "down") => Answered(r, lm)
  <1>1. ASSUME Asked(q, lk, hs), \A a \in Devices : lm[a] = "up" => lk[a] = "up"
        PROVE  Asked(r, lm, hs)
    <2> SUFFICES ASSUME NEW a \in Devices, NEW n \in Nat, lm[a] = "up",
                        Requests(r, n, a)
                 PROVE  \E j \in Nat : n < j /\ Completes(r, j, a, hs[a])
      BY DEF Asked, Places
    <2>1. n + 1 \in Nat /\ Requests(q, n + 1, a)
      BY DEF SaysLess
    <2>2. PICK k \in Nat : n + 1 < k /\ Completes(q, k, a, hs[a])
      BY <1>1, <2>1 DEF Asked, Places
    <2>3. k - 1 \in Nat /\ n < k - 1 /\ 0 < k - 1 /\ (k - 1) + 1 = k
      BY <2>2
    <2>4. Completes(r, k - 1, a, hs[a])
      BY <2>2, <2>3 DEF SaysLess
    <2> QED BY <2>3, <2>4
  <1>2. ASSUME Answered(q, lk),
               \A a \in Devices : lm[a] = "down" => lk[a] = "down"
        PROVE  Answered(r, lm)
    <2> SUFFICES ASSUME NEW a \in Devices, NEW n \in Nat, lm[a] = "down",
                        Requests(r, n, a)
                 PROVE  \E j \in Nat :
                           n < j /\ \/ Fails(r, j, a)
                                    \/ \E h \in Handles : Completes(r, j, a, h)
      BY DEF Answered, Places
    <2>1. n + 1 \in Nat /\ Requests(q, n + 1, a)
      BY DEF SaysLess
    <2>2. PICK k \in Nat : n + 1 < k /\ \/ Fails(q, k, a)
                                        \/ \E h \in Handles : Completes(q, k, a, h)
      BY <1>2, <2>1 DEF Answered, Places
    <2>3. k - 1 \in Nat /\ n < k - 1 /\ 0 < k - 1 /\ (k - 1) + 1 = k
      BY <2>2
    <2>4. Fails(r, k - 1, a) \/ \E h \in Handles : Completes(r, k - 1, a, h)
      BY <2>2, <2>3 DEF SaysLess
    <2> QED BY <2>3, <2>4
  <1> QED BY <1>1, <1>2

\* The first event is handled.
LEMMA ShiftKeeps ==
    ASSUME NEW es, NEW fs, NEW q, NEW r, NEW lk, NEW lm, NEW hs,
           SaysLess(q, r), \E N \in Nat : Within(q, N), Inherited(es, fs, q)
    PROVE  /\ Between(es, q) => Between(fs, r)
           /\ Ending(es, q, hs) => Ending(fs, r, hs)
           /\ Return(es, q, lk) /\ (\A a \in Devices :
                  lm[a] # "down" => lk[a] # "down") => Return(fs, r, lm)
           /\ Unique(es) => Unique(fs)
  <1>1. Carried(es, fs, q, r)
    BY InheritedCarried
  <1>2. \A m \in Nat : \A a, h : Renews(r, m, a, h) => Renews(q, m + 1, a, h)
    BY DEF SaysLess, Renews
  <1>3. \A k \in Nat : \A h : 1 < k /\ Drops(q, k, h) =>
            \E j \in Nat : k = j + 1 /\ Drops(r, j, h)
    <2> SUFFICES ASSUME NEW k \in Nat, NEW h, 1 < k, Drops(q, k, h)
                 PROVE  \E j \in Nat : k = j + 1 /\ Drops(r, j, h)
      OBVIOUS
    <2>1. k - 1 \in Nat /\ 0 < k - 1 /\ k = (k - 1) + 1
      OBVIOUS
    <2> QED BY <2>1 DEF SaysLess
  <1>4. ASSUME Between(es, q)
        PROVE  Between(fs, r)
    <2> SUFFICES ASSUME NEW a \in Devices, NEW h \in Handles,
                        NEW n \in Nat, NEW m \in Nat,
                        Got(fs, r, n, a, h), n < m, Renews(r, m, a, h)
                 PROVE  \E j \in Nat : n < j /\ j < m /\ Drops(r, j, h)
      BY DEF Between, Places
    <2>1. PICK s \in Nat : /\ s <= n + 1 /\ Got(es, q, s, a, h)
                           /\ \A k \in Nat : s < k /\ k <= n + 1 =>
                                 ~Drops(q, k, h) /\ ~Renews(q, k, a, h)
      BY <1>1 DEF Carried
    <2>2. s < m + 1 /\ m + 1 \in Nat
      BY <2>1
    <2>3. PICK k \in Nat : s < k /\ k < m + 1 /\ Drops(q, k, h)
      BY <1>2, <1>4, <2>1, <2>2 DEF Between, Places
    <2>4. ~(k <= n + 1)
      BY <2>1, <2>3
    <2>5. 1 < k
      BY <2>4
    <2>6. PICK j \in Nat : k = j + 1 /\ Drops(r, j, h)
      BY <1>3, <2>3, <2>5
    <2> QED BY <2>3, <2>4, <2>6
  <1>5. ASSUME Ending(es, q, hs)
        PROVE  Ending(fs, r, hs)
    <2> SUFFICES ASSUME NEW a \in Devices, NEW h \in Handles, NEW n \in Nat,
                        Got(fs, r, n, a, h), hs[a] # h
                 PROVE  \E j \in Nat : n < j /\ Drops(r, j, h)
      BY DEF Ending, Places
    <2>1. PICK s \in Nat : /\ s <= n + 1 /\ Got(es, q, s, a, h)
                           /\ \A k \in Nat : s < k /\ k <= n + 1 =>
                                 ~Drops(q, k, h) /\ ~Renews(q, k, a, h)
      BY <1>1 DEF Carried
    <2>3. PICK k \in Nat : s < k /\ Drops(q, k, h)
      BY <1>5, <2>1 DEF Ending, Places
    <2>4. ~(k <= n + 1)
      BY <2>1, <2>3
    <2>5. 1 < k
      BY <2>4
    <2>6. PICK j \in Nat : k = j + 1 /\ Drops(r, j, h)
      BY <1>3, <2>3, <2>5
    <2> QED BY <2>3, <2>4, <2>6
  <1>6. ASSUME Return(es, q, lk),
               \A a \in Devices : lm[a] # "down" => lk[a] # "down"
        PROVE  Return(fs, r, lm)
    <2> SUFFICES ASSUME NEW a \in Devices, NEW h \in Handles,
                        NEW n \in Nat, NEW j \in Nat, Got(fs, r, n, a, h),
                        n < j, Drops(r, j, h), lm[a] # "down"
                 PROVE  \E m \in Nat : n < m /\ Requests(r, m, a)
      BY DEF Return, Places
    <2>1. PICK s \in Nat : /\ s <= n + 1 /\ Got(es, q, s, a, h)
                           /\ \A k \in Nat : s < k /\ k <= n + 1 =>
                                 ~Drops(q, k, h) /\ ~Renews(q, k, a, h)
      BY <1>1 DEF Carried
    <2>2. j + 1 \in Nat /\ s < j + 1 /\ Drops(q, j + 1, h)
      BY <2>1 DEF SaysLess
    <2>3. PICK k \in Nat : s < k /\ Requests(q, k, a)
      BY <1>6, <2>1, <2>2 DEF Return, Places
    <2>4. ~(k <= n + 1)
      BY <2>1, <2>3 DEF Renews
    <2>5. k - 1 \in Nat /\ n < k - 1 /\ 0 < k - 1 /\ (k - 1) + 1 = k
      BY <2>4
    <2>6. Requests(r, k - 1, a)
      BY <2>3, <2>5 DEF SaysLess
    <2> QED BY <2>5, <2>6
  <1>7. ASSUME Unique(es)
        PROVE  Unique(fs)
    <2> SUFFICES ASSUME NEW a \in Devices, NEW b \in Devices, NEW h \in Handles,
                        Holds(fs, a, h), Holds(fs, b, h)
                 PROVE  a = b
      BY DEF Unique
    <2>1. CASE Holds(es, a, h) /\ Holds(es, b, h)
      BY <1>7, <2>1 DEF Unique
    <2>2. CASE Completes(q, 1, a, h) /\ Completes(q, 1, b, h)
      BY <2>2 DEF Completes
    <2> QED BY <2>1, <2>2 DEF Inherited, Renews
  <1> QED BY <1>4, <1>5, <1>6, <1>7

-----------------------------------------------------------------------------
(* The radio adds to the line.                                             *)

\* What holds of the entries es, the line q, the links lk and their handles
\* hs, whether or not the host controller is visible.
Consistent(es, q, lk, hs) ==
    /\ Between(es, q)
    /\ Return(es, q, lk)
    /\ Asked(q, lk, hs)
    /\ Answered(q, lk)
    /\ Known(es, q, lk, hs)
    /\ Unique(es)

\* The link of device a is now in state s, the others are as before.
Relinked(lk, lm, a, s) == lm[a] = s /\ \A b \in Devices \ {a} : lm[b] = lk[b]

\* A child that is excused stays so when more is said.
LEMMA MoreExcused ==
    ASSUME NEW es, NEW q, NEW r, NEW e, NEW N \in Nat, Within(q, N),
           SaysMore(q, r, e, N), NEW ex, NEW a, Excused(es, q, ex, a)
    PROVE  Excused(es, r, ex, a)
  BY DEF SaysMore, Within, Excused, Places

\* An event that is none of the four changes nothing.
LEMMA OtherAdded ==
    ASSUME NEW es, NEW q, NEW r, NEW e, Extended(q, r, e), e.type = "RemoteName",
           NEW lk, NEW hs, NEW un, NEW ex
    PROVE  /\ Consistent(es, q, lk, hs) => Consistent(es, r, lk, hs)
           /\ Ending(es, q, hs) => Ending(es, r, hs)
           /\ Reported(es, q, lk, un) => Reported(es, r, lk, un)
           /\ Ghosts(es, q, lk, ex) => Ghosts(es, r, lk, ex)
  <1>1. PICK N \in Nat : Within(q, N) /\ SaysMore(q, r, e, N)
    BY ExtendedSays
  <1>2. ASSUME NEW n \in Nat, NEW a, NEW h
        PROVE  /\ Requests(r, n, a) <=> Requests(q, n, a)
               /\ Fails(r, n, a) <=> Fails(q, n, a)
               /\ Completes(r, n, a, h) <=> Completes(q, n, a, h)
               /\ Drops(r, n, h) <=> Drops(q, n, h)
    BY <1>1 DEF Within, SaysMore
  <1>3. \A n \in Nat : \A a, h : /\ Got(es, r, n, a, h) <=> Got(es, q, n, a, h)
                                 /\ Renews(r, n, a, h) <=> Renews(q, n, a, h)
    BY <1>2 DEF Got, Renews
  <1>4. Between(es, q) => Between(es, r)
    BY <1>2, <1>3 DEF Between, Places
  <1>5. Return(es, q, lk) => Return(es, r, lk)
    BY <1>2, <1>3 DEF Return, Places
  <1>6. Asked(q, lk, hs) => Asked(r, lk, hs)
    BY <1>2 DEF Asked, Places
  <1>7. Answered(q, lk) => Answered(r, lk)
    BY <1>2 DEF Answered, Places
  <1>8. Known(es, q, lk, hs) => Known(es, r, lk, hs)
    BY <1>3 DEF Known, Places
  <1>9. Ending(es, q, hs) => Ending(es, r, hs)
    BY <1>2, <1>3 DEF Ending, Places
  <1>10. Reported(es, q, lk, un) => Reported(es, r, lk, un)
    BY <1>2 DEF Reported, Places
  <1>11. Ghosts(es, q, lk, ex) => Ghosts(es, r, lk, ex)
    BY <1>1, MoreExcused DEF Ghosts
  <1> QED BY <1>4, <1>5, <1>6, <1>7, <1>8, <1>9, <1>10, <1>11 DEF Consistent

\* A device requests a link.
LEMMA RequestAdded ==
    ASSUME NEW es, NEW q, NEW r, NEW e, Extended(q, r, e),
           NEW a \in Devices, e.type = "ConnectionRequest", e.addr = a,
           NEW lk, NEW lm, lk[a] = "down", Relinked(lk, lm, a, "requested"),
           NEW hs, hs[a] \notin Handles, Ending(es, q, hs),
           Consistent(es, q, lk, hs), NEW un, NEW ex
    PROVE  /\ Consistent(es, r, lm, hs)
           /\ Ending(es, r, hs)
           /\ Reported(es, q, lk, un) => Reported(es, r, lm, un)
           /\ Ghosts(es, q, lk, ex) => Ghosts(es, r, lm, ex)
  <1>1. PICK N \in Nat : Within(q, N) /\ SaysMore(q, r, e, N)
    BY ExtendedSays
  <1>2. ASSUME NEW n \in Nat, NEW b, NEW h
        PROVE  /\ Requests(r, n, b) <=> Requests(q, n, b) \/ (n = N + 1 /\ a = b)
               /\ Fails(r, n, b) <=> Fails(q, n, b)
               /\ Completes(r, n, b, h) <=> Completes(q, n, b, h)
               /\ Drops(r, n, h) <=> Drops(q, n, h)
               /\ Completes(q, n, b, h) \/ Drops(q, n, h) => n <= N
    BY <1>1 DEF Within, SaysMore
  <1>3. \A n \in Nat : \A b, h :
            /\ Got(es, r, n, b, h) <=> Got(es, q, n, b, h)
            /\ Got(es, q, n, b, h) => n <= N
            /\ Renews(r, n, b, h) => Renews(q, n, b, h) \/ (n = N + 1 /\ a = b)
    BY <1>2 DEF Got, Renews
  <1>4. Between(es, r)
    <2> SUFFICES ASSUME NEW b \in Devices, NEW h \in Handles, NEW n \in Nat,
                        NEW m \in Nat, Got(es, q, n, b, h), n < m,
                        Renews(q, m, b, h) \/ (m = N + 1 /\ a = b)
                 PROVE  \E k \in Nat : n < k /\ k < m /\ Drops(q, k, h)
      BY <1>2, <1>3 DEF Between, Places
    <2>1. CASE Renews(q, m, b, h)
      BY <2>1 DEF Consistent, Between, Places
    <2>2. CASE m = N + 1 /\ a = b
      <3>1. PICK k \in Nat : n < k /\ Drops(q, k, h)
        BY <2>2 DEF Ending, Places
      <3>2. k < m
        BY <1>2, <2>2, <3>1
      <3> QED BY <3>1, <3>2
    <2> QED BY <2>1, <2>2
  <1>5. Return(es, r, lm)
    <2> SUFFICES ASSUME NEW b \in Devices, NEW h \in Handles, NEW n \in Nat,
                        NEW k \in Nat, Got(es, q, n, b, h), n < k,
                        Drops(q, k, h), lm[b] # "down"
                 PROVE  \E m \in Nat : n < m /\ Requests(r, m, b)
      BY <1>2, <1>3 DEF Return, Places
    <2>1. CASE b = a
      <3>1. N + 1 \in Nat /\ n < N + 1 /\ Requests(r, N + 1, b)
        BY <1>2, <1>3, <2>1
      <3> QED BY <3>1
    <2>2. CASE b # a
      <3>1. lk[b] # "down"
        BY <2>2 DEF Relinked
      <3>2. PICK m \in Nat : n < m /\ Requests(q, m, b)
        BY <3>1 DEF Consistent, Return, Places
      <3> QED BY <1>2, <3>2
    <2> QED BY <2>1, <2>2
  <1>6. Asked(r, lm, hs)
    BY <1>2 DEF Consistent, Asked, Places, Relinked
  <1>7. Answered(r, lm)
    BY <1>2 DEF Consistent, Answered, Places, Relinked
  <1>8. Known(es, r, lm, hs)
    BY <1>3 DEF Consistent, Known, Places, Relinked
  <1>9. Ending(es, r, hs)
    BY <1>2, <1>3 DEF Ending, Places
  <1>10. Reported(es, q, lk, un) => Reported(es, r, lm, un)
    <2>1. N + 1 \in Nat /\ Requests(r, N + 1, a)
      BY <1>2
    <2> QED BY <1>2, <2>1 DEF Reported, Places, Relinked
  <1>11. Ghosts(es, q, lk, ex) => Ghosts(es, r, lm, ex)
    BY <1>1, MoreExcused DEF Ghosts, Relinked
  <1> QED BY <1>4, <1>5, <1>6, <1>7, <1>8, <1>9, <1>10, <1>11 DEF Consistent

\* A link comes up, with a handle nobody has.
LEMMA CompleteAdded ==
    ASSUME NEW es, NEW q, NEW r, NEW e, Extended(q, r, e),
           NEW a \in Devices, NEW h \in Handles,
           e.type = "ConnectionComplete", e.addr = a, e.handle = h,
           NEW lk, NEW lm, lk[a] = "accepted", Relinked(lk, lm, a, "up"),
           NEW hs, NEW ht, hs[a] \notin Handles, Relinked(hs, ht, a, h),
           \A b \in Devices : hs[b] # h, Ending(es, q, hs),
           Consistent(es, q, lk, hs), NEW un, NEW ex
    PROVE  /\ Consistent(es, r, lm, ht)
           /\ Ending(es, r, ht)
           /\ Reported(es, q, lk, un) => Reported(es, r, lm, un)
           /\ Ghosts(es, q, lk, ex) => Ghosts(es, r, lm, ex)
  <1>1. PICK N \in Nat : Within(q, N) /\ SaysMore(q, r, e, N)
    BY ExtendedSays
  <1>2. ASSUME NEW n \in Nat, NEW b, NEW g
        PROVE  /\ Requests(r, n, b) <=> Requests(q, n, b)
               /\ Fails(r, n, b) <=> Fails(q, n, b)
               /\ Completes(r, n, b, g) <=>
                     Completes(q, n, b, g) \/ (n = N + 1 /\ a = b /\ h = g)
               /\ Drops(r, n, g) <=> Drops(q, n, g)
               /\ Requests(q, n, b) \/ Completes(q, n, b, g) \/ Drops(q, n, g) => n <= N
    BY <1>1 DEF Within, SaysMore
  <1>3. \A n \in Nat : \A b, g :
            /\ Got(es, r, n, b, g) <=>
                  Got(es, q, n, b, g) \/ (n = N + 1 /\ a = b /\ h = g)
            /\ Got(es, q, n, b, g) => n <= N
    BY <1>2 DEF Got
  <1>4. \A n \in Nat : \A b, g :
            /\ Renews(r, n, b, g) =>
                  Renews(q, n, b, g) \/ (n = N + 1 /\ (a = b \/ h = g))
            /\ Renews(q, n, b, g) => n <= N
    BY <1>2 DEF Renews
  <1>a. \A n \in Nat : /\ \A b : Requests(q, n, b) => n <= N
                         /\ \A g : Drops(q, n, g) => n <= N
    BY <1>1 DEF Within
  <1>5. Between(es, r)
    <2> SUFFICES ASSUME NEW b \in Devices, NEW g \in Handles, NEW n \in Nat,
                        NEW m \in Nat, Got(es, r, n, b, g), n < m,
                        Renews(r, m, b, g)
                 PROVE  \E k \in Nat : n < k /\ k < m /\ Drops(q, k, g)
      BY <1>2 DEF Between, Places
    <2>0. m <= N + 1
      BY <1>4
    <2>1. Got(es, q, n, b, g)
      BY <1>3, <2>0
    <2>2. CASE Renews(q, m, b, g)
      BY <2>1, <2>2 DEF Consistent, Between, Places
    <2>3. CASE m = N + 1 /\ (a = b \/ h = g)
      <3>0. hs[b] # g
        BY <2>3
      <3>1. PICK k \in Nat : n < k /\ Drops(q, k, g)
        BY <2>1, <3>0 DEF Ending, Places
      <3>2. k < m
        <4>1. k <= N
          BY <1>1, <3>1 DEF Within
        <4> QED BY <2>3, <4>1
      <3> QED BY <3>1, <3>2
    <2> QED BY <1>4, <2>2, <2>3
  <1>6. Return(es, r, lm)
    <2> SUFFICES ASSUME NEW b \in Devices, NEW g \in Handles, NEW n \in Nat,
                        NEW k \in Nat, Got(es, r, n, b, g), n < k,
                        Drops(q, k, g), lm[b] # "down"
                 PROVE  \E m \in Nat : n < m /\ Requests(q, m, b)
      BY <1>2 DEF Return, Places
    <2>1. Got(es, q, n, b, g)
      <3>1. k <= N
        BY <1>1 DEF Within
      <3> QED BY <1>3, <3>1
    <2>2. lk[b] # "down"
      BY DEF Relinked
    <2> QED BY <2>1, <2>2 DEF Consistent, Return, Places
  <1>7. Asked(r, lm, ht)
    <2> SUFFICES ASSUME NEW b \in Devices, NEW n \in Nat, lm[b] = "up",
                        Requests(q, n, b)
                 PROVE  \E k \in Nat : n < k /\ Completes(r, k, b, ht[b])
      BY <1>2 DEF Asked, Places
    <2>1. CASE b = a
      <3>1. N + 1 \in Nat /\ n < N + 1 /\ Completes(r, N + 1, b, ht[b])
        BY <1>2, <1>a, <2>1 DEF Relinked
      <3> QED BY <3>1
    <2>2. CASE b # a
      <3>1. lk[b] = "up" /\ ht[b] = hs[b]
        BY <2>2 DEF Relinked
      <3>2. PICK k \in Nat : n < k /\ Completes(q, k, b, hs[b])
        BY <3>1 DEF Consistent, Asked, Places
      <3> QED BY <1>2, <3>1, <3>2
    <2> QED BY <2>1, <2>2
  <1>8. Answered(r, lm)
    <2> SUFFICES ASSUME NEW b \in Devices, NEW n \in Nat, lm[b] = "down",
                        Requests(q, n, b)
                 PROVE  \E k \in Nat :
                           n < k /\ \/ Fails(r, k, b)
                                    \/ \E g \in Handles : Completes(r, k, b, g)
      BY <1>2 DEF Answered, Places
    <2>1. lk[b] = "down"
      BY DEF Relinked
    <2>2. PICK k \in Nat : n < k /\ \/ Fails(q, k, b)
                                    \/ \E g \in Handles : Completes(q, k, b, g)
      BY <2>1 DEF Consistent, Answered, Places
    <2> QED BY <1>2, <2>2
  <1>9. Known(es, r, lm, ht)
    <2> SUFFICES ASSUME NEW b \in Devices, Kid(es, b), lm[b] = "up"
                 PROVE  \E n \in Nat : Got(es, r, n, b, ht[b])
      BY DEF Known, Places
    <2>1. CASE b = a
      <3>1. N + 1 \in Nat /\ Got(es, r, N + 1, b, ht[b])
        BY <1>3, <2>1 DEF Relinked
      <3> QED BY <3>1
    <2>2. CASE b # a
      <3>1. lk[b] = "up" /\ ht[b] = hs[b]
        BY <2>2 DEF Relinked
      <3> QED BY <1>3, <3>1 DEF Consistent, Known, Places
    <2> QED BY <2>1, <2>2
  <1>10. Ending(es, r, ht)
    <2> SUFFICES ASSUME NEW b \in Devices, NEW g \in Handles, NEW n \in Nat,
                        Got(es, r, n, b, g), ht[b] # g
                 PROVE  \E k \in Nat : n < k /\ Drops(q, k, g)
      BY <1>2 DEF Ending, Places
    <2>1. Got(es, q, n, b, g)
      BY <1>3 DEF Relinked
    <2>2. hs[b] # g
      BY DEF Relinked
    <2> QED BY <2>1, <2>2 DEF Ending, Places
  <1>11. Reported(es, q, lk, un) => Reported(es, r, lm, un)
    BY <1>2 DEF Reported, Places, Relinked
  <1>12. Ghosts(es, q, lk, ex) => Ghosts(es, r, lm, ex)
    BY <1>1, MoreExcused DEF Ghosts, Relinked
  <1> QED BY <1>5, <1>6, <1>7, <1>8, <1>9, <1>10, <1>11, <1>12 DEF Consistent

\* A link that was not up yet fails.
LEMMA FailureAdded ==
    ASSUME NEW es, NEW q, NEW r, NEW e, Extended(q, r, e),
           NEW a \in Devices, e.type = "ConnectionFailed", e.addr = a,
           NEW lk, NEW lm, lk[a] # "up", Relinked(lk, lm, a, "down"),
           NEW hs, Ending(es, q, hs), Consistent(es, q, lk, hs), NEW un, NEW ex
    PROVE  /\ Consistent(es, r, lm, hs)
           /\ Ending(es, r, hs)
           /\ Reported(es, q, lk, un) => Reported(es, r, lm, un)
           /\ Ghosts(es, q, lk, ex) => Ghosts(es, r, lm, ex)
  <1>1. PICK N \in Nat : Within(q, N) /\ SaysMore(q, r, e, N)
    BY ExtendedSays
  <1>2. ASSUME NEW n \in Nat, NEW b, NEW h
        PROVE  /\ Requests(r, n, b) <=> Requests(q, n, b)
               /\ Fails(r, n, b) <=> Fails(q, n, b) \/ (n = N + 1 /\ a = b)
               /\ Completes(r, n, b, h) <=> Completes(q, n, b, h)
               /\ Drops(r, n, h) <=> Drops(q, n, h)
    BY <1>1 DEF Within, SaysMore
  <1>3. \A n \in Nat : \A b, h : /\ Got(es, r, n, b, h) <=> Got(es, q, n, b, h)
                                 /\ Renews(r, n, b, h) <=> Renews(q, n, b, h)
    BY <1>2 DEF Got, Renews
  <1>4. Between(es, r)
    BY <1>2, <1>3 DEF Consistent, Between, Places
  <1>5. Return(es, r, lm)
    BY <1>2, <1>3 DEF Consistent, Return, Places, Relinked
  <1>6. Asked(r, lm, hs)
    BY <1>2 DEF Consistent, Asked, Places, Relinked
  <1>7. Answered(r, lm)
    <2> SUFFICES ASSUME NEW b \in Devices, NEW n \in Nat, lm[b] = "down",
                        Requests(q, n, b)
                 PROVE  \E k \in Nat :
                           n < k /\ \/ Fails(r, k, b)
                                    \/ \E g \in Handles : Completes(r, k, b, g)
      BY <1>2 DEF Answered, Places
    <2>1. CASE b = a
      <3>1. n <= N
        BY <1>1 DEF Within
      <3>2. N + 1 \in Nat /\ n < N + 1 /\ Fails(r, N + 1, b)
        BY <1>2, <2>1, <3>1
      <3> QED BY <3>2
    <2>2. CASE b # a
      <3>1. lk[b] = "down"
        BY <2>2 DEF Relinked
      <3>2. PICK k \in Nat : n < k /\ \/ Fails(q, k, b)
                                      \/ \E g \in Handles : Completes(q, k, b, g)
        BY <3>1 DEF Consistent, Answered, Places
      <3> QED BY <1>2, <3>2
    <2> QED BY <2>1, <2>2
  <1>8. Known(es, r, lm, hs)
    BY <1>3 DEF Consistent, Known, Places, Relinked
  <1>9. Ending(es, r, hs)
    BY <1>2, <1>3 DEF Ending, Places
  <1>10. Reported(es, q, lk, un) => Reported(es, r, lm, un)
    BY <1>2 DEF Reported, Places, Relinked
  <1>11. Ghosts(es, q, lk, ex) => Ghosts(es, r, lm, ex)
    <2> SUFFICES ASSUME Ghosts(es, q, lk, ex), NEW b \in Devices, Kid(es, b),
                        lm[b] = "down"
                 PROVE  Excused(es, r, ex, b)
      BY DEF Ghosts
    <2>1. CASE b = a
      <3>1. N + 1 \in Nat /\ Fails(r, N + 1, b)
        BY <1>2, <2>1
      <3> QED BY <3>1 DEF Excused, Places
    <2>2. CASE b # a
      <3>1. Excused(es, q, ex, b)
        BY <2>2 DEF Ghosts, Relinked
      <3> QED BY <1>1, <3>1, MoreExcused
    <2> QED BY <2>1, <2>2
  <1> QED BY <1>4, <1>5, <1>6, <1>7, <1>8, <1>9, <1>10, <1>11 DEF Consistent

\* Device a has handle h, and nobody else has.
Sole(hs, a, h) == hs[a] = h /\ \A b \in Devices : hs[b] = h => b = a

\* A link goes down.
LEMMA DropAdded ==
    ASSUME NEW es, NEW q, NEW r, NEW e, Extended(q, r, e),
           NEW a \in Devices, NEW h \in Handles,
           e.type = "DisconnectionComplete", e.handle = h,
           NEW lk, NEW lm, lk[a] = "up", Relinked(lk, lm, a, "down"),
           NEW hs, NEW ht, Sole(hs, a, h), Relinked(hs, ht, a, NoHandle),
           Ending(es, q, hs), Consistent(es, q, lk, hs), NEW un, NEW ex
    PROVE  /\ Consistent(es, r, lm, ht)
           /\ Ending(es, r, ht)
           /\ Reported(es, q, lk, un) => Reported(es, r, lm, un \ {a})
           /\ Ghosts(es, q, lk, ex) => Ghosts(es, r, lm, ex)
  <1> hs[a] = h /\ \A b \in Devices : hs[b] = h => b = a
    BY DEF Sole
  <1>1. PICK N \in Nat : Within(q, N) /\ SaysMore(q, r, e, N)
    BY ExtendedSays
  <1>2. ASSUME NEW n \in Nat, NEW b, NEW g
        PROVE  /\ Requests(r, n, b) <=> Requests(q, n, b)
               /\ Fails(r, n, b) <=> Fails(q, n, b)
               /\ Completes(r, n, b, g) <=> Completes(q, n, b, g)
               /\ Drops(r, n, g) <=> Drops(q, n, g) \/ (n = N + 1 /\ h = g)
               /\ Completes(q, n, b, g) => n <= N
    BY <1>1 DEF Within, SaysMore
  <1>3. \A n \in Nat : \A b, g :
            /\ Got(es, r, n, b, g) <=> Got(es, q, n, b, g)
            /\ Got(es, q, n, b, g) => n < N + 1
            /\ Renews(r, n, b, g) <=> Renews(q, n, b, g)
    BY <1>2 DEF Got, Renews
  <1>4. Between(es, r)
    BY <1>2, <1>3 DEF Consistent, Between, Places
  <1>5. Return(es, r, lm)
    <2> SUFFICES ASSUME NEW b \in Devices, NEW g \in Handles, NEW n \in Nat,
                        NEW k \in Nat, Got(es, q, n, b, g), n < k,
                        Drops(r, k, g), lm[b] # "down"
                 PROVE  \E m \in Nat : n < m /\ Requests(q, m, b)
      BY <1>2, <1>3 DEF Return, Places
    <2>1. b # a /\ lk[b] # "down"
      BY DEF Relinked
    <2>2. \E j \in Nat : n < j /\ Drops(q, j, g)
      <3>1. CASE Drops(q, k, g)
        BY <3>1
      <3>2. CASE h = g
        <4>1. hs[b] # g
          BY <2>1, <3>2
        <4> QED BY <4>1 DEF Ending, Places
      <3> QED BY <1>2, <3>1, <3>2
    <2> QED BY <2>1, <2>2 DEF Consistent, Return, Places
  <1>6. Asked(r, lm, ht)
    BY <1>2 DEF Consistent, Asked, Places, Relinked
  <1>7. Answered(r, lm)
    <2> SUFFICES ASSUME NEW b \in Devices, NEW n \in Nat, lm[b] = "down",
                        Requests(q, n, b)
                 PROVE  \E k \in Nat :
                           n < k /\ \/ Fails(q, k, b)
                                    \/ \E g \in Handles : Completes(q, k, b, g)
      BY <1>2 DEF Answered, Places
    <2>1. CASE b = a
      BY <2>1 DEF Consistent, Asked, Places
    <2>2. CASE b # a
      <3>1. lk[b] = "down"
        BY <2>2 DEF Relinked
      <3> QED BY <3>1 DEF Consistent, Answered, Places
    <2> QED BY <2>1, <2>2
  <1>8. Known(es, r, lm, ht)
    BY <1>3 DEF Consistent, Known, Places, Relinked
  <1>9. Ending(es, r, ht)
    <2> SUFFICES ASSUME NEW b \in Devices, NEW g \in Handles, NEW n \in Nat,
                        Got(es, q, n, b, g), ht[b] # g
                 PROVE  \E k \in Nat : n < k /\ Drops(r, k, g)
      BY <1>3 DEF Ending, Places
    <2>1. CASE hs[b] = g
      <3>1. N + 1 \in Nat /\ n < N + 1 /\ Drops(r, N + 1, g)
        BY <1>2, <1>3, <2>1 DEF Relinked
      <3> QED BY <3>1
    <2>2. CASE hs[b] # g
      BY <1>2, <2>2 DEF Ending, Places
    <2> QED BY <2>1, <2>2
  <1>10. Reported(es, q, lk, un) => Reported(es, r, lm, un \ {a})
    BY <1>2 DEF Reported, Places, Relinked
  <1>11. Ghosts(es, q, lk, ex) => Ghosts(es, r, lm, ex)
    <2> SUFFICES ASSUME Ghosts(es, q, lk, ex), NEW b \in Devices, Kid(es, b),
                        lm[b] = "down"
                 PROVE  Excused(es, r, ex, b)
      BY DEF Ghosts
    <2>1. CASE b = a
      <3>1. PICK n \in Nat : Got(es, q, n, a, h)
        BY <2>1 DEF Consistent, Known, Places
      <3>2. CASE Holds(es, a, h)
        <4>1. N + 1 \in Nat /\ Drops(r, N + 1, h)
          BY <1>2
        <4> QED BY <2>1, <3>2, <4>1 DEF Excused, Places
      <3>3. CASE Completes(q, n, a, h)
        <4>1. Completes(r, n, a, h)
          BY <1>2, <3>3
        <4> QED BY <2>1, <4>1 DEF Excused, Places
      <3> QED BY <3>1, <3>2, <3>3 DEF Got
    <2>2. CASE b # a
      <3>1. Excused(es, q, ex, b)
        BY <2>2 DEF Ghosts, Relinked
      <3> QED BY <1>1, <3>1, MoreExcused
    <2> QED BY <2>1, <2>2
  <1> QED BY <1>4, <1>5, <1>6, <1>7, <1>8, <1>9, <1>10, <1>11 DEF Consistent

-----------------------------------------------------------------------------
(* The interrupt reader has handled the first event of the line.           *)

\* The children of two lists of entries and their handles are the same.
SameKids(es, fs) == \A a \in Devices :
    /\ Kid(fs, a) <=> Kid(es, a)
    /\ \A h \in Handles : Holds(fs, a, h) <=> Holds(es, a, h)

\* The links that are up, and those that are down, are the same.
SameEnds(lk, lm) == \A a \in Devices : /\ lm[a] = "up" <=> lk[a] = "up"
                                       /\ lm[a] = "down" <=> lk[a] = "down"

\* What the handling of any event keeps as long as the children inherit.
LEMMA ShiftConsistent ==
    ASSUME NEW es, NEW fs, NEW q, NEW r, NEW lk, NEW lm, NEW hs,
           SaysLess(q, r), \E N \in Nat : Within(q, N), Inherited(es, fs, q),
           SameEnds(lk, lm), Consistent(es, q, lk, hs)
    PROVE  /\ Between(fs, r) /\ Return(fs, r, lm) /\ Asked(r, lm, hs)
           /\ Answered(r, lm) /\ Unique(fs)
           /\ Ending(es, q, hs) => Ending(fs, r, hs)
  <1>1. /\ \A a \in Devices : lm[a] # "down" => lk[a] # "down"
        /\ \A a \in Devices : lm[a] = "up" => lk[a] = "up"
        /\ \A a \in Devices : lm[a] = "down" => lk[a] = "down"
    BY DEF SameEnds
  <1>2. Between(fs, r)
    BY ShiftKeeps DEF Consistent
  <1>3. Return(fs, r, lm)
    BY <1>1, ShiftKeeps DEF Consistent
  <1>4. Asked(r, lm, hs)
    BY <1>1, ShiftAnswers DEF Consistent
  <1>5. Answered(r, lm)
    BY <1>1, ShiftAnswers DEF Consistent
  <1>6. Unique(fs)
    BY ShiftKeeps DEF Consistent
  <1>7. Ending(es, q, hs) => Ending(fs, r, hs)
    BY ShiftKeeps
  <1> QED BY <1>2, <1>3, <1>4, <1>5, <1>6, <1>7

\* What is said later than at place 1 is still said.
LEMMA LaterSaid ==
    ASSUME NEW q, NEW r, SaysLess(q, r), NEW n \in Nat, 1 < n
    PROVE  /\ n - 1 \in Nat
           /\ \A a, h : /\ Requests(q, n, a) => Requests(r, n - 1, a)
                        /\ Fails(q, n, a) => Fails(r, n - 1, a)
                        /\ Completes(q, n, a, h) => Completes(r, n - 1, a, h)
                        /\ Drops(q, n, h) => Drops(r, n - 1, h)
  <1>1. n - 1 \in Nat /\ 0 < n - 1 /\ (n - 1) + 1 = n
    OBVIOUS
  <1> QED BY <1>1 DEF SaysLess

\* A child stays excused unless the first event was its excuse.
LEMMA StillExcused ==
    ASSUME NEW es, NEW fs, NEW q, NEW r, SaysLess(q, r), \E N \in Nat : Within(q, N),
           NEW ex, NEW fx, ex \subseteq fx, NEW a, Excused(es, q, ex, a),
           ~Fails(q, 1, a), ~Requests(q, 1, a),
           \A h \in Handles : /\ ~Completes(q, 1, a, h)
                              /\ Holds(es, a, h) => Holds(fs, a, h)
                              /\ Holds(es, a, h) => ~Drops(q, 1, h)
    PROVE  Excused(fs, r, fx, a)
  <1>1. CASE a \in ex
    BY <1>1 DEF Excused
  <1>2. ASSUME NEW n \in Nat,
               \/ Fails(q, n, a)
               \/ Requests(q, n, a)
               \/ \E h \in Handles : \/ Completes(q, n, a, h)
                                     \/ Holds(es, a, h) /\ Drops(q, n, h)
        PROVE  Excused(fs, r, fx, a)
    <2>1. 1 <= n
      BY <1>2 DEF Within
    <2>2. 1 < n
      BY <1>2, <2>1
    <2>3. /\ n - 1 \in Nat
          /\ \A h : /\ Requests(q, n, a) => Requests(r, n - 1, a)
                    /\ Fails(q, n, a) => Fails(r, n - 1, a)
                    /\ Completes(q, n, a, h) => Completes(r, n - 1, a, h)
                    /\ Drops(q, n, h) => Drops(r, n - 1, h)
      BY <2>2, LaterSaid
    <2> QED BY <1>2, <2>3 DEF Excused, Places
  <1> QED BY <1>1, <1>2 DEF Excused, Places

\* The handle of a link stays known if a child keeps it or has just got it.
LEMMA StillKnown ==
    ASSUME NEW es, NEW fs, NEW q, NEW r, SaysLess(q, r),
           NEW a, NEW h, NEW n \in Nat, Got(es, q, n, a, h),
           n = 0 => Holds(fs, a, h), n = 1 => Holds(fs, a, h)
    PROVE  \E m \in Nat : Got(fs, r, m, a, h)
  <1>1. CASE n \in {0, 1}
    <2>1. Got(fs, r, 0, a, h)
      BY <1>1 DEF Got
    <2> QED BY <2>1
  <1>2. CASE n \notin {0, 1}
    <2>1. 1 < n
      BY <1>2
    <2>2. n - 1 \in Nat /\ Completes(r, n - 1, a, h)
      BY <1>2, <2>1, LaterSaid DEF Got
    <2> QED BY <2>2 DEF Got
  <1> QED BY <1>1, <1>2

\* A device stays reported.
LEMMA StillReported ==
    ASSUME NEW q, NEW r, SaysLess(q, r), \E N \in Nat : Within(q, N),
           NEW a, ~Requests(q, 1, a), NEW n \in Nat, Requests(q, n, a)
    PROVE  \E m \in Nat : Requests(r, m, a)
  <1>1. 1 < n
    BY DEF Within
  <1> QED BY <1>1, LaterSaid

\* An event about neither a link nor a handle, or about a link that failed.
LEMMA FailureHandled ==
    ASSUME NEW es, NEW q, NEW r, SaysLess(q, r), \E N \in Nat : Within(q, N),
           q[1].type \in {"RemoteName", "ConnectionFailed"},
           NEW lk, NEW hs, Consistent(es, q, lk, hs), NEW un, NEW ex, NEW fx,
           ex \subseteq fx,
           \A a \in Devices : Fails(q, 1, a) /\ Kid(es, a) => a \in fx
    PROVE  /\ Consistent(es, r, lk, hs)
           /\ Ending(es, q, hs) => Ending(es, r, hs)
           /\ Reported(es, q, lk, un) => Reported(es, r, lk, un)
           /\ Ghosts(es, q, lk, ex) => Ghosts(es, r, lk, fx)
  <1>1. \A a, h : /\ ~Requests(q, 1, a)
                  /\ ~Completes(q, 1, a, h)
                  /\ ~Drops(q, 1, h)
                  /\ ~Renews(q, 1, a, h)
    BY DEF Says, Requests, Completes, Drops, Renews
  <1>2. Inherited(es, es, q)
    BY <1>1 DEF Inherited
  <1>3. /\ Between(es, r) /\ Return(es, r, lk) /\ Asked(r, lk, hs)
        /\ Answered(r, lk) /\ Unique(es)
        /\ Ending(es, q, hs) => Ending(es, r, hs)
    <2>1. SameEnds(lk, lk)
      BY DEF SameEnds
    <2> QED BY <1>2, <2>1, ShiftConsistent
  <1>4. Known(es, r, lk, hs)
    <2> SUFFICES ASSUME NEW a \in Devices, Kid(es, a), lk[a] = "up"
                 PROVE  \E m \in Nat : Got(es, r, m, a, hs[a])
      BY DEF Known, Places
    <2>1. PICK n \in Nat : Got(es, q, n, a, hs[a])
      BY DEF Consistent, Known, Places
    <2>2. n = 0 => Holds(es, a, hs[a])
      BY <2>1 DEF Got, Completes, Says, Within
    <2>3. n # 1
      BY <1>1, <2>1 DEF Got
    <2> QED BY <2>1, <2>2, <2>3, StillKnown
  <1>5. Reported(es, q, lk, un) => Reported(es, r, lk, un)
    BY <1>1, StillReported DEF Reported, Places
  <1>6. Ghosts(es, q, lk, ex) => Ghosts(es, r, lk, fx)
    <2> SUFFICES ASSUME NEW a \in Devices, Kid(es, a), Excused(es, q, ex, a)
                 PROVE  Excused(es, r, fx, a)
      BY DEF Ghosts
    <2>1. CASE Fails(q, 1, a)
      BY <2>1 DEF Excused
    <2>2. CASE ~Fails(q, 1, a)
      BY <1>1, <2>2, StillExcused
    <2> QED BY <2>1, <2>2
  <1> QED BY <1>3, <1>4, <1>5, <1>6 DEF Consistent

\* The children that hold handle h are dropped.
Dropped(es, fs, h) == \A a \in Devices :
    /\ Kid(fs, a) <=> Kid(es, a) /\ ~Holds(es, a, h)
    /\ \A g \in Handles : Holds(fs, a, g) <=> Holds(es, a, g) /\ g # h

\* A disconnection: the child that holds the handle is dropped.
LEMMA DropHandled ==
    ASSUME NEW es, NEW fs, NEW q, NEW r, SaysLess(q, r),
           \E N \in Nat : Within(q, N),
           NEW h \in Handles, Drops(q, 1, h), Dropped(es, fs, h),
           NEW lk, NEW hs, Consistent(es, q, lk, hs),
           \A a \in Devices : lk[a] = "up" => hs[a] \in Handles,
           NEW un, NEW ex
    PROVE  /\ Consistent(fs, r, lk, hs)
           /\ Ending(es, q, hs) => Ending(fs, r, hs)
           /\ Reported(es, q, lk, un) => Reported(fs, r, lk, un)
           /\ Ghosts(es, q, lk, ex) => Ghosts(fs, r, lk, ex)
  <1>1. \A a, g : /\ ~Requests(q, 1, a)
                  /\ ~Fails(q, 1, a)
                  /\ ~Completes(q, 1, a, g)
                  /\ ~Renews(q, 1, a, g)
                  /\ Drops(q, 1, g) => g = h
    BY DEF Says, Requests, Fails, Completes, Drops, Renews
  <1>2. Inherited(es, fs, q)
    BY <1>1 DEF Inherited, Dropped
  <1>3. /\ Between(fs, r) /\ Return(fs, r, lk) /\ Asked(r, lk, hs)
        /\ Answered(r, lk) /\ Unique(fs)
        /\ Ending(es, q, hs) => Ending(fs, r, hs)
    <2>1. SameEnds(lk, lk)
      BY DEF SameEnds
    <2> QED BY <1>2, <2>1, ShiftConsistent
  <1>4. Known(fs, r, lk, hs)
    <2> SUFFICES ASSUME NEW a \in Devices, Kid(fs, a), lk[a] = "up"
                 PROVE  \E m \in Nat : Got(fs, r, m, a, hs[a])
      BY DEF Known, Places
    <2>1. Kid(es, a) /\ ~Holds(es, a, h) /\ hs[a] \in Handles
      BY DEF Dropped
    <2>2. PICK n \in Nat : Got(es, q, n, a, hs[a])
      BY <2>1 DEF Consistent, Known, Places
    <2>3. n # 1
      BY <1>1, <2>2 DEF Got
    <2>4. n = 0 => Holds(es, a, hs[a])
      BY <2>2 DEF Got, Completes, Says, Within
    <2>5. n = 0 => Holds(fs, a, hs[a])
      BY <2>1, <2>4 DEF Dropped
    <2> QED BY <2>2, <2>3, <2>5, StillKnown
  <1>5. Reported(es, q, lk, un) => Reported(fs, r, lk, un)
    <2> SUFFICES ASSUME Reported(es, q, lk, un), NEW a \in Devices \ un,
                        lk[a] \in {"accepted", "up"}, ~Kid(fs, a)
                 PROVE  \E n \in Nat : Requests(r, n, a)
      BY DEF Reported, Places
    <2>1. \E n \in Nat : Requests(q, n, a)
      <3>1. CASE Kid(es, a)
        <4>1. Holds(es, a, h)
          BY <3>1 DEF Dropped
        <4>2. Got(es, q, 0, a, h)
          BY <4>1 DEF Got
        <4> QED BY <4>2 DEF Consistent, Return, Places
      <3>2. CASE ~Kid(es, a)
        BY <3>2 DEF Reported, Places
      <3> QED BY <3>1, <3>2
    <2> QED BY <1>1, <2>1, StillReported
  <1>6. Ghosts(es, q, lk, ex) => Ghosts(fs, r, lk, ex)
    <2> SUFFICES ASSUME NEW a \in Devices, Kid(fs, a), Excused(es, q, ex, a)
                 PROVE  Excused(fs, r, ex, a)
      BY DEF Ghosts, Dropped
    <2>1. ~Holds(es, a, h)
      BY DEF Dropped
    <2>2. \A g \in Handles : /\ Holds(es, a, g) => Holds(fs, a, g)
                             /\ Holds(es, a, g) => ~Drops(q, 1, g)
      BY <1>1, <2>1 DEF Dropped
    <2> QED BY <1>1, <2>2, StillExcused
  <1> QED BY <1>3, <1>4, <1>5, <1>6 DEF Consistent

\* The child of device a, if there is one, now holds handle h.
Handed(es, fs, a, h) == \A b \in Devices :
    /\ Kid(fs, b) <=> Kid(es, b)
    /\ \A g \in Handles :
          Holds(fs, b, g) <=> IF b = a THEN Kid(es, a) /\ g = h
                              ELSE Holds(es, b, g)

\* A completed connection: the handle is stored.
LEMMA CompleteHandled ==
    ASSUME NEW es, NEW fs, NEW q, NEW r, SaysLess(q, r),
           \E N \in Nat : Within(q, N),
           NEW a \in Devices, NEW h \in Handles, Completes(q, 1, a, h),
           Handed(es, fs, a, h),
           NEW lk, NEW hs, Consistent(es, q, lk, hs), Ending(es, q, hs),
           \A b \in Devices : lk[b] = "up" <=> hs[b] \in Handles,
           NEW un, NEW ex
    PROVE  /\ Consistent(fs, r, lk, hs)
           /\ Ending(fs, r, hs)
           /\ Reported(es, q, lk, un) => Reported(fs, r, lk, un)
           /\ Ghosts(es, q, lk, ex) => Ghosts(fs, r, lk, ex)
  <1>1. \A b, g : /\ ~Requests(q, 1, b)
                  /\ ~Fails(q, 1, b)
                  /\ Completes(q, 1, b, g) => b = a /\ g = h
                  /\ ~Drops(q, 1, g)
    BY DEF Says, Requests, Fails, Completes, Drops
  <1>2. ASSUME NEW b \in Devices, NEW g \in Handles, Renews(q, 1, b, g)
        PROVE  ~Holds(es, b, g)
    <2>1. Got(es, q, 0, b, g) => \E k \in Nat : 0 < k /\ k < 1
      BY <1>2 DEF Consistent, Between, Places
    <2> QED BY <2>1 DEF Got
  <1>3. \A g \in Handles : ~Holds(es, a, g)
    BY <1>2 DEF Renews
  <1>4. \A b \in Devices : ~Holds(es, b, h)
    BY <1>2 DEF Renews
  <1>5. Inherited(es, fs, q)
    BY <1>1, <1>2 DEF Inherited, Handed
  <1>6. /\ Between(fs, r) /\ Return(fs, r, lk) /\ Asked(r, lk, hs)
        /\ Answered(r, lk) /\ Unique(fs) /\ Ending(fs, r, hs)
    <2>1. SameEnds(lk, lk)
      BY DEF SameEnds
    <2> QED BY <1>5, <2>1, ShiftConsistent
  <1>7. Known(fs, r, lk, hs)
    <2> SUFFICES ASSUME NEW b \in Devices, Kid(fs, b), lk[b] = "up"
                 PROVE  \E m \in Nat : Got(fs, r, m, b, hs[b])
      BY DEF Known, Places
    <2>1. Kid(es, b) /\ hs[b] \in Handles
      BY DEF Handed
    <2>2. PICK n \in Nat : Got(es, q, n, b, hs[b])
      BY <2>1 DEF Consistent, Known, Places
    <2>3. n = 1 => Holds(fs, b, hs[b])
      BY <1>1, <2>1, <2>2 DEF Got, Handed
    <2>4. n = 0 => Holds(es, b, hs[b])
      BY <2>2 DEF Got, Completes, Says, Within
    <2>5. n = 0 => Holds(fs, b, hs[b])
      BY <1>3, <2>1, <2>4 DEF Handed
    <2> QED BY <2>2, <2>3, <2>5, StillKnown
  <1>8. Reported(es, q, lk, un) => Reported(fs, r, lk, un)
    BY <1>1, StillReported DEF Reported, Places, Handed
  <1>9. Ghosts(es, q, lk, ex) => Ghosts(fs, r, lk, ex)
    <2> SUFFICES ASSUME NEW b \in Devices, Kid(es, b), lk[b] = "down",
                        Excused(es, q, ex, b)
                 PROVE  Excused(fs, r, ex, b)
      BY DEF Ghosts, Handed
    <2>1. CASE b = a
      <3>1. Got(es, q, 1, a, h) /\ hs[a] # h
        BY <2>1 DEF Got
      <3>2. PICK k \in Nat : 1 < k /\ Drops(q, k, h)
        BY <3>1 DEF Ending, Places
      <3>3. k - 1 \in Nat /\ Drops(r, k - 1, h)
        BY <3>2, LaterSaid
      <3>4. Holds(fs, a, h)
        BY <2>1 DEF Handed
      <3> QED BY <2>1, <3>3, <3>4 DEF Excused, Places
    <2>2. CASE b # a
      <3>1. \A g \in Handles : Holds(es, b, g) => Holds(fs, b, g)
        BY <2>2 DEF Handed
      <3> QED BY <1>1, <2>2, <3>1, StillExcused
    <2> QED BY <2>1, <2>2
  <1> QED BY <1>6, <1>7, <1>8, <1>9 DEF Consistent

\* Device a may have a new child, without a handle; the others are the same.
Joined(es, fs, a) == \A b \in Devices :
    /\ Kid(es, b) => Kid(fs, b)
    /\ Kid(fs, b) => Kid(es, b) \/ b = a
    /\ \A h \in Handles : Holds(fs, b, h) <=> Holds(es, b, h)

\* The request of device a is answered: its link may be accepted, and it has a
\* child among fs unless that could not be created.
Answers(fs, a, lk, lm, hs, un, vn) ==
    /\ SameEnds(lk, lm)
    /\ \A b \in Devices : lm[b] = "accepted" => lk[b] = "accepted" \/ b = a
    /\ \A b \in Devices : lk[b] = "up" => hs[b] \in Handles
    /\ un \subseteq vn
    /\ Kid(fs, a) \/ a \in vn

\* A connection request: the child is reported, or that has failed.
LEMMA RequestHandled ==
    ASSUME NEW es, NEW fs, NEW q, NEW r, SaysLess(q, r),
           \E N \in Nat : Within(q, N),
           NEW a \in Devices, Requests(q, 1, a), Joined(es, fs, a),
           NEW lk, NEW lm, NEW hs, NEW un, NEW vn, Answers(fs, a, lk, lm, hs, un, vn),
           Consistent(es, q, lk, hs), NEW ex, NEW fx, ex \subseteq fx
    PROVE  /\ Consistent(fs, r, lm, hs)
           /\ Ending(es, q, hs) => Ending(fs, r, hs)
           /\ Reported(es, q, lk, un) => Reported(fs, r, lm, vn)
           /\ Ghosts(es, q, lk, ex) => Ghosts(fs, r, lm, fx)
  <1> /\ SameEnds(lk, lm)
      /\ \A b \in Devices : lm[b] = "accepted" => lk[b] = "accepted" \/ b = a
      /\ \A b \in Devices : lk[b] = "up" => hs[b] \in Handles
      /\ un \subseteq vn
      /\ Kid(fs, a) \/ a \in vn
    BY DEF Answers
  <1>1. \A b, g : /\ Requests(q, 1, b) => b = a
                  /\ ~Fails(q, 1, b)
                  /\ ~Completes(q, 1, b, g)
                  /\ ~Drops(q, 1, g)
    BY DEF Says, Requests, Fails, Completes, Drops
  <1>2. ASSUME NEW b \in Devices, NEW g \in Handles, Renews(q, 1, b, g)
        PROVE  ~Holds(es, b, g)
    <2>1. Got(es, q, 0, b, g) => \E k \in Nat : 0 < k /\ k < 1
      BY <1>2 DEF Consistent, Between, Places
    <2> QED BY <2>1 DEF Got
  <1>5. Inherited(es, fs, q)
    BY <1>1, <1>2 DEF Inherited, Joined
  <1>6. /\ Between(fs, r) /\ Return(fs, r, lm) /\ Asked(r, lm, hs)
        /\ Answered(r, lm) /\ Unique(fs)
        /\ Ending(es, q, hs) => Ending(fs, r, hs)
    BY <1>5, ShiftConsistent
  <1>7. Known(fs, r, lm, hs)
    <2> SUFFICES ASSUME NEW b \in Devices, Kid(fs, b), lm[b] = "up"
                 PROVE  \E m \in Nat : Got(fs, r, m, b, hs[b])
      BY DEF Known, Places
    <2>1. lk[b] = "up" /\ hs[b] \in Handles
      BY DEF SameEnds
    <2>2. \E n \in Nat : Got(es, q, n, b, hs[b])
      <3>1. CASE Kid(es, b)
        BY <2>1, <3>1 DEF Consistent, Known, Places
      <3>2. CASE b = a
        <4>1. PICK k \in Nat : Completes(q, k, a, hs[a])
          BY <2>1, <3>2 DEF Consistent, Asked, Places
        <4> QED BY <3>2, <4>1 DEF Got
      <3> QED BY <3>1, <3>2 DEF Joined
    <2>3. PICK n \in Nat : Got(es, q, n, b, hs[b])
      BY <2>2
    <2>4. n # 1
      BY <1>1, <2>3 DEF Got
    <2>5. n = 0 => Holds(es, b, hs[b])
      BY <2>3 DEF Got, Completes, Says, Within
    <2>6. n = 0 => Holds(fs, b, hs[b])
      BY <2>1, <2>5 DEF Joined
    <2> QED BY <2>3, <2>4, <2>6, StillKnown
  <1>8. Reported(es, q, lk, un) => Reported(fs, r, lm, vn)
    <2> SUFFICES ASSUME Reported(es, q, lk, un), NEW b \in Devices \ vn,
                        lm[b] \in {"accepted", "up"}, ~Kid(fs, b)
                 PROVE  \E n \in Nat : Requests(r, n, b)
      BY DEF Reported, Places
    <2>1. b # a /\ b \in Devices \ un /\ lk[b] \in {"accepted", "up"} /\ ~Kid(es, b)
      BY DEF Joined, SameEnds
    <2>2. ~Requests(q, 1, b)
      BY <1>1, <2>1
    <2>3. \E n \in Nat : Requests(q, n, b)
      BY <2>1 DEF Reported, Places
    <2> QED BY <2>2, <2>3, StillReported
  <1>9. Ghosts(es, q, lk, ex) => Ghosts(fs, r, lm, fx)
    <2> SUFFICES ASSUME Ghosts(es, q, lk, ex), NEW b \in Devices, Kid(fs, b),
                        lm[b] = "down"
                 PROVE  Excused(fs, r, fx, b)
      BY DEF Ghosts
    <2>0. lk[b] = "down"
      BY DEF SameEnds
    <2>1. CASE b = a
      <3>1. PICK k \in Nat : 1 < k /\ \/ Fails(q, k, a)
                                      \/ \E h \in Handles : Completes(q, k, a, h)
        BY <2>0, <2>1 DEF Consistent, Answered, Places
      <3>2. /\ k - 1 \in Nat
            /\ \A h : /\ Fails(q, k, a) => Fails(r, k - 1, a)
                      /\ Completes(q, k, a, h) => Completes(r, k - 1, a, h)
        BY <3>1, LaterSaid
      <3> QED BY <2>1, <3>1, <3>2 DEF Excused, Places
    <2>2. CASE b # a
      <3>1. Excused(es, q, ex, b)
        BY <2>0, <2>2 DEF Ghosts, Joined
      <3>2. \A h \in Handles : Holds(es, b, h) => Holds(fs, b, h)
        BY DEF Joined
      <3> QED BY <1>1, <2>2, <3>1, <3>2, StillExcused
    <2> QED BY <2>1, <2>2
  <1> QED BY <1>6, <1>7, <1>8, <1>9 DEF Consistent

\* Some children are gone, the others and their handles are the same.
Fewer(es, fs) == \A a \in Devices :
    /\ Kid(fs, a) => Kid(es, a)
    /\ \A h \in Handles : Holds(fs, a, h) <=> Kid(fs, a) /\ Holds(es, a, h)

\* Children are gone while the line stays the same.
LEMMA FewerKids ==
    ASSUME NEW es, NEW fs, NEW q, Fewer(es, fs), NEW lk, NEW hs,
           \A a \in Devices : lk[a] = "up" => hs[a] \in Handles,
           NEW un, NEW vn, un \subseteq vn,
           \A a \in Devices : lk[a] \in {"accepted", "up"} /\ Kid(es, a) =>
               Kid(fs, a) \/ a \in vn,
           NEW ex, NEW fx, \A a \in Devices : Kid(fs, a) /\ a \in ex => a \in fx
    PROVE  /\ Consistent(es, q, lk, hs) => Consistent(fs, q, lk, hs)
           /\ Ending(es, q, hs) => Ending(fs, q, hs)
           /\ Reported(es, q, lk, un) => Reported(fs, q, lk, vn)
           /\ Ghosts(es, q, lk, ex) => Ghosts(fs, q, lk, fx)
  <1>1. \A n \in Nat : \A a \in Devices, h \in Handles :
            Got(fs, q, n, a, h) => Got(es, q, n, a, h)
    BY DEF Got, Fewer
  <1>2. Between(es, q) => Between(fs, q)
    BY <1>1 DEF Between, Places
  <1>3. Return(es, q, lk) => Return(fs, q, lk)
    BY <1>1 DEF Return, Places
  <1>4. Known(es, q, lk, hs) => Known(fs, q, lk, hs)
    BY DEF Known, Places, Got, Fewer
  <1>5. Unique(es) => Unique(fs)
    BY DEF Unique, Fewer
  <1>6. Ending(es, q, hs) => Ending(fs, q, hs)
    BY <1>1 DEF Ending, Places
  <1>7. Reported(es, q, lk, un) => Reported(fs, q, lk, vn)
    BY DEF Reported, Places
  <1>8. Ghosts(es, q, lk, ex) => Ghosts(fs, q, lk, fx)
    <2> SUFFICES ASSUME NEW a \in Devices, Kid(fs, a), Excused(es, q, ex, a)
                 PROVE  Excused(fs, q, fx, a)
      BY DEF Ghosts, Fewer
    <2>1. \A h \in Handles : Holds(es, a, h) => Holds(fs, a, h)
      BY DEF Fewer
    <2> QED BY <2>1 DEF Excused, Places
  <1> QED BY <1>2, <1>3, <1>4, <1>5, <1>6, <1>7, <1>8 DEF Consistent

\* The same children with the same handles.
LEMMA SameIsFewer ==
    ASSUME NEW es, NEW fs, SameKids(es, fs)
    PROVE  Fewer(es, fs)
  <1>1. \A a \in Devices, h \in Handles : Holds(es, a, h) => Kid(es, a)
    BY DEF Holds, Kid
  <1> QED BY <1>1 DEF SameKids, Fewer

-----------------------------------------------------------------------------
(* The line of a state.                                                    *)

\* A sequence with one more element in front.
LEMMA ConsFacts ==
    ASSUME NEW S, NEW q \in Seq(S), NEW x \in S
    PROVE  /\ <<x>> \o q \in Seq(S)
           /\ Len(<<x>> \o q) = Len(q) + 1
           /\ (<<x>> \o q)[1] = x
           /\ \A n \in 1..Len(q) : (<<x>> \o q)[n + 1] = q[n]
  <1>1. <<x>> \in Seq(S) /\ Len(<<x>>) = 1 /\ <<x>>[1] = x
    OBVIOUS
  <1>2. PICK p \in Seq(S) : p = <<x>> /\ Len(p) = 1 /\ p[1] = x
    BY <1>1
  <1>3. /\ p \o q \in Seq(S)
        /\ Len(p \o q) = Len(p) + Len(q)
        /\ \A n \in 1..(Len(p) + Len(q)) :
              (p \o q)[n] = IF n <= Len(p) THEN p[n] ELSE q[n - Len(p)]
    BY ConcatProperties
  <1>4. Len(q) \in Nat
    OBVIOUS
  <1>5. Len(p \o q) = Len(q) + 1 /\ (p \o q)[1] = x
    BY <1>2, <1>3, <1>4
  <1>6. ASSUME NEW n \in 1..Len(q)
        PROVE  (p \o q)[n + 1] = q[n]
    <2>1. n + 1 \in 1..(1 + Len(q)) /\ ~(n + 1 <= 1) /\ (n + 1) - 1 = n
      BY <1>4
    <2> QED BY <1>2, <1>3, <2>1
  <1> QED BY <1>2, <1>3, <1>5, <1>6

\* The line's elements are events.
LEMMA LineType ==
    ASSUME TypeInv
    PROVE  /\ events \in Seq(EventSet) /\ Line \in Seq(EventSet)
           /\ ~Story => Line = events
           /\ Story => /\ Pending \in EventSet
                       /\ Shortened(Line, events)
                       /\ Line[1] = Pending
  <1>1. events \in Seq(EventSet)
    BY DEF TypeInv, TypeOK, RadioTypeOK
  <1>2. CASE Story
    <2>1. Pending \in EventSet
      <3>1. /\ intr.addr \in Devices
            /\ Stage = "handle" => intr.handle \in Handles
        BY <1>2, BusyFacts DEF TypeInv, Story
      <3> QED BY <1>2, <3>1 DEF Story, Pending, EventSet
    <2>2. PICK x \in EventSet : x = Pending
      BY <2>1
    <2>3. /\ <<x>> \o events \in Seq(EventSet)
          /\ Len(<<x>> \o events) = Len(events) + 1
          /\ (<<x>> \o events)[1] = x
          /\ \A n \in 1..Len(events) : (<<x>> \o events)[n + 1] = events[n]
      BY <1>1, ConsFacts
    <2>4. Line = <<x>> \o events
      BY <1>2, <2>2 DEF Line
    <2>5. PICK q \in Seq(EventSet) :
             /\ q = Line /\ Len(q) = Len(events) + 1 /\ q[1] = x
             /\ \A n \in 1..Len(events) : q[n + 1] = events[n]
      BY <2>3, <2>4
    <2>6. Shortened(q, events)
      <3>1. /\ DOMAIN events = 1..Len(events) /\ Len(events) \in Nat
            /\ DOMAIN q = 1..Len(q)
        BY <1>1
      <3> QED BY <2>5, <3>1 DEF Shortened
    <2> QED BY <1>1, <1>2, <2>1, <2>2, <2>5, <2>6
  <1>3. CASE ~Story
    BY <1>1, <1>3 DEF Line
  <1> QED BY <1>2, <1>3

\* An event is queued.
LEMMA LineExtended ==
    ASSUME TypeInv, NEW e \in EventSet, events' = Append(events, e), UNCHANGED intr
    PROVE  Extended(Line, Line', e)
  <1>1. (Story' <=> Story) /\ Pending' = Pending
    BY DEF Story, Pending, IntrBusy, Stage
  <1>2. events \in Seq(EventSet) /\ Append(events, e) \in Seq(EventSet)
    BY DEF TypeInv, TypeOK, RadioTypeOK
  <1>3. /\ DOMAIN events = 1..Len(events) /\ Len(events) \in Nat
        /\ Len(Append(events, e)) = Len(events) + 1
        /\ DOMAIN Append(events, e) = 1..(Len(events) + 1)
        /\ Append(events, e)[Len(events) + 1] = e
        /\ \A i \in 1..Len(events) : Append(events, e)[i] = events[i]
    BY <1>2, AppendFacts
  <1>4. CASE ~Story
    <2>1. Line = events /\ Line' = Append(events, e)
      BY <1>1, <1>4 DEF Line
    <2> QED BY <1>3, <2>1 DEF Extended
  <1>5. CASE Story
    <2>1. PICK x \in EventSet : x = Pending
      BY <1>5, LineType
    <2>2. Line = <<x>> \o events /\ Line' = <<x>> \o Append(events, e)
      BY <1>1, <1>5, <2>1 DEF Line
    <2>3. PICK r : r = Append(events, e)
      OBVIOUS
    <2>4. /\ <<x>> \o events \in Seq(EventSet)
          /\ Len(<<x>> \o events) = Len(events) + 1
          /\ (<<x>> \o events)[1] = x
          /\ \A n \in 1..Len(events) : (<<x>> \o events)[n + 1] = events[n]
      BY <1>2, ConsFacts
    <2>5. /\ <<x>> \o r \in Seq(EventSet)
          /\ Len(<<x>> \o r) = Len(r) + 1
          /\ (<<x>> \o r)[1] = x
          /\ \A n \in 1..Len(r) : (<<x>> \o r)[n + 1] = r[n]
      BY <1>2, <2>3, ConsFacts
    <2>6. PICK p, s : p = <<x>> \o events /\ s = <<x>> \o r
      OBVIOUS
    <2>7. PICK N \in Nat : N = Len(events)
      BY <1>3
    <2>8. /\ DOMAIN p = 1..(N + 1) /\ DOMAIN s = 1..(N + 2)
          /\ p[1] = x /\ s[1] = x
          /\ \A n \in 1..N : p[n + 1] = events[n]
          /\ \A n \in 1..(N + 1) : s[n + 1] = r[n]
          /\ r[N + 1] = e
          /\ \A n \in 1..N : r[n] = events[n]
      <3>1. DOMAIN p = 1..Len(p) /\ DOMAIN s = 1..Len(s)
        BY <2>4, <2>5, <2>6
      <3>2. Len(p) = N + 1 /\ Len(s) = N + 2
        BY <1>3, <2>3, <2>4, <2>5, <2>6, <2>7
      <3> QED BY <1>3, <2>3, <2>4, <2>5, <2>6, <2>7, <3>1, <3>2
    <2>9. ASSUME NEW n \in 1..(N + 1)
          PROVE  s[n] = p[n]
      <3>1. CASE n = 1
        BY <2>8, <3>1
      <3>2. CASE n # 1
        <4>1. n - 1 \in 1..N /\ n - 1 \in 1..(N + 1) /\ (n - 1) + 1 = n
          BY <3>2
        <4> QED BY <2>8, <4>1
      <3> QED BY <3>1, <3>2
    <2>10. s[(N + 1) + 1] = e /\ (N + 1) + 1 = N + 2 /\ N + 1 \in Nat
      <3>1. N + 1 \in 1..(N + 1)
        OBVIOUS
      <3> QED BY <2>8, <3>1
    <2> QED BY <2>2, <2>3, <2>6, <2>8, <2>9, <2>10 DEF Extended
  <1> QED BY <1>4, <1>5

\* Nothing about the line changes.
LEMMA LineSame ==
    /\ UNCHANGED <<events, intr>> => Line' = Line
    /\ UNCHANGED events /\ ~Story /\ ~Story' => Line' = Line
    /\ UNCHANGED events /\ (Story' <=> Story) /\ Pending' = Pending => Line' = Line
  BY DEF Line, Story, Pending, IntrBusy, Stage

\* The reader takes the first event.
LEMMA LineTaken ==
    ASSUME TypeInv, NEW type, Take(type)
    PROVE  /\ Line = events /\ Line[1] = Head(events) /\ Head(events) \in EventSet
           /\ Line[1].type = type
           /\ ~Story' => Shortened(Line, Line')
           /\ Story' /\ Pending' = Head(events) => Line' = Line
  <1>1. /\ events \in Seq(EventSet) /\ events # <<>> /\ events' = Tail(events)
        /\ Head(events).type = type /\ ~Story
    BY DEF Take, TypeInv, TypeOK, RadioTypeOK, Story
  <1>2. Line = events
    BY <1>1 DEF Line
  <1>3. /\ Tail(events) \in Seq(EventSet)
        /\ Head(events) \in EventSet
        /\ Head(events) = events[1]
        /\ DOMAIN Tail(events) = 1..(Len(events) - 1)
        /\ \A i \in DOMAIN Tail(events) : Tail(events)[i] = events[i + 1]
    BY <1>1, TailFacts
  <1>4. PICK N \in Nat : Len(events) = N + 1
    <2>1. Len(events) \in Nat /\ Len(events) # 0
      BY <1>1
    <2>2. Len(events) - 1 \in Nat /\ Len(events) = (Len(events) - 1) + 1
      BY <2>1
    <2> QED BY <2>2
  <1>5. DOMAIN events = 1..(N + 1) /\ (N + 1) - 1 = N
    BY <1>1, <1>4
  <1>6. Shortened(events, Tail(events))
    BY <1>3, <1>4, <1>5 DEF Shortened
  <1>7. ASSUME ~Story' PROVE Shortened(Line, Line')
    <2>1. Line' = Tail(events)
      BY <1>1, <1>7 DEF Line
    <2> QED BY <1>2, <1>6, <2>1
  <1>8. ASSUME Story', Pending' = Head(events) PROVE Line' = Line
    <2>1. Line' = <<Head(events)>> \o Tail(events)
      BY <1>1, <1>8 DEF Line
    <2>2. PICK x \in EventSet, t \in Seq(EventSet) : x = Head(events) /\ t = Tail(events)
      BY <1>3
    <2>3. PICK p : p = <<x>> \o t
      OBVIOUS
    <2>4. /\ p \in Seq(EventSet) /\ Len(p) = Len(t) + 1 /\ p[1] = x
          /\ \A n \in 1..Len(t) : p[n + 1] = t[n]
      BY <2>3, ConsFacts
    <2>5. Len(t) = N /\ DOMAIN t = 1..N
      BY <1>3, <1>4, <1>5, <2>2
    <2>6. Len(p) = N + 1
      BY <2>4, <2>5
    <2>7. ASSUME NEW n \in 1..(N + 1)
          PROVE  p[n] = events[n]
      <3>1. CASE n = 1
        BY <1>3, <2>2, <2>4, <3>1
      <3>2. CASE n # 1
        <4>1. n - 1 \in 1..N /\ (n - 1) + 1 = n
          BY <3>2
        <4>2. p[(n - 1) + 1] = t[n - 1] /\ t[n - 1] = events[(n - 1) + 1]
          BY <1>3, <2>2, <2>4, <2>5, <4>1
        <4> QED BY <4>1, <4>2
      <3> QED BY <3>1, <3>2
    <2>8. p = events
      <3>1. Len(p) = Len(events) /\ Len(events) = N + 1
        BY <1>4, <2>6
      <3> QED BY <1>1, <2>4, <2>7, <3>1
    <2> QED BY <1>2, <2>1, <2>2, <2>3, <2>8
  <1> QED BY <1>1, <1>2, <1>3, <1>7, <1>8

\* Links that are up have a handle.
LEMMA UpFacts ==
    ASSUME TypeInv
    PROVE  /\ \A a \in Devices : link[a] = "up" <=> handleOf[a] \in Handles
           /\ \A a \in Devices : link[a] # "up" => handleOf[a] \notin Handles
  BY HandlesAssumption DEF TypeInv, TypeOK, RadioTypeOK, LinkShape

\* Entries that differ in nothing the links are about.
LEMMA KidsSame ==
    ASSUME NEW es, NEW fs,
           \A i \in Ids : /\ fs[i].present <=> es[i].present
                          /\ es[i].present => /\ fs[i].addr = es[i].addr
                                              /\ fs[i].desc.handle = es[i].desc.handle
    PROVE  SameKids(es, fs)
  BY DEF SameKids, Kid, Holds

\* A step that neither the links nor the children take part in.
LEMMA QuietLinks ==
    ASSUME TypeInv, LinksOK, Line' = Line, SameKids(entries, entries'),
           UNCHANGED <<link, handleOf, power, visible, uncreated, abandoned, late>>
    PROVE  LinksOK'
  <1>1. Fewer(entries, entries')
    BY SameIsFewer
  <1>2. \A a \in Devices : link[a] = "up" => handleOf[a] \in Handles
    BY UpFacts
  <1>3. \A a \in Devices : Kid(entries', a) <=> Kid(entries, a)
    BY DEF SameKids
  <1>4. PICK ex : ex = abandoned \cup late
    OBVIOUS
  <1>5. /\ Consistent(entries, Line, link, handleOf)
               => Consistent(entries', Line, link, handleOf)
        /\ Ending(entries, Line, handleOf) => Ending(entries', Line, handleOf)
        /\ Reported(entries, Line, link, uncreated)
               => Reported(entries', Line, link, uncreated)
        /\ Ghosts(entries, Line, link, ex) => Ghosts(entries', Line, link, ex)
    BY <1>1, <1>2, <1>3, FewerKids
  <1>6. Left(entries, late) => Left(entries', late)
    BY <1>3 DEF Left
  <1> QED BY <1>4, <1>5, <1>6 DEF LinksOK, Consistent

-----------------------------------------------------------------------------
(* The radio and the power transitions: when there is nothing to tell, and *)
(* that no two links have the same handle.                                 *)

\* Without a visible host controller there is neither a link nor an event.
LEMMA HostStep == TypeInv /\ HostOK /\ [Next]_vars => HostOK'
  <1> SUFFICES ASSUME TypeInv, HostOK, [Next]_vars
               PROVE  HostOK'
    OBVIOUS
  <1> DEFINE Silent == /\ events = <<>> /\ naming = {} /\ ~IntrBusy
                       /\ \A a \in Devices : link[a] = "down"
             OneHandle == \A a, b \in Devices :
                 handleOf[a] # NoHandle /\ handleOf[a] = handleOf[b] => a = b
  <1>a. /\ power \in {"D3", "Removed"} => ~visible
        /\ ~visible => Silent
        /\ OneHandle
    BY DEF HostOK
  <1>b. /\ handleOf \in [Devices -> Handles \cup {NoHandle}]
        /\ link \in [Devices -> {"down", "requested", "accepted", "up"}]
    BY DEF TypeInv, TypeOK, RadioTypeOK
  <1> USE DEF bus, radio, host, excuses, history
  <1>c. ASSUME visible, UNCHANGED <<handleOf, host>> PROVE HostOK'
    BY <1>a, <1>c DEF HostOK
  <1>d. ASSUME UNCHANGED <<events, intr, radio, host>> PROVE HostOK'
    BY <1>d DEF HostOK, IntrBusy
  <1>1. CASE Radio
    <2>1. PICK a \in Devices :
              \/ RequestLink(a)
              \/ LinkUp(a)
              \/ LinkFails(a)
              \/ LinkDown(a)
              \/ NameAnswer(a)
              \/ \E type \in {"signal", "report"} : SendPacket(a, type)
      BY <1>1 DEF Radio
    <2>2. CASE RequestLink(a)
      BY <1>c, <2>2 DEF RequestLink
    <2>3. CASE LinkUp(a)
      <3>1. visible /\ UNCHANGED host
        BY <1>a, <2>3 DEF LinkUp
      <3>2. PICK h \in FreeHandles : handleOf' = [handleOf EXCEPT ![a] = h]
        BY <2>3 DEF LinkUp
      <3>3. \A b \in Devices : handleOf[b] # h
        BY <3>2 DEF FreeHandles
      <3>4. OneHandle'
        BY <1>a, <1>b, <3>2, <3>3
      <3> QED BY <1>a, <3>1, <3>4 DEF HostOK
    <2>4. CASE LinkFails(a)
      <3>1. visible
        BY <1>a, <2>4 DEF LinkFails
      <3> QED BY <1>c, <2>4, <3>1 DEF LinkFails
    <2>5. CASE LinkDown(a)
      <3>1. visible /\ UNCHANGED host
        BY <1>a, <2>5 DEF LinkDown
      <3>2. OneHandle'
        BY <1>a, <1>b, <2>5 DEF LinkDown
      <3> QED BY <1>a, <3>1, <3>2 DEF HostOK
    <2>6. CASE NameAnswer(a)
      <3>1. visible
        BY <1>a, <2>6 DEF NameAnswer
      <3> QED BY <1>c, <2>6, <3>1 DEF NameAnswer
    <2>7. CASE \E type \in {"signal", "report"} : SendPacket(a, type)
      BY <1>d, <2>7 DEF SendPacket
    <2> QED BY <2>1, <2>2, <2>3, <2>4, <2>5, <2>6, <2>7
  <1>2. CASE Interrupt
    <2>1. visible
      BY <1>a, <1>2 DEF Interrupt, ConnectionRequest, ConnectionComplete,
         ConnectionFailed, DisconnectionComplete, RemoteNameComplete, Take,
         IntrSkip, IntrRetrieve, IntrWrite, IntrWriteFails, IntrAllocationFails
    <2>2. UNCHANGED <<handleOf, host>>
      BY <1>2 DEF Interrupt, ConnectionRequest, ConnectionComplete, Handle,
         ConnectionFailed, DisconnectionComplete, RemoteNameComplete, Take,
         IntrSkip, IntrRetrieve, IntrWrite, IntrWriteFails, IntrAllocationFails
    <2> QED BY <1>c, <2>1, <2>2
  <1>3. CASE Bulk
    BY <1>3, <1>d DEF Bulk, BulkLookup, BulkDrop, BulkSignal, BulkReport, BulkWriteBack
  <1>4. CASE Children
    BY <1>4, <1>d DEF Children, PnpEnd, PnpFails, PnpBegin, TimerBegin, TimerSend,
       Cleanup
  <1>5. CASE Power
    <2>1. CASE D0ExitScan \/ RemoveDevice
      <3>1. UNCHANGED <<radio, events, intr, visible>>
        BY <2>1 DEF D0ExitScan, RemoveDevice
      <3>2. power' = "Exiting" \/ (power = "D3" /\ power' = "Removed")
        BY <2>1 DEF D0ExitScan, RemoveDevice
      <3> QED BY <1>a, <3>1, <3>2 DEF HostOK, IntrBusy
    <2>2. CASE D0ExitStop
      <3>1. /\ ~IntrBusy /\ UNCHANGED intr /\ ~visible'
            /\ events' = <<>> /\ naming' = {} /\ link' = [a \in Devices |-> "down"]
            /\ handleOf' = [a \in Devices |-> NoHandle]
        BY <2>2 DEF D0ExitStop
      <3> QED BY <3>1 DEF HostOK, IntrBusy
    <2>3. CASE Resume
      BY <1>a, <2>3 DEF Resume, HostOK, IntrBusy
    <2>4. CASE Replug
      BY <1>a, <2>4 DEF Replug, HostOK, IntrBusy
    <2> QED BY <1>5, <2>1, <2>2, <2>3, <2>4 DEF Power
  <1>6. CASE UNCHANGED vars
    BY <1>d, <1>6 DEF vars
  <1> QED BY <1>1, <1>2, <1>3, <1>4, <1>5, <1>6 DEF Next

\* The radio queues an event about a link.
LEMMA RadioLinks ==
    ASSUME TypeInv, HostOK, LinksOK, Radio
    PROVE  LinksOK'
  <1> USE DEF bus, host, history, excuses
  <1>1. PICK a \in Devices :
            \/ RequestLink(a)
            \/ LinkUp(a)
            \/ LinkFails(a)
            \/ LinkDown(a)
            \/ NameAnswer(a)
            \/ \E type \in {"signal", "report"} : SendPacket(a, type)
    BY DEF Radio
  <1>2. /\ handleOf \in [Devices -> Handles \cup {NoHandle}]
        /\ link \in [Devices -> {"down", "requested", "accepted", "up"}]
    BY DEF TypeInv, TypeOK, RadioTypeOK
  <1>3. UNCHANGED <<entries, power, visible, abandoned, late, intr>>
    BY <1>1 DEF RequestLink, LinkUp, LinkFails, LinkDown, NameAnswer, SendPacket
  <1>4. PICK ex : ex = abandoned \cup late
    OBVIOUS
  <1>5. /\ Consistent(entries, Line, link, handleOf)
        /\ visible => Ending(entries, Line, handleOf)
        /\ power = "D0" => Reported(entries, Line, link, uncreated)
        /\ Ghosts(entries, Line, link, ex)
        /\ ~visible \/ power # "D0" => Left(entries, late)
    BY <1>4 DEF LinksOK, Consistent
  <1>6. ASSUME Consistent(entries, Line', link', handleOf'),
               visible => Ending(entries, Line', handleOf'),
               power = "D0" => Reported(entries, Line', link', uncreated'),
               Ghosts(entries, Line', link', ex)
        PROVE  LinksOK'
    BY <1>3, <1>4, <1>5, <1>6 DEF LinksOK, Consistent
  <1>7. CASE RequestLink(a)
    <2> DEFINE e == [type |-> "ConnectionRequest", addr |-> a]
    <2>1. e \in EventSet /\ e.type = "ConnectionRequest" /\ e.addr = a
      BY DEF EventSet
    <2>2. /\ events' = Append(events, e) /\ visible
          /\ link[a] = "down" /\ link' = [link EXCEPT ![a] = "requested"]
          /\ UNCHANGED <<handleOf, uncreated>>
      BY <1>7 DEF RequestLink
    <2> HIDE DEF e
    <2>3. Extended(Line, Line', e)
      BY <1>3, <2>1, <2>2, LineExtended
    <2>4. Relinked(link, link', a, "requested")
      BY <1>2, <2>2 DEF Relinked
    <2>5. handleOf[a] \notin Handles
      BY <2>2, UpFacts
    <2>6. /\ Consistent(entries, Line', link', handleOf)
          /\ Ending(entries, Line', handleOf)
          /\ Reported(entries, Line, link, uncreated) =>
                Reported(entries, Line', link', uncreated)
          /\ Ghosts(entries, Line, link, ex) => Ghosts(entries, Line', link', ex)
      BY <1>5, <2>1, <2>2, <2>3, <2>4, <2>5, RequestAdded
    <2> QED BY <1>5, <1>6, <2>2, <2>6
  <1>8. CASE LinkUp(a)
    <2>1. PICK h \in FreeHandles :
             /\ handleOf' = [handleOf EXCEPT ![a] = h]
             /\ events' = Append(events, [type |-> "ConnectionComplete",
                                          addr |-> a, handle |-> h])
      BY <1>8 DEF LinkUp
    <2>2. h \in Handles /\ \A b \in Devices : handleOf[b] # h
      BY <2>1 DEF FreeHandles
    <2> DEFINE e == [type |-> "ConnectionComplete", addr |-> a, handle |-> h]
    <2>3. /\ e \in EventSet /\ e.type = "ConnectionComplete" /\ e.addr = a
          /\ e.handle = h
      BY <2>2 DEF EventSet
    <2>4. events' = Append(events, e)
      BY <2>1
    <2> HIDE DEF e
    <2>5. /\ visible /\ link[a] = "accepted" /\ link' = [link EXCEPT ![a] = "up"]
          /\ UNCHANGED uncreated
      BY <1>8 DEF LinkUp, HostOK
    <2>6. Extended(Line, Line', e)
      BY <1>3, <2>3, <2>4, LineExtended
    <2>7. Relinked(link, link', a, "up") /\ Relinked(handleOf, handleOf', a, h)
      BY <1>2, <2>1, <2>5 DEF Relinked
    <2>8. handleOf[a] \notin Handles
      BY <2>5, UpFacts
    <2>9. /\ Consistent(entries, Line', link', handleOf')
          /\ Ending(entries, Line', handleOf')
          /\ Reported(entries, Line, link, uncreated) =>
                Reported(entries, Line', link', uncreated)
          /\ Ghosts(entries, Line, link, ex) => Ghosts(entries, Line', link', ex)
      BY <1>5, <2>2, <2>3, <2>5, <2>6, <2>7, <2>8, CompleteAdded
    <2> QED BY <1>5, <1>6, <2>5, <2>9
  <1>9. CASE LinkFails(a)
    <2> DEFINE e == [type |-> "ConnectionFailed", addr |-> a]
    <2>1. e \in EventSet /\ e.type = "ConnectionFailed" /\ e.addr = a
      BY DEF EventSet
    <2>2. /\ events' = Append(events, e) /\ visible
          /\ link[a] # "up" /\ link' = [link EXCEPT ![a] = "down"]
          /\ UNCHANGED <<handleOf, uncreated>>
      BY <1>9 DEF LinkFails, HostOK
    <2> HIDE DEF e
    <2>3. Extended(Line, Line', e)
      BY <1>3, <2>1, <2>2, LineExtended
    <2>4. Relinked(link, link', a, "down")
      BY <1>2, <2>2 DEF Relinked
    <2>5. /\ Consistent(entries, Line', link', handleOf)
          /\ Ending(entries, Line', handleOf)
          /\ Reported(entries, Line, link, uncreated) =>
                Reported(entries, Line', link', uncreated)
          /\ Ghosts(entries, Line, link, ex) => Ghosts(entries, Line', link', ex)
      BY <1>5, <2>1, <2>2, <2>3, <2>4, FailureAdded
    <2> QED BY <1>5, <1>6, <2>2, <2>5
  <1>10. CASE LinkDown(a)
    <2>1. PICK h : h = handleOf[a]
      OBVIOUS
    <2> DEFINE e == [type |-> "DisconnectionComplete", handle |-> h]
    <2>2. /\ visible /\ link[a] = "up" /\ link' = [link EXCEPT ![a] = "down"]
          /\ handleOf' = [handleOf EXCEPT ![a] = NoHandle]
          /\ uncreated' = uncreated \ {a}
          /\ events' = Append(events, e)
      BY <1>10, <2>1 DEF LinkDown, HostOK
    <2>3. h \in Handles
      BY <2>1, <2>2, UpFacts
    <2>4. /\ e \in EventSet /\ e.type = "DisconnectionComplete"
          /\ e.handle = h
      BY <2>3 DEF EventSet
    <2> HIDE DEF e
    <2>5. \A b \in Devices : handleOf[b] = h => b = a
      BY <2>1, <2>3, HandlesAssumption DEF HostOK
    <2>6. Extended(Line, Line', e)
      BY <1>3, <2>2, <2>4, LineExtended
    <2>7. Relinked(link, link', a, "down") /\ Relinked(handleOf, handleOf', a, NoHandle)
      BY <1>2, <2>2 DEF Relinked
    <2>8. /\ Consistent(entries, Line', link', handleOf')
          /\ Ending(entries, Line', handleOf')
          /\ Reported(entries, Line, link, uncreated) =>
                Reported(entries, Line', link', uncreated \ {a})
          /\ Ghosts(entries, Line, link, ex) => Ghosts(entries, Line', link', ex)
      <3>1. PICK q, r, lk, lm, hs, ht :
               /\ q = Line /\ r = Line' /\ lk = link /\ lm = link'
               /\ hs = handleOf /\ ht = handleOf'
        OBVIOUS
      <3>2. /\ Extended(q, r, e) /\ lk[a] = "up"
            /\ Relinked(lk, lm, a, "down") /\ Relinked(hs, ht, a, NoHandle)
            /\ Sole(hs, a, h)
            /\ Ending(entries, q, hs) /\ Consistent(entries, q, lk, hs)
        BY <1>5, <2>1, <2>2, <2>5, <2>6, <2>7, <3>1 DEF Sole
      <3>3. /\ Consistent(entries, r, lm, ht)
            /\ Ending(entries, r, ht)
            /\ Reported(entries, q, lk, uncreated) =>
                  Reported(entries, r, lm, uncreated \ {a})
            /\ Ghosts(entries, q, lk, ex) => Ghosts(entries, r, lm, ex)
        BY <2>3, <2>4, <3>2, DropAdded
      <3> QED BY <3>1, <3>3
    <2> QED BY <1>5, <1>6, <2>2, <2>8
  <1>11. CASE NameAnswer(a)
    <2> DEFINE e == [type |-> "RemoteName", addr |-> a]
    <2>1. e \in EventSet /\ e.type = "RemoteName"
      BY DEF EventSet
    <2>2. events' = Append(events, e) /\ UNCHANGED <<link, handleOf, uncreated>>
      BY <1>11 DEF NameAnswer
    <2> HIDE DEF e
    <2>3. Extended(Line, Line', e)
      BY <1>3, <2>1, <2>2, LineExtended
    <2>4. /\ Consistent(entries, Line', link, handleOf)
          /\ Ending(entries, Line, handleOf) => Ending(entries, Line', handleOf)
          /\ Reported(entries, Line, link, uncreated) =>
                Reported(entries, Line', link, uncreated)
          /\ Ghosts(entries, Line, link, ex) => Ghosts(entries, Line', link, ex)
      BY <1>5, <2>1, <2>3, OtherAdded
    <2> QED BY <1>5, <1>6, <2>2, <2>4
  <1>12. CASE \E type \in {"signal", "report"} : SendPacket(a, type)
    <2>1. UNCHANGED <<link, handleOf, uncreated, events, intr>>
      BY <1>12 DEF SendPacket, radio
    <2>2. Line' = Line
      BY <2>1, LineSame
    <2> QED BY <1>5, <1>6, <2>1, <2>2
  <1> QED BY <1>1, <1>7, <1>8, <1>9, <1>10, <1>11, <1>12

-----------------------------------------------------------------------------
(* What the callbacks do to the children.                                  *)

\* A present child is the child of its device.
LEMMA KidFacts ==
    ASSUME TypeOK, Shape
    PROVE  /\ \A a : Kid(entries, a) <=> IsPresent(a)
           /\ \A a, h : Holds(entries, a, h) <=>
                  IsPresent(a) /\ DescOf(a).handle = h
           /\ \A i \in Ids : entries[i].present => entries[i].addr \in Devices
  <1>1. \A i \in Ids : entries[i].present => entries[i].addr \in Devices
    BY DeviceFacts
  <1>2. \A a : Kid(entries, a) <=> IsPresent(a)
    BY DEF Kid, IsPresent, PresentIds
  <1>3. \A a : IsPresent(a) => /\ IdOf(a) \in Ids /\ entries[IdOf(a)].present
                               /\ entries[IdOf(a)].addr = a
    BY IdFacts
  <1>4. \A i \in Ids : entries[i].present =>
            /\ IsPresent(entries[i].addr) /\ IdOf(entries[i].addr) = i
    BY DeviceFacts DEF PresentAll
  <1>5. \A a, h : Holds(entries, a, h) <=> IsPresent(a) /\ DescOf(a).handle = h
    BY <1>3, <1>4 DEF Holds, DescOf
  <1> QED BY <1>1, <1>2, <1>5

\* A child is reported missing.
LEMMA MissingKids ==
    ASSUME TypeOK, Shape, Unique(entries), NEW i \in Ids, entries[i].present,
           NEW h \in Handles, entries[i].desc.handle = h, MarkMissing(i)
    PROVE  Dropped(entries, entries', h)
  <1>1. /\ \A j \in Ids \ {i} : entries'[j] = entries[j]
        /\ entries'[i].present = FALSE
    BY DescTypes DEF MarkMissing, Entries, TypeOK, BusTypeOK
  <1>2. PICK es, fs : es = entries /\ fs = entries'
    OBVIOUS
  <1>3. /\ \A j \in Ids \ {i} : fs[j] = es[j]
        /\ ~fs[i].present /\ es[i].present /\ es[i].desc.handle = h
        /\ \A j, k \in Ids : es[j].present /\ es[k].present /\ es[j].addr = es[k].addr
               => j = k
        /\ es[i].addr \in Devices
        /\ Unique(es)
    BY <1>1, <1>2, KidFacts DEF Shape, OneEach, PresentAll
  <1>4. ASSUME NEW a \in Devices
        PROVE  /\ Kid(fs, a) <=> Kid(es, a) /\ ~Holds(es, a, h)
               /\ \A g \in Handles : Holds(fs, a, g) <=> Holds(es, a, g) /\ g # h
    <2>1. CASE a = es[i].addr
      <3>1. ~Kid(fs, a) /\ \A g : ~Holds(fs, a, g)
        BY <1>3, <2>1 DEF Kid, Holds
      <3>2. Holds(es, a, h) /\ \A g : Holds(es, a, g) => g = h
        BY <1>3, <2>1 DEF Holds
      <3> QED BY <3>1, <3>2
    <2>2. CASE a # es[i].addr
      <3>1. (Kid(fs, a) <=> Kid(es, a)) /\ \A g : Holds(fs, a, g) <=> Holds(es, a, g)
        BY <1>3, <2>2 DEF Kid, Holds
      <3>2. Holds(es, es[i].addr, h)
        BY <1>3 DEF Holds
      <3>3. ~Holds(es, a, h)
        BY <1>3, <2>2, <3>2 DEF Unique
      <3> QED BY <3>1, <3>3
    <2> QED BY <2>1, <2>2
  <1> QED BY <1>2, <1>4 DEF Dropped

\* A description is written.
LEMMA DescKids ==
    ASSUME TypeOK, Shape, NEW i \in Ids, entries[i].present,
           \A j \in Ids \ {i} : entries'[j] = entries[j],
           entries'[i].present, entries'[i].addr = entries[i].addr,
           NEW h, entries'[i].desc.handle = h
    PROVE  /\ h = entries[i].desc.handle => SameKids(entries, entries')
           /\ Handed(entries, entries', entries[i].addr, h)
  <1>1. PICK es, fs : es = entries /\ fs = entries'
    OBVIOUS
  <1>2. /\ \A j \in Ids \ {i} : fs[j] = es[j]
        /\ fs[i].present /\ es[i].present /\ fs[i].addr = es[i].addr
        /\ fs[i].desc.handle = h
        /\ \A j, k \in Ids : es[j].present /\ es[k].present /\ es[j].addr = es[k].addr
               => j = k
    BY <1>1 DEF Shape, OneEach, PresentAll
  <1>3. h = es[i].desc.handle => SameKids(es, fs)
    BY <1>2, KidsSame
  <1>4. ASSUME NEW b \in Devices
        PROVE  /\ Kid(fs, b) <=> Kid(es, b)
               /\ \A g \in Handles :
                     Holds(fs, b, g) <=> IF b = es[i].addr THEN Kid(es, b) /\ g = h
                                         ELSE Holds(es, b, g)
    <2>1. CASE b = es[i].addr
      <3>1. Kid(es, b) /\ Kid(fs, b)
        BY <1>2, <2>1 DEF Kid
      <3>2. \A g : Holds(fs, b, g) <=> g = h
        BY <1>2, <2>1 DEF Holds
      <3> QED BY <2>1, <3>1, <3>2
    <2>2. CASE b # es[i].addr
      BY <1>2, <2>2 DEF Kid, Holds
    <2> QED BY <2>1, <2>2
  <1> QED BY <1>1, <1>3, <1>4 DEF Handed

\* A child is added.
LEMMA AddedKids ==
    ASSUME NEW a, NEW i \in Ids, ~entries[i].present,
           \A j \in Ids \ {i} : entries'[j] = entries[j],
           entries'[i].present, entries'[i].addr = a,
           entries'[i].desc.handle \notin Handles
    PROVE  Joined(entries, entries', a) /\ Kid(entries', a)
  <1>1. PICK es, fs : es = entries /\ fs = entries'
    OBVIOUS
  <1>2. /\ \A j \in Ids \ {i} : fs[j] = es[j]
        /\ fs[i].present /\ ~es[i].present /\ fs[i].addr = a
        /\ fs[i].desc.handle \notin Handles
    BY <1>1
  <1>3. Joined(es, fs, a) /\ Kid(fs, a)
    BY <1>2 DEF Joined, Kid, Holds
  <1> QED BY <1>1, <1>3

\* The interrupt reader writes its copy back.
LEMMA WriteKids ==
    ASSUME TypeInv, Shape, Safe, IntrWrite
    PROVE  /\ Stage = "request" => /\ Joined(entries, entries', intr.addr)
                                   /\ Kid(entries', intr.addr)
           /\ Stage = "handle" => Handed(entries, entries', intr.addr, intr.handle)
           /\ ~Story => SameKids(entries, entries')
  <1> TypeOK /\ IntrShape
    BY DEF TypeInv
  <1>1. /\ IntrBusy /\ intr.held /\ intr.addr \in Devices /\ Stage \in Stages
    BY WriteFacts, BusyFacts
  <1>2. PICK b \in Pool \cup {Null}, t \in Told :
            /\ Changed(intr.snap, b, t) \in Descs
            /\ AddOrUpdate(intr.addr, Changed(intr.snap, b, t))
    BY WriteFacts
  <1>3. intr.snap \in Descs
    BY DescTypes
  <1>4. PICK c \in Descs :
            /\ c = Changed(intr.snap, b, t)
            /\ c.handle = IF Stage = "handle" THEN intr.handle ELSE intr.snap.handle
    BY <1>1, <1>2, <1>3, ChangedFacts
  <1>5. PICK i \in Ids :
            \/ /\ IsPresent(intr.addr) /\ i = IdOf(intr.addr)
               /\ entries' = [entries EXCEPT ![i].desc = c]
            \/ /\ ~IsPresent(intr.addr) /\ entries[i] = Free
               /\ entries' = [entries EXCEPT ![i] =
                      [addr |-> intr.addr, present |-> TRUE, pdo |-> "none",
                       desc |-> c, ticking |-> FALSE]]
    <2>1. AddOrUpdate(intr.addr, c) /\ intr.addr \in Devices \cup {Nobody}
      BY <1>1, <1>2, <1>4
    <2>2. PICK a \in Devices \cup {Nobody} : a = intr.addr
      BY <2>1
    <2>3. AddOrUpdate(a, c)
      BY <2>1, <2>2
    <2>4. \E i \in Ids :
             \/ /\ IsPresent(a) /\ i = IdOf(a) /\ order' = order
                /\ entries' = [entries EXCEPT ![i].desc = c]
             \/ /\ ~IsPresent(a) /\ entries[i] = Free
                /\ order' = Append(order, i)
                /\ entries' = [entries EXCEPT ![i] =
                       [addr |-> a, present |-> TRUE, pdo |-> "none",
                        desc |-> c, ticking |-> FALSE]]
      BY <2>3, AddFacts
    <2> QED BY <2>2, <2>4
  <1>6. /\ \A j \in PresentAll :
              entries[j].addr = intr.addr => intr.snap = entries[j].desc
        /\ (\A j \in PresentAll : entries[j].addr # intr.addr) =>
              Stage = "request" /\ intr.snap = Zeroed
    BY <1>1 DEF Safe, Current, IntrCurrent
  <1>7. /\ \A j \in Ids : entries[j] \in Entries
        /\ entries \in [Ids -> Entries]
    BY DescTypes DEF TypeOK, BusTypeOK
  <1>8. CASE /\ IsPresent(intr.addr) /\ i = IdOf(intr.addr)
             /\ entries' = [entries EXCEPT ![i].desc = c]
    <2>1. entries[i].present /\ entries[i].addr = intr.addr /\ i \in PresentAll
      BY <1>8, IdFacts DEF PresentAll
    <2>2. intr.snap = entries[i].desc
      BY <1>6, <2>1
    <2>3. /\ \A j \in Ids \ {i} : entries'[j] = entries[j]
          /\ entries'[i].present /\ entries'[i].addr = entries[i].addr
          /\ entries'[i].desc = c
      BY <1>7, <1>8, <2>1 DEF Entries
    <2>4. PICK h : h = c.handle
      OBVIOUS
    <2>5. /\ h = entries[i].desc.handle => SameKids(entries, entries')
          /\ Handed(entries, entries', entries[i].addr, h)
      BY <2>1, <2>3, <2>4, DescKids
    <2>6. Stage # "handle" => SameKids(entries, entries')
      BY <1>4, <2>2, <2>4, <2>5
    <2>7. Stage = "handle" => Handed(entries, entries', intr.addr, intr.handle)
      BY <1>4, <2>1, <2>4, <2>5
    <2>8. SameKids(entries, entries') => Joined(entries, entries', intr.addr)
      BY DEF SameKids, Joined
    <2>9. Kid(entries', intr.addr)
      BY <2>1, <2>3 DEF Kid
    <2> QED BY <1>1, <2>6, <2>7, <2>8, <2>9 DEF Story
  <1>9. CASE /\ ~IsPresent(intr.addr) /\ entries[i] = Free
             /\ entries' = [entries EXCEPT ![i] =
                    [addr |-> intr.addr, present |-> TRUE, pdo |-> "none",
                     desc |-> c, ticking |-> FALSE]]
    <2>1. Stage = "request" /\ intr.snap = Zeroed
      BY <1>6, <1>9 DEF IsPresent, PresentIds, PresentAll
    <2>2. c.handle \notin Handles
      BY <1>4, <2>1, HandlesAssumption DEF Zeroed
    <2>3. /\ \A j \in Ids \ {i} : entries'[j] = entries[j]
          /\ entries'[i].present /\ entries'[i].addr = intr.addr
          /\ entries'[i].desc = c /\ ~entries[i].present
      BY <1>7, <1>9 DEF Free
    <2>4. Joined(entries, entries', intr.addr) /\ Kid(entries', intr.addr)
      BY <2>2, <2>3, AddedKids
    <2> QED BY <1>1, <2>1, <2>4 DEF Story
  <1> QED BY <1>5, <1>8, <1>9

\* A stage of the reader's handler is over.
LEMMA StageOver ==
    ASSUME TypeInv, IntrBusy, intr' = NextStage, UNCHANGED events
    PROVE  /\ Story => Shortened(Line, Line') /\ Line[1] = Pending
           /\ ~Story => Line' = Line
  <1>1. IntrBusy' => Stage \in {"name", "type"} /\ Stage' \in {"type", "report"}
    BY NextStageFacts DEF TypeInv
  <1>2. ~Story'
    BY <1>1 DEF Story
  <1>3. Line' = events
    BY <1>2 DEF Line
  <1> QED BY <1>3, LineType

-----------------------------------------------------------------------------
(* The interrupt reader takes an event.                                    *)

\* The two kinds of events that become a story.
LEMMA StoryEvents ==
    \A e \in EventSet :
        /\ e.type = "ConnectionRequest" =>
               e = [type |-> "ConnectionRequest", addr |-> e.addr]
        /\ e.type = "ConnectionComplete" =>
               e = [type |-> "ConnectionComplete", addr |-> e.addr,
                    handle |-> e.handle]
  BY DEF EventSet

\* What the reader is in the middle of after it has taken an event.
LEMMA HandleStory ==
    ASSUME NEW a, NEW h, NEW s \in StageLists \ {<<>>}, Handle(a, s, h)
    PROVE  /\ Story' <=> Head(s) \in {"request", "handle"}
           /\ Head(s) = "request" =>
                 Pending' = [type |-> "ConnectionRequest", addr |-> a]
           /\ Head(s) = "handle" =>
                 Pending' = [type |-> "ConnectionComplete", addr |-> a, handle |-> h]
           /\ UNCHANGED <<entries, link, handleOf, power, visible>>
  <1>1. intr' = [IntrIdle EXCEPT !.stages = s, !.addr = a, !.handle = h]
    BY DEF Handle
  <1>2. intr'.stages = s /\ intr'.addr = a /\ intr'.handle = h
    BY <1>1 DEF IntrIdle
  <1>3. s # <<>>
    OBVIOUS
  <1>4. Story' <=> Head(s) \in {"request", "handle"}
    BY <1>2, <1>3 DEF Story, IntrBusy, Stage
  <1>5. /\ Head(s) = "request" =>
              Pending' = [type |-> "ConnectionRequest", addr |-> a]
        /\ Head(s) = "handle" =>
              Pending' = [type |-> "ConnectionComplete", addr |-> a, handle |-> h]
    BY <1>2 DEF Pending, Stage
  <1>6. UNCHANGED <<entries, link, handleOf, power, visible>>
    BY DEF Handle, bus, radio, host
  <1> QED BY <1>4, <1>5, <1>6

\* A connection request: what is abandoned or uncreated is forgotten, the
\* request is still in the line.
LEMMA RequestLinks ==
    ASSUME TypeInv, HostOK, LinksOK, ConnectionRequest
    PROVE  LinksOK'
  <1>1. PICK a : a = Head(events).addr
    OBVIOUS
  <1>2. /\ Take("ConnectionRequest") /\ Handle(a, <<"request">>, NoHandle)
        /\ abandoned' = abandoned \ {a} /\ uncreated' = uncreated \ {a}
        /\ late' = late
    BY <1>1 DEF ConnectionRequest
  <1>3. <<"request">> \in StageLists \ {<<>>} /\ Head(<<"request">>) = "request"
    BY DEF StageLists
  <1>4. /\ Story' /\ Pending' = [type |-> "ConnectionRequest", addr |-> a]
        /\ UNCHANGED <<entries, link, handleOf, power, visible>>
    BY <1>2, <1>3, HandleStory
  <1>5. /\ Line[1] = Head(events) /\ Head(events) \in EventSet
        /\ Head(events).type = "ConnectionRequest" /\ Line[1].type = "ConnectionRequest"
        /\ Line = events /\ events # <<>> /\ events \in Seq(EventSet)
    BY <1>2, LineTaken DEF Take, TypeInv, TypeOK, RadioTypeOK
  <1>6. Pending' = Head(events)
    BY <1>1, <1>4, <1>5, StoryEvents
  <1>7. Line' = Line
    BY <1>2, <1>4, <1>6, LineTaken
  <1>8. Requests(Line, 1, a) /\ 1 \in Places
    BY <1>1, <1>5 DEF Requests, Says, Places
  <1>9. power = "D0" => Reported(entries, Line, link, uncreated')
    BY <1>2, <1>8 DEF LinksOK, Reported
  <1>10. Ghosts(entries, Line, link, abandoned' \cup late)
    <2>1. PICK q, ex, fx : q = Line /\ ex = abandoned \cup late /\ fx = abandoned' \cup late
      OBVIOUS
    <2>2. ASSUME NEW b \in Devices, Excused(entries, q, ex, b)
          PROVE  Excused(entries, q, fx, b)
      <3>1. Requests(q, 1, a) /\ \A c : c \in ex => c \in fx \/ c = a
        BY <1>2, <1>8, <2>1
      <3>2. CASE b \in ex
        BY <1>8, <3>1, <3>2 DEF Excused
      <3>3. CASE b \notin ex
        BY <2>2, <3>3 DEF Excused
      <3> QED BY <3>2, <3>3
    <2> QED BY <2>1, <2>2 DEF LinksOK, Ghosts
  <1> QED BY <1>2, <1>4, <1>7, <1>9, <1>10 DEF LinksOK

\* A completed connection, to be handled.
LEMMA CompleteLinks ==
    ASSUME TypeInv, HostOK, LinksOK, ConnectionComplete
    PROVE  LinksOK'
  <1>1. PICK a, h : a = Head(events).addr /\ h = Head(events).handle
    OBVIOUS
  <1>2. /\ Take("ConnectionComplete") /\ Handle(a, <<"handle">>, h)
        /\ UNCHANGED <<abandoned, uncreated, late>>
    BY <1>1 DEF ConnectionComplete, excuses
  <1>3. <<"handle">> \in StageLists \ {<<>>} /\ Head(<<"handle">>) = "handle"
    BY DEF StageLists
  <1>4. /\ Story'
        /\ Pending' = [type |-> "ConnectionComplete", addr |-> a, handle |-> h]
        /\ UNCHANGED <<entries, link, handleOf, power, visible>>
    BY <1>2, <1>3, HandleStory
  <1>5. /\ Head(events) \in EventSet /\ Head(events).type = "ConnectionComplete"
    BY <1>2, LineTaken DEF Take
  <1>6. Pending' = Head(events)
    BY <1>1, <1>4, <1>5, StoryEvents
  <1>7. Line' = Line
    BY <1>2, <1>4, <1>6, LineTaken
  <1>8. SameKids(entries, entries')
    BY <1>4 DEF SameKids
  <1> QED BY <1>2, <1>4, <1>7, <1>8, QuietLinks

\* Neither a failed connection nor a name changes the child list.
LEMMA FailureLinks ==
    ASSUME TypeInv, Shape, HostOK, LinksOK, ConnectionFailed \/ RemoteNameComplete
    PROVE  LinksOK'
  <1>1. PICK a : a = Head(events).addr
    OBVIOUS
  <1>2. PICK type \in {"ConnectionFailed", "RemoteName"} :
           /\ Take(type) /\ ~Story' /\ UNCHANGED <<entries, link, handleOf, power,
                                                   visible, uncreated, late>>
           /\ type = "ConnectionFailed" =>
                 abandoned' = abandoned \cup {b \in {a} : IsPresent(b)}
           /\ type = "RemoteName" => abandoned' = abandoned
    <2>1. CASE ConnectionFailed
      <3>1. /\ Take("ConnectionFailed")
            /\ abandoned' = abandoned \cup {b \in {a} : IsPresent(b)}
            /\ UNCHANGED <<bus, radio, intr, host, late, uncreated>>
        BY <1>1, <2>1 DEF ConnectionFailed
      <3>2. ~Story'
        BY <3>1 DEF Take, Story, IntrBusy
      <3> QED BY <3>1, <3>2 DEF bus, radio, host
    <2>2. CASE RemoteNameComplete
      <3>1. PICK t \in TypesOf[a] :
                /\ Take("RemoteName") /\ UNCHANGED <<uncreated, late, abandoned>>
                /\ Handle(a, IF t = "NONE" THEN <<"name", "report">>
                             ELSE <<"name", "type", "report">>, NoHandle)
        BY <1>1, <2>2 DEF RemoteNameComplete, excuses
      <3> DEFINE s == IF t = "NONE" THEN <<"name", "report">>
                      ELSE <<"name", "type", "report">>
      <3>2. s \in StageLists \ {<<>>} /\ Head(s) = "name" /\ Handle(a, s, NoHandle)
        BY <3>1 DEF StageLists
      <3> HIDE DEF s
      <3>3. ~Story' /\ UNCHANGED <<entries, link, handleOf, power, visible>>
        BY <3>1, <3>2, HandleStory
      <3> QED BY <3>1, <3>3
    <2> QED BY <2>1, <2>2
  <1>3. /\ Line[1].type = type /\ Shortened(Line, Line') /\ Line[1] = Head(events)
    BY <1>2, LineTaken
  <1>4. PICK q, r, ex, fx : /\ q = Line /\ r = Line' /\ ex = abandoned \cup late
                            /\ fx = abandoned' \cup late'
    OBVIOUS
  <1>5. SaysLess(q, r) /\ \E N \in Nat : Within(q, N)
    BY <1>3, <1>4, ShortenedSays
  <1>6. q[1].type \in {"RemoteName", "ConnectionFailed"} /\ ex \subseteq fx
    BY <1>2, <1>3, <1>4
  <1>7. \A b \in Devices : Fails(q, 1, b) /\ Kid(entries, b) => b \in fx
    <2> SUFFICES ASSUME NEW b \in Devices, Fails(q, 1, b), Kid(entries, b)
                 PROVE  b \in fx
      OBVIOUS
    <2>1. b = a /\ type = "ConnectionFailed"
      BY <1>1, <1>2, <1>3, <1>4 DEF Fails, Says
    <2>2. IsPresent(b)
      BY KidFacts DEF TypeInv
    <2> QED BY <1>2, <1>4, <2>1, <2>2
  <1>8. Consistent(entries, q, link, handleOf)
    BY <1>4 DEF LinksOK, Consistent
  <1>9. /\ Consistent(entries, r, link, handleOf)
        /\ Ending(entries, q, handleOf) => Ending(entries, r, handleOf)
        /\ Reported(entries, q, link, uncreated) => Reported(entries, r, link, uncreated)
        /\ Ghosts(entries, q, link, ex) => Ghosts(entries, r, link, fx)
    BY <1>5, <1>6, <1>7, <1>8, FailureHandled
  <1> QED BY <1>2, <1>4, <1>9 DEF LinksOK, Consistent

\* A disconnection: the child with the handle goes, unless there is none.
LEMMA DropLinks ==
    ASSUME TypeInv, Shape, HostOK, LinksOK, Clean', DisconnectionComplete
    PROVE  LinksOK'
  <1> TypeOK
    BY DEF TypeInv
  <1>1. PICK h : h = Head(events).handle
    OBVIOUS
  <1>2. /\ Take("DisconnectionComplete") /\ ~Story'
        /\ FoundByHandle(h) => MarkMissing(ByHandle(h))
        /\ ~FoundByHandle(h) => entries' = entries
        /\ cutShort' = (cutShort \/ LookupCutShort(h))
        /\ UNCHANGED <<link, handleOf, power, visible, abandoned, uncreated, late>>
    BY <1>1 DEF DisconnectionComplete, Take, Story, IntrBusy, radio, host, excuses
  <1>3. /\ Line[1].type = "DisconnectionComplete" /\ Shortened(Line, Line')
        /\ Line[1] = Head(events) /\ Head(events) \in EventSet /\ Line = events
        /\ events # <<>> /\ events \in Seq(EventSet)
        /\ Head(events).type = "DisconnectionComplete"
    BY <1>2, LineTaken DEF Take, TypeOK, RadioTypeOK
  <1>4. h \in Handles /\ Drops(Line, 1, h)
    BY <1>1, <1>3, EventFacts DEF Drops, Says
  <1>5. Dropped(entries, entries', h)
    <2>1. CASE FoundByHandle(h)
      <3>1. /\ ByHandle(h) \in Ids /\ entries[ByHandle(h)].desc.handle = h
            /\ \E n \in DOMAIN order : ByHandle(h) = order[n]
        BY <2>1, LookupFacts DEF TypeOK, BusTypeOK
      <3>2. entries[ByHandle(h)].present
        BY <3>1 DEF Shape, Listed
      <3>3. Unique(entries) /\ MarkMissing(ByHandle(h))
        BY <1>2, <2>1 DEF LinksOK
      <3> QED BY <1>4, <3>1, <3>2, <3>3, MissingKids
    <2>2. CASE ~FoundByHandle(h)
      <3>1. Matches(h) = {}
        BY <1>2, <2>2 DEF Clean, LookupCutShort
      <3>2. \A a \in Devices : ~Holds(entries, a, h)
        <4> SUFFICES ASSUME NEW a \in Devices, Holds(entries, a, h)
                     PROVE  FALSE
          OBVIOUS
        <4>1. PICK i \in Ids : entries[i].present /\ entries[i].desc.handle = h
          BY DEF Holds
        <4>2. PICK n \in DOMAIN order : order[n] = i
          BY <4>1 DEF Shape, Listed
        <4> QED BY <3>1, <4>1, <4>2 DEF Matches
      <3> QED BY <1>2, <2>2, <3>2 DEF Dropped
    <2> QED BY <2>1, <2>2
  <1>6. PICK es, fs, q, r, ex : /\ es = entries /\ fs = entries'
                                /\ q = Line /\ r = Line' /\ ex = abandoned \cup late
    OBVIOUS
  <1>7. SaysLess(q, r) /\ \E N \in Nat : Within(q, N)
    BY <1>3, <1>6, ShortenedSays
  <1>8. Drops(q, 1, h) /\ Dropped(es, fs, h) /\ Consistent(es, q, link, handleOf)
    BY <1>4, <1>5, <1>6 DEF LinksOK, Consistent
  <1>9. \A a \in Devices : link[a] = "up" => handleOf[a] \in Handles
    BY UpFacts
  <1>10. /\ Consistent(fs, r, link, handleOf)
         /\ Ending(es, q, handleOf) => Ending(fs, r, handleOf)
         /\ Reported(es, q, link, uncreated) => Reported(fs, r, link, uncreated)
         /\ Ghosts(es, q, link, ex) => Ghosts(fs, r, link, ex)
    BY <1>4, <1>7, <1>8, <1>9, DropHandled
  <1>11. Left(es, late) => Left(fs, late)
    BY <1>8 DEF Left, Dropped
  <1> QED BY <1>2, <1>6, <1>10, <1>11 DEF LinksOK, Consistent

-----------------------------------------------------------------------------
(* The interrupt reader goes through its stages.                           *)

\* The commands of a stage change no link but that of a requested one.
LEMMA CommandLinks ==
    ASSUME TypeInv, NEW sent, Commands(sent)
    PROVE  /\ SameEnds(link, link')
           /\ \A b \in Devices :
                 link'[b] = "accepted" => link[b] = "accepted" \/ b = intr.addr
           /\ Stage # "request" => link' = link
  <1>1. link \in [Devices -> {"down", "requested", "accepted", "up"}]
    BY DEF TypeInv, TypeOK, RadioTypeOK
  <1> QED BY <1>1 DEF Commands, SameEnds

\* The handle has been stored, or the device has no child.
LEMMA HandleOver ==
    ASSUME TypeInv, HostOK, LinksOK, IntrBusy, Stage = "handle", intr' = NextStage,
           Handed(entries, entries', intr.addr, intr.handle),
           UNCHANGED <<events, link, handleOf, power, visible, abandoned,
                       uncreated, late>>
    PROVE  LinksOK'
  <1>1. intr.addr \in Devices /\ intr.handle \in Handles
    BY BusyFacts DEF TypeInv
  <1>2. Shortened(Line, Line') /\ Line[1] = Pending
    BY StageOver DEF Story
  <1>3. PICK es, fs, q, r, ex, a, h :
           /\ es = entries /\ fs = entries' /\ q = Line /\ r = Line'
           /\ ex = abandoned \cup late /\ a = intr.addr /\ h = intr.handle
    OBVIOUS
  <1>4. SaysLess(q, r) /\ \E N \in Nat : Within(q, N)
    BY <1>2, <1>3, ShortenedSays
  <1>5. Completes(q, 1, a, h)
    <2>1. 1 \in DOMAIN Line
      BY <1>2 DEF Shortened
    <2> QED BY <1>2, <1>3, <2>1 DEF Completes, Says, Pending
  <1>6. /\ a \in Devices /\ h \in Handles /\ Handed(es, fs, a, h)
        /\ Consistent(es, q, link, handleOf) /\ Ending(es, q, handleOf)
    BY <1>1, <1>3 DEF LinksOK, HostOK, Consistent
  <1>7. \A b \in Devices : link[b] = "up" <=> handleOf[b] \in Handles
    BY UpFacts
  <1>8. /\ Consistent(fs, r, link, handleOf)
        /\ Ending(fs, r, handleOf)
        /\ Reported(es, q, link, uncreated) => Reported(fs, r, link, uncreated)
        /\ Ghosts(es, q, link, ex) => Ghosts(fs, r, link, ex)
    BY <1>4, <1>5, <1>6, <1>7, CompleteHandled
  <1>9. Left(es, late) => Left(fs, late)
    BY <1>6 DEF Left, Handed
  <1> QED BY <1>3, <1>8, <1>9 DEF LinksOK, Consistent

\* A connection request has been answered, or that was given up.
LEMMA RequestOver ==
    ASSUME TypeInv, HostOK, LinksOK, IntrBusy, Stage = "request", intr' = NextStage,
           Joined(entries, entries', intr.addr),
           UNCHANGED <<events, handleOf, power, visible, abandoned>>,
           SameEnds(link, link'),
           \A b \in Devices :
               link'[b] = "accepted" => link[b] = "accepted" \/ b = intr.addr,
           uncreated \subseteq uncreated', late \subseteq late',
           Kid(entries', intr.addr) \/ intr.addr \in uncreated',
           power # "D0" /\ Kid(entries', intr.addr) =>
               Kid(entries, intr.addr) \/ intr.addr \in late'
    PROVE  LinksOK'
  <1>1. intr.addr \in Devices
    BY BusyFacts DEF TypeInv
  <1>2. Shortened(Line, Line') /\ Line[1] = Pending
    BY StageOver DEF Story
  <1>3. PICK es, fs, q, r, ex, fx, a, lk, lm, un, vn, lt :
           /\ es = entries /\ fs = entries' /\ q = Line /\ r = Line'
           /\ ex = abandoned \cup late /\ fx = abandoned \cup late' /\ a = intr.addr
           /\ lk = link /\ lm = link' /\ un = uncreated /\ vn = uncreated'
           /\ lt = late'
    OBVIOUS
  <1>4. SaysLess(q, r) /\ \E N \in Nat : Within(q, N)
    BY <1>2, <1>3, ShortenedSays
  <1>5. Requests(q, 1, a)
    <2>1. 1 \in DOMAIN Line
      BY <1>2 DEF Shortened
    <2> QED BY <1>2, <1>3, <2>1 DEF Requests, Says, Pending
  <1>6. /\ a \in Devices /\ Joined(es, fs, a) /\ SameEnds(lk, lm)
        /\ \A b \in Devices : lm[b] = "accepted" => lk[b] = "accepted" \/ b = a
        /\ un \subseteq vn /\ ex \subseteq fx
        /\ Kid(fs, a) \/ a \in vn
        /\ late \subseteq lt
        /\ power # "D0" /\ Kid(fs, a) => Kid(es, a) \/ a \in lt
    BY <1>1, <1>3
  <1>7. Consistent(es, q, lk, handleOf)
    BY <1>3 DEF LinksOK, Consistent
  <1>8. \A b \in Devices : lk[b] = "up" => handleOf[b] \in Handles
    BY <1>3, UpFacts
  <1>9. /\ Consistent(fs, r, lm, handleOf)
        /\ Ending(es, q, handleOf) => Ending(fs, r, handleOf)
        /\ Reported(es, q, lk, un) => Reported(fs, r, lm, vn)
        /\ Ghosts(es, q, lk, ex) => Ghosts(fs, r, lm, fx)
    <2>1. Answers(fs, a, lk, lm, handleOf, un, vn)
      BY <1>6, <1>8 DEF Answers
    <2>2. Joined(es, fs, a) /\ ex \subseteq fx /\ a \in Devices
      BY <1>6
    <2> QED BY <1>4, <1>5, <1>7, <2>1, <2>2, RequestHandled
  <1>10. power # "D0" /\ Left(es, late) => Left(fs, lt)
    BY <1>6 DEF Left, Joined
  <1>11. visible
    BY DEF HostOK
  <1> QED BY <1>3, <1>9, <1>10, <1>11 DEF LinksOK, Consistent

\* The other stages leave the line and the handles alone.
LEMMA OtherOver ==
    ASSUME TypeInv, LinksOK, IntrBusy, ~Story, intr' = NextStage,
           SameKids(entries, entries'),
           UNCHANGED <<events, link, handleOf, power, visible, abandoned,
                       uncreated, late>>
    PROVE  LinksOK'
  BY StageOver, QuietLinks

\* Every stage but a connection request's is given up when there is no child.
LEMMA SkipLinks ==
    ASSUME TypeInv, Shape, HostOK, LinksOK, IntrSkip
    PROVE  LinksOK'
  <1>1. /\ IntrBusy /\ Stage # "request" /\ ~IsPresent(intr.addr)
        /\ intr' = NextStage /\ (\E sent \in BOOLEAN : Commands(sent))
        /\ UNCHANGED <<entries, events, handleOf, power, visible, abandoned,
                       uncreated, late>>
    BY DEF IntrSkip, bus, host, history, excuses
  <1>2. link' = link
    BY <1>1, CommandLinks
  <1>3. ~Kid(entries, intr.addr)
    BY <1>1, KidFacts DEF TypeInv
  <1>4. SameKids(entries, entries')
    BY <1>1 DEF SameKids
  <1>5. Handed(entries, entries', intr.addr, intr.handle)
    <2>1. PICK es, a, h : es = entries /\ a = intr.addr /\ h = intr.handle
      OBVIOUS
    <2>2. \A g : ~Holds(es, a, g)
      BY <1>3, <2>1 DEF Holds, Kid
    <2>3. Handed(es, es, a, h)
      BY <1>3, <2>1, <2>2 DEF Handed
    <2> QED BY <1>1, <2>1, <2>3
  <1>6. CASE Stage = "handle"
    BY <1>1, <1>2, <1>5, <1>6, HandleOver
  <1>7. CASE Stage # "handle"
    BY <1>1, <1>2, <1>4, <1>7, OtherOver DEF Story
  <1> QED BY <1>6, <1>7

\* The copy is retrieved.
LEMMA RetrieveLinks ==
    ASSUME TypeInv, LinksOK, IntrRetrieve
    PROVE  LinksOK'
  <1>1. /\ intr' = [intr EXCEPT !.held = TRUE,
                                !.snap = IF IsPresent(intr.addr) THEN DescOf(intr.addr)
                                         ELSE Zeroed]
        /\ UNCHANGED <<entries, events, link, handleOf, power, visible, abandoned,
                       uncreated, late>>
    BY DEF IntrRetrieve, radio, host, history, excuses
  <1>2. intr \in IntrStates
    BY DEF TypeInv, TypeOK, CallbackTypeOK
  <1>3. /\ intr'.stages = intr.stages /\ intr'.addr = intr.addr
        /\ intr'.handle = intr.handle
    BY <1>1, <1>2 DEF IntrStates
  <1>4. (Story' <=> Story) /\ Pending' = Pending
    BY <1>3 DEF Story, Pending, IntrBusy, Stage
  <1>5. Line' = Line
    BY <1>1, <1>4, LineSame
  <1>6. SameKids(entries, entries')
    BY <1>1 DEF SameKids
  <1> QED BY <1>1, <1>5, <1>6, QuietLinks

\* The copy is written back.
LEMMA WriteLinks ==
    ASSUME TypeInv, Shape, Safe, HostOK, LinksOK, IntrWrite
    PROVE  LinksOK'
  <1>1. /\ IntrBusy /\ intr' = NextStage /\ (\E sent \in BOOLEAN : Commands(sent))
        /\ late' = IF Stage = "request" /\ power = "Exiting"
                   THEN late \cup {intr.addr} ELSE late
        /\ UNCHANGED <<events, handleOf, power, visible, abandoned, uncreated>>
    BY DEF IntrWrite, host
  <1>2. /\ SameEnds(link, link')
        /\ \A b \in Devices :
              link'[b] = "accepted" => link[b] = "accepted" \/ b = intr.addr
        /\ Stage # "request" => link' = link
    BY <1>1, CommandLinks
  <1>3. power \in {"D0", "Exiting"}
    BY <1>1 DEF HostOK, TypeInv, TypeOK, HostTypeOK
  <1>4. CASE Stage = "request"
    <2>1. Joined(entries, entries', intr.addr) /\ Kid(entries', intr.addr)
      BY <1>4, WriteKids
    <2>2. late \subseteq late' /\ (power # "D0" => intr.addr \in late')
      BY <1>1, <1>3, <1>4
    <2>3. uncreated \subseteq uncreated'
      BY <1>1
    <2> QED BY <1>1, <1>2, <1>4, <2>1, <2>2, <2>3, RequestOver
  <1>5. CASE Stage = "handle"
    <2>1. Handed(entries, entries', intr.addr, intr.handle)
      BY <1>5, WriteKids
    <2> QED BY <1>1, <1>2, <1>5, <2>1, HandleOver
  <1>6. CASE ~Story
    <2>1. Stage # "request"
      BY <1>1, <1>6 DEF Story
    <2>2. SameKids(entries, entries')
      BY <1>6, WriteKids
    <2> QED BY <1>1, <1>2, <1>6, <2>1, <2>2, OtherOver
  <1> QED BY <1>1, <1>4, <1>5, <1>6 DEF Story

\* The update fails: only a connection request survives that cleanly.
LEMMA WriteFailsLinks ==
    ASSUME TypeInv, HostOK, LinksOK, Clean', IntrWriteFails
    PROVE  LinksOK'
  <1>1. /\ IntrBusy /\ intr' = NextStage /\ Stage = "request"
        /\ UNCHANGED <<entries, events, link, handleOf, power, visible, abandoned,
                       late>>
        /\ uncreated' = uncreated \cup {intr.addr}
    BY DEF IntrWriteFails, host, Clean
  <1>2. SameEnds(link, link') /\ Joined(entries, entries', intr.addr)
    BY <1>1 DEF SameEnds, Joined
  <1>3. /\ \A b \in Devices :
              link'[b] = "accepted" => link[b] = "accepted" \/ b = intr.addr
        /\ uncreated \subseteq uncreated' /\ late \subseteq late'
        /\ Kid(entries', intr.addr) \/ intr.addr \in uncreated'
        /\ power # "D0" /\ Kid(entries', intr.addr) =>
              Kid(entries, intr.addr) \/ intr.addr \in late'
    BY <1>1
  <1> QED BY <1>1, <1>2, <1>3, RequestOver

\* Whatever the interrupt reader does; it never does without a block cleanly.
LEMMA InterruptLinks ==
    ASSUME TypeInv, Shape, Safe, HostOK, LinksOK, Clean', Interrupt
    PROVE  LinksOK'
  <1>1. ~IntrAllocationFails
    BY DEF IntrAllocationFails, Clean
  <1> QED BY <1>1, RequestLinks, CompleteLinks, FailureLinks, DropLinks, SkipLinks,
             RetrieveLinks, WriteLinks, WriteFailsLinks DEF Interrupt

-----------------------------------------------------------------------------
(* The bulk reader, the child PDOs and their timers.                       *)

\* Of what the bulk reader does only writing back touches a description, and
\* it leaves the handle alone.
LEMMA BulkLinks ==
    ASSUME TypeInv, Shape, Safe, LinksOK, Clean', Bulk
    PROVE  LinksOK'
  <1> TypeOK
    BY DEF TypeInv
  <1>1. /\ UNCHANGED <<events, intr>>
        /\ UNCHANGED <<link, handleOf, power, visible, uncreated, abandoned, late>>
    BY DEF Bulk, BulkLookup, BulkDrop, BulkSignal, BulkReport, BulkWriteBack, radio,
           host, history, excuses
  <1>2. /\ \A j \in Ids : entries[j] \in Entries
        /\ entries \in [Ids -> Entries]
    BY DescTypes DEF TypeOK, BusTypeOK
  <1>3. SameKids(entries, entries')
    <2>1. CASE BulkLookup \/ BulkDrop \/ \E valid \in BOOLEAN : BulkReport(valid)
      BY <2>1 DEF BulkLookup, BulkDrop, BulkReport, bus, SameKids
    <2>2. CASE BulkSignal
      <3>1. CASE Use(bulk.snap) = "none"
        <4>1. PICK i : /\ i = bulk.snap.objs /\ i # 0
                       /\ entries' = [entries EXCEPT ![i].ticking = TRUE]
          BY <2>2, <3>1 DEF BulkSignal, Use
        <4>2. \A j \in Ids : /\ entries'[j].present = entries[j].present
                             /\ entries'[j].addr = entries[j].addr
                             /\ entries'[j].desc = entries[j].desc
          BY <1>2, <4>1 DEF Entries
        <4> QED BY <4>2, KidsSame
      <3>2. CASE Use(bulk.snap) # "none"
        BY <2>2, <3>2 DEF BulkSignal, SameKids
      <3> QED BY <3>1, <3>2
    <2>3. CASE BulkWriteBack
      <3>1. BulkBusy /\ AddOrUpdate(bulk.addr, bulk.snap)
        BY <2>3 DEF BulkWriteBack, BulkBusy, Clean
      <3>2. PICK i \in Ids :
               /\ entries[i].present /\ i = IdOf(bulk.addr) /\ IsPresent(bulk.addr)
               /\ \/ bulk.snap = entries[i].desc
                  \/ bulk.snap = [entries[i].desc EXCEPT !.open = TRUE]
        BY <3>1, BulkChild
      <3>3. bulk.snap.handle = entries[i].desc.handle
        <4>1. entries[i].desc \in Descs
          BY DescTypes
        <4> QED BY <3>2, <4>1 DEF Descs
      <3>4. entries' = [entries EXCEPT ![i].desc = bulk.snap]
        BY <3>1, <3>2 DEF AddOrUpdate
      <3>5. \A j \in Ids : /\ entries'[j].present = entries[j].present
                           /\ entries'[j].addr = entries[j].addr
                           /\ entries'[j].desc.handle = entries[j].desc.handle
        BY <1>2, <3>3, <3>4 DEF Entries
      <3> QED BY <3>5, KidsSame
    <2> QED BY <2>1, <2>2, <2>3 DEF Bulk
  <1> QED BY <1>1, <1>3, LineSame, QuietLinks

\* A child whose PDO could not be created is gone.
LEMMA GivenUpLinks ==
    ASSUME TypeInv, Shape, Safe, LinksOK, PnpFails
    PROVE  LinksOK'
  <1> TypeOK
    BY DEF TypeInv
  <1>1. PICK i \in Ids, a \in Devices :
           i = pnp.id /\ a = entries[i].addr /\ entries[i].present
    BY PnpChild DEF PnpFails
  <1>2. /\ entries' = [entries EXCEPT ![i] = Free]
        /\ uncreated' = IF link[a] = "down" THEN uncreated ELSE uncreated \cup {a}
        /\ abandoned' = abandoned \ {a} /\ late' = late \ {a}
        /\ UNCHANGED <<link, handleOf, power, visible, events, intr>>
    BY <1>1 DEF PnpFails, radio, host
  <1>3. Line' = Line
    BY <1>2, LineSame
  <1>4. PICK es, fs, q, un, vn, ex, fx, lt :
           /\ es = entries /\ fs = entries' /\ q = Line
           /\ un = uncreated /\ vn = uncreated' /\ ex = abandoned \cup late
           /\ fx = abandoned' \cup late' /\ lt = late'
    OBVIOUS
  <1>5. /\ ~fs[i].present /\ es[i].present /\ es[i].addr = a
        /\ \A j \in Ids \ {i} : fs[j] = es[j]
        /\ \A j, k \in Ids : es[j].present /\ es[k].present /\ es[j].addr = es[k].addr
               => j = k
    BY <1>1, <1>2, <1>4 DEF TypeOK, BusTypeOK, Free, Shape, OneEach, PresentAll
  <1>6. ASSUME NEW b \in Devices
        PROVE  /\ Kid(fs, b) <=> Kid(es, b) /\ b # a
               /\ \A h \in Handles : Holds(fs, b, h) <=> b # a /\ Holds(es, b, h)
    <2>1. CASE b = a
      <3>1. \A j \in Ids : ~(fs[j].present /\ fs[j].addr = b)
        BY <1>5, <2>1
      <3> QED BY <2>1, <3>1 DEF Kid, Holds
    <2>2. CASE b # a
      BY <1>5, <2>2 DEF Kid, Holds
    <2> QED BY <2>1, <2>2
  <1>7. Fewer(es, fs)
    BY <1>6 DEF Fewer, Kid, Holds
  <1>8. /\ un \subseteq vn
        /\ \A b \in Devices : link[b] \in {"accepted", "up"} /\ Kid(es, b) =>
               Kid(fs, b) \/ b \in vn
        /\ \A b \in Devices : Kid(fs, b) /\ b \in ex => b \in fx
    BY <1>2, <1>4, <1>6
  <1>9. \A b \in Devices : link[b] = "up" => handleOf[b] \in Handles
    BY UpFacts
  <1>10. /\ Consistent(es, q, link, handleOf) => Consistent(fs, q, link, handleOf)
         /\ Ending(es, q, handleOf) => Ending(fs, q, handleOf)
         /\ Reported(es, q, link, un) => Reported(fs, q, link, vn)
         /\ Ghosts(es, q, link, ex) => Ghosts(fs, q, link, fx)
    BY <1>7, <1>8, <1>9, FewerKids
  <1>11. Left(es, late) => Left(fs, lt)
    BY <1>2, <1>4, <1>6 DEF Left
  <1> QED BY <1>2, <1>3, <1>4, <1>10, <1>11 DEF LinksOK, Consistent

\* What the framework does with the child PDOs.
LEMMA ChildrenLinks ==
    ASSUME TypeInv, Shape, Safe, LinksOK, Children
    PROVE  LinksOK'
  <1> TypeOK
    BY DEF TypeInv
  <1>1. CASE PnpFails
    BY <1>1, GivenUpLinks
  <1>2. CASE ~PnpFails
    <2>1. /\ UNCHANGED <<events, intr>>
          /\ UNCHANGED <<link, handleOf, power, visible, uncreated, abandoned, late>>
      BY <1>2 DEF Children, PnpBegin, PnpEnd, TimerBegin, TimerSend, Cleanup, radio,
         host, history, excuses
    <2>2. entries \in [Ids -> Entries] /\ \A j \in Ids : entries[j] \in Entries
      BY DescTypes DEF TypeOK, BusTypeOK
    <2>3. CASE PnpEnd
      <3>1. PICK i \in Ids : i = pnp.id /\ pnp.snap = entries[i].desc
        BY <2>3, PnpChild DEF PnpEnd
      <3>2. entries' = [entries EXCEPT ![i].desc = [entries[i].desc EXCEPT !.objs = i],
                                       ![i].pdo = "created"]
        BY <2>3, <3>1 DEF PnpEnd
      <3>3. entries[i].desc \in Descs
        BY DescTypes
      <3>4. PICK c : c = [entries[i].desc EXCEPT !.objs = i]
        OBVIOUS
      <3>5. c.handle = entries[i].desc.handle
        BY <3>3, <3>4 DEF Descs
      <3>6. entries' = [entries EXCEPT ![i].desc = c, ![i].pdo = "created"]
        BY <3>2, <3>4
      <3>7. \A j \in Ids : /\ entries'[j].present = entries[j].present
                           /\ entries'[j].addr = entries[j].addr
                           /\ entries'[j].desc.handle = entries[j].desc.handle
        BY <2>2, <3>5, <3>6 DEF Entries
      <3> QED BY <2>1, <3>7, KidsSame, LineSame, QuietLinks
    <2>4. CASE \E i \in Ids : PnpBegin(i) \/ TimerBegin(i) \/ TimerSend(i)
      <3>1. SameKids(entries, entries')
        BY <2>4 DEF PnpBegin, TimerBegin, TimerSend, bus, SameKids
      <3> QED BY <2>1, <3>1, LineSame, QuietLinks
    <2>5. CASE \E i \in Ids : Cleanup(i)
      <3>1. PICK i \in Ids : Cleanup(i)
        BY <2>5
      <3>2. ~entries[i].present /\ entries' = [entries EXCEPT ![i] = Free]
        BY <3>1 DEF Cleanup
      <3>3. \A j \in Ids : IF j = i THEN ~entries[j].present /\ ~entries'[j].present
                           ELSE entries'[j] = entries[j]
        BY <2>2, <3>2 DEF Free
      <3>4. SameKids(entries, entries')
        BY <3>3, KidsSame
      <3> QED BY <2>1, <3>4, LineSame, QuietLinks
    <2> QED BY <1>2, <2>3, <2>4, <2>5 DEF Children
  <1> QED BY <1>1, <1>2

-----------------------------------------------------------------------------
(* Power.                                                                  *)

\* Nothing is said in an empty line, nobody holds a handle without a child.
LEMMA NothingSaid ==
    /\ \A n, a, h : /\ ~Requests(<<>>, n, a) /\ ~Fails(<<>>, n, a)
                    /\ ~Completes(<<>>, n, a, h) /\ ~Drops(<<>>, n, h)
    /\ \A es, a, h : Holds(es, a, h) => Kid(es, a)
  BY DEF Requests, Fails, Completes, Drops, Says, Holds, Kid

\* Whoever scans the child list empty leaves no child.
LEMMA ScanLinks ==
    ASSUME TypeInv, LinksOK, D0ExitScan \/ RemoveDevice
    PROVE  LinksOK'
  <1>1. /\ EmptyScan /\ power' # "D0"
        /\ UNCHANGED <<events, intr, link, handleOf, visible>>
    BY DEF D0ExitScan, RemoveDevice, radio
  <1>2. Line' = Line
    BY <1>1, LineSame
  <1>3. \A a : ~Kid(entries', a)
    <2>1. \A i \in Ids : entries'[i] = [entries[i] EXCEPT !.present = FALSE]
      BY <1>1 DEF EmptyScan
    <2>2. \A i \in Ids : entries[i] \in Entries
      BY DescTypes DEF TypeInv
    <2>3. \A i \in Ids : ~entries'[i].present
      BY <2>1, <2>2 DEF Entries
    <2> QED BY <2>3 DEF Kid
  <1>4. PICK es, fs, q, all, none :
           es = entries /\ fs = entries' /\ q = Line /\ all = Devices /\ none = {}
    OBVIOUS
  <1>5. Fewer(es, fs)
    BY <1>3, <1>4, NothingSaid DEF Fewer
  <1>6. \A b \in Devices : link[b] = "up" => handleOf[b] \in Handles
    BY UpFacts
  <1>7. /\ all \subseteq all
        /\ \A b \in Devices : link[b] \in {"accepted", "up"} /\ Kid(es, b) =>
               Kid(fs, b) \/ b \in all
        /\ \A b \in Devices : Kid(fs, b) /\ b \in none => b \in none
    BY <1>4
  <1>8. /\ Consistent(es, q, link, handleOf) => Consistent(fs, q, link, handleOf)
        /\ Ending(es, q, handleOf) => Ending(fs, q, handleOf)
        /\ Reported(es, q, link, all) => Reported(fs, q, link, all)
        /\ Ghosts(es, q, link, none) => Ghosts(fs, q, link, none)
    BY <1>5, <1>6, <1>7, FewerKids
  <1>9. Left(entries', late')
    BY <1>3 DEF Left
  <1>10. Ghosts(entries', Line', link', abandoned' \cup late')
    BY <1>3 DEF Ghosts
  <1> QED BY <1>1, <1>2, <1>4, <1>8, <1>9, <1>10 DEF LinksOK, Consistent

\* What holds when there is nothing to tell and no link.
LEMMA SilentLinks ==
    ASSUME NEW es, NEW lk, NEW hs, NEW un, NEW ex, Unique(es),
           \A a \in Devices : lk[a] = "down"
    PROVE  /\ Consistent(es, <<>>, lk, hs)
           /\ Reported(es, <<>>, lk, un)
           /\ Left(es, ex) => Ghosts(es, <<>>, lk, ex)
           /\ (\A a : ~Kid(es, a)) => Ending(es, <<>>, hs)
  <1>1. PICK q : q = <<>>
    OBVIOUS
  <1>2. \A n, a, h : /\ ~Requests(q, n, a) /\ ~Fails(q, n, a)
                     /\ ~Completes(q, n, a, h) /\ ~Drops(q, n, h)
    BY <1>1, NothingSaid
  <1>3. \A n, a, h : ~Renews(q, n, a, h)
    BY <1>2 DEF Renews
  <1>4. Between(es, q)
    BY <1>3 DEF Between
  <1>5. Return(es, q, lk) /\ Asked(q, lk, hs) /\ Answered(q, lk)
    BY <1>2 DEF Return, Asked, Answered
  <1>6. Known(es, q, lk, hs)
    BY DEF Known
  <1>7. Reported(es, q, lk, un)
    BY DEF Reported
  <1>8. Left(es, ex) => Ghosts(es, q, lk, ex)
    BY DEF Left, Ghosts, Excused
  <1>9. (\A a : ~Kid(es, a)) => Ending(es, q, hs)
    BY <1>2, NothingSaid DEF Ending, Got
  <1> QED BY <1>1, <1>4, <1>5, <1>6, <1>7, <1>8, <1>9 DEF Consistent

\* Leaving D0 and coming back.
LEMMA PowerLinks ==
    ASSUME TypeInv, HostOK, LinksOK, Power
    PROVE  LinksOK'
  <1>1. CASE D0ExitScan \/ RemoveDevice
    BY <1>1, ScanLinks
  <1>2. CASE D0ExitStop
    <2>1. /\ power = "Exiting" /\ ~IntrBusy /\ power' = "D3" /\ visible' = FALSE
          /\ link' = [a \in Devices |-> "down"] /\ events' = <<>>
          /\ UNCHANGED <<entries, intr, abandoned, late>>
      BY <1>2 DEF D0ExitStop, bus
    <2>2. Line' = <<>>
      BY <2>1 DEF Line, Story, IntrBusy
    <2>3. PICK es, lk, hs, un, ex :
             /\ es = entries /\ lk = link' /\ hs = handleOf' /\ un = uncreated'
             /\ ex = abandoned \cup late
      OBVIOUS
    <2>4. Unique(es) /\ \A a \in Devices : lk[a] = "down"
      BY <2>1, <2>3 DEF LinksOK
    <2>5. Left(es, late) /\ Left(es, ex)
      BY <2>1, <2>3 DEF LinksOK, Left
    <2>6. Consistent(es, <<>>, lk, hs) /\ Ghosts(es, <<>>, lk, ex)
      BY <2>4, <2>5, SilentLinks
    <2> QED BY <2>1, <2>2, <2>3, <2>5, <2>6 DEF LinksOK, Consistent
  <1>3. CASE Resume
    <2>1. /\ ~visible /\ UNCHANGED <<events, intr, entries, link, handleOf, visible,
                                     abandoned, late, uncreated>>
      BY <1>3 DEF Resume, HostOK, bus, radio, history, excuses
    <2>2. Line' = Line
      BY <2>1, LineSame
    <2>3. Reported(entries, Line, link, uncreated)
      BY <2>1 DEF HostOK, Reported
    <2> QED BY <2>1, <2>2, <2>3 DEF LinksOK
  <1>4. CASE Replug
    <2>1. /\ ~visible /\ UNCHANGED <<events, intr, entries, link, handleOf,
                                     abandoned, late, uncreated>>
          /\ \A i \in Ids : entries[i] = Free
      BY <1>4 DEF Replug, HostOK, bus, radio, history, excuses
    <2>2. Line' = Line /\ Line = <<>>
      BY <2>1, LineSame DEF HostOK, Line, Story
    <2>3. \A a : ~Kid(entries, a)
      BY <2>1 DEF Kid, Free
    <2>4. PICK es, lk, hs, un, ex :
             /\ es = entries /\ lk = link /\ hs = handleOf /\ un = uncreated
             /\ ex = abandoned \cup late
      OBVIOUS
    <2>5. Unique(es) /\ \A a \in Devices : lk[a] = "down"
      BY <2>1, <2>4 DEF LinksOK, HostOK
    <2>6. Left(es, late) /\ Left(es, ex)
      BY <2>3, <2>4 DEF Left
    <2>7. /\ Consistent(es, <<>>, lk, hs) /\ Ghosts(es, <<>>, lk, ex)
          /\ Reported(es, <<>>, lk, un) /\ Ending(es, <<>>, hs)
      BY <2>3, <2>4, <2>5, <2>6, SilentLinks
    <2> QED BY <2>1, <2>2, <2>4, <2>6, <2>7 DEF LinksOK, Consistent
  <1> QED BY <1>1, <1>2, <1>3, <1>4 DEF Power

-----------------------------------------------------------------------------
(* The invariant, and the properties it implies.                           *)

\* At first there is no child and no link.
LEMMA InitLinks == Init => LinksInv
  <1> SUFFICES ASSUME Init PROVE LinksInv
    OBVIOUS
  <1>1. HostOK
    BY DEF Init, HostOK
  <1>2. /\ events = <<>> /\ intr = IntrIdle /\ link = [a \in Devices |-> "down"]
        /\ entries = [i \in Ids |-> Free] /\ visible /\ power = "D0"
    BY DEF Init
  <1>3. Line = <<>>
    BY <1>2 DEF Line, Story, IntrBusy, IntrIdle
  <1>4. \A a : ~Kid(entries, a)
    BY <1>2 DEF Kid, Free
  <1>5. PICK es, lk, hs, un, ex :
           /\ es = entries /\ lk = link /\ hs = handleOf /\ un = uncreated
           /\ ex = abandoned \cup late
    OBVIOUS
  <1>6. Unique(es) /\ \A a \in Devices : lk[a] = "down"
    BY <1>2, <1>4, <1>5, NothingSaid DEF Unique
  <1>7. Left(es, late) /\ Left(es, ex)
    BY <1>4, <1>5 DEF Left
  <1>8. /\ Consistent(es, <<>>, lk, hs) /\ Ghosts(es, <<>>, lk, ex)
        /\ Reported(es, <<>>, lk, un) /\ Ending(es, <<>>, hs)
    BY <1>4, <1>5, <1>6, <1>7, SilentLinks
  <1> QED BY <1>1, <1>3, <1>5, <1>7, <1>8 DEF LinksInv, LinksOK, Consistent

\* Every step keeps it.
LEMMA LinksStep == TypeInv /\ Shape /\ CleanInv /\ LinksInv /\ [Next]_vars => LinksInv'
  <1> SUFFICES ASSUME TypeInv, Shape, CleanInv, LinksInv, [Next]_vars
               PROVE  LinksInv'
    OBVIOUS
  <1>1. HostOK /\ HostOK'
    BY HostStep DEF LinksInv
  <1>2. ASSUME Clean' PROVE LinksOK'
    <2>1. Clean
      BY <1>2, CleanBack DEF TypeInv
    <2>2. Safe /\ LinksOK
      BY <2>1 DEF CleanInv, LinksInv
    <2>3. CASE Radio
      BY <1>1, <2>2, <2>3, RadioLinks
    <2>4. CASE Interrupt
      BY <1>1, <1>2, <2>2, <2>4, InterruptLinks
    <2>5. CASE Bulk
      BY <1>2, <2>2, <2>5, BulkLinks
    <2>6. CASE Children
      BY <2>2, <2>6, ChildrenLinks
    <2>7. CASE Power
      BY <1>1, <2>2, <2>7, PowerLinks
    <2>8. CASE UNCHANGED vars
      <3>1. UNCHANGED <<entries, events, intr, link, handleOf, power, visible,
                        uncreated, abandoned, late>>
        BY <2>8 DEF vars, bus, radio, host, history, excuses
      <3>2. SameKids(entries, entries')
        BY <3>1 DEF SameKids
      <3> QED BY <2>2, <3>1, <3>2, LineSame, QuietLinks
    <2> QED BY <2>3, <2>4, <2>5, <2>6, <2>7, <2>8 DEF Next
  <1> QED BY <1>1, <1>2 DEF LinksInv

\* What the child list does not show yet is in the line, whatever the order
\* in which the readers, the framework and the radio get to run.
THEOREM LinksCorrect == Spec => [](TypeInv /\ Shape /\ CleanInv /\ LinksInv)
  <1>1. Init => LinksInv
    BY InitLinks
  <1>2. TypeInv /\ Shape /\ CleanInv /\ LinksInv /\ [Next]_vars => LinksInv'
    BY LinksStep
  <1>3. Spec => [](TypeInv /\ Shape /\ CleanInv)
    BY CleanCorrect
  <1> QED BY <1>1, <1>2, <1>3, PTL DEF Spec

\* No two children have the same handle, so that the lookup by handle
\* (WireBus.c:744) finds the child the packet is for.
THEOREM UniqueCorrect == Spec => []HandlesUnique
  <1>1. TypeInv /\ Shape /\ LinksInv => HandlesUnique
    <2> SUFFICES ASSUME TypeInv, Shape, LinksOK,
                        NEW i \in PresentAll, NEW j \in PresentAll, i # j,
                        entries[i].desc.handle # NoHandle
                 PROVE  entries[i].desc.handle # entries[j].desc.handle
      BY DEF LinksInv, HandlesUnique
    <2>1. /\ i \in Ids /\ entries[i].present /\ entries[i].addr \in Devices
          /\ j \in Ids /\ entries[j].present /\ entries[j].addr \in Devices
      BY KidFacts DEF PresentAll, TypeInv
    <2>2. entries[i].addr # entries[j].addr
      BY DEF Shape, OneEach
    <2>3. entries[i].desc.handle \in Handles
      <3>1. entries[i].desc \in Descs
        BY <2>1, DescTypes DEF TypeInv
      <3> QED BY <3>1 DEF Descs
    <2> QED BY <2>1, <2>2, <2>3 DEF LinksOK, Unique, Holds
  <1> QED BY <1>1, LinksCorrect, PTL

\* What is still in the line about a device nobody works on.
LEMMA SettledLine ==
    ASSUME TypeInv, Shape, NEW a \in Devices, Settled(a)
    PROVE  \A n \in Nat : \A h :
              /\ ~Requests(Line, n, a) /\ ~Fails(Line, n, a)
              /\ ~Completes(Line, n, a, h)
              /\ Holds(entries, a, h) => ~Drops(Line, n, h)
  <1> SUFFICES ASSUME NEW n \in Nat, NEW h, n \in DOMAIN Line
               PROVE  /\ ~Requests(Line, n, a) /\ ~Fails(Line, n, a)
                      /\ ~Completes(Line, n, a, h)
                      /\ Holds(entries, a, h) => ~Drops(Line, n, h)
    BY DEF Requests, Fails, Completes, Drops, Says
  <1>1. /\ IntrBusy => intr.addr # a
        /\ \A i \in DOMAIN events :
              /\ events[i].type # "DisconnectionComplete" => events[i].addr # a
              /\ events[i].type = "DisconnectionComplete" /\ IsPresent(a) =>
                    events[i].handle # DescOf(a).handle
    BY DEF Settled, Busy
  <1>2. CASE Story /\ n = 1
    <2>1. Line[n] = Pending
      BY <1>2, LineType
    <2>2. /\ Line[n].type # "DisconnectionComplete" /\ Line[n].addr = intr.addr
          /\ intr.addr # a
      BY <1>1, <1>2, <2>1 DEF Pending, Story
    <2> QED BY <2>2 DEF Requests, Fails, Completes, Drops, Says
  <1>3. CASE ~(Story /\ n = 1)
    <2>1. PICK m \in DOMAIN events : Line[n] = events[m]
      <3>1. CASE Story
        <4>1. PICK N \in Nat : /\ DOMAIN events = 1..N /\ DOMAIN Line = 1..(N + 1)
                               /\ \A k \in 1..N : events[k] = Line[k + 1]
          BY <3>1, LineType DEF Shortened
        <4>2. n - 1 \in 1..N /\ (n - 1) + 1 = n
          BY <1>3, <3>1, <4>1
        <4> QED BY <4>1, <4>2
      <3>2. CASE ~Story
        BY <3>2, LineType
      <3> QED BY <3>1, <3>2
    <2>2. /\ Line[n].type # "DisconnectionComplete" => Line[n].addr # a
          /\ Line[n].type = "DisconnectionComplete" /\ IsPresent(a) =>
                Line[n].handle # DescOf(a).handle
      BY <1>1, <2>1
    <2>3. Holds(entries, a, h) => IsPresent(a) /\ DescOf(a).handle = h
      BY KidFacts DEF TypeInv
    <2> QED BY <2>2, <2>3 DEF Requests, Fails, Completes, Drops, Says
  <1> QED BY <1>2, <1>3

\* The handle that the interrupt reader stored (Interrupt.c:605) is the one the
\* link has, once nothing about the device is waiting to be handled.
THEOREM KnownCorrect == Spec => []HandleKnown
  <1>1. TypeInv /\ Shape /\ LinksInv => HandleKnown
    <2> SUFFICES ASSUME TypeInv, Shape, LinksOK, power = "D0",
                        NEW a \in Devices \ uncreated, link[a] = "up", Settled(a)
                 PROVE  IsPresent(a) /\ DescOf(a).handle = handleOf[a]
      BY DEF LinksInv, HandleKnown
    <2>1. Kid(entries, a)
      BY SettledLine DEF LinksOK, Reported, Places
    <2>2. PICK n \in Nat : Got(entries, Line, n, a, handleOf[a])
      BY <2>1 DEF LinksOK, Known, Places
    <2>3. Holds(entries, a, handleOf[a])
      BY <2>2, SettledLine DEF Got
    <2> QED BY <2>3, KidFacts DEF TypeInv
  <1> QED BY <1>1, LinksCorrect, PTL

\* A child whose link is down and about which nothing is waiting was left by a
\* failed connection attempt or by a request handled inside D0Exit.
THEOREM GhostCorrect == Spec => []NoGhost
  <1>1. TypeInv /\ Shape /\ LinksInv => NoGhost
    <2> SUFFICES ASSUME TypeInv, Shape, LinksOK, NEW a \in Devices,
                        IsPresent(a), link[a] = "down", Settled(a)
                 PROVE  a \in abandoned \cup late
      BY DEF LinksInv, NoGhost
    <2>1. Kid(entries, a)
      BY KidFacts DEF TypeInv
    <2>2. Excused(entries, Line, abandoned \cup late, a)
      BY <2>1 DEF LinksOK, Ghosts
    <2> QED BY <2>2, SettledLine DEF Excused, Places
  <1> QED BY <1>1, LinksCorrect, PTL
=============================================================================
