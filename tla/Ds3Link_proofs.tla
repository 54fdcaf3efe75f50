---------------------------- MODULE Ds3Link_proofs ----------------------------
(***************************************************************************)
(* Driver and device agree on the ids of their channels, data goes to the  *)
(* command channel and not before both channels are agreed upon, no id is  *)
(* given twice, and both ends read each other's frames as they are meant:  *)
(* for any number of devices and any channel ids.                          *)
(***************************************************************************)
EXTENDS Ds3Wire, SequenceTheorems, TLAPS

-----------------------------------------------------------------------------
(* Messages of a kind M in a queue q.                                      *)

None(q, M) == \A i \in DOMAIN q : q[i] \notin M
AtMostOne(q, M) == \A i, j \in DOMAIN q : q[i] \in M /\ q[j] \in M => i = j

\* Taking the oldest message away: ...
LEMMA TailPlaces ==
    ASSUME NEW S, NEW q \in Seq(S), q # <<>>
    PROVE  /\ Tail(q) \in Seq(S) /\ Head(q) \in S /\ Head(q) = q[1]
           /\ Len(q) \in Nat /\ 1 \in DOMAIN q /\ DOMAIN q = 1..Len(q)
           /\ DOMAIN Tail(q) = 1..(Len(q) - 1)
           /\ \A i \in 1..(Len(q) - 1) : Tail(q)[i] = q[i + 1]
  OBVIOUS

\* ... no message of the kind comes in, and if it was the only one there is
\* none left.
LEMMA TailFacts ==
    ASSUME NEW S, NEW q \in Seq(S), q # <<>>, NEW M
    PROVE  /\ None(q, M) => None(Tail(q), M)
           /\ AtMostOne(q, M) => AtMostOne(Tail(q), M)
           /\ AtMostOne(q, M) /\ Head(q) \in M => None(Tail(q), M)
           /\ None(q, M) => Head(q) \notin M
  <1>1. \A i \in DOMAIN Tail(q) : i \in Int /\ i + 1 \in DOMAIN q
                                  /\ Tail(q)[i] = q[i + 1] /\ i + 1 # 1
    BY TailPlaces
  <1>2. 1 \in DOMAIN q /\ Head(q) = q[1]
    BY TailPlaces
  <1> QED
    BY <1>1, <1>2 DEF None, AtMostOne

\* Queueing messages r after those in q.
LEMMA ConcatFacts ==
    ASSUME NEW S, NEW q \in Seq(S), NEW r \in Seq(S), NEW M
    PROVE  /\ q \o r \in Seq(S)
           /\ None(q, M) /\ None(r, M) => None(q \o r, M)
           /\ AtMostOne(q, M) /\ None(r, M) => AtMostOne(q \o r, M)
           /\ None(q, M) /\ AtMostOne(r, M) => AtMostOne(q \o r, M)
  <1>1. /\ q \o r \in Seq(S) /\ Len(q) \in Nat /\ Len(r) \in Nat
        /\ Len(q \o r) = Len(q) + Len(r)
        /\ DOMAIN q = 1..Len(q) /\ DOMAIN r = 1..Len(r)
        /\ DOMAIN (q \o r) = 1..(Len(q) + Len(r))
    OBVIOUS
  <1>2. \A i \in 1..(Len(q) + Len(r)) :
            (q \o r)[i] = IF i <= Len(q) THEN q[i] ELSE r[i - Len(q)]
    BY <1>1, ConcatProperties
  <1>3. \A i \in DOMAIN (q \o r) :
           \/ i \in DOMAIN q /\ (q \o r)[i] = q[i]
           \/ i \notin DOMAIN q /\ i - Len(q) \in DOMAIN r /\ i \in Int
              /\ (q \o r)[i] = r[i - Len(q)]
    BY <1>1, <1>2
  <1> HIDE <1>2
  <1>4. None(q, M) /\ None(r, M) => None(q \o r, M)
    BY <1>3 DEF None
  <1>5. AtMostOne(q, M) /\ None(r, M) => AtMostOne(q \o r, M)
    BY <1>3 DEF None, AtMostOne
  <1>6. None(q, M) /\ AtMostOne(r, M) => AtMostOne(q \o r, M)
    <2> SUFFICES ASSUME None(q, M), AtMostOne(r, M),
                        NEW i \in DOMAIN (q \o r), NEW j \in DOMAIN (q \o r),
                        (q \o r)[i] \in M, (q \o r)[j] \in M
                 PROVE  i = j
      BY DEF AtMostOne
    <2>1. /\ i - Len(q) \in DOMAIN r /\ j - Len(q) \in DOMAIN r
          /\ i \in Int /\ j \in Int
          /\ r[i - Len(q)] \in M /\ r[j - Len(q)] \in M
      BY <1>3 DEF None
    <2>2. i - Len(q) = j - Len(q)
      BY <2>1 DEF AtMostOne
    <2> QED BY <1>1, <2>1, <2>2
  <1> QED BY <1>1, <1>4, <1>5, <1>6

LEMMA ConcatPlaces ==
    ASSUME NEW S, NEW q \in Seq(S), NEW r \in Seq(S), NEW i \in DOMAIN (q \o r)
    PROVE  \/ i \in DOMAIN q /\ (q \o r)[i] = q[i]
           \/ \E j \in DOMAIN r : (q \o r)[i] = r[j]
  <1>1. /\ Len(q) \in Nat /\ Len(r) \in Nat
        /\ DOMAIN q = 1..Len(q) /\ DOMAIN r = 1..Len(r)
        /\ DOMAIN (q \o r) = 1..(Len(q) + Len(r))
    OBVIOUS
  <1>2. (q \o r)[i] = IF i <= Len(q) THEN q[i] ELSE r[i - Len(q)]
    BY <1>1, ConcatProperties
  <1> QED BY <1>1, <1>2

LEMMA AppendFacts ==
    ASSUME NEW S, NEW q \in Seq(S), NEW m \in S, NEW M
    PROVE  /\ Append(q, m) \in Seq(S)
           /\ None(q, M) /\ m \notin M => None(Append(q, m), M)
           /\ AtMostOne(q, M) /\ m \notin M => AtMostOne(Append(q, m), M)
           /\ None(q, M) => AtMostOne(Append(q, m), M)
  <1>1. /\ Append(q, m) \in Seq(S) /\ Len(q) \in Nat
        /\ DOMAIN q = 1..Len(q) /\ DOMAIN Append(q, m) = 1..(Len(q) + 1)
        /\ Append(q, m)[Len(q) + 1] = m
        /\ \A i \in 1..Len(q) : Append(q, m)[i] = q[i]
    OBVIOUS
  <1>2. \A i \in DOMAIN Append(q, m) :
            \/ i \in DOMAIN q /\ Append(q, m)[i] = q[i]
            \/ i = Len(q) + 1 /\ Append(q, m)[i] = m
    BY <1>1
  <1> QED BY <1>1, <1>2 DEF None, AtMostOne

LEMMA AppendPlaces ==
    ASSUME NEW S, NEW q \in Seq(S), NEW m \in S, NEW i \in DOMAIN Append(q, m)
    PROVE  \/ i \in DOMAIN q /\ Append(q, m)[i] = q[i]
           \/ Append(q, m)[i] = m
  <1>1. /\ Len(q) \in Nat
        /\ DOMAIN q = 1..Len(q) /\ DOMAIN Append(q, m) = 1..(Len(q) + 1)
        /\ Append(q, m)[Len(q) + 1] = m
        /\ \A j \in 1..Len(q) : Append(q, m)[j] = q[j]
    OBVIOUS
  <1> QED BY <1>1

\* Submitting only the first n messages of r.
LEMMA PrefixPlaces ==
    ASSUME NEW S, NEW r \in Seq(S), NEW n \in 0..Len(r)
    PROVE  /\ SubSeq(r, 1, n) \in Seq(S)
           /\ \A i \in DOMAIN SubSeq(r, 1, n) :
                 i \in DOMAIN r /\ SubSeq(r, 1, n)[i] = r[i]
  <1>1. Len(r) \in Nat /\ DOMAIN r = 1..Len(r) /\ n \in Int
    OBVIOUS
  <1>2. /\ SubSeq(r, 1, n) \in Seq(S)
        /\ Len(SubSeq(r, 1, n)) = n
        /\ \A i \in 1..n : SubSeq(r, 1, n)[i] = r[i]
    BY <1>1, SubSeqProperties
  <1>3. DOMAIN SubSeq(r, 1, n) = 1..n
    BY <1>2
  <1> QED BY <1>1, <1>2, <1>3

LEMMA PrefixFacts ==
    ASSUME NEW S, NEW r \in Seq(S), NEW n \in 0..Len(r), NEW M
    PROVE  /\ SubSeq(r, 1, n) \in Seq(S)
           /\ None(r, M) => None(SubSeq(r, 1, n), M)
           /\ AtMostOne(r, M) => AtMostOne(SubSeq(r, 1, n), M)
  BY PrefixPlaces DEF None, AtMostOne

-----------------------------------------------------------------------------
(* Types.                                                                  *)

USE DEF NoCid

LEMMA CidFacts ==
    /\ FirstCid \in Nat /\ LastCid \in Nat /\ FirstCid < LastCid /\ FirstCid # 0
    /\ HidPsms \subseteq Psms
    /\ RemoteCid \in [Psms -> Nat \ {NoCid}]
    /\ \A p \in Psms : RemoteCid[p] \in AnyCid
    /\ NoCid \in AnyCid /\ Cids \subseteq AnyCid
  BY CidsAssumption, RemoteCidAssumption DEF AnyCid, Psms

\* What the messages carry.
LEMMA HostMessageFacts ==
    ASSUME NEW m \in HostMessages
    PROVE  /\ m.type = "ConnectionRequest" => m.psm \in Psms /\ m.scid \in AnyCid
           /\ m.type = "ConfigurationRequest" => m.dcid \in AnyCid
           /\ m.type = "ConfigurationResponse" => m.scid \in AnyCid
           /\ m.type = "DisconnectionRequest" =>
                 m.dcid \in AnyCid /\ m.scid \in AnyCid
  BY DEF HostMessages

LEMMA RemoteMessageFacts ==
    ASSUME NEW m \in RemoteMessages
    PROVE  /\ m.type = "ConnectionResponse" =>
                 m.dcid \in AnyCid /\ m.scid \in AnyCid
           /\ m.type = "ConfigurationRequest" => m.dcid \in AnyCid
           /\ m.type = "ConfigurationResponse" => m.scid \in AnyCid
           /\ m.type = "DisconnectionResponse" =>
                 m.dcid \in AnyCid /\ m.scid \in AnyCid
           /\ m.type = "Hid" => m.channel \in AnyCid
  BY DEF RemoteMessages

LEMMA HandleFacts ==
    ASSUME NEW D \in BthDevice
    PROVE  /\ D.Source \in [HidPsms -> AnyCid]
           /\ D.Destination \in [HidPsms -> AnyCid]
           /\ D.Configured \subseteq HidPsms /\ D.Established \subseteq HidPsms
           /\ \A cid : ByDestination(D, cid) \subseteq HidPsms
           /\ \A cid : GetScid(D, cid) \subseteq AnyCid
           /\ \A what \in {"enable", "report"} : Hid(D, what) \in RemoteMessages
           /\ \A what : Hid(D, what).type = "Hid"
                         /\ Hid(D, what).channel = D.Source["command"]
  BY DEF BthDevice, ByDestination, GetScid, Hid, RemoteMessages, HidPsms

LEMMA ConnectionTypeFacts ==
    ASSUME NEW D \in BthDevice, NEW psm \in Psms, NEW scid \in AnyCid,
           NEW dcid \in AnyCid
    PROVE  LET E == SetConnectionType(D, psm, scid, dcid) IN
           /\ E \in BthDevice
           /\ E.Configured = D.Configured /\ E.Established = D.Established
           /\ psm \in HidPsms => E.Source[psm] = scid /\ E.Destination[psm] = dcid
           /\ \A p \in HidPsms \ {psm} :
                 E.Source[p] = D.Source[p] /\ E.Destination[p] = D.Destination[p]
  BY DEF BthDevice, SetConnectionType

LEMMA ConnectionRepliesFacts ==
    ASSUME NEW scid \in AnyCid, NEW dcid \in AnyCid
    PROVE  LET r == ConnectionReplies(scid, dcid) IN
           /\ r \in Seq(RemoteMessages) /\ Len(r) = 3 /\ DOMAIN r = 1..3
           /\ r[1].type = "ConnectionResponse" /\ r[1].result = "pending"
           /\ r[1].dcid = dcid
           /\ r[2].type = "ConnectionResponse" /\ r[2].result = "successful"
           /\ r[2].dcid = dcid /\ r[2].scid = scid
           /\ r[3].type = "ConfigurationRequest"
  BY DEF ConnectionReplies, RemoteMessages

LEMMA NewCidFacts == TypeOK => NewCid \in Cids /\ NewCid # NoCid
  BY CidFacts DEF TypeOK, NewCid, Cids

\* What the parts of the handlers do to the queues.
LEMMA ReceiveFacts ==
    ASSUME TypeOK, NEW d \in Devices, NEW type, Receive(d, type)
    PROVE  /\ toHost' \in [Devices -> Seq(HostMessages)]
           /\ toHost[d] \in Seq(HostMessages) /\ toHost[d] # <<>>
           /\ Head(toHost[d]) \in HostMessages /\ Head(toHost[d]).type = type
           /\ toHost'[d] = Tail(toHost[d])
           /\ \A e \in Devices \ {d} : toHost'[e] = toHost[e]
  <1>1. toHost \in [Devices -> Seq(HostMessages)] /\ toHost[d] # <<>>
        /\ Head(toHost[d]).type = type
        /\ toHost' = [toHost EXCEPT ![d] = Tail(toHost[d])]
    BY DEF TypeOK, Receive
  <1>2. Tail(toHost[d]) \in Seq(HostMessages) /\ Head(toHost[d]) \in HostMessages
    BY <1>1, TailPlaces
  <1> QED BY <1>1, <1>2

LEMMA SendFacts ==
    ASSUME TypeOK, NEW d \in Devices, NEW r \in Seq(RemoteMessages), NEW n,
           NEW F \in SUBSET {"send", "disconnect"}, Send(d, r, n, F)
    PROVE  /\ toRemote' \in [Devices -> Seq(RemoteMessages)]
           /\ failed' \in [Devices -> SUBSET {"send", "disconnect"}]
           /\ n \in 0..Len(r)
           /\ toRemote[d] \in Seq(RemoteMessages)
           /\ SubSeq(r, 1, n) \in Seq(RemoteMessages)
           /\ toRemote'[d] = toRemote[d] \o SubSeq(r, 1, n)
           /\ \A e \in Devices \ {d} : toRemote'[e] = toRemote[e]
  <1> DEFINE s == SubSeq(r, 1, n)
             G == F \cup (IF n < Len(r) THEN {"send"} ELSE {})
  <1>1. n \in 0..Len(r)
        /\ toRemote' = [toRemote EXCEPT ![d] = toRemote[d] \o s]
        /\ failed' = [failed EXCEPT ![d] = failed[d] \cup G]
    BY DEF Send
  <1>2. s \in Seq(RemoteMessages)
    BY <1>1, PrefixFacts
  <1> HIDE DEF s
  <1>3. toRemote \in [Devices -> Seq(RemoteMessages)]
        /\ toRemote[d] \o s \in Seq(RemoteMessages)
    BY <1>2, ConcatFacts DEF TypeOK
  <1>4. failed \in [Devices -> SUBSET {"send", "disconnect"}]
        /\ G \subseteq {"send", "disconnect"}
    BY DEF TypeOK
  <1> HIDE DEF G
  <1>5. failed[d] \cup G \in SUBSET {"send", "disconnect"}
    BY <1>4
  <1>6. failed' \in [Devices -> SUBSET {"send", "disconnect"}]
    BY <1>1, <1>4, <1>5
  <1>7. /\ toRemote' \in [Devices -> Seq(RemoteMessages)]
        /\ toRemote'[d] = toRemote[d] \o s
        /\ \A e \in Devices \ {d} : toRemote'[e] = toRemote[e]
    BY <1>1, <1>3
  <1> QED BY <1>1, <1>2, <1>3, <1>6, <1>7 DEF s

LEMMA SayFacts ==
    ASSUME TypeOK, NEW d \in Devices, NEW m \in HostMessages, Say(d, m)
    PROVE  /\ toHost' \in [Devices -> Seq(HostMessages)]
           /\ toHost[d] \in Seq(HostMessages)
           /\ toHost'[d] = Append(toHost[d], m)
           /\ \A e \in Devices \ {d} : toHost'[e] = toHost[e]
  <1>1. toHost \in [Devices -> Seq(HostMessages)]
        /\ toHost' = [toHost EXCEPT ![d] = Append(toHost[d], m)]
    BY DEF TypeOK, Say
  <1>2. Append(toHost[d], m) \in Seq(HostMessages)
    BY <1>1, AppendFacts
  <1> QED BY <1>1, <1>2

\* A channel with new content c.
LEMMA BecomesFacts ==
    ASSUME TypeOK, NEW d \in Devices, NEW p \in Psms, NEW c \in Channels,
           remote' = [remote EXCEPT ![d][p] = c]
    PROVE  /\ remote' \in [Devices -> [Psms -> Channels]]
           /\ remote'[d][p] = c
           /\ \A q \in Psms \ {p} : remote'[d][q] = remote[d][q]
           /\ \A e \in Devices \ {d} : remote'[e] = remote[e]
  BY DEF TypeOK

LEMMA ChannelFacts ==
    ASSUME NEW c \in Channels
    PROVE  /\ c.peer \in AnyCid
           /\ [c EXCEPT !.asked = TRUE] \in Channels
           /\ [c EXCEPT !.asked = TRUE].state = c.state
           /\ [c EXCEPT !.asked = TRUE].peer = c.peer
           /\ [c EXCEPT !.asked = TRUE].agreed = c.agreed
           /\ [c EXCEPT !.confirmed = TRUE] \in Channels
           /\ [c EXCEPT !.confirmed = TRUE].state = c.state
           /\ [c EXCEPT !.confirmed = TRUE].peer = c.peer
           /\ [c EXCEPT !.confirmed = TRUE].agreed = c.agreed
           /\ \A s \in {"closed", "closing"} :
                 /\ [c EXCEPT !.state = s] \in Channels
                 /\ [c EXCEPT !.state = s].state = s
                 /\ [c EXCEPT !.state = s].agreed = c.agreed
           /\ [Closed EXCEPT !.state = "waiting"] \in Channels
           /\ [Closed EXCEPT !.state = "waiting"].state = "waiting"
           /\ Closed \in Channels /\ Closed.state = "closed"
  BY CidFacts DEF Channels, Closed

-----------------------------------------------------------------------------
(* Each step: the types are kept, no other device is touched, and what it  *)
(* does to device d.                                                       *)

Elsewhere(d) == \A e \in Devices \ {d} :
    /\ Device'[e] = Device[e] /\ ticking'[e] = ticking[e]
    /\ remote'[e] = remote[e]
    /\ toHost'[e] = toHost[e] /\ toRemote'[e] = toRemote[e]

\* The driver takes a message and sends the first n of the messages r.
Handled(d, r, n) ==
    /\ r \in Seq(RemoteMessages) /\ n \in 0..Len(r)
    /\ toHost[d] \in Seq(HostMessages) /\ toHost[d] # <<>>
    /\ Head(toHost[d]) \in HostMessages
    /\ toHost'[d] = Tail(toHost[d])
    /\ toRemote[d] \in Seq(RemoteMessages)
    /\ SubSeq(r, 1, n) \in Seq(RemoteMessages)
    /\ toRemote'[d] = toRemote[d] \o SubSeq(r, 1, n)
    /\ remote'[d] = remote[d]

LEMMA HandledFacts ==
    ASSUME TypeOK, NEW d \in Devices, NEW type, Receive(d, type),
           NEW r \in Seq(RemoteMessages), NEW n,
           NEW F \in SUBSET {"send", "disconnect"}, Send(d, r, n, F),
           remote' = remote
    PROVE  Handled(d, r, n)
  <1>1. remote'[d] = remote[d]
    OBVIOUS
  <1>2. /\ n \in 0..Len(r)
        /\ toRemote[d] \in Seq(RemoteMessages)
        /\ SubSeq(r, 1, n) \in Seq(RemoteMessages)
        /\ toRemote'[d] = toRemote[d] \o SubSeq(r, 1, n)
    BY SendFacts
  <1>3. /\ toHost[d] \in Seq(HostMessages) /\ toHost[d] # <<>>
        /\ Head(toHost[d]) \in HostMessages
        /\ toHost'[d] = Tail(toHost[d])
    BY ReceiveFacts
  <1> QED BY <1>1, <1>2, <1>3 DEF Handled

LEMMA ConnectionRequestStep ==
    ASSUME TypeOK, NEW d \in Devices, NEW n \in 0..3, ConnectionRequest(d, n)
    PROVE  /\ TypeOK' /\ Elsewhere(d) /\ ticking'[d] = ticking[d]
           /\ Head(toHost[d]).type = "ConnectionRequest"
           /\ Head(toHost[d]).psm \in Psms /\ Head(toHost[d]).scid \in AnyCid
           /\ \E dcid \in AnyCid :
                 /\ Head(toHost[d]).psm \in HidPsms => dcid # NoCid
                 /\ Handled(d, ConnectionReplies(Head(toHost[d]).scid, dcid), n)
                 /\ Device'[d] = SetConnectionType(Device[d], Head(toHost[d]).psm,
                                                   Head(toHost[d]).scid, dcid)
  <1> DEFINE m == Head(toHost[d])
  <1>1. /\ Receive(d, "ConnectionRequest")
        /\ IF m.psm \in HidPsms THEN AdvanceCid ELSE UNCHANGED <<GlobalCID, wrapped>>
        /\ UNCHANGED <<acl, ticking, remote>>
    BY DEF ConnectionRequest
  <1>2. PICK dcid \in IF m.psm \in HidPsms THEN {NewCid} ELSE AnyCid :
            /\ Device' = [Device EXCEPT ![d] =
                              SetConnectionType(Device[d], m.psm, m.scid, dcid)]
            /\ Send(d, ConnectionReplies(m.scid, dcid), n, {})
    BY DEF ConnectionRequest
  <1>3. dcid \in AnyCid /\ (m.psm \in HidPsms => dcid # NoCid)
    BY <1>2, NewCidFacts, CidFacts
  <1>4. m.psm \in Psms /\ m.scid \in AnyCid /\ m.type = "ConnectionRequest"
    BY <1>1, ReceiveFacts, HostMessageFacts
  <1>5. ConnectionReplies(m.scid, dcid) \in Seq(RemoteMessages)
    BY <1>3, <1>4, ConnectionRepliesFacts
  <1>6. Handled(d, ConnectionReplies(m.scid, dcid), n)
    BY <1>1, <1>2, <1>5, HandledFacts
  <1>7. Device \in [Devices -> BthDevice]
        /\ SetConnectionType(Device[d], m.psm, m.scid, dcid) \in BthDevice
    BY <1>3, <1>4, ConnectionTypeFacts DEF TypeOK
  <1>8. /\ Device' \in [Devices -> BthDevice]
        /\ Device'[d] = SetConnectionType(Device[d], m.psm, m.scid, dcid)
        /\ \A e \in Devices \ {d} : Device'[e] = Device[e]
    BY <1>2, <1>7
  <1>9. GlobalCID' \in FirstCid..(LastCid + 1) /\ wrapped' \in BOOLEAN
    <2>1. CASE AdvanceCid
      BY <2>1, CidFacts DEF TypeOK, AdvanceCid, NewCid
    <2>2. CASE UNCHANGED <<GlobalCID, wrapped>>
      BY <2>2 DEF TypeOK
    <2> QED BY <1>1, <2>1, <2>2
  <1>10. TypeOK'
    BY <1>1, <1>2, <1>5, <1>8, <1>9, ReceiveFacts, SendFacts DEF TypeOK
  <1>11. Elsewhere(d)
    BY <1>1, <1>2, <1>5, <1>8, ReceiveFacts, SendFacts DEF Elsewhere
  <1> QED BY <1>1, <1>3, <1>4, <1>6, <1>8, <1>10, <1>11

LEMMA ConfigurationRequestStep ==
    ASSUME TypeOK, NEW d \in Devices, NEW n \in 0..3, ConfigurationRequest(d, n)
    PROVE  /\ TypeOK' /\ Elsewhere(d) /\ ticking'[d] = ticking[d]
           /\ Device'[d].Source = Device[d].Source
           /\ Device'[d].Destination = Device[d].Destination
           /\ Device'[d].Established = Device[d].Established
           /\ \E scid \in AnyCid :
                 Handled(d, <<[type |-> "ConfigurationResponse", scid |-> scid]>>, n)
  <1> DEFINE m == Head(toHost[d])
             r(scid) == <<[type |-> "ConfigurationResponse", scid |-> scid]>>
             configured == Device[d].Configured \cup ByDestination(Device[d], m.dcid)
  <1>1. /\ Receive(d, "ConfigurationRequest")
        /\ Device' = [Device EXCEPT ![d].Configured = configured]
        /\ UNCHANGED <<acl, GlobalCID, wrapped, ticking, remote>>
    BY DEF ConfigurationRequest
  <1>2. PICK scid \in GetScid(Device[d], m.dcid) : Send(d, r(scid), n, {})
    BY DEF ConfigurationRequest
  <1>3. scid \in AnyCid /\ configured \subseteq HidPsms
        /\ Device \in [Devices -> BthDevice]
    BY <1>2, HandleFacts DEF TypeOK
  <1>4. r(scid) \in Seq(RemoteMessages)
    BY <1>3 DEF RemoteMessages
  <1> HIDE DEF configured, r
  <1>5. Handled(d, r(scid), n)
    BY <1>1, <1>2, <1>4, HandledFacts
  <1>6. /\ Device' \in [Devices -> BthDevice]
        /\ Device'[d].Source = Device[d].Source
        /\ Device'[d].Destination = Device[d].Destination
        /\ Device'[d].Established = Device[d].Established
        /\ \A e \in Devices \ {d} : Device'[e] = Device[e]
    BY <1>1, <1>3 DEF BthDevice
  <1>7. TypeOK'
    BY <1>1, <1>2, <1>4, <1>6, ReceiveFacts, SendFacts DEF TypeOK
  <1>8. Elsewhere(d)
    BY <1>1, <1>2, <1>4, <1>6, ReceiveFacts, SendFacts DEF Elsewhere
  <1> QED BY <1>1, <1>3, <1>5, <1>6, <1>7, <1>8 DEF r

\* What may be sent when a configuration response is taken.
Enabling(D) == <<Hid(D, "enable"), Hid(D, "report")>>

LEMMA ConfigurationResponseStep ==
    ASSUME TypeOK, NEW d \in Devices, NEW n \in 0..3, ConfigurationResponse(d, n)
    PROVE  LET m == Head(toHost[d])
               established ==
                   Device[d].Established \cup ByDestination(Device[d], m.scid)
           IN
           /\ TypeOK' /\ Elsewhere(d)
           /\ m.type = "ConfigurationResponse"
           /\ Device'[d].Source = Device[d].Source
           /\ Device'[d].Destination = Device[d].Destination
           /\ Device'[d].Established = established
           /\ \/ Ready(established) /\ Handled(d, Enabling(Device[d]), n)
              \/ Handled(d, <<>>, n) /\ ticking'[d] = ticking[d]
  <1> DEFINE m == Head(toHost[d])
             established ==
                 Device[d].Established \cup ByDestination(Device[d], m.scid)
  <1>1. /\ Receive(d, "ConfigurationResponse")
        /\ Device' = [Device EXCEPT ![d].Established = established]
        /\ UNCHANGED <<acl, GlobalCID, wrapped, remote>>
    BY DEF ConfigurationResponse
  <1>2. \/ /\ Ready(established) /\ Send(d, Enabling(Device[d]), n, {})
           /\ ticking' = [ticking EXCEPT ![d] = ticking[d] \/ n = 2]
        \/ Send(d, <<>>, n, {}) /\ UNCHANGED ticking
    BY DEF ConfigurationResponse, Enabling
  <1>3. established \subseteq HidPsms /\ Device \in [Devices -> BthDevice]
    BY HandleFacts DEF TypeOK
  <1>4. Enabling(Device[d]) \in Seq(RemoteMessages)
        /\ <<>> \in Seq(RemoteMessages)
    BY <1>3, HandleFacts DEF Enabling
  <1> HIDE DEF established
  <1>5. /\ Device' \in [Devices -> BthDevice]
        /\ Device'[d].Source = Device[d].Source
        /\ Device'[d].Destination = Device[d].Destination
        /\ Device'[d].Established = established
        /\ \A e \in Devices \ {d} : Device'[e] = Device[e]
    BY <1>1, <1>3 DEF BthDevice
  <1>6. /\ ticking' \in [Devices -> BOOLEAN]
        /\ \A e \in Devices \ {d} : ticking'[e] = ticking[e]
    BY <1>2 DEF TypeOK
  <1>7. /\ m.type = "ConfigurationResponse"
        /\ toHost' \in [Devices -> Seq(HostMessages)]
        /\ \A e \in Devices \ {d} : toHost'[e] = toHost[e]
    BY <1>1, ReceiveFacts
  <1>8. /\ toRemote' \in [Devices -> Seq(RemoteMessages)]
        /\ failed' \in [Devices -> SUBSET {"send", "disconnect"}]
        /\ \A e \in Devices \ {d} : toRemote'[e] = toRemote[e]
    <2>1. CASE Send(d, Enabling(Device[d]), n, {})
      BY <1>4, <2>1, SendFacts
    <2>2. CASE Send(d, <<>>, n, {})
      BY <1>4, <2>2, SendFacts
    <2> QED BY <1>2, <2>1, <2>2
  <1>9. \/ Ready(established) /\ Handled(d, Enabling(Device[d]), n)
        \/ Handled(d, <<>>, n) /\ ticking'[d] = ticking[d]
    <2>1. CASE Ready(established) /\ Send(d, Enabling(Device[d]), n, {})
      BY <1>1, <1>4, <2>1, HandledFacts
    <2>2. CASE Send(d, <<>>, n, {}) /\ UNCHANGED ticking
      BY <1>1, <1>4, <2>2, HandledFacts
    <2> QED BY <1>2, <2>1, <2>2
  <1>10. TypeOK'
    BY <1>1, <1>5, <1>6, <1>7, <1>8 DEF TypeOK
  <1>11. Elsewhere(d)
    BY <1>1, <1>5, <1>6, <1>7, <1>8 DEF Elsewhere
  <1> QED BY <1>5, <1>7, <1>9, <1>10, <1>11 DEF established

LEMMA DisconnectionRequestStep ==
    ASSUME TypeOK, NEW d \in Devices, NEW n \in 0..3, NEW sent \in BOOLEAN,
           DisconnectionRequest(d, n, sent)
    PROVE  /\ TypeOK' /\ Elsewhere(d) /\ UNCHANGED <<Device, ticking>>
           /\ \E dcid, scid \in AnyCid :
                 Handled(d, <<[type |-> "DisconnectionResponse", dcid |-> dcid,
                               scid |-> scid]>>, n)
  <1> DEFINE m == Head(toHost[d])
             r == <<[type |-> "DisconnectionResponse", dcid |-> m.dcid,
                     scid |-> m.scid]>>
             F == IF sent THEN {} ELSE {"disconnect"}
  <1>1. /\ Receive(d, "DisconnectionRequest")
        /\ acl' = IF Closes(Device[d], m.dcid) /\ sent
                  THEN [acl EXCEPT ![d] = "closing"] ELSE acl
        /\ Send(d, r, n, F)
        /\ UNCHANGED <<GlobalCID, wrapped, Device, ticking, remote>>
    BY DEF DisconnectionRequest
  <1>2. m.dcid \in AnyCid /\ m.scid \in AnyCid
    BY <1>1, ReceiveFacts, HostMessageFacts
  <1>3. r \in Seq(RemoteMessages) /\ F \in SUBSET {"send", "disconnect"}
    BY <1>2 DEF RemoteMessages
  <1> HIDE DEF r, F
  <1>4. acl' \in [Devices -> {"down", "up", "closing"}]
    BY <1>1 DEF TypeOK
  <1>5. TypeOK'
    BY <1>1, <1>3, <1>4, ReceiveFacts, SendFacts DEF TypeOK
  <1>6. Elsewhere(d)
    BY <1>1, <1>3, ReceiveFacts, SendFacts DEF Elsewhere
  <1>7. Handled(d, r, n)
    BY <1>1, <1>3, HandledFacts
  <1> QED BY <1>1, <1>2, <1>5, <1>6, <1>7 DEF r

LEMMA IgnoredStep ==
    ASSUME TypeOK, NEW d \in Devices, Ignored(d)
    PROVE  /\ TypeOK' /\ Elsewhere(d) /\ UNCHANGED <<Device, ticking, remote, toRemote>>
           /\ toHost[d] \in Seq(HostMessages) /\ toHost[d] # <<>>
           /\ toHost'[d] = Tail(toHost[d])
  <1>1. Receive(d, "Noise") /\ UNCHANGED <<acl, GlobalCID, wrapped, Device, ticking,
                                           remote, toRemote, failed>>
    BY DEF Ignored
  <1> QED BY <1>1, ReceiveFacts DEF TypeOK, Elsewhere

LEMMA OutputReportStep ==
    ASSUME TypeOK, NEW d \in Devices, OutputReport(d)
    PROVE  /\ TypeOK' /\ Elsewhere(d) /\ UNCHANGED <<Device, ticking, remote, toHost>>
           /\ ticking[d]
           /\ toRemote[d] \in Seq(RemoteMessages)
           /\ Hid(Device[d], "report") \in RemoteMessages
           /\ toRemote'[d] = Append(toRemote[d], Hid(Device[d], "report"))
  <1> DEFINE m == Hid(Device[d], "report")
  <1>1. /\ ticking[d] /\ toRemote' = [toRemote EXCEPT ![d] = Append(toRemote[d], m)]
        /\ UNCHANGED <<acl, GlobalCID, wrapped, Device, ticking, remote, toHost,
                       failed>>
    BY DEF OutputReport
  <1>2. toRemote \in [Devices -> Seq(RemoteMessages)] /\ m \in RemoteMessages
    BY HandleFacts DEF TypeOK
  <1> HIDE DEF m
  <1>3. Append(toRemote[d], m) \in Seq(RemoteMessages)
    BY <1>2, AppendFacts
  <1>4. /\ toRemote' \in [Devices -> Seq(RemoteMessages)]
        /\ toRemote'[d] = Append(toRemote[d], m)
        /\ \A e \in Devices \ {d} : toRemote'[e] = toRemote[e]
    BY <1>1, <1>2, <1>3
  <1>5. TypeOK' /\ Elsewhere(d)
    BY <1>1, <1>4 DEF TypeOK, Elsewhere
  <1> QED BY <1>1, <1>2, <1>4, <1>5 DEF m

LEMMA LinkUpStep ==
    ASSUME TypeOK, NEW d \in Devices, LinkUp(d)
    PROVE  TypeOK' /\ UNCHANGED <<Device, ticking, remote, toHost, toRemote>>
  BY DEF TypeOK, LinkUp

LEMMA LinkDownStep ==
    ASSUME TypeOK, NEW d \in Devices, LinkDown(d)
    PROVE  /\ TypeOK' /\ Elsewhere(d)
           /\ Device'[d] = ZeroDevice /\ ticking'[d] = FALSE
           /\ remote'[d] = [p \in Psms |-> Closed]
           /\ toHost'[d] = <<>> /\ toRemote'[d] = <<>>
  <1>1. /\ ZeroDevice \in BthDevice /\ [p \in Psms |-> Closed] \in [Psms -> Channels]
        /\ <<>> \in Seq(HostMessages) /\ <<>> \in Seq(RemoteMessages)
    <2>1. ZeroDevice \in BthDevice
      BY CidFacts DEF ZeroDevice, BthDevice
    <2>2. Closed \in Channels
      BY CidFacts DEF Closed, Channels
    <2> QED BY <2>1, <2>2
  <1> HIDE DEF ZeroDevice
  <1>2. /\ acl' = [acl EXCEPT ![d] = "down"]
        /\ Device' = [Device EXCEPT ![d] = ZeroDevice]
        /\ ticking' = [ticking EXCEPT ![d] = FALSE]
        /\ remote' = [remote EXCEPT ![d] = [p \in Psms |-> Closed]]
        /\ toHost' = [toHost EXCEPT ![d] = <<>>]
        /\ toRemote' = [toRemote EXCEPT ![d] = <<>>]
        /\ failed' = [failed EXCEPT ![d] = {}]
        /\ UNCHANGED <<GlobalCID, wrapped>>
    BY DEF LinkDown
  <1>3. TypeOK'
    BY <1>1, <1>2 DEF TypeOK
  <1> QED BY <1>2, <1>3 DEF TypeOK, Elsewhere

\* The device says m, and channel p becomes c.
Said(d, m, p, c) ==
    /\ m \in HostMessages /\ p \in Psms /\ c \in Channels
    /\ toHost[d] \in Seq(HostMessages)
    /\ toHost'[d] = Append(toHost[d], m)
    /\ remote'[d][p] = c
    /\ \A q \in Psms \ {p} : remote'[d][q] = remote[d][q]

LEMMA SaidFacts ==
    ASSUME TypeOK, NEW d \in Devices, NEW m \in HostMessages, NEW p \in Psms,
           NEW c \in Channels, Say(d, m), remote' = [remote EXCEPT ![d][p] = c],
           Aside(d)
    PROVE  /\ Said(d, m, p, c)
           /\ \A e \in Devices \ {d} : toHost'[e] = toHost[e] /\ remote'[e] = remote[e]
           /\ toHost' \in [Devices -> Seq(HostMessages)]
           /\ remote' \in [Devices -> [Psms -> Channels]]
  <1>1. /\ toHost' \in [Devices -> Seq(HostMessages)]
        /\ toHost[d] \in Seq(HostMessages)
        /\ toHost'[d] = Append(toHost[d], m)
        /\ \A e \in Devices \ {d} : toHost'[e] = toHost[e]
    BY SayFacts
  <1>2. /\ remote' \in [Devices -> [Psms -> Channels]]
        /\ remote'[d][p] = c
        /\ \A q \in Psms \ {p} : remote'[d][q] = remote[d][q]
        /\ \A e \in Devices \ {d} : remote'[e] = remote[e]
    BY BecomesFacts
  <1> QED BY <1>1, <1>2 DEF Said

LEMMA OpenChannelStep ==
    ASSUME TypeOK, NEW d \in Devices, NEW p \in Psms, OpenChannel(d, p)
    PROVE  /\ TypeOK' /\ Elsewhere(d) /\ UNCHANGED <<Device, ticking, toRemote>>
           /\ p = "other" => "other" \in Quirks
           /\ remote[d][p].state = "closed" /\ remote'[d][p].state = "waiting"
           /\ ~remote'[d][p].agreed
           /\ ~remote[d][p].agreed \/ "reopen" \in Quirks
           /\ Said(d, [type |-> "ConnectionRequest", psm |-> p,
                       scid |-> RemoteCid[p]], p, remote'[d][p])
  <1> DEFINE m == [type |-> "ConnectionRequest", psm |-> p, scid |-> RemoteCid[p]]
             c == [Closed EXCEPT !.state = "waiting"]
  <1>1. /\ p = "other" => "other" \in Quirks
        /\ remote[d][p].state = "closed"
        /\ remote[d][p] = Closed \/ "reopen" \in Quirks
        /\ remote' = [remote EXCEPT ![d][p] = c]
        /\ Say(d, m) /\ Aside(d) /\ UNCHANGED toRemote
    BY DEF OpenChannel
  <1>2. m \in HostMessages
    BY CidFacts DEF HostMessages
  <1>3. /\ c \in Channels /\ c.state = "waiting" /\ c.agreed = FALSE
        /\ Closed.agreed = FALSE
    BY CidFacts DEF Channels, Closed
  <1> HIDE DEF m, c
  <1>4. /\ Said(d, m, p, c)
        /\ \A e \in Devices \ {d} : toHost'[e] = toHost[e] /\ remote'[e] = remote[e]
        /\ toHost' \in [Devices -> Seq(HostMessages)]
        /\ remote' \in [Devices -> [Psms -> Channels]]
    BY <1>1, <1>2, <1>3, SaidFacts
  <1>5. remote'[d][p] = c
    BY <1>4 DEF Said
  <1>6. TypeOK'
    BY <1>1, <1>4 DEF TypeOK, Aside
  <1>7. Elsewhere(d)
    BY <1>1, <1>4 DEF Elsewhere, Aside
  <1>8. UNCHANGED <<Device, ticking, toRemote>>
    BY <1>1 DEF Aside
  <1> QED BY <1>1, <1>3, <1>4, <1>5, <1>6, <1>7, <1>8 DEF m

LEMMA ConfigureStep ==
    ASSUME TypeOK, NEW d \in Devices, NEW p \in Psms, Configure(d, p)
    PROVE  /\ TypeOK' /\ Elsewhere(d) /\ UNCHANGED <<Device, ticking, toRemote>>
           /\ remote'[d][p].state = remote[d][p].state
           /\ remote'[d][p].peer = remote[d][p].peer
           /\ remote'[d][p].agreed = remote[d][p].agreed
           /\ Said(d, [type |-> "ConfigurationRequest", dcid |-> remote[d][p].peer],
                   p, remote'[d][p])
  <1> DEFINE m == [type |-> "ConfigurationRequest", dcid |-> remote[d][p].peer]
             c == [remote[d][p] EXCEPT !.asked = TRUE]
  <1>1. /\ remote' = [remote EXCEPT ![d][p].asked = TRUE]
        /\ Say(d, m) /\ Aside(d) /\ UNCHANGED toRemote
    BY DEF Configure
  <1>2. remote[d][p] \in Channels
    BY DEF TypeOK
  <1>3. m \in HostMessages
    BY <1>2, ChannelFacts DEF HostMessages
  <1>4. /\ c \in Channels /\ c.state = remote[d][p].state
        /\ c.peer = remote[d][p].peer /\ c.agreed = remote[d][p].agreed
    BY <1>2, ChannelFacts
  <1>5. remote' = [remote EXCEPT ![d][p] = c]
    BY <1>1
  <1> HIDE DEF m, c
  <1>6. /\ Said(d, m, p, c)
        /\ \A e \in Devices \ {d} : toHost'[e] = toHost[e] /\ remote'[e] = remote[e]
        /\ toHost' \in [Devices -> Seq(HostMessages)]
        /\ remote' \in [Devices -> [Psms -> Channels]]
    BY <1>1, <1>3, <1>4, <1>5, SaidFacts
  <1>7. remote'[d][p] = c
    BY <1>6 DEF Said
  <1>8. TypeOK'
    BY <1>1, <1>6 DEF TypeOK, Aside
  <1>9. Elsewhere(d)
    BY <1>1, <1>6 DEF Elsewhere, Aside
  <1>10. UNCHANGED <<Device, ticking, toRemote>>
    BY <1>1 DEF Aside
  <1> QED BY <1>4, <1>6, <1>7, <1>8, <1>9, <1>10 DEF m

LEMMA CloseChannelStep ==
    ASSUME TypeOK, NEW d \in Devices, NEW p \in Psms, CloseChannel(d, p)
    PROVE  /\ TypeOK' /\ Elsewhere(d) /\ UNCHANGED <<Device, ticking, toRemote>>
           /\ remote[d][p].state = "open" /\ remote'[d][p].state = "closing"
           /\ remote'[d][p].agreed = remote[d][p].agreed
           /\ Said(d, [type |-> "DisconnectionRequest", dcid |-> remote[d][p].peer,
                       scid |-> RemoteCid[p]], p, remote'[d][p])
  <1> DEFINE m == [type |-> "DisconnectionRequest", dcid |-> remote[d][p].peer,
                   scid |-> RemoteCid[p]]
             c == [remote[d][p] EXCEPT !.state = "closing"]
  <1>1. /\ remote[d][p].state = "open"
        /\ remote' = [remote EXCEPT ![d][p].state = "closing"]
        /\ Say(d, m) /\ Aside(d) /\ UNCHANGED toRemote
    BY DEF CloseChannel
  <1>2. remote[d][p] \in Channels
    BY DEF TypeOK
  <1>3. m \in HostMessages
    BY <1>2, ChannelFacts, CidFacts DEF HostMessages
  <1>4. c \in Channels /\ c.state = "closing" /\ c.agreed = remote[d][p].agreed
    BY <1>2, ChannelFacts
  <1>5. remote' = [remote EXCEPT ![d][p] = c]
    BY <1>1
  <1> HIDE DEF m, c
  <1>6. /\ Said(d, m, p, c)
        /\ \A e \in Devices \ {d} : toHost'[e] = toHost[e] /\ remote'[e] = remote[e]
        /\ toHost' \in [Devices -> Seq(HostMessages)]
        /\ remote' \in [Devices -> [Psms -> Channels]]
    BY <1>1, <1>3, <1>4, <1>5, SaidFacts
  <1>7. remote'[d][p] = c
    BY <1>6 DEF Said
  <1>8. TypeOK'
    BY <1>1, <1>6 DEF TypeOK, Aside
  <1>9. Elsewhere(d)
    BY <1>1, <1>6 DEF Elsewhere, Aside
  <1>10. UNCHANGED <<Device, ticking, toRemote>>
    BY <1>1 DEF Aside
  <1> QED BY <1>1, <1>4, <1>6, <1>7, <1>8, <1>9, <1>10 DEF m

LEMMA NoiseStep ==
    ASSUME TypeOK, NEW d \in Devices, Noise(d)
    PROVE  /\ TypeOK' /\ Elsewhere(d) /\ UNCHANGED <<Device, ticking, remote, toRemote>>
           /\ [type |-> "Noise"] \in HostMessages
           /\ toHost[d] \in Seq(HostMessages)
           /\ toHost'[d] = Append(toHost[d], [type |-> "Noise"])
  <1>1. [type |-> "Noise"] \in HostMessages
    BY DEF HostMessages
  <1>2. Say(d, [type |-> "Noise"]) /\ Aside(d) /\ UNCHANGED <<remote, toRemote>>
    BY DEF Noise
  <1> QED BY <1>1, <1>2, SayFacts DEF TypeOK, Elsewhere, Aside

LEMMA AgreedFacts ==
    ASSUME NEW c \in Channels, NEW b \in BOOLEAN
    PROVE  LET o == [c EXCEPT !.agreed = b] IN
           o \in Channels /\ o.state = c.state /\ o.peer = c.peer /\ o.agreed = b
  BY DEF Channels

LEMMA OpenFacts ==
    ASSUME NEW c \in Channels, NEW cid \in AnyCid
    PROVE  LET o == [c EXCEPT !.state = "open", !.peer = cid] IN
           /\ o \in Channels /\ o.state = "open" /\ o.peer = cid
           /\ o.agreed = c.agreed
  BY DEF Channels

\* The device takes a message: ...
Taken(d) ==
    /\ toRemote[d] \in Seq(RemoteMessages) /\ toRemote[d] # <<>>
    /\ Head(toRemote[d]) \in RemoteMessages
    /\ toRemote'[d] = Tail(toRemote[d])

\* ... it is told that channel p, for which it waits, is open, ...
Opened(d, p) ==
    LET m == Head(toRemote[d]) IN
    /\ m.type = "ConnectionResponse" /\ m.result = "successful"
    /\ m.scid = RemoteCid[p] /\ remote[d][p].state = "waiting"
    /\ remote'[d][p].state = "open" /\ remote'[d][p].peer = m.dcid
    /\ remote'[d][p].agreed = remote[d][p].agreed
    /\ UNCHANGED toHost

\* ... it is asked to configure p, ...
Answered(d, p) ==
    /\ remote[d][p].state = "open" /\ remote'[d][p].state = "open"
    /\ remote'[d][p].peer = remote[d][p].peer
    /\ \E agreed \in BOOLEAN :
          /\ agreed \/ "reject" \in Quirks
          /\ remote'[d][p].agreed = agreed
          /\ Said(d, [type |-> "ConfigurationResponse", scid |-> remote[d][p].peer,
                      agreed |-> agreed], p, remote'[d][p])

\* ... p has been configured, or closed, ...
Settled(d, p) ==
    /\ \/ /\ remote[d][p].state = "open" /\ remote'[d][p].state = "open"
          /\ remote'[d][p].peer = remote[d][p].peer
       \/ remote[d][p].state = "closing" /\ remote'[d][p].state = "closed"
    /\ remote'[d][p].agreed = remote[d][p].agreed
    /\ UNCHANGED toHost

Only(d, p) ==
    /\ p \in Psms
    /\ \A q \in Psms \ {p} : remote'[d][q] = remote[d][q]

Change(d) ==
    /\ toHost' \in [Devices -> Seq(HostMessages)]
    /\ remote' \in [Devices -> [Psms -> Channels]]
    /\ \A e \in Devices \ {d} : toHost'[e] = toHost[e] /\ remote'[e] = remote[e]
    /\ \/ UNCHANGED <<remote, toHost>>
       \/ \E p \in Psms : Only(d, p) /\ (\/ Opened(d, p)
                                        \/ Answered(d, p)
                                        \/ Settled(d, p))

LEMMA RemoteReceiveStep ==
    ASSUME TypeOK, NEW d \in Devices, RemoteReceive(d)
    PROVE  /\ TypeOK' /\ Elsewhere(d) /\ UNCHANGED <<Device, ticking>>
           /\ Taken(d)
           /\ \/ UNCHANGED <<remote, toHost>>
              \/ \E p \in Psms : Only(d, p) /\ (\/ Opened(d, p)
                                               \/ Answered(d, p)
                                               \/ Settled(d, p))
  <1> DEFINE m == Head(toRemote[d])
  <1>1. /\ toRemote \in [Devices -> Seq(RemoteMessages)] /\ toRemote[d] # <<>>
        /\ toRemote' = [toRemote EXCEPT ![d] = Tail(toRemote[d])]
        /\ Answers(d) \/ Overhears(d)
        /\ Aside(d)
    BY DEF RemoteReceive, TypeOK
  <1>2. Tail(toRemote[d]) \in Seq(RemoteMessages) /\ m \in RemoteMessages
    BY <1>1, TailPlaces
  <1>3. /\ toRemote' \in [Devices -> Seq(RemoteMessages)] /\ Taken(d)
        /\ \A e \in Devices \ {d} : toRemote'[e] = toRemote[e]
    BY <1>1, <1>2 DEF Taken
  <1>4. ASSUME Overhears(d) PROVE Change(d)
    <2>1. UNCHANGED <<remote, toHost>>
      BY <1>4 DEF Overhears
    <2> QED BY <2>1 DEF TypeOK, Change
  <1>5. ASSUME Answers(d) PROVE Change(d)
    <2> USE DEF Named
    <2>1. CASE \E p \in Psms :
              /\ m.type = "ConnectionResponse" /\ Named(m.scid, p)
              /\ remote[d][p].state = "waiting" /\ m.result = "successful"
              /\ remote' = [remote EXCEPT ![d][p] =
                               [remote[d][p] EXCEPT !.state = "open", !.peer = m.dcid]]
              /\ UNCHANGED toHost
      <3>1. PICK p \in Psms :
              /\ m.type = "ConnectionResponse" /\ Named(m.scid, p)
              /\ remote[d][p].state = "waiting" /\ m.result = "successful"
              /\ remote' = [remote EXCEPT ![d][p] =
                               [remote[d][p] EXCEPT !.state = "open", !.peer = m.dcid]]
              /\ UNCHANGED toHost
        BY <2>1
      <3> DEFINE c == [remote[d][p] EXCEPT !.state = "open", !.peer = m.dcid]
      <3>2. m.dcid \in AnyCid /\ remote[d][p] \in Channels
        BY <1>2, <3>1, RemoteMessageFacts DEF TypeOK
      <3>3. /\ c \in Channels /\ c.state = "open" /\ c.peer = m.dcid
            /\ c.agreed = remote[d][p].agreed
        BY <3>2, OpenFacts
      <3> HIDE DEF c, m
      <3>4. /\ remote' \in [Devices -> [Psms -> Channels]] /\ remote'[d][p] = c
            /\ \A q \in Psms \ {p} : remote'[d][q] = remote[d][q]
            /\ \A e \in Devices \ {d} : remote'[e] = remote[e]
        BY <3>1, <3>3, BecomesFacts DEF c
      <3>5. Only(d, p) /\ Opened(d, p)
        BY <3>1, <3>3, <3>4 DEF Only, Opened, m
      <3>6. toHost' \in [Devices -> Seq(HostMessages)] /\ toHost' = toHost
        BY <3>1 DEF TypeOK
      <3> QED BY <3>4, <3>5, <3>6 DEF Change
    <2>2. CASE \E p \in Psms, agreed \in BOOLEAN :
              /\ remote[d][p].state = "open"
              /\ agreed \/ "reject" \in Quirks
              /\ remote' = [remote EXCEPT ![d][p] =
                               [remote[d][p] EXCEPT !.agreed = agreed]]
              /\ Say(d, [type |-> "ConfigurationResponse",
                         scid |-> remote[d][p].peer, agreed |-> agreed])
      <3>1. PICK p \in Psms, agreed \in BOOLEAN :
              /\ remote[d][p].state = "open"
              /\ agreed \/ "reject" \in Quirks
              /\ remote' = [remote EXCEPT ![d][p] =
                               [remote[d][p] EXCEPT !.agreed = agreed]]
              /\ Say(d, [type |-> "ConfigurationResponse",
                         scid |-> remote[d][p].peer, agreed |-> agreed])
        BY <2>2
      <3> DEFINE c == [remote[d][p] EXCEPT !.agreed = agreed]
                 a == [type |-> "ConfigurationResponse",
                       scid |-> remote[d][p].peer, agreed |-> agreed]
      <3>2. remote[d][p] \in Channels
        BY DEF TypeOK
      <3>3. /\ c \in Channels /\ c.state = remote[d][p].state
            /\ c.peer = remote[d][p].peer /\ c.agreed = agreed
        BY <3>2, AgreedFacts
      <3>4. a \in HostMessages
        BY <3>2, ChannelFacts DEF HostMessages
      <3> HIDE DEF c, a
      <3>5. /\ Said(d, a, p, c)
            /\ \A e \in Devices \ {d} : toHost'[e] = toHost[e] /\ remote'[e] = remote[e]
            /\ toHost' \in [Devices -> Seq(HostMessages)]
            /\ remote' \in [Devices -> [Psms -> Channels]]
        BY <1>1, <3>1, <3>3, <3>4, SaidFacts DEF c, a
      <3>6. remote'[d][p] = c /\ Only(d, p)
        BY <3>5 DEF Said, Only
      <3>7. Answered(d, p)
        BY <3>1, <3>3, <3>5, <3>6 DEF Answered, a
      <3> QED BY <3>5, <3>6, <3>7 DEF Change
    <2>3. CASE \E p \in Psms, c \in Channels :
              /\ \/ /\ remote[d][p].state = "open" /\ c.state = "open"
                    /\ c.peer = remote[d][p].peer
                 \/ remote[d][p].state = "closing" /\ c.state = "closed"
              /\ c.agreed = remote[d][p].agreed
              /\ remote' = [remote EXCEPT ![d][p] = c] /\ UNCHANGED toHost
      <3>1. PICK p \in Psms, c \in Channels :
              /\ \/ /\ remote[d][p].state = "open" /\ c.state = "open"
                    /\ c.peer = remote[d][p].peer
                 \/ remote[d][p].state = "closing" /\ c.state = "closed"
              /\ c.agreed = remote[d][p].agreed
              /\ remote' = [remote EXCEPT ![d][p] = c] /\ UNCHANGED toHost
        BY <2>3
      <3>2. /\ remote' \in [Devices -> [Psms -> Channels]] /\ remote'[d][p] = c
            /\ \A q \in Psms \ {p} : remote'[d][q] = remote[d][q]
            /\ \A e \in Devices \ {d} : remote'[e] = remote[e]
        BY <3>1, BecomesFacts
      <3>3. Only(d, p) /\ Settled(d, p)
        BY <3>1, <3>2 DEF Only, Settled
      <3>4. toHost' \in [Devices -> Seq(HostMessages)] /\ toHost' = toHost
        BY <3>1 DEF TypeOK
      <3> QED BY <3>2, <3>3, <3>4 DEF Change
    <2>4. ASSUME NEW p \in Psms
          PROVE  LET c == [remote[d][p] EXCEPT !.confirmed = TRUE] IN
                 /\ c \in Channels /\ c.state = remote[d][p].state
                 /\ c.peer = remote[d][p].peer /\ c.agreed = remote[d][p].agreed
      <3>1. remote[d][p] \in Channels
        BY DEF TypeOK
      <3> QED BY <3>1, ChannelFacts
    <2>5. ASSUME NEW p \in Psms
          PROVE  LET c == [remote[d][p] EXCEPT !.state = "closed"] IN
                 /\ c \in Channels /\ c.state = "closed"
                 /\ c.agreed = remote[d][p].agreed
      <3>1. remote[d][p] \in Channels
        BY DEF TypeOK
      <3> QED BY <3>1, ChannelFacts
    <2>6. CASE \E p \in Psms :
              /\ remote[d][p].state = "open"
              /\ remote' = [remote EXCEPT ![d][p] =
                               [remote[d][p] EXCEPT !.confirmed = TRUE]]
              /\ UNCHANGED toHost
      BY <2>3, <2>4, <2>6
    <2>7. CASE \E p \in Psms :
              /\ remote[d][p].state = "closing"
              /\ remote' = [remote EXCEPT ![d][p] =
                               [remote[d][p] EXCEPT !.state = "closed"]]
              /\ UNCHANGED toHost
      BY <2>3, <2>5, <2>7
    <2> QED BY <1>5, <2>1, <2>2, <2>6, <2>7 DEF Answers
  <1>6. Change(d)
    BY <1>1, <1>4, <1>5
  <1>7. TypeOK'
    BY <1>1, <1>3, <1>6 DEF TypeOK, Aside, Change
  <1>8. Elsewhere(d)
    BY <1>1, <1>3, <1>6 DEF Elsewhere, Aside, Change
  <1>9. UNCHANGED <<Device, ticking>>
    BY <1>1 DEF Aside
  <1> QED BY <1>3, <1>6, <1>7, <1>8, <1>9 DEF Change

-----------------------------------------------------------------------------
(* Type correctness.                                                       *)

LEMMA HostCases ==
    ASSUME NEW d, Host(d)
    PROVE  \/ \E n \in 0..3 : ConnectionRequest(d, n)
           \/ \E n \in 0..3 : ConfigurationRequest(d, n)
           \/ \E n \in 0..3 : ConfigurationResponse(d, n)
           \/ \E n \in 0..3, sent \in BOOLEAN : DisconnectionRequest(d, n, sent)
           \/ Ignored(d)
  BY DEF Host

LEMMA TypeInit == Init => TypeOK
  <1>1. ZeroDevice \in BthDevice
    BY CidFacts DEF ZeroDevice, BthDevice
  <1>2. Closed \in Channels
    BY CidFacts DEF Closed, Channels
  <1>3. <<>> \in Seq(HostMessages) /\ <<>> \in Seq(RemoteMessages)
    OBVIOUS
  <1>4. FirstCid \in FirstCid..(LastCid + 1)
    BY CidFacts
  <1> SUFFICES ASSUME Init PROVE TypeOK
    OBVIOUS
  <1> HIDE DEF ZeroDevice, Closed
  <1>5. /\ acl \in [Devices -> {"down", "up", "closing"}]
        /\ GlobalCID \in FirstCid..(LastCid + 1) /\ wrapped \in BOOLEAN
        /\ ticking \in [Devices -> BOOLEAN]
        /\ failed \in [Devices -> SUBSET {"send", "disconnect"}]
    BY <1>4 DEF Init
  <1>6. Device \in [Devices -> BthDevice]
    BY <1>1 DEF Init
  <1>7. remote \in [Devices -> [Psms -> Channels]]
    BY <1>2 DEF Init
  <1>8. toHost \in [Devices -> Seq(HostMessages)]
        /\ toRemote \in [Devices -> Seq(RemoteMessages)]
    BY <1>3 DEF Init
  <1> QED BY <1>5, <1>6, <1>7, <1>8 DEF TypeOK

LEMMA TypeStep == TypeOK /\ [Next]_vars => TypeOK'
  <1> SUFFICES ASSUME TypeOK, [Next]_vars PROVE TypeOK'
    OBVIOUS
  <1>1. CASE UNCHANGED vars
    BY <1>1 DEF vars, TypeOK
  <1>2. ASSUME NEW d \in Devices, Host(d) PROVE TypeOK'
    BY <1>2, HostCases, ConnectionRequestStep, ConfigurationRequestStep,
       ConfigurationResponseStep, DisconnectionRequestStep, IgnoredStep
  <1>3. ASSUME NEW d \in Devices, Remote(d) PROVE TypeOK'
    BY <1>3, OpenChannelStep, ConfigureStep, CloseChannelStep, NoiseStep,
       RemoteReceiveStep DEF Remote
  <1>4. ASSUME NEW d \in Devices, OutputReport(d) \/ LinkUp(d) \/ LinkDown(d)
        PROVE  TypeOK'
    BY <1>4, OutputReportStep, LinkUpStep, LinkDownStep
  <1> QED BY <1>1, <1>2, <1>3, <1>4 DEF Next

\* Every variable keeps its type, whatever the messages and their order.
THEOREM TypeCorrect == Spec => []TypeOK
  BY TypeInit, TypeStep, PTL DEF Spec

-----------------------------------------------------------------------------
(* Agreement.                                                              *)

\* The requests to open p on the way to the driver, and the driver's
\* positive answers on the way to the device.
Asks(p) == {m \in HostMessages : m.type = "ConnectionRequest" /\ m.psm = p}
Grants(p) == {m \in RemoteMessages :
    m.type = "ConnectionResponse" /\ m.result = "successful" /\ m.scid = RemoteCid[p]}

\* A request with another id than the device's own for that channel.
Strange == {m \in HostMessages :
    m.type = "ConnectionRequest" /\ m.scid # RemoteCid[m.psm]}

\* While a device waits for p there is one request or one positive answer at
\* most, and none else; the answer, and later the channel, has the ids the
\* driver has stored.  h, r: what is on the way to the driver and to the
\* device; c: the device's view of p; D: the driver's.
Agreed(h, r, c, D, p) ==
    /\ AtMostOne(h, Asks(p)) /\ AtMostOne(r, Grants(p))
    /\ None(h, Asks(p)) \/ None(r, Grants(p))
    /\ c.state # "waiting" => None(h, Asks(p)) /\ None(r, Grants(p))
    /\ \A i \in DOMAIN r : r[i] \in Grants(p) =>
          D.Source[p] = RemoteCid[p] /\ D.Destination[p] = r[i].dcid
    /\ c.state = "open" =>
          D.Source[p] = RemoteCid[p] /\ D.Destination[p] = c.peer

AgreedAt(d) ==
    /\ None(toHost[d], Strange)
    /\ \A p \in HidPsms :
          Agreed(toHost[d], toRemote[d], remote[d][p], Device[d], p)

Agreement == TypeOK /\ \A d \in Devices : AgreedAt(d)

LEMMA AgreementImplies == Agreement => ChannelsAgree
  BY DEF Agreement, AgreedAt, Agreed, ChannelsAgree

\* The driver takes a message that is no request to open p, and sends
\* nothing that is a positive answer for p.
LEMMA AgreedHandled ==
    ASSUME NEW h \in Seq(HostMessages), h # <<>>, NEW r \in Seq(RemoteMessages),
           NEW s \in Seq(RemoteMessages), NEW c, NEW D, NEW E, NEW p \in HidPsms,
           Agreed(h, r, c, D, p), None(s, Grants(p)),
           E.Source[p] = D.Source[p], E.Destination[p] = D.Destination[p]
    PROVE  Agreed(Tail(h), r \o s, c, E, p)
  <1>1. /\ AtMostOne(Tail(h), Asks(p))
        /\ None(h, Asks(p)) => None(Tail(h), Asks(p))
    BY TailFacts DEF Agreed
  <1>2. /\ AtMostOne(r \o s, Grants(p))
        /\ None(r, Grants(p)) => None(r \o s, Grants(p))
    BY ConcatFacts DEF Agreed
  <1>3. ASSUME NEW i \in DOMAIN (r \o s), (r \o s)[i] \in Grants(p)
        PROVE  D.Source[p] = RemoteCid[p] /\ D.Destination[p] = (r \o s)[i].dcid
    BY <1>3, ConcatPlaces DEF Agreed, None
  <1>4. /\ None(h, Asks(p)) \/ None(r, Grants(p))
        /\ c.state # "waiting" => None(h, Asks(p)) /\ None(r, Grants(p))
        /\ c.state = "open" =>
              D.Source[p] = RemoteCid[p] /\ D.Destination[p] = c.peer
    BY DEF Agreed
  <1> DEFINE t == r \o s
  <1> HIDE DEF t
  <1>5. /\ AtMostOne(t, Grants(p))
        /\ None(r, Grants(p)) => None(t, Grants(p))
        /\ \A i \in DOMAIN t : t[i] \in Grants(p) =>
              D.Source[p] = RemoteCid[p] /\ D.Destination[p] = t[i].dcid
    BY <1>2, <1>3 DEF t
  <1>6. Agreed(Tail(h), t, c, E, p)
    BY <1>1, <1>4, <1>5 DEF Agreed
  <1> QED BY <1>6 DEF t

\* The driver takes the request to open p and sends the first n answers.
LEMMA AgreedGranted ==
    ASSUME NEW h \in Seq(HostMessages), h # <<>>, NEW r \in Seq(RemoteMessages),
           NEW c, NEW D, NEW E, NEW p \in HidPsms, NEW dcid \in AnyCid, NEW n \in 0..3,
           Agreed(h, r, c, D, p), Head(h) \in Asks(p),
           E.Source[p] = RemoteCid[p], E.Destination[p] = dcid
    PROVE  Agreed(Tail(h), r \o SubSeq(ConnectionReplies(RemoteCid[p], dcid), 1, n),
                  c, E, p)
  <1> DEFINE a == ConnectionReplies(RemoteCid[p], dcid)
             s == SubSeq(a, 1, n)
  <1>1. /\ a \in Seq(RemoteMessages) /\ Len(a) = 3 /\ DOMAIN a = 1..3
        /\ a[1] \notin Grants(p) /\ a[3] \notin Grants(p) /\ a[2].dcid = dcid
    BY CidFacts, ConnectionRepliesFacts DEF Grants
  <1>2. AtMostOne(a, Grants(p))
    BY <1>1 DEF AtMostOne
  <1>3. n \in 0..Len(a)
    BY <1>1
  <1> HIDE DEF a
  <1>4. s \in Seq(RemoteMessages) /\ AtMostOne(s, Grants(p))
    BY <1>1, <1>2, <1>3, PrefixFacts
  <1>5. \A i \in DOMAIN s : s[i] \in Grants(p) => s[i].dcid = dcid
    BY <1>1, <1>3, PrefixPlaces
  <1> HIDE DEF s
  <1>6. ~None(h, Asks(p)) /\ None(Tail(h), Asks(p))
    BY TailFacts DEF Agreed
  <1>7. None(r, Grants(p)) /\ c.state = "waiting"
    BY <1>6 DEF Agreed
  <1>8. AtMostOne(Tail(h), Asks(p))
    BY <1>6 DEF None, AtMostOne
  <1>9. AtMostOne(r \o s, Grants(p))
    BY <1>4, <1>7, ConcatFacts
  <1>10. ASSUME NEW i \in DOMAIN (r \o s), (r \o s)[i] \in Grants(p)
         PROVE  (r \o s)[i].dcid = dcid
    BY <1>4, <1>5, <1>7, <1>10, ConcatPlaces DEF None
  <1>11. Agreed(Tail(h), r \o s, c, E, p)
    BY <1>6, <1>7, <1>8, <1>9, <1>10 DEF Agreed
  <1> QED BY <1>11 DEF s, a

\* The device says something else than a request to open p.
LEMMA AgreedSaid ==
    ASSUME NEW h \in Seq(HostMessages), NEW m \in HostMessages, NEW r, NEW c, NEW b,
           NEW D, NEW p \in HidPsms, Agreed(h, r, c, D, p), m \notin Asks(p),
           \/ b.state = c.state /\ b.peer = c.peer
           \/ c.state # "waiting" /\ b.state # "open"
    PROVE  Agreed(Append(h, m), r, b, D, p)
  <1>1. /\ AtMostOne(Append(h, m), Asks(p))
        /\ None(h, Asks(p)) => None(Append(h, m), Asks(p))
    BY AppendFacts DEF Agreed
  <1> QED BY <1>1 DEF Agreed

\* The device asks to open p.
LEMMA AgreedAsked ==
    ASSUME NEW h \in Seq(HostMessages), NEW m \in HostMessages, NEW r, NEW c, NEW b,
           NEW D, NEW p \in HidPsms, Agreed(h, r, c, D, p),
           c.state = "closed", b.state = "waiting"
    PROVE  Agreed(Append(h, m), r, b, D, p)
  <1>1. AtMostOne(Append(h, m), Asks(p))
    BY AppendFacts DEF Agreed
  <1> QED BY <1>1 DEF Agreed

\* The device takes a message: the positive answer for p it waited for, or
\* another one.
LEMMA AgreedTaken ==
    ASSUME NEW h, NEW r \in Seq(RemoteMessages), r # <<>>, NEW c, NEW b,
           NEW D, NEW p \in HidPsms, Agreed(h, r, c, D, p),
           \/ b.state = c.state /\ b.peer = c.peer
           \/ c.state # "waiting" /\ b.state # "open"
           \/ Head(r) \in Grants(p) /\ b.state = "open" /\ b.peer = Head(r).dcid
    PROVE  Agreed(h, Tail(r), b, D, p)
  <1>1. /\ AtMostOne(Tail(r), Grants(p))
        /\ None(r, Grants(p)) => None(Tail(r), Grants(p))
        /\ Head(r) \in Grants(p) => None(Tail(r), Grants(p)) /\ ~None(r, Grants(p))
    BY TailFacts DEF Agreed
  <1>2. ASSUME NEW i \in DOMAIN Tail(r), Tail(r)[i] \in Grants(p)
        PROVE  D.Source[p] = RemoteCid[p] /\ D.Destination[p] = Tail(r)[i].dcid
    <2>1. i + 1 \in DOMAIN r /\ Tail(r)[i] = r[i + 1]
      BY TailPlaces
    <2> QED BY <1>2, <2>1 DEF Agreed
  <1>3. Head(r) \in Grants(p) =>
            D.Source[p] = RemoteCid[p] /\ D.Destination[p] = Head(r).dcid
    BY TailPlaces DEF Agreed
  <1>4. /\ AtMostOne(h, Asks(p))
        /\ None(h, Asks(p)) \/ None(Tail(r), Grants(p))
        /\ c.state # "waiting" => None(h, Asks(p)) /\ None(Tail(r), Grants(p))
        /\ c.state = "open" =>
              D.Source[p] = RemoteCid[p] /\ D.Destination[p] = c.peer
    BY <1>1 DEF Agreed
  <1>5. CASE Head(r) \in Grants(p) /\ b.state = "open" /\ b.peer = Head(r).dcid
    <2>1. None(h, Asks(p)) /\ None(Tail(r), Grants(p))
      BY <1>1, <1>5 DEF Agreed
    <2> QED BY <1>1, <1>2, <1>3, <1>4, <1>5, <2>1 DEF Agreed
  <1>6. CASE b.state = c.state /\ b.peer = c.peer
    BY <1>1, <1>2, <1>4, <1>6 DEF Agreed
  <1>7. CASE c.state # "waiting" /\ b.state # "open"
    BY <1>1, <1>2, <1>4, <1>7 DEF Agreed
  <1> QED BY <1>5, <1>6, <1>7

LEMMA AgreementInit == Init => Agreement
  <1> SUFFICES ASSUME Init PROVE Agreement
    OBVIOUS
  <1>1. ASSUME NEW d \in Devices PROVE AgreedAt(d)
    <2>1. toHost[d] = <<>> /\ toRemote[d] = <<>>
      BY <1>1 DEF Init
    <2>2. \A p \in HidPsms : remote[d][p].state = "closed"
      BY <1>1, CidFacts DEF Init, Closed
    <2>3. DOMAIN toHost[d] = {} /\ DOMAIN toRemote[d] = {}
      BY <2>1
    <2> QED BY <2>2, <2>3 DEF AgreedAt, Agreed, None, AtMostOne
  <1> QED BY <1>1, TypeInit DEF Agreement

\* A step that touches only d disturbs no agreement with another device.
LEMMA AgreementElsewhere ==
    ASSUME Agreement, NEW d \in Devices, Elsewhere(d), TypeOK', AgreedAt(d)'
    PROVE  Agreement'
  <1>1. ASSUME NEW e \in Devices \ {d} PROVE AgreedAt(e)'
    <2>1. /\ Device'[e] = Device[e] /\ remote'[e] = remote[e]
          /\ toHost'[e] = toHost[e] /\ toRemote'[e] = toRemote[e]
      BY <1>1 DEF Elsewhere
    <2>2. AgreedAt(e)
      BY <1>1 DEF Agreement
    <2> QED BY <2>1, <2>2 DEF AgreedAt
  <1> QED BY <1>1 DEF Agreement

\* The driver handles a message other than a request to open a channel.
LEMMA AgreedAtHandled ==
    ASSUME NEW d \in Devices, AgreedAt(d), NEW r, NEW n, Handled(d, r, n),
           \A p \in HidPsms : None(r, Grants(p)),
           Device'[d].Source = Device[d].Source,
           Device'[d].Destination = Device[d].Destination
    PROVE  AgreedAt(d)'
  <1>1. /\ r \in Seq(RemoteMessages) /\ n \in 0..Len(r)
        /\ toHost[d] \in Seq(HostMessages) /\ toHost[d] # <<>>
        /\ toRemote[d] \in Seq(RemoteMessages)
        /\ SubSeq(r, 1, n) \in Seq(RemoteMessages)
        /\ toHost'[d] = Tail(toHost[d])
        /\ toRemote'[d] = toRemote[d] \o SubSeq(r, 1, n)
        /\ remote'[d] = remote[d]
    BY DEF Handled
  <1>2. None(toHost'[d], Strange)
    BY <1>1, TailFacts DEF AgreedAt
  <1>3. ASSUME NEW p \in HidPsms
        PROVE  Agreed(toHost'[d], toRemote'[d], remote'[d][p], Device'[d], p)
    <2>1. None(SubSeq(r, 1, n), Grants(p))
      BY <1>1, PrefixFacts
    <2>2. Agreed(toHost[d], toRemote[d], remote[d][p], Device[d], p)
      BY DEF AgreedAt
    <2>3. Agreed(Tail(toHost[d]), toRemote[d] \o SubSeq(r, 1, n), remote[d][p],
                 Device'[d], p)
      BY <1>1, <2>1, <2>2, AgreedHandled
    <2> QED BY <1>1, <2>3
  <1> QED BY <1>2, <1>3 DEF AgreedAt

LEMMA AgreedConnectionRequest ==
    ASSUME Agreement, NEW d \in Devices, NEW n \in 0..3, ConnectionRequest(d, n)
    PROVE  AgreedAt(d)'
  <1> DEFINE m == Head(toHost[d])
  <1>1. /\ m.type = "ConnectionRequest" /\ m.psm \in Psms /\ m.scid \in AnyCid
        /\ AgreedAt(d) /\ Device[d] \in BthDevice
    BY ConnectionRequestStep DEF Agreement, TypeOK
  <1>2. PICK dcid \in AnyCid :
            /\ Handled(d, ConnectionReplies(m.scid, dcid), n)
            /\ Device'[d] = SetConnectionType(Device[d], m.psm, m.scid, dcid)
    BY ConnectionRequestStep DEF Agreement
  <1> DEFINE a == ConnectionReplies(m.scid, dcid)
             s == SubSeq(a, 1, n)
  <1>3. /\ n \in 0..Len(a) /\ a \in Seq(RemoteMessages)
        /\ toHost[d] \in Seq(HostMessages) /\ toHost[d] # <<>> /\ m \in HostMessages
        /\ toRemote[d] \in Seq(RemoteMessages) /\ s \in Seq(RemoteMessages)
        /\ toHost'[d] = Tail(toHost[d])
        /\ toRemote'[d] = toRemote[d] \o s
        /\ remote'[d] = remote[d]
    BY <1>2 DEF Handled
  <1>4. None(toHost[d], Strange)
    BY <1>1 DEF AgreedAt
  <1>5. None(toHost'[d], Strange) /\ m \notin Strange
    BY <1>3, <1>4, TailFacts
  <1>6. m.scid = RemoteCid[m.psm]
    BY <1>1, <1>3, <1>5 DEF Strange
  <1>7. /\ DOMAIN a = 1..3 /\ a[1].result = "pending"
        /\ a[2].scid = m.scid /\ a[3].type = "ConfigurationRequest"
    BY <1>1, ConnectionRepliesFacts
  <1>8. ASSUME NEW p \in HidPsms
        PROVE  Agreed(toHost'[d], toRemote'[d], remote'[d][p], Device'[d], p)
    <2>1. Agreed(toHost[d], toRemote[d], remote[d][p], Device[d], p)
      BY <1>1 DEF AgreedAt
    <2>2. CASE m.psm = p
      <3>1. m \in Asks(p)
        BY <1>1, <1>3, <2>2 DEF Asks
      <3>2. Device'[d].Source[p] = RemoteCid[p] /\ Device'[d].Destination[p] = dcid
        BY <1>1, <1>2, <1>6, <2>2, ConnectionTypeFacts
      <3>3. Agreed(Tail(toHost[d]),
                   toRemote[d] \o SubSeq(ConnectionReplies(RemoteCid[p], dcid), 1, n),
                   remote[d][p], Device'[d], p)
        BY <1>3, <2>1, <3>1, <3>2, AgreedGranted
      <3>4. RemoteCid[p] = m.scid
        BY <1>6, <2>2
      <3> QED BY <1>3, <3>3, <3>4
    <2>3. CASE m.psm # p
      <3>1. RemoteCid[m.psm] # RemoteCid[p]
        BY <1>1, <2>3, CidFacts, RemoteCidAssumption
      <3>2. None(a, Grants(p))
        BY <1>6, <1>7, <3>1 DEF None, Grants
      <3>3. None(s, Grants(p))
        BY <1>3, <3>2, PrefixFacts
      <3>4. /\ Device'[d].Source[p] = Device[d].Source[p]
            /\ Device'[d].Destination[p] = Device[d].Destination[p]
        BY <1>1, <1>2, <2>3, ConnectionTypeFacts
      <3> HIDE DEF s
      <3>5. Agreed(Tail(toHost[d]), toRemote[d] \o s, remote[d][p], Device'[d], p)
        BY <1>3, <2>1, <3>3, <3>4, AgreedHandled
      <3> QED BY <1>3, <3>5
    <2> QED BY <2>2, <2>3
  <1> QED BY <1>5, <1>8 DEF AgreedAt

LEMMA AgreedHost ==
    ASSUME Agreement, NEW d \in Devices, Host(d)
    PROVE  TypeOK' /\ Elsewhere(d) /\ AgreedAt(d)'
  <1>1. TypeOK /\ AgreedAt(d)
    BY DEF Agreement
  <1>2. ASSUME NEW n \in 0..3, ConnectionRequest(d, n)
        PROVE  TypeOK' /\ Elsewhere(d) /\ AgreedAt(d)'
    BY <1>1, <1>2, ConnectionRequestStep, AgreedConnectionRequest
  <1>3. ASSUME NEW n \in 0..3, ConfigurationRequest(d, n)
        PROVE  TypeOK' /\ Elsewhere(d) /\ AgreedAt(d)'
    <2>1. /\ TypeOK' /\ Elsewhere(d)
          /\ Device'[d].Source = Device[d].Source
          /\ Device'[d].Destination = Device[d].Destination
      BY <1>1, <1>3, ConfigurationRequestStep
    <2>2. PICK scid \in AnyCid :
            Handled(d, <<[type |-> "ConfigurationResponse", scid |-> scid]>>, n)
      BY <1>1, <1>3, ConfigurationRequestStep
    <2> DEFINE r == <<[type |-> "ConfigurationResponse", scid |-> scid]>>
    <2>3. \A p \in HidPsms : None(r, Grants(p))
      BY DEF None, Grants
    <2> HIDE DEF r
    <2>4. AgreedAt(d)'
      BY <1>1, <2>1, <2>2, <2>3, AgreedAtHandled DEF r
    <2> QED BY <2>1, <2>4
  <1>4. ASSUME NEW n \in 0..3, ConfigurationResponse(d, n)
        PROVE  TypeOK' /\ Elsewhere(d) /\ AgreedAt(d)'
    <2>1. /\ TypeOK' /\ Elsewhere(d)
          /\ Device'[d].Source = Device[d].Source
          /\ Device'[d].Destination = Device[d].Destination
          /\ Handled(d, Enabling(Device[d]), n) \/ Handled(d, <<>>, n)
      BY <1>1, <1>4, ConfigurationResponseStep
    <2>2. \A p \in HidPsms :
              None(Enabling(Device[d]), Grants(p)) /\ None(<<>>, Grants(p))
      BY DEF None, Grants, Enabling, Hid
    <2>3. AgreedAt(d)'
      BY <1>1, <2>1, <2>2, AgreedAtHandled
    <2> QED BY <2>1, <2>3
  <1>5. ASSUME NEW n \in 0..3, NEW sent \in BOOLEAN, DisconnectionRequest(d, n, sent)
        PROVE  TypeOK' /\ Elsewhere(d) /\ AgreedAt(d)'
    <2>1. TypeOK' /\ Elsewhere(d) /\ UNCHANGED Device
      BY <1>1, <1>5, DisconnectionRequestStep
    <2>2. PICK dcid \in AnyCid, scid \in AnyCid :
            Handled(d, <<[type |-> "DisconnectionResponse", dcid |-> dcid,
                          scid |-> scid]>>, n)
      BY <1>1, <1>5, DisconnectionRequestStep
    <2> DEFINE r == <<[type |-> "DisconnectionResponse", dcid |-> dcid,
                       scid |-> scid]>>
    <2>3. \A p \in HidPsms : None(r, Grants(p))
      BY DEF None, Grants
    <2> HIDE DEF r
    <2>4. AgreedAt(d)'
      BY <1>1, <2>1, <2>2, <2>3, AgreedAtHandled DEF r
    <2> QED BY <2>1, <2>4
  <1>6. CASE Ignored(d)
    <2>1. /\ TypeOK' /\ Elsewhere(d) /\ UNCHANGED <<Device, remote, toRemote>>
          /\ toHost[d] \in Seq(HostMessages) /\ toHost[d] # <<>>
          /\ toHost'[d] = Tail(toHost[d])
      BY <1>1, <1>6, IgnoredStep
    <2>2. None(Tail(toHost[d]), Strange)
      BY <1>1, <2>1, TailFacts DEF AgreedAt
    <2>3. ASSUME NEW p \in HidPsms
          PROVE  Agreed(Tail(toHost[d]), toRemote[d], remote[d][p], Device[d], p)
      <3>1. Agreed(toHost[d], toRemote[d], remote[d][p], Device[d], p)
        BY <1>1 DEF AgreedAt
      <3>2. /\ AtMostOne(Tail(toHost[d]), Asks(p))
            /\ None(toHost[d], Asks(p)) => None(Tail(toHost[d]), Asks(p))
        BY <2>1, <3>1, TailFacts DEF Agreed
      <3> QED BY <3>1, <3>2 DEF Agreed
    <2> QED BY <2>1, <2>2, <2>3 DEF AgreedAt
  <1> QED BY <1>2, <1>3, <1>4, <1>5, <1>6, HostCases

\* The device says something about channel q.
LEMMA AgreedAtSaid ==
    ASSUME Agreement, NEW d \in Devices, NEW m, NEW q, NEW c, Said(d, m, q, c),
           UNCHANGED <<Device, toRemote>>, m \notin Strange,
           \/ /\ m.type # "ConnectionRequest"
              /\ \/ c.state = remote[d][q].state /\ c.peer = remote[d][q].peer
                 \/ remote[d][q].state # "waiting" /\ c.state # "open"
           \/ /\ m.type = "ConnectionRequest" /\ m.psm = q
              /\ remote[d][q].state = "closed" /\ c.state = "waiting"
    PROVE  AgreedAt(d)'
  <1>1. /\ m \in HostMessages /\ q \in Psms
        /\ toHost[d] \in Seq(HostMessages)
        /\ toHost'[d] = Append(toHost[d], m)
        /\ remote'[d][q] = c
        /\ \A p \in Psms \ {q} : remote'[d][p] = remote[d][p]
    BY DEF Said
  <1>2. None(toHost[d], Strange)
    BY DEF Agreement, AgreedAt
  <1>3. None(toHost'[d], Strange)
    BY <1>1, <1>2, AppendFacts
  <1>4. ASSUME NEW p \in HidPsms
        PROVE  Agreed(toHost'[d], toRemote[d], remote'[d][p], Device[d], p)
    <2>1. Agreed(toHost[d], toRemote[d], remote[d][p], Device[d], p)
      BY DEF Agreement, AgreedAt
    <2>2. p \in Psms
      BY CidFacts
    <2>3. CASE p = q /\ m.type = "ConnectionRequest"
      BY <1>1, <2>1, <2>3, AgreedAsked
    <2>4. CASE p # q \/ m.type # "ConnectionRequest"
      <3>1. m \notin Asks(p)
        BY <2>4 DEF Asks
      <3>2. CASE p = q
        BY <1>1, <2>1, <2>4, <3>1, <3>2, AgreedSaid
      <3>3. CASE p # q
        BY <1>1, <2>1, <2>2, <3>1, <3>3, AgreedSaid
      <3> QED BY <3>2, <3>3
    <2> QED BY <2>3, <2>4
  <1>5. Device' = Device /\ toRemote' = toRemote
    OBVIOUS
  <1> QED BY <1>3, <1>4, <1>5 DEF AgreedAt

\* The device takes a message.
LEMMA AgreedReceive ==
    ASSUME Agreement, NEW d \in Devices, RemoteReceive(d)
    PROVE  TypeOK' /\ Elsewhere(d) /\ AgreedAt(d)'
  <1> DEFINE h == toHost[d]
             r == toRemote[d]
             m == Head(r)
  <1>1. TypeOK /\ AgreedAt(d)
    BY DEF Agreement
  <1>2. TypeOK' /\ Elsewhere(d) /\ Device' = Device
    BY <1>1, RemoteReceiveStep
  <1>3. /\ r \in Seq(RemoteMessages) /\ r # <<>> /\ m \in RemoteMessages
        /\ toRemote'[d] = Tail(r)
    BY <1>1, RemoteReceiveStep DEF Taken
  <1>4. h \in Seq(HostMessages) /\ None(h, Strange)
    BY <1>1 DEF TypeOK, AgreedAt
  <1>5. ASSUME NEW p \in HidPsms
        PROVE  /\ Agreed(h, r, remote[d][p], Device[d], p)
               /\ Agreed(h, Tail(r), remote[d][p], Device[d], p)
    <2>1. Agreed(h, r, remote[d][p], Device[d], p)
      BY <1>1 DEF AgreedAt
    <2> QED BY <1>3, <2>1, AgreedTaken
  <1>6. CASE UNCHANGED <<remote, toHost>>
    <2>1. toHost'[d] = h /\ remote'[d] = remote[d]
      BY <1>6
    <2> QED BY <1>2, <1>3, <1>4, <1>5, <2>1 DEF AgreedAt
  <1>7. ASSUME NEW q \in Psms, Only(d, q), Opened(d, q)
        PROVE  AgreedAt(d)'
    <2>1. /\ m.type = "ConnectionResponse" /\ m.result = "successful"
          /\ m.scid = RemoteCid[q]
          /\ remote'[d][q].state = "open" /\ remote'[d][q].peer = m.dcid
          /\ toHost'[d] = h
          /\ \A p \in Psms \ {q} : remote'[d][p] = remote[d][p]
      BY <1>7 DEF Opened, Only
    <2>2. ASSUME NEW p \in HidPsms
          PROVE  Agreed(h, Tail(r), remote'[d][p], Device[d], p)
      <3>1. CASE p = q
        <4>1. m \in Grants(p)
          BY <1>3, <2>1, <3>1 DEF Grants
        <4> HIDE DEF h, r
        <4> QED BY <1>3, <1>5, <2>1, <3>1, <4>1, AgreedTaken
      <3>2. CASE p # q
        <4>1. remote'[d][p] = remote[d][p]
          BY <2>1, <3>2, CidFacts
        <4> QED BY <1>5, <4>1
      <3> QED BY <3>1, <3>2
    <2> QED BY <1>2, <1>3, <1>4, <2>1, <2>2 DEF AgreedAt
  <1>8. ASSUME NEW q \in Psms, Only(d, q), Settled(d, q)
        PROVE  AgreedAt(d)'
    <2>1. /\ toHost'[d] = h
          /\ \/ /\ remote'[d][q].state = remote[d][q].state
                /\ remote'[d][q].peer = remote[d][q].peer
             \/ remote[d][q].state # "waiting" /\ remote'[d][q].state # "open"
          /\ \A p \in Psms \ {q} : remote'[d][p] = remote[d][p]
      BY <1>8 DEF Settled, Only
    <2>2. ASSUME NEW p \in HidPsms
          PROVE  Agreed(h, Tail(r), remote'[d][p], Device[d], p)
      <3>1. CASE p = q
        BY <1>3, <1>5, <2>1, <3>1, AgreedTaken
      <3>2. CASE p # q
        <4>1. remote'[d][p] = remote[d][p]
          BY <2>1, <3>2, CidFacts
        <4> QED BY <1>5, <4>1
      <3> QED BY <3>1, <3>2
    <2> QED BY <1>2, <1>3, <1>4, <2>1, <2>2 DEF AgreedAt
  <1>9. ASSUME NEW q \in Psms, Only(d, q), Answered(d, q)
        PROVE  AgreedAt(d)'
    <2>1. PICK agreed \in BOOLEAN :
            Said(d, [type |-> "ConfigurationResponse", scid |-> remote[d][q].peer,
                     agreed |-> agreed], q, remote'[d][q])
      BY <1>9 DEF Answered
    <2> DEFINE a == [type |-> "ConfigurationResponse", scid |-> remote[d][q].peer,
                     agreed |-> agreed]
    <2>2. a.type = "ConfigurationResponse"
      OBVIOUS
    <2> HIDE DEF a
    <2>3. /\ a \in HostMessages /\ toHost'[d] = Append(h, a)
          /\ \A p \in Psms \ {q} : remote'[d][p] = remote[d][p]
      BY <2>1 DEF Said, a
    <2>4. /\ remote'[d][q].state = remote[d][q].state
          /\ remote'[d][q].peer = remote[d][q].peer
      BY <1>9 DEF Answered
    <2>5. a \notin Strange /\ \A p \in HidPsms : a \notin Asks(p)
      BY <2>2 DEF Strange, Asks
    <2>6. None(toHost'[d], Strange)
      BY <1>4, <2>3, <2>5, AppendFacts
    <2>7. ASSUME NEW p \in HidPsms
          PROVE  Agreed(Append(h, a), Tail(r), remote'[d][p], Device[d], p)
      <3>1. CASE p = q
        BY <1>4, <1>5, <2>3, <2>4, <2>5, <3>1, AgreedSaid
      <3>2. CASE p # q
        <4>1. remote'[d][p] = remote[d][p]
          BY <2>3, <3>2, CidFacts
        <4> QED BY <1>4, <1>5, <2>3, <2>5, <4>1, AgreedSaid
      <3> QED BY <3>1, <3>2
    <2> QED BY <1>2, <1>3, <2>3, <2>6, <2>7 DEF AgreedAt
  <1> QED BY <1>1, <1>2, <1>6, <1>7, <1>8, <1>9, RemoteReceiveStep

LEMMA AgreedRemote ==
    ASSUME Agreement, NEW d \in Devices, Remote(d)
    PROVE  TypeOK' /\ Elsewhere(d) /\ AgreedAt(d)'
  <1>1. TypeOK /\ AgreedAt(d)
    BY DEF Agreement
  <1>2. ASSUME NEW p \in Psms, OpenChannel(d, p)
        PROVE  TypeOK' /\ Elsewhere(d) /\ AgreedAt(d)'
    <2> DEFINE m == [type |-> "ConnectionRequest", psm |-> p, scid |-> RemoteCid[p]]
    <2>1. m \notin Strange /\ m.type = "ConnectionRequest" /\ m.psm = p
      BY DEF Strange
    <2>2. /\ TypeOK' /\ Elsewhere(d) /\ UNCHANGED <<Device, toRemote>>
          /\ remote[d][p].state = "closed" /\ remote'[d][p].state = "waiting"
          /\ Said(d, m, p, remote'[d][p])
      BY <1>1, <1>2, OpenChannelStep
    <2> HIDE DEF m
    <2> QED BY <2>1, <2>2, AgreedAtSaid
  <1>3. ASSUME NEW p \in Psms, Configure(d, p)
        PROVE  TypeOK' /\ Elsewhere(d) /\ AgreedAt(d)'
    <2> DEFINE m == [type |-> "ConfigurationRequest", dcid |-> remote[d][p].peer]
    <2>1. m \notin Strange /\ m.type # "ConnectionRequest"
      BY DEF Strange
    <2>2. /\ TypeOK' /\ Elsewhere(d) /\ UNCHANGED <<Device, toRemote>>
          /\ remote'[d][p].state = remote[d][p].state
          /\ remote'[d][p].peer = remote[d][p].peer
          /\ Said(d, m, p, remote'[d][p])
      BY <1>1, <1>3, ConfigureStep
    <2> HIDE DEF m
    <2> QED BY <2>1, <2>2, AgreedAtSaid
  <1>4. ASSUME NEW p \in Psms, CloseChannel(d, p)
        PROVE  TypeOK' /\ Elsewhere(d) /\ AgreedAt(d)'
    <2> DEFINE m == [type |-> "DisconnectionRequest", dcid |-> remote[d][p].peer,
                     scid |-> RemoteCid[p]]
    <2>1. m \notin Strange /\ m.type # "ConnectionRequest"
      BY DEF Strange
    <2>2. /\ TypeOK' /\ Elsewhere(d) /\ UNCHANGED <<Device, toRemote>>
          /\ remote[d][p].state = "open" /\ remote'[d][p].state = "closing"
          /\ Said(d, m, p, remote'[d][p])
      BY <1>1, <1>4, CloseChannelStep
    <2> HIDE DEF m
    <2> QED BY <2>1, <2>2, AgreedAtSaid
  <1>5. CASE Noise(d)
    <2> DEFINE m == [type |-> "Noise"]
    <2>1. m \notin Strange /\ \A p \in HidPsms : m \notin Asks(p)
      BY DEF Strange, Asks
    <2>2. /\ TypeOK' /\ Elsewhere(d) /\ UNCHANGED <<Device, remote, toRemote>>
          /\ m \in HostMessages /\ toHost[d] \in Seq(HostMessages)
          /\ toHost'[d] = Append(toHost[d], m)
      BY <1>1, <1>5, NoiseStep
    <2> HIDE DEF m
    <2>3. None(Append(toHost[d], m), Strange)
      BY <1>1, <2>1, <2>2, AppendFacts DEF AgreedAt
    <2>4. ASSUME NEW p \in HidPsms
          PROVE  Agreed(Append(toHost[d], m), toRemote[d], remote[d][p], Device[d], p)
      BY <1>1, <2>1, <2>2, AgreedSaid DEF AgreedAt
    <2> QED BY <2>2, <2>3, <2>4 DEF AgreedAt
  <1>6. CASE RemoteReceive(d)
    BY <1>6, AgreedReceive
  <1> QED BY <1>2, <1>3, <1>4, <1>5, <1>6 DEF Remote

LEMMA AgreementStep == Agreement /\ [Next]_vars => Agreement'
  <1> SUFFICES ASSUME Agreement, [Next]_vars PROVE Agreement'
    OBVIOUS
  <1>1. CASE UNCHANGED vars
    BY <1>1 DEF vars, Agreement, AgreedAt, TypeOK
  <1>2. ASSUME NEW d \in Devices, Host(d) PROVE Agreement'
    BY <1>2, AgreedHost, AgreementElsewhere
  <1>3. ASSUME NEW d \in Devices, Remote(d) PROVE Agreement'
    BY <1>3, AgreedRemote, AgreementElsewhere
  <1>4. ASSUME NEW d \in Devices, OutputReport(d) PROVE Agreement'
    <2> DEFINE m == Hid(Device[d], "report")
    <2>1. /\ TypeOK' /\ Elsewhere(d) /\ UNCHANGED <<Device, remote, toHost>>
          /\ toRemote[d] \in Seq(RemoteMessages) /\ m \in RemoteMessages
          /\ toRemote'[d] = Append(toRemote[d], m)
      BY <1>4, OutputReportStep DEF Agreement
    <2>2. \A p \in HidPsms : m \notin Grants(p)
      BY DEF Grants, Hid
    <2> HIDE DEF m
    <2>3. ASSUME NEW p \in HidPsms
          PROVE  Agreed(toHost[d], Append(toRemote[d], m), remote[d][p], Device[d], p)
      <3>1. Agreed(toHost[d], toRemote[d], remote[d][p], Device[d], p)
        BY DEF Agreement, AgreedAt
      <3>2. /\ AtMostOne(Append(toRemote[d], m), Grants(p))
            /\ None(toRemote[d], Grants(p)) => None(Append(toRemote[d], m), Grants(p))
        BY <2>1, <2>2, <3>1, AppendFacts DEF Agreed
      <3>3. \A i \in DOMAIN Append(toRemote[d], m) :
                Append(toRemote[d], m)[i] \in Grants(p) =>
                    i \in DOMAIN toRemote[d]
                    /\ Append(toRemote[d], m)[i] = toRemote[d][i]
        BY <2>1, <2>2, AppendPlaces
      <3> QED BY <3>1, <3>2, <3>3 DEF Agreed
    <2>4. AgreedAt(d)'
      BY <2>1, <2>3 DEF Agreement, AgreedAt
    <2> QED BY <2>1, <2>4, AgreementElsewhere
  <1>5. ASSUME NEW d \in Devices, LinkUp(d) PROVE Agreement'
    BY <1>5, LinkUpStep DEF Agreement, AgreedAt
  <1>6. ASSUME NEW d \in Devices, LinkDown(d) PROVE Agreement'
    <2>1. /\ TypeOK' /\ Elsewhere(d)
          /\ remote'[d] = [p \in Psms |-> Closed]
          /\ toHost'[d] = <<>> /\ toRemote'[d] = <<>>
      BY <1>6, LinkDownStep DEF Agreement
    <2>2. \A p \in HidPsms : remote'[d][p].state = "closed"
      BY <2>1, CidFacts DEF Closed
    <2>3. DOMAIN toHost'[d] = {} /\ DOMAIN toRemote'[d] = {}
      BY <2>1
    <2>4. AgreedAt(d)'
      BY <2>2, <2>3 DEF AgreedAt, Agreed, None, AtMostOne
    <2> QED BY <2>1, <2>4, AgreementElsewhere
  <1> QED BY <1>1, <1>2, <1>3, <1>4, <1>5, <1>6 DEF Next

\* Driver and device have the same two ids for every open HID channel, in
\* whatever order messages come, whatever cannot be sent, and whatever else
\* the device opens, closes, opens again or rejects.
THEOREM AgreementCorrect == Spec => []ChannelsAgree
  BY AgreementInit, AgreementStep, AgreementImplies, PTL DEF Spec

-----------------------------------------------------------------------------
(* Addresses, of devices that open no other channels than the HID ones.    *)

\* Messages to the driver that open something else or answer for no channel;
\* messages to a device that give it no id, or data elsewhere than to its
\* command channel.
Misleading == {m \in HostMessages :
    \/ m.type = "ConnectionRequest" /\ (m.psm = "other" \/ m.scid # RemoteCid[m.psm])
    \/ m.type = "ConfigurationResponse" /\ m.scid = NoCid}
Misaddressed == {m \in RemoteMessages :
    \/ m.type = "ConnectionResponse" /\ m.dcid = NoCid
    \/ m.type = "Hid" /\ m.channel # RemoteCid["command"]}

\* The driver knows the device's id of every channel it has given an id, and
\* that of the command channel before it sends data.
Known(D, t) ==
    /\ \A p \in HidPsms : D.Destination[p] # NoCid => D.Source[p] = RemoteCid[p]
    /\ "command" \in D.Established \/ t => D.Source["command"] = RemoteCid["command"]

AddressedAt(d) ==
    /\ None(toHost[d], Misleading) /\ None(toRemote[d], Misaddressed)
    /\ \A p \in Psms : remote[d][p].state = "open" => remote[d][p].peer # NoCid
    /\ Known(Device[d], ticking[d])

Addressed == TypeOK /\ \A d \in Devices : AddressedAt(d)

LEMMA AddressedImplies == Addressed => HidAddressed
  <1> SUFFICES ASSUME Addressed, NEW d \in Devices, NEW i \in DOMAIN toRemote[d],
                      toRemote[d][i].type = "Hid"
               PROVE  toRemote[d][i].channel = RemoteCid["command"]
    BY DEF HidAddressed
  <1>1. toRemote[d] \in Seq(RemoteMessages) /\ None(toRemote[d], Misaddressed)
    BY DEF Addressed, AddressedAt, TypeOK
  <1>2. toRemote[d][i] \in RemoteMessages
    BY <1>1
  <1> QED BY <1>1, <1>2 DEF None, Misaddressed

LEMMA AddressedElsewhere ==
    ASSUME Addressed, NEW d \in Devices, Elsewhere(d), TypeOK', AddressedAt(d)'
    PROVE  Addressed'
  <1>1. ASSUME NEW e \in Devices \ {d} PROVE AddressedAt(e)'
    <2>1. /\ Device'[e] = Device[e] /\ remote'[e] = remote[e]
          /\ ticking'[e] = ticking[e]
          /\ toHost'[e] = toHost[e] /\ toRemote'[e] = toRemote[e]
      BY <1>1 DEF Elsewhere
    <2>2. AddressedAt(e)
      BY <1>1 DEF Addressed
    <2> QED BY <2>1, <2>2 DEF AddressedAt
  <1> QED BY <1>1 DEF Addressed

\* The driver handles a message and sends only what is addressed well.
LEMMA AddressedHandled ==
    ASSUME NEW d \in Devices, AddressedAt(d), NEW r, NEW n, Handled(d, r, n),
           None(r, Misaddressed), Known(Device'[d], ticking'[d])
    PROVE  AddressedAt(d)'
  <1>1. /\ r \in Seq(RemoteMessages) /\ n \in 0..Len(r)
        /\ toHost[d] \in Seq(HostMessages) /\ toHost[d] # <<>>
        /\ toRemote[d] \in Seq(RemoteMessages)
        /\ SubSeq(r, 1, n) \in Seq(RemoteMessages)
        /\ toHost'[d] = Tail(toHost[d])
        /\ toRemote'[d] = toRemote[d] \o SubSeq(r, 1, n)
        /\ remote'[d] = remote[d]
    BY DEF Handled
  <1>2. None(toHost'[d], Misleading)
    BY <1>1, TailFacts DEF AddressedAt
  <1>3. None(SubSeq(r, 1, n), Misaddressed)
    BY <1>1, PrefixFacts
  <1>4. None(toRemote'[d], Misaddressed)
    BY <1>1, <1>3, ConcatFacts DEF AddressedAt
  <1> QED BY <1>1, <1>2, <1>4 DEF AddressedAt

LEMMA AddressedHost ==
    ASSUME Addressed, NEW d \in Devices, Host(d)
    PROVE  TypeOK' /\ Elsewhere(d) /\ AddressedAt(d)'
  <1> DEFINE m == Head(toHost[d])
  <1>1. /\ TypeOK /\ AddressedAt(d) /\ Device[d] \in BthDevice
        /\ Known(Device[d], ticking[d])
    BY DEF Addressed, AddressedAt, TypeOK
  <1>2. ASSUME NEW r, NEW n, Handled(d, r, n)
        PROVE  m \in HostMessages /\ m \notin Misleading
    BY <1>1, <1>2, TailFacts DEF Handled, AddressedAt
  <1>3. ASSUME NEW n \in 0..3, ConnectionRequest(d, n)
        PROVE  TypeOK' /\ Elsewhere(d) /\ AddressedAt(d)'
    <2>1. /\ TypeOK' /\ Elsewhere(d) /\ ticking'[d] = ticking[d]
          /\ m.type = "ConnectionRequest" /\ m.psm \in Psms /\ m.scid \in AnyCid
      BY <1>1, <1>3, ConnectionRequestStep
    <2>2. PICK dcid \in AnyCid :
              /\ m.psm \in HidPsms => dcid # NoCid
              /\ Handled(d, ConnectionReplies(m.scid, dcid), n)
              /\ Device'[d] = SetConnectionType(Device[d], m.psm, m.scid, dcid)
      BY <1>1, <1>3, ConnectionRequestStep
    <2> DEFINE r == ConnectionReplies(m.scid, dcid)
    <2>3. m.psm \in HidPsms /\ m.scid = RemoteCid[m.psm]
      BY <1>2, <2>1, <2>2 DEF Misleading, Psms
    <2>4. /\ DOMAIN r = 1..3 /\ r[1].dcid = dcid /\ r[2].dcid = dcid
          /\ r[1].type = "ConnectionResponse" /\ r[2].type = "ConnectionResponse"
          /\ r[3].type = "ConfigurationRequest"
      BY <2>1, ConnectionRepliesFacts
    <2> HIDE DEF r
    <2>5. None(r, Misaddressed)
      BY <2>2, <2>3, <2>4 DEF None, Misaddressed
    <2>6. /\ Device'[d].Established = Device[d].Established
          /\ Device'[d].Source[m.psm] = m.scid
          /\ \A p \in HidPsms \ {m.psm} :
                /\ Device'[d].Source[p] = Device[d].Source[p]
                /\ Device'[d].Destination[p] = Device[d].Destination[p]
      BY <1>1, <2>1, <2>2, <2>3, ConnectionTypeFacts
    <2>7. Known(Device'[d], ticking'[d])
      BY <1>1, <2>1, <2>3, <2>6 DEF Known, HidPsms
    <2>8. AddressedAt(d)'
      BY <1>1, <2>2, <2>5, <2>7, AddressedHandled DEF r
    <2> QED BY <2>1, <2>8
  <1>4. ASSUME NEW n \in 0..3, ConfigurationRequest(d, n)
        PROVE  TypeOK' /\ Elsewhere(d) /\ AddressedAt(d)'
    <2>1. /\ TypeOK' /\ Elsewhere(d) /\ ticking'[d] = ticking[d]
          /\ Device'[d].Source = Device[d].Source
          /\ Device'[d].Destination = Device[d].Destination
          /\ Device'[d].Established = Device[d].Established
      BY <1>1, <1>4, ConfigurationRequestStep
    <2>2. PICK scid \in AnyCid :
            Handled(d, <<[type |-> "ConfigurationResponse", scid |-> scid]>>, n)
      BY <1>1, <1>4, ConfigurationRequestStep
    <2> DEFINE r == <<[type |-> "ConfigurationResponse", scid |-> scid]>>
    <2>3. None(r, Misaddressed)
      BY DEF None, Misaddressed
    <2> HIDE DEF r
    <2>4. Known(Device'[d], ticking'[d])
      BY <1>1, <2>1 DEF Known
    <2>5. AddressedAt(d)'
      BY <1>1, <2>2, <2>3, <2>4, AddressedHandled DEF r
    <2> QED BY <2>1, <2>5
  <1>5. ASSUME NEW n \in 0..3, ConfigurationResponse(d, n)
        PROVE  TypeOK' /\ Elsewhere(d) /\ AddressedAt(d)'
    <2> DEFINE established ==
                   Device[d].Established \cup ByDestination(Device[d], m.scid)
               r == Enabling(Device[d])
    <2>1. /\ TypeOK' /\ Elsewhere(d)
          /\ m.type = "ConfigurationResponse"
          /\ Device'[d].Source = Device[d].Source
          /\ Device'[d].Destination = Device[d].Destination
          /\ Device'[d].Established = established
          /\ \/ Ready(established) /\ Handled(d, r, n)
             \/ Handled(d, <<>>, n) /\ ticking'[d] = ticking[d]
      BY <1>1, <1>5, ConfigurationResponseStep
    <2>2. m.scid # NoCid
      BY <1>2, <2>1 DEF Misleading
    <2>3. "command" \in established =>
              Device[d].Source["command"] = RemoteCid["command"]
      BY <1>1, <2>2 DEF Known, ByDestination
    <2> HIDE DEF established
    <2>4. CASE Ready(established) /\ Handled(d, r, n)
      <3>1. Device[d].Source["command"] = RemoteCid["command"]
        BY <2>3, <2>4 DEF Ready, HidPsms
      <3>2. None(r, Misaddressed)
        BY <3>1 DEF None, Misaddressed, Enabling, Hid
      <3>3. Known(Device'[d], ticking'[d])
        BY <1>1, <2>1, <3>1 DEF Known
      <3> HIDE DEF r
      <3>4. AddressedAt(d)'
        BY <1>1, <2>4, <3>2, <3>3, AddressedHandled
      <3> QED BY <2>1, <3>4
    <2>5. CASE Handled(d, <<>>, n) /\ ticking'[d] = ticking[d]
      <3>1. None(<<>>, Misaddressed)
        BY DEF None
      <3>2. Known(Device'[d], ticking'[d])
        BY <1>1, <2>1, <2>3, <2>5 DEF Known
      <3>3. AddressedAt(d)'
        BY <1>1, <2>5, <3>1, <3>2, AddressedHandled
      <3> QED BY <2>1, <3>3
    <2> QED BY <2>1, <2>4, <2>5
  <1>6. ASSUME NEW n \in 0..3, NEW sent \in BOOLEAN, DisconnectionRequest(d, n, sent)
        PROVE  TypeOK' /\ Elsewhere(d) /\ AddressedAt(d)'
    <2>1. TypeOK' /\ Elsewhere(d) /\ Device' = Device /\ ticking' = ticking
      BY <1>1, <1>6, DisconnectionRequestStep
    <2>2. PICK dcid \in AnyCid, scid \in AnyCid :
            Handled(d, <<[type |-> "DisconnectionResponse", dcid |-> dcid,
                          scid |-> scid]>>, n)
      BY <1>1, <1>6, DisconnectionRequestStep
    <2> DEFINE r == <<[type |-> "DisconnectionResponse", dcid |-> dcid,
                       scid |-> scid]>>
    <2>3. None(r, Misaddressed)
      BY DEF None, Misaddressed
    <2> HIDE DEF r
    <2>4. Known(Device'[d], ticking'[d])
      BY <1>1, <2>1
    <2>5. AddressedAt(d)'
      BY <1>1, <2>2, <2>3, <2>4, AddressedHandled DEF r
    <2> QED BY <2>1, <2>5
  <1>7. CASE Ignored(d)
    <2>1. /\ TypeOK' /\ Elsewhere(d) /\ UNCHANGED <<Device, ticking, remote, toRemote>>
          /\ toHost[d] \in Seq(HostMessages) /\ toHost[d] # <<>>
          /\ toHost'[d] = Tail(toHost[d])
      BY <1>1, <1>7, IgnoredStep
    <2>2. None(Tail(toHost[d]), Misleading)
      BY <1>1, <2>1, TailFacts DEF AddressedAt
    <2> QED BY <1>1, <2>1, <2>2 DEF AddressedAt
  <1> QED BY <1>3, <1>4, <1>5, <1>6, <1>7, HostCases

\* The device says something that does not mislead, and may change channel q.
LEMMA AddressedSaid ==
    ASSUME Addressed, NEW d \in Devices, NEW m, NEW q, NEW c, Said(d, m, q, c),
           UNCHANGED <<Device, ticking, toRemote>>, m \notin Misleading,
           c.state = "open" => c.peer # NoCid
    PROVE  AddressedAt(d)'
  <1>1. /\ m \in HostMessages /\ q \in Psms /\ toHost[d] \in Seq(HostMessages)
        /\ toHost'[d] = Append(toHost[d], m) /\ remote'[d][q] = c
        /\ \A p \in Psms \ {q} : remote'[d][p] = remote[d][p]
    BY DEF Said
  <1>2. AddressedAt(d)
    BY DEF Addressed
  <1>3. None(toHost'[d], Misleading)
    BY <1>1, <1>2, AppendFacts DEF AddressedAt
  <1>4. \A p \in Psms : remote'[d][p].state = "open" => remote'[d][p].peer # NoCid
    BY <1>1, <1>2 DEF AddressedAt
  <1> QED BY <1>2, <1>3, <1>4 DEF AddressedAt

LEMMA AddressedReceive ==
    ASSUME Addressed, NEW d \in Devices, RemoteReceive(d)
    PROVE  TypeOK' /\ Elsewhere(d) /\ AddressedAt(d)'
  <1> DEFINE m == Head(toRemote[d])
  <1>1. /\ TypeOK /\ Known(Device[d], ticking[d])
        /\ None(toHost[d], Misleading) /\ None(toRemote[d], Misaddressed)
        /\ \A p \in Psms : remote[d][p].state = "open" => remote[d][p].peer # NoCid
    BY DEF Addressed, AddressedAt
  <1>2. TypeOK' /\ Elsewhere(d) /\ Device' = Device /\ ticking' = ticking
    BY <1>1, RemoteReceiveStep
  <1>3. /\ toRemote[d] \in Seq(RemoteMessages) /\ toRemote[d] # <<>>
        /\ m \in RemoteMessages /\ toRemote'[d] = Tail(toRemote[d])
    BY <1>1, RemoteReceiveStep DEF Taken
  <1>4. None(toRemote'[d], Misaddressed) /\ m \notin Misaddressed
    BY <1>1, <1>3, TailFacts
  <1>5. Known(Device'[d], ticking'[d])
    BY <1>1, <1>2
  <1>6. CASE UNCHANGED <<remote, toHost>>
    BY <1>1, <1>2, <1>4, <1>5, <1>6 DEF AddressedAt
  <1>7. ASSUME NEW q \in Psms, Only(d, q), Opened(d, q) \/ Settled(d, q)
        PROVE  AddressedAt(d)'
    <2>1. toHost'[d] = toHost[d]
          /\ \A p \in Psms \ {q} : remote'[d][p] = remote[d][p]
      BY <1>7 DEF Opened, Settled, Only
    <2>2. CASE Opened(d, q)
      <3>1. m.type = "ConnectionResponse" /\ remote'[d][q].peer = m.dcid
        BY <2>2 DEF Opened
      <3>2. remote'[d][q].peer # NoCid
        BY <1>3, <1>4, <3>1 DEF Misaddressed
      <3> QED BY <1>1, <1>2, <1>4, <1>5, <2>1, <3>2 DEF AddressedAt
    <2>3. CASE Settled(d, q)
      <3>1. remote'[d][q].state = "open" => remote'[d][q].peer # NoCid
        BY <1>1, <2>3 DEF Settled
      <3> QED BY <1>1, <1>2, <1>4, <1>5, <2>1, <3>1 DEF AddressedAt
    <2> QED BY <1>7, <2>2, <2>3
  <1>8. ASSUME NEW q \in Psms, Only(d, q), Answered(d, q)
        PROVE  AddressedAt(d)'
    <2>1. PICK agreed \in BOOLEAN :
            Said(d, [type |-> "ConfigurationResponse", scid |-> remote[d][q].peer,
                     agreed |-> agreed], q, remote'[d][q])
      BY <1>8 DEF Answered
    <2> DEFINE a == [type |-> "ConfigurationResponse", scid |-> remote[d][q].peer,
                     agreed |-> agreed]
    <2>2. remote'[d][q].peer = remote[d][q].peer /\ remote[d][q].peer # NoCid
      BY <1>1, <1>8 DEF Answered
    <2>3. a \notin Misleading
      BY <2>2 DEF Misleading
    <2> HIDE DEF a
    <2>4. /\ a \in HostMessages /\ toHost[d] \in Seq(HostMessages)
          /\ toHost'[d] = Append(toHost[d], a)
          /\ \A p \in Psms \ {q} : remote'[d][p] = remote[d][p]
      BY <2>1 DEF Said, a
    <2>5. None(toHost'[d], Misleading)
      BY <1>1, <2>3, <2>4, AppendFacts
    <2> QED BY <1>1, <1>2, <1>4, <1>5, <2>2, <2>4, <2>5 DEF AddressedAt
  <1> QED BY <1>1, <1>2, <1>6, <1>7, <1>8, RemoteReceiveStep

LEMMA AddressedRemote ==
    ASSUME "other" \notin Quirks, Addressed, NEW d \in Devices, Remote(d)
    PROVE  TypeOK' /\ Elsewhere(d) /\ AddressedAt(d)'
  <1>1. TypeOK /\ AddressedAt(d)
    BY DEF Addressed
  <1>2. ASSUME NEW p \in Psms, OpenChannel(d, p)
        PROVE  TypeOK' /\ Elsewhere(d) /\ AddressedAt(d)'
    <2> DEFINE m == [type |-> "ConnectionRequest", psm |-> p, scid |-> RemoteCid[p]]
    <2>1. /\ TypeOK' /\ Elsewhere(d) /\ UNCHANGED <<Device, ticking, toRemote>>
          /\ p # "other" /\ remote'[d][p].state = "waiting"
          /\ Said(d, m, p, remote'[d][p])
      BY <1>1, <1>2, OpenChannelStep
    <2>2. m \notin Misleading
      BY <2>1 DEF Misleading
    <2> HIDE DEF m
    <2> QED BY <2>1, <2>2, AddressedSaid
  <1>3. ASSUME NEW p \in Psms, Configure(d, p)
        PROVE  TypeOK' /\ Elsewhere(d) /\ AddressedAt(d)'
    <2> DEFINE m == [type |-> "ConfigurationRequest", dcid |-> remote[d][p].peer]
    <2>1. /\ TypeOK' /\ Elsewhere(d) /\ UNCHANGED <<Device, ticking, toRemote>>
          /\ remote'[d][p].state = remote[d][p].state
          /\ remote'[d][p].peer = remote[d][p].peer
          /\ Said(d, m, p, remote'[d][p])
      BY <1>1, <1>3, ConfigureStep
    <2>2. m \notin Misleading
      BY DEF Misleading
    <2>3. remote'[d][p].state = "open" => remote'[d][p].peer # NoCid
      BY <1>1, <2>1 DEF AddressedAt
    <2> HIDE DEF m
    <2> QED BY <2>1, <2>2, <2>3, AddressedSaid
  <1>4. ASSUME NEW p \in Psms, CloseChannel(d, p)
        PROVE  TypeOK' /\ Elsewhere(d) /\ AddressedAt(d)'
    <2> DEFINE m == [type |-> "DisconnectionRequest", dcid |-> remote[d][p].peer,
                     scid |-> RemoteCid[p]]
    <2>1. /\ TypeOK' /\ Elsewhere(d) /\ UNCHANGED <<Device, ticking, toRemote>>
          /\ remote'[d][p].state = "closing"
          /\ Said(d, m, p, remote'[d][p])
      BY <1>1, <1>4, CloseChannelStep
    <2>2. m \notin Misleading
      BY DEF Misleading
    <2> HIDE DEF m
    <2> QED BY <2>1, <2>2, AddressedSaid
  <1>5. CASE Noise(d)
    <2> DEFINE m == [type |-> "Noise"]
    <2>1. m \notin Misleading
      BY DEF Misleading
    <2>2. /\ TypeOK' /\ Elsewhere(d) /\ UNCHANGED <<Device, ticking, remote, toRemote>>
          /\ m \in HostMessages /\ toHost[d] \in Seq(HostMessages)
          /\ toHost'[d] = Append(toHost[d], m)
      BY <1>1, <1>5, NoiseStep
    <2> HIDE DEF m
    <2>3. None(toHost'[d], Misleading)
      BY <1>1, <2>1, <2>2, AppendFacts DEF AddressedAt
    <2> QED BY <1>1, <2>2, <2>3 DEF AddressedAt
  <1>6. CASE RemoteReceive(d)
    BY <1>6, AddressedReceive
  <1> QED BY <1>2, <1>3, <1>4, <1>5, <1>6 DEF Remote

LEMMA AddressedInit == Init => Addressed
  <1> SUFFICES ASSUME Init, NEW d \in Devices PROVE AddressedAt(d)
    BY TypeInit DEF Addressed
  <1>1. DOMAIN toHost[d] = {} /\ DOMAIN toRemote[d] = {}
    BY DEF Init
  <1>2. \A p \in Psms : remote[d][p].state = "closed"
    BY DEF Init, Closed
  <1>3. Known(Device[d], ticking[d])
    BY DEF Init, Known, ZeroDevice
  <1> QED BY <1>1, <1>2, <1>3 DEF AddressedAt, None

LEMMA AddressedStep ==
    ASSUME "other" \notin Quirks PROVE Addressed /\ [Next]_vars => Addressed'
  <1> SUFFICES ASSUME Addressed, [Next]_vars PROVE Addressed'
    OBVIOUS
  <1>1. CASE UNCHANGED vars
    BY <1>1 DEF vars, Addressed, AddressedAt, TypeOK
  <1>2. ASSUME NEW d \in Devices, Host(d) PROVE Addressed'
    BY <1>2, AddressedHost, AddressedElsewhere
  <1>3. ASSUME NEW d \in Devices, Remote(d) PROVE Addressed'
    BY <1>3, AddressedRemote, AddressedElsewhere
  <1>4. ASSUME NEW d \in Devices, OutputReport(d) PROVE Addressed'
    <2> DEFINE m == Hid(Device[d], "report")
    <2>1. /\ TypeOK' /\ Elsewhere(d) /\ UNCHANGED <<Device, ticking, remote, toHost>>
          /\ ticking[d] /\ toRemote[d] \in Seq(RemoteMessages)
          /\ m \in RemoteMessages /\ toRemote'[d] = Append(toRemote[d], m)
      BY <1>4, OutputReportStep DEF Addressed
    <2>2. AddressedAt(d)
      BY DEF Addressed
    <2>3. m \notin Misaddressed
      BY <2>1, <2>2 DEF Misaddressed, Hid, AddressedAt, Known
    <2> HIDE DEF m
    <2>4. None(toRemote'[d], Misaddressed)
      BY <2>1, <2>2, <2>3, AppendFacts DEF AddressedAt
    <2>5. AddressedAt(d)'
      BY <2>1, <2>2, <2>4 DEF AddressedAt
    <2> QED BY <2>1, <2>5, AddressedElsewhere
  <1>5. ASSUME NEW d \in Devices, LinkUp(d) PROVE Addressed'
    BY <1>5, LinkUpStep DEF Addressed, AddressedAt
  <1>6. ASSUME NEW d \in Devices, LinkDown(d) PROVE Addressed'
    <2>1. /\ TypeOK' /\ Elsewhere(d)
          /\ Device'[d] = ZeroDevice /\ ticking'[d] = FALSE
          /\ remote'[d] = [p \in Psms |-> Closed]
          /\ toHost'[d] = <<>> /\ toRemote'[d] = <<>>
      BY <1>6, LinkDownStep DEF Addressed
    <2>2. DOMAIN toHost'[d] = {} /\ DOMAIN toRemote'[d] = {}
      BY <2>1
    <2>3. \A p \in Psms : remote'[d][p].state = "closed"
      BY <2>1 DEF Closed
    <2>4. Known(Device'[d], ticking'[d])
      BY <2>1 DEF Known, ZeroDevice
    <2>5. AddressedAt(d)'
      BY <2>2, <2>3, <2>4 DEF AddressedAt, None
    <2> QED BY <2>1, <2>5, AddressedElsewhere
  <1> QED BY <1>1, <1>2, <1>3, <1>4, <1>5, <1>6 DEF Next

\* Whatever the driver sends to the HID channels of a device that opens no
\* other ones goes to its command channel.
THEOREM AddressedCorrect ==
    ASSUME "other" \notin Quirks PROVE Spec => []HidAddressed
  BY AddressedInit, AddressedStep, AddressedImplies, PTL DEF Spec

-----------------------------------------------------------------------------
(* Distinct ids.                                                           *)

\* Until the counter starts over it is above all ids handed out.
Counted ==
    /\ \A d \in Devices, p \in HidPsms :
          Device[d].Destination[p] = NoCid \/ Device[d].Destination[p] < GlobalCID
    /\ \A d, e \in Devices, p, q \in HidPsms :
          /\ Device[d].Destination[p] # NoCid
          /\ Device[d].Destination[p] = Device[e].Destination[q]
          => d = e /\ p = q

Distinct == TypeOK /\ (~wrapped => Counted)

\* A step that hands out no id, but may take some back.
LEMMA DistinctKept ==
    ASSUME Distinct, TypeOK', UNCHANGED <<GlobalCID, wrapped>>,
           \A d \in Devices, p \in HidPsms :
               Device'[d].Destination[p] \in {NoCid, Device[d].Destination[p]}
    PROVE  Distinct'
  BY DEF Distinct, Counted

LEMMA DistinctConnectionRequest ==
    ASSUME Distinct, NEW d \in Devices, NEW n \in 0..3, ConnectionRequest(d, n)
    PROVE  Distinct'
  <1> DEFINE m == Head(toHost[d])
  <1>1. /\ TypeOK /\ TypeOK' /\ Elsewhere(d)
        /\ m.psm \in Psms /\ m.scid \in AnyCid /\ Device[d] \in BthDevice
    BY ConnectionRequestStep DEF Distinct, TypeOK
  <1>2. PICK dcid \in IF m.psm \in HidPsms THEN {NewCid} ELSE AnyCid :
            Device' = [Device EXCEPT ![d] =
                          SetConnectionType(Device[d], m.psm, m.scid, dcid)]
    BY DEF ConnectionRequest
  <1>3. IF m.psm \in HidPsms THEN AdvanceCid ELSE UNCHANGED <<GlobalCID, wrapped>>
    BY DEF ConnectionRequest
  <1>4. CASE m.psm \notin HidPsms
    <2>1. Device'[d] = Device[d]
      BY <1>1, <1>2, <1>4 DEF SetConnectionType, TypeOK
    <2> QED BY <1>1, <1>3, <1>4, <2>1, DistinctKept DEF Elsewhere
  <1>5. CASE m.psm \in HidPsms
    <2>1. SUFFICES ASSUME ~wrapped' PROVE Counted'
      BY <1>1 DEF Distinct
    <2>2. AdvanceCid /\ dcid = NewCid
      BY <1>2, <1>3, <1>5
    <2>3. /\ ~wrapped /\ GlobalCID \in Nat /\ GlobalCID # NoCid
          /\ dcid = GlobalCID /\ GlobalCID' = GlobalCID + 1
      <3>1. ~wrapped /\ ~(GlobalCID > LastCid)
        BY <2>1, <2>2, Zenon DEF AdvanceCid
      <3>2. GlobalCID \in FirstCid..(LastCid + 1)
        BY <1>1 DEF TypeOK
      <3>3. NewCid = GlobalCID /\ GlobalCID' = GlobalCID + 1
        BY <2>2, <3>1 DEF AdvanceCid, NewCid
      <3> QED BY <2>2, <3>1, <3>2, <3>3, CidFacts
    <2>4. dcid \in AnyCid
      BY <1>1, <2>2, NewCidFacts, CidFacts
    <2>5. Counted
      BY <2>3 DEF Distinct
    <2>6. /\ Device'[d].Destination[m.psm] = GlobalCID
          /\ \A p \in HidPsms \ {m.psm} :
                Device'[d].Destination[p] = Device[d].Destination[p]
      <3>1. Device'[d] = SetConnectionType(Device[d], m.psm, m.scid, dcid)
        BY <1>1, <1>2 DEF TypeOK
      <3>2. /\ Device'[d].Destination[m.psm] = dcid
            /\ \A p \in HidPsms \ {m.psm} :
                  Device'[d].Destination[p] = Device[d].Destination[p]
        <4> HIDE DEF m
        <4> QED BY <1>1, <1>5, <2>4, <3>1, ConnectionTypeFacts
      <3> QED BY <2>3, <3>2
    <2>7. \A e \in Devices, p \in HidPsms :
              \/ e = d /\ p = m.psm /\ Device'[e].Destination[p] = GlobalCID
              \/ /\ e # d \/ p # m.psm
                 /\ Device'[e].Destination[p] = Device[e].Destination[p]
      BY <1>1, <2>6 DEF Elsewhere
    <2>8. \A e \in Devices, p \in HidPsms : Device[e].Destination[p] \in Nat
      <3>1. AnyCid \subseteq Nat
        BY CidFacts DEF AnyCid, Cids
      <3>2. \A e \in Devices : Device[e] \in BthDevice
        BY <1>1 DEF TypeOK
      <3> QED BY <3>1, <3>2, HandleFacts
    <2>9. \A e \in Devices, p \in HidPsms :
              \/ Device[e].Destination[p] = NoCid
              \/ Device[e].Destination[p] < GlobalCID
      BY <2>5 DEF Counted
    <2>10. \A e \in Devices, p \in HidPsms :
              \/ Device'[e].Destination[p] = NoCid
              \/ Device'[e].Destination[p] < GlobalCID'
      BY <2>3, <2>7, <2>8, <2>9
    <2>11. ASSUME NEW e \in Devices, NEW f \in Devices,
                  NEW p \in HidPsms, NEW q \in HidPsms,
                  Device'[e].Destination[p] # NoCid,
                  Device'[e].Destination[p] = Device'[f].Destination[q]
           PROVE  e = f /\ p = q
      <3>1. \A g \in Devices, r \in HidPsms : Device[g].Destination[r] # GlobalCID
        BY <2>3, <2>8, <2>9
      <3> QED BY <2>5, <2>7, <2>11, <3>1 DEF Counted
    <2> QED BY <2>10, <2>11 DEF Counted
  <1> QED BY <1>4, <1>5

LEMMA DistinctStep == Distinct /\ [Next]_vars => Distinct'
  <1> SUFFICES ASSUME Distinct, [Next]_vars PROVE Distinct'
    OBVIOUS
  <1>1. TypeOK /\ TypeOK'
    BY TypeStep DEF Distinct
  <1>2. ASSUME UNCHANGED <<GlobalCID, wrapped, Device>> PROVE Distinct'
    BY <1>1, <1>2, DistinctKept
  <1>3. CASE UNCHANGED vars
    BY <1>2, <1>3 DEF vars
  <1>4. ASSUME NEW d \in Devices, Host(d) PROVE Distinct'
    <2>1. ASSUME NEW n \in 0..3, ConnectionRequest(d, n) PROVE Distinct'
      BY <2>1, DistinctConnectionRequest
    <2>2. ASSUME NEW n \in 0..3, ConfigurationRequest(d, n) PROVE Distinct'
      <3>1. /\ Elsewhere(d) /\ Device'[d].Destination = Device[d].Destination
        BY <1>1, <2>2, ConfigurationRequestStep
      <3>2. UNCHANGED <<GlobalCID, wrapped>>
        BY <2>2 DEF ConfigurationRequest
      <3> QED BY <1>1, <3>1, <3>2, DistinctKept DEF Elsewhere
    <2>3. ASSUME NEW n \in 0..3, ConfigurationResponse(d, n) PROVE Distinct'
      <3>1. /\ Elsewhere(d) /\ Device'[d].Destination = Device[d].Destination
        BY <1>1, <2>3, ConfigurationResponseStep
      <3>2. UNCHANGED <<GlobalCID, wrapped>>
        BY <2>3 DEF ConfigurationResponse
      <3> QED BY <1>1, <3>1, <3>2, DistinctKept DEF Elsewhere
    <2>4. ASSUME NEW n \in 0..3, NEW sent \in BOOLEAN, DisconnectionRequest(d, n, sent)
          PROVE  Distinct'
      BY <1>2, <2>4 DEF DisconnectionRequest
    <2>5. CASE Ignored(d)
      BY <1>2, <2>5 DEF Ignored
    <2> QED BY <1>4, <2>1, <2>2, <2>3, <2>4, <2>5, HostCases
  <1>5. ASSUME NEW d \in Devices, Remote(d) PROVE Distinct'
    <2>1. Aside(d)
      BY <1>5 DEF Remote, OpenChannel, Configure, CloseChannel, Noise, RemoteReceive
    <2> QED BY <1>2, <2>1 DEF Aside
  <1>6. ASSUME NEW d \in Devices, OutputReport(d) \/ LinkUp(d) PROVE Distinct'
    BY <1>2, <1>6 DEF OutputReport, LinkUp
  <1>7. ASSUME NEW d \in Devices, LinkDown(d) PROVE Distinct'
    <2>1. Elsewhere(d) /\ Device'[d] = ZeroDevice
      BY <1>1, <1>7, LinkDownStep
    <2>2. \A p \in HidPsms : Device'[d].Destination[p] = NoCid
      BY <2>1 DEF ZeroDevice
    <2>3. UNCHANGED <<GlobalCID, wrapped>>
      BY <1>7 DEF LinkDown
    <2> QED BY <1>1, <2>1, <2>2, <2>3, DistinctKept DEF Elsewhere
  <1> QED BY <1>3, <1>4, <1>5, <1>6, <1>7 DEF Next

LEMMA DistinctInit == Init => Distinct
  <1> SUFFICES ASSUME Init PROVE Distinct
    OBVIOUS
  <1>1. \A d \in Devices, p \in HidPsms : Device[d].Destination[p] = NoCid
    BY DEF Init, ZeroDevice
  <1> QED BY <1>1, TypeInit DEF Distinct, Counted

-----------------------------------------------------------------------------
(* Enabling, of devices that reject nothing and open nothing twice.        *)

Gentle == Quirks \cap {"reject", "reopen", "other"} = {}

\* Answers to the driver that tell of no channel the device has agreed to.
Unfounded(c, D) == {m \in HostMessages :
    /\ m.type = "ConfigurationResponse"
    /\ \A p \in HidPsms : c[p].agreed => D.Destination[p] # m.scid}

HidData == {m \in RemoteMessages : m.type = "Hid"}

\* What the driver takes as established the device has agreed to, and both
\* channels are established before anything is sent on them.  c: the channels
\* as the device sees them; t: is the timer started?
Founded(h, r, c, D, t) ==
    /\ None(h, Unfounded(c, D))
    /\ c["other"].state = "closed"
    /\ \A p \in HidPsms : c[p].state = "waiting" => ~c[p].agreed
    /\ \A p \in HidPsms : p \in D.Established => c[p].agreed
    /\ t => D.Established = HidPsms
    /\ None(r, HidData) \/ D.Established = HidPsms

EnabledAt(d) == Founded(toHost[d], toRemote[d], remote[d], Device[d], ticking[d])

EnabledInv ==
    /\ Agreement /\ Addressed /\ Distinct
    /\ ~wrapped => \A d \in Devices : EnabledAt(d)

LEMMA EnabledImplies ==
    EnabledInv => (~wrapped => EnabledWhenReady)
  <1> SUFFICES ASSUME EnabledInv, ~wrapped, NEW d \in Devices, NEW p \in HidPsms,
                      \/ ticking[d]
                      \/ \E i \in DOMAIN toRemote[d] : toRemote[d][i].type = "Hid"
               PROVE  remote[d][p].agreed
    BY DEF EnabledWhenReady
  <1>1. EnabledAt(d) /\ toRemote[d] \in Seq(RemoteMessages)
    BY DEF EnabledInv, Agreement, TypeOK
  <1>2. Device[d].Established = HidPsms
    <2>1. CASE ticking[d]
      BY <1>1, <2>1 DEF EnabledAt, Founded
    <2>2. ASSUME NEW i \in DOMAIN toRemote[d], toRemote[d][i].type = "Hid"
          PROVE  Device[d].Established = HidPsms
      <3>1. toRemote[d][i] \in HidData
        BY <1>1, <2>2 DEF HidData
      <3> QED BY <1>1, <3>1 DEF EnabledAt, Founded, None
    <2> QED BY <2>1, <2>2
  <1> QED BY <1>1, <1>2 DEF EnabledAt, Founded

\* The driver takes a message and sends no data.
LEMMA EnabledHandled ==
    ASSUME NEW d \in Devices, EnabledAt(d), NEW r, NEW n, Handled(d, r, n),
           None(r, HidData),
           \A p \in HidPsms : remote[d][p].agreed =>
               Device'[d].Destination[p] = Device[d].Destination[p],
           Device'[d].Established = Device[d].Established,
           ticking'[d] = ticking[d]
    PROVE  EnabledAt(d)'
  <1>1. /\ r \in Seq(RemoteMessages) /\ n \in 0..Len(r)
        /\ toHost[d] \in Seq(HostMessages) /\ toHost[d] # <<>>
        /\ toRemote[d] \in Seq(RemoteMessages)
        /\ SubSeq(r, 1, n) \in Seq(RemoteMessages)
        /\ toHost'[d] = Tail(toHost[d])
        /\ toRemote'[d] = toRemote[d] \o SubSeq(r, 1, n)
        /\ remote'[d] = remote[d]
    BY DEF Handled
  <1>2. None(Tail(toHost[d]), Unfounded(remote[d], Device[d]))
    BY <1>1, TailFacts DEF EnabledAt, Founded
  <1>3. Unfounded(remote[d], Device'[d]) \subseteq Unfounded(remote[d], Device[d])
    BY DEF Unfounded
  <1>4. None(Tail(toHost[d]), Unfounded(remote[d], Device'[d]))
    BY <1>2, <1>3 DEF None
  <1>5. None(SubSeq(r, 1, n), HidData)
    BY <1>1, PrefixFacts
  <1>6. None(toRemote[d], HidData) => None(toRemote'[d], HidData)
    BY <1>1, <1>5, ConcatFacts
  <1> QED BY <1>1, <1>4, <1>6 DEF EnabledAt, Founded

LEMMA EnabledConnectionRequest ==
    ASSUME EnabledInv, NEW d \in Devices, EnabledAt(d), NEW n \in 0..3,
           ConnectionRequest(d, n)
    PROVE  EnabledAt(d)'
  <1> DEFINE m == Head(toHost[d])
  <1>1. /\ TypeOK /\ AgreedAt(d) /\ Device[d] \in BthDevice
    BY DEF EnabledInv, Agreement, TypeOK
  <1>2. /\ ticking'[d] = ticking[d] /\ m.type = "ConnectionRequest"
        /\ m.psm \in Psms /\ m.scid \in AnyCid
    BY <1>1, ConnectionRequestStep
  <1>3. PICK dcid \in AnyCid :
            /\ Handled(d, ConnectionReplies(m.scid, dcid), n)
            /\ Device'[d] = SetConnectionType(Device[d], m.psm, m.scid, dcid)
    BY <1>1, ConnectionRequestStep
  <1> DEFINE r == ConnectionReplies(m.scid, dcid)
  <1>4. /\ DOMAIN r = 1..3 /\ r[1].type = "ConnectionResponse"
        /\ r[2].type = "ConnectionResponse" /\ r[3].type = "ConfigurationRequest"
    BY <1>2, ConnectionRepliesFacts
  <1>5. None(r, HidData)
    BY <1>4 DEF None, HidData
  <1>6. Device'[d].Established = Device[d].Established
        /\ \A p \in HidPsms \ {m.psm} :
              Device'[d].Destination[p] = Device[d].Destination[p]
    BY <1>1, <1>2, <1>3, ConnectionTypeFacts
  <1>7. ASSUME NEW p \in HidPsms, remote[d][p].agreed PROVE p # m.psm
    <2>1. SUFFICES ASSUME p = m.psm PROVE FALSE
      OBVIOUS
    <2>2. m \in HostMessages /\ toHost[d] \in Seq(HostMessages) /\ toHost[d] # <<>>
      BY <1>3 DEF Handled
    <2>3. m \in Asks(p)
      BY <1>2, <2>1, <2>2 DEF Asks
    <2>4. ~None(toHost[d], Asks(p))
      BY <2>2, <2>3, TailFacts
    <2>5. remote[d][p].state = "waiting"
      BY <1>1, <2>4 DEF AgreedAt, Agreed
    <2> QED BY <1>7, <2>5 DEF EnabledAt, Founded
  <1> HIDE DEF r
  <1>8. \A p \in HidPsms : remote[d][p].agreed =>
            Device'[d].Destination[p] = Device[d].Destination[p]
    BY <1>6, <1>7
  <1> QED BY <1>2, <1>3, <1>5, <1>6, <1>8, EnabledHandled DEF r

LEMMA EnabledConfigurationResponse ==
    ASSUME EnabledInv, ~wrapped, NEW d \in Devices, EnabledAt(d), NEW n \in 0..3,
           ConfigurationResponse(d, n)
    PROVE  EnabledAt(d)'
  <1> DEFINE m == Head(toHost[d])
             established ==
                 Device[d].Established \cup ByDestination(Device[d], m.scid)
             r == Enabling(Device[d])
  <1>1. /\ TypeOK /\ AddressedAt(d) /\ Counted /\ Device[d] \in BthDevice
    BY DEF EnabledInv, Agreement, Addressed, Distinct, TypeOK
  <1>2. /\ m.type = "ConfigurationResponse"
        /\ Device'[d].Destination = Device[d].Destination
        /\ Device'[d].Established = established
        /\ \/ Ready(established) /\ Handled(d, r, n)
           \/ Handled(d, <<>>, n) /\ ticking'[d] = ticking[d]
    BY <1>1, ConfigurationResponseStep
  <1>3. /\ toHost[d] \in Seq(HostMessages) /\ toHost[d] # <<>> /\ m \in HostMessages
        /\ toHost'[d] = Tail(toHost[d]) /\ remote'[d] = remote[d]
        /\ toRemote[d] \in Seq(RemoteMessages)
    BY <1>2 DEF Handled
  <1>4. m \notin Misleading /\ m \notin Unfounded(remote[d], Device[d])
        /\ None(Tail(toHost[d]), Unfounded(remote[d], Device[d]))
    BY <1>1, <1>3, TailFacts DEF AddressedAt, EnabledAt, Founded
  <1>5. m.scid # NoCid
    BY <1>2, <1>3, <1>4 DEF Misleading
  <1>6. PICK p \in HidPsms :
            remote[d][p].agreed /\ Device[d].Destination[p] = m.scid
    BY <1>2, <1>3, <1>4 DEF Unfounded
  <1>7. \A q \in ByDestination(Device[d], m.scid) : q = p
    BY <1>1, <1>5, <1>6 DEF ByDestination, Counted
  <1>8. \A q \in HidPsms : q \in established => remote[d][q].agreed
    BY <1>6, <1>7 DEF EnabledAt, Founded
  <1>9. Device[d].Established \subseteq established /\ established \subseteq HidPsms
    BY <1>1, HandleFacts
  <1>10. None(toHost'[d], Unfounded(remote[d], Device'[d]))
    BY <1>2, <1>3, <1>4 DEF Unfounded
  <1> HIDE DEF established, r
  <1>11. /\ ticking'[d] => established = HidPsms
         /\ None(toRemote'[d], HidData) \/ established = HidPsms
    <2>1. CASE Ready(established)
      BY <2>1 DEF Ready
    <2>2. CASE Handled(d, <<>>, n) /\ ticking'[d] = ticking[d]
      <3>1. toRemote'[d] = toRemote[d]
        <4>1. /\ toRemote'[d] = toRemote[d] \o SubSeq(<<>>, 1, n)
              /\ SubSeq(<<>>, 1, n) \in Seq(RemoteMessages) /\ n \in 0..Len(<<>>)
          BY <2>2 DEF Handled
        <4>2. SubSeq(<<>>, 1, n) = <<>>
          BY <4>1
        <4> QED BY <1>3, <4>1, <4>2, ConcatEmptySeq
      <3> QED BY <1>9, <2>2, <3>1 DEF EnabledAt, Founded
    <2> QED BY <1>2, <2>1, <2>2
  <1> QED BY <1>2, <1>3, <1>8, <1>10, <1>11 DEF EnabledAt, Founded

LEMMA EnabledHost ==
    ASSUME EnabledInv, ~wrapped, NEW d \in Devices, EnabledAt(d), Host(d)
    PROVE  EnabledAt(d)'
  <1>1. TypeOK
    BY DEF EnabledInv, Agreement
  <1>2. ASSUME NEW n \in 0..3, ConnectionRequest(d, n) PROVE EnabledAt(d)'
    BY <1>2, EnabledConnectionRequest
  <1>3. ASSUME NEW n \in 0..3, ConfigurationRequest(d, n) PROVE EnabledAt(d)'
    <2>1. /\ ticking'[d] = ticking[d]
          /\ Device'[d].Destination = Device[d].Destination
          /\ Device'[d].Established = Device[d].Established
      BY <1>1, <1>3, ConfigurationRequestStep
    <2>2. PICK scid \in AnyCid :
            Handled(d, <<[type |-> "ConfigurationResponse", scid |-> scid]>>, n)
      BY <1>1, <1>3, ConfigurationRequestStep
    <2> DEFINE r == <<[type |-> "ConfigurationResponse", scid |-> scid]>>
    <2>3. None(r, HidData)
      BY DEF None, HidData
    <2> HIDE DEF r
    <2> QED BY <2>1, <2>2, <2>3, EnabledHandled DEF r
  <1>4. ASSUME NEW n \in 0..3, ConfigurationResponse(d, n) PROVE EnabledAt(d)'
    BY <1>4, EnabledConfigurationResponse
  <1>5. ASSUME NEW n \in 0..3, NEW sent \in BOOLEAN, DisconnectionRequest(d, n, sent)
        PROVE  EnabledAt(d)'
    <2>1. Device' = Device /\ ticking' = ticking
      BY <1>1, <1>5, DisconnectionRequestStep
    <2>2. PICK dcid \in AnyCid, scid \in AnyCid :
            Handled(d, <<[type |-> "DisconnectionResponse", dcid |-> dcid,
                          scid |-> scid]>>, n)
      BY <1>1, <1>5, DisconnectionRequestStep
    <2> DEFINE r == <<[type |-> "DisconnectionResponse", dcid |-> dcid,
                       scid |-> scid]>>
    <2>3. None(r, HidData)
      BY DEF None, HidData
    <2> HIDE DEF r
    <2> QED BY <2>1, <2>2, <2>3, EnabledHandled DEF r
  <1>6. CASE Ignored(d)
    <2>1. /\ UNCHANGED <<Device, ticking, remote, toRemote>>
          /\ toHost[d] \in Seq(HostMessages) /\ toHost[d] # <<>>
          /\ toHost'[d] = Tail(toHost[d])
      BY <1>1, <1>6, IgnoredStep
    <2>2. None(Tail(toHost[d]), Unfounded(remote[d], Device[d]))
      BY <2>1, TailFacts DEF EnabledAt, Founded
    <2> QED BY <2>1, <2>2 DEF EnabledAt, Founded
  <1> QED BY <1>2, <1>3, <1>4, <1>5, <1>6, HostCases

\* What a device has agreed to it goes on agreeing to: f is its view after a
\* step.
LEMMA FoundedKept ==
    ASSUME NEW c, NEW f, NEW D,
           \A p \in HidPsms : c[p].agreed => f[p].agreed
    PROVE  \A q : None(q, Unfounded(c, D)) => None(q, Unfounded(f, D))
  <1>1. Unfounded(f, D) \subseteq Unfounded(c, D)
    BY DEF Unfounded
  <1> QED BY <1>1 DEF None

\* The device says something, other than an answer without foundation.
LEMMA EnabledSaid ==
    ASSUME NEW d \in Devices, EnabledAt(d), NEW m, NEW q, NEW c, Said(d, m, q, c),
           UNCHANGED <<Device, ticking, toRemote>>,
           m.type # "ConfigurationResponse",
           q = "other" => c.state = "closed",
           c.state = "waiting" => ~c.agreed,
           remote[d][q].agreed => c.agreed
    PROVE  EnabledAt(d)'
  <1>1. /\ m \in HostMessages /\ q \in Psms /\ toHost[d] \in Seq(HostMessages)
        /\ toHost'[d] = Append(toHost[d], m) /\ remote'[d][q] = c
        /\ \A p \in Psms \ {q} : remote'[d][p] = remote[d][p]
    BY DEF Said
  <1>2. \A p \in HidPsms : remote[d][p].agreed => remote'[d][p].agreed
    BY <1>1, CidFacts
  <1>3. m \notin Unfounded(remote'[d], Device[d])
    BY DEF Unfounded
  <1>4. None(toHost[d], Unfounded(remote'[d], Device[d]))
    BY <1>2, FoundedKept DEF EnabledAt, Founded
  <1>5. None(toHost'[d], Unfounded(remote'[d], Device[d]))
    BY <1>1, <1>3, <1>4, AppendFacts
  <1>6. remote'[d]["other"].state = "closed"
    BY <1>1 DEF EnabledAt, Founded, Psms
  <1>7. \A p \in HidPsms : remote'[d][p].state = "waiting" => ~remote'[d][p].agreed
    BY <1>1, CidFacts DEF EnabledAt, Founded
  <1>8. \A p \in HidPsms : p \in Device[d].Established => remote'[d][p].agreed
    BY <1>2 DEF EnabledAt, Founded
  <1> QED BY <1>5, <1>6, <1>7, <1>8 DEF EnabledAt, Founded

LEMMA EnabledReceive ==
    ASSUME Gentle, EnabledInv, NEW d \in Devices, EnabledAt(d), RemoteReceive(d)
    PROVE  EnabledAt(d)'
  <1> DEFINE h == toHost[d]
             D == Device[d]
  <1>1. /\ TypeOK /\ AgreedAt(d) /\ AddressedAt(d)
        /\ h \in Seq(HostMessages)
    BY DEF EnabledInv, Agreement, Addressed, TypeOK
  <1>2. Device' = Device /\ ticking' = ticking
    BY <1>1, RemoteReceiveStep
  <1>3. /\ toRemote[d] \in Seq(RemoteMessages) /\ toRemote[d] # <<>>
        /\ toRemote'[d] = Tail(toRemote[d])
    BY <1>1, RemoteReceiveStep DEF Taken
  <1>4. /\ ticking'[d] => Device'[d].Established = HidPsms
        /\ None(toRemote'[d], HidData) \/ Device'[d].Established = HidPsms
    BY <1>2, <1>3, TailFacts DEF EnabledAt, Founded
  <1>5. CASE UNCHANGED <<remote, toHost>>
    BY <1>2, <1>4, <1>5 DEF EnabledAt, Founded
  <1>6. ASSUME NEW q \in Psms, Only(d, q), Opened(d, q) \/ Settled(d, q)
        PROVE  EnabledAt(d)'
    <2>1. /\ toHost'[d] = h
          /\ \A p \in Psms \ {q} : remote'[d][p] = remote[d][p]
          /\ remote'[d][q].agreed = remote[d][q].agreed
          /\ remote[d][q].state # "closed"
          /\ remote'[d][q].state # "waiting"
      BY <1>6 DEF Opened, Settled, Only
    <2>2. \A p \in HidPsms : remote'[d][p].agreed = remote[d][p].agreed
      BY <2>1, CidFacts
    <2>3. q # "other"
      BY <2>1 DEF EnabledAt, Founded
    <2>4. None(h, Unfounded(remote'[d], D))
      BY <2>2, FoundedKept DEF EnabledAt, Founded
    <2>5. remote'[d]["other"].state = "closed"
      BY <2>1, <2>3 DEF EnabledAt, Founded, Psms
    <2>6. \A p \in HidPsms : remote'[d][p].state = "waiting" => ~remote'[d][p].agreed
      BY <2>1, CidFacts DEF EnabledAt, Founded
    <2>7. \A p \in HidPsms : p \in D.Established => remote'[d][p].agreed
      BY <2>2 DEF EnabledAt, Founded
    <2> QED BY <1>2, <1>4, <2>1, <2>4, <2>5, <2>6, <2>7 DEF EnabledAt, Founded
  <1>7. ASSUME NEW q \in Psms, Only(d, q), Answered(d, q)
        PROVE  EnabledAt(d)'
    <2> DEFINE a == [type |-> "ConfigurationResponse", scid |-> remote[d][q].peer,
                     agreed |-> TRUE]
    <2>1. /\ remote[d][q].state = "open" /\ remote'[d][q].state = "open"
          /\ remote'[d][q].agreed /\ Said(d, a, q, remote'[d][q])
      BY <1>7 DEF Answered, Gentle
    <2>2. a.type = "ConfigurationResponse" /\ a.scid = remote[d][q].peer
      OBVIOUS
    <2> HIDE DEF a
    <2>3. /\ a \in HostMessages /\ toHost'[d] = Append(h, a)
          /\ \A p \in Psms \ {q} : remote'[d][p] = remote[d][p]
      BY <2>1 DEF Said
    <2>4. q # "other" /\ q \in HidPsms
      BY <2>1 DEF EnabledAt, Founded, Psms
    <2>5. \A p \in HidPsms : remote[d][p].agreed => remote'[d][p].agreed
      BY <2>1, <2>3, CidFacts
    <2>6. D.Destination[q] = a.scid
      BY <1>1, <2>1, <2>2, <2>4 DEF AgreedAt, Agreed
    <2>7. a \notin Unfounded(remote'[d], D)
      BY <2>1, <2>4, <2>6 DEF Unfounded
    <2>8. None(h, Unfounded(remote'[d], D))
      BY <2>5, FoundedKept DEF EnabledAt, Founded
    <2>9. None(toHost'[d], Unfounded(remote'[d], D))
      BY <1>1, <2>3, <2>7, <2>8, AppendFacts
    <2>10. remote'[d]["other"].state = "closed"
      BY <2>3, <2>4 DEF EnabledAt, Founded, Psms
    <2>11. \A p \in HidPsms : remote'[d][p].state = "waiting" => ~remote'[d][p].agreed
      BY <2>1, <2>3, CidFacts DEF EnabledAt, Founded
    <2>12. \A p \in HidPsms : p \in D.Established => remote'[d][p].agreed
      BY <2>5 DEF EnabledAt, Founded
    <2> QED BY <1>2, <1>4, <2>9, <2>10, <2>11, <2>12 DEF EnabledAt, Founded
  <1> QED BY <1>1, <1>5, <1>6, <1>7, RemoteReceiveStep

LEMMA EnabledRemote ==
    ASSUME Gentle, EnabledInv, NEW d \in Devices, EnabledAt(d), Remote(d)
    PROVE  EnabledAt(d)'
  <1>1. TypeOK
    BY DEF EnabledInv, Agreement
  <1>2. ASSUME NEW p \in Psms, OpenChannel(d, p) PROVE EnabledAt(d)'
    <2> DEFINE m == [type |-> "ConnectionRequest", psm |-> p, scid |-> RemoteCid[p]]
    <2>1. /\ UNCHANGED <<Device, ticking, toRemote>>
          /\ p # "other" /\ ~remote'[d][p].agreed /\ ~remote[d][p].agreed
          /\ Said(d, m, p, remote'[d][p])
      BY <1>1, <1>2, OpenChannelStep DEF Gentle
    <2>2. m.type = "ConnectionRequest"
      OBVIOUS
    <2> HIDE DEF m
    <2> QED BY <2>1, <2>2, EnabledSaid
  <1>3. ASSUME NEW p \in Psms, Configure(d, p) PROVE EnabledAt(d)'
    <2> DEFINE m == [type |-> "ConfigurationRequest", dcid |-> remote[d][p].peer]
    <2>1. /\ UNCHANGED <<Device, ticking, toRemote>>
          /\ remote'[d][p].state = remote[d][p].state
          /\ remote'[d][p].agreed = remote[d][p].agreed
          /\ Said(d, m, p, remote'[d][p])
      BY <1>1, <1>3, ConfigureStep
    <2>2. m.type = "ConfigurationRequest"
      OBVIOUS
    <2>3. remote[d][p].state = "open"
      BY <1>3 DEF Configure
    <2>4. p # "other"
      BY <2>3 DEF EnabledAt, Founded
    <2> HIDE DEF m
    <2> QED BY <2>1, <2>2, <2>3, <2>4, EnabledSaid
  <1>4. ASSUME NEW p \in Psms, CloseChannel(d, p) PROVE EnabledAt(d)'
    <2> DEFINE m == [type |-> "DisconnectionRequest", dcid |-> remote[d][p].peer,
                     scid |-> RemoteCid[p]]
    <2>1. /\ UNCHANGED <<Device, ticking, toRemote>>
          /\ remote[d][p].state = "open" /\ remote'[d][p].state = "closing"
          /\ remote'[d][p].agreed = remote[d][p].agreed
          /\ Said(d, m, p, remote'[d][p])
      BY <1>1, <1>4, CloseChannelStep
    <2>2. m.type = "DisconnectionRequest"
      OBVIOUS
    <2>3. p # "other"
      BY <2>1 DEF EnabledAt, Founded
    <2> HIDE DEF m
    <2> QED BY <2>1, <2>2, <2>3, EnabledSaid
  <1>5. CASE Noise(d)
    <2> DEFINE m == [type |-> "Noise"]
    <2>1. m \notin Unfounded(remote[d], Device[d])
      BY DEF Unfounded
    <2>2. /\ UNCHANGED <<Device, ticking, remote, toRemote>>
          /\ m \in HostMessages /\ toHost[d] \in Seq(HostMessages)
          /\ toHost'[d] = Append(toHost[d], m)
      BY <1>1, <1>5, NoiseStep
    <2> HIDE DEF m
    <2>3. None(toHost'[d], Unfounded(remote[d], Device[d]))
      BY <2>1, <2>2, AppendFacts DEF EnabledAt, Founded
    <2> QED BY <2>2, <2>3 DEF EnabledAt, Founded
  <1>6. CASE RemoteReceive(d)
    BY <1>6, EnabledReceive
  <1> QED BY <1>2, <1>3, <1>4, <1>5, <1>6 DEF Remote

\* A step that touches only d leaves the foundations of the others alone.
LEMMA EnabledElsewhere ==
    ASSUME \A e \in Devices : EnabledAt(e),
           NEW d \in Devices, Elsewhere(d), EnabledAt(d)'
    PROVE  \A e \in Devices : EnabledAt(e)'
  <1>1. ASSUME NEW e \in Devices \ {d} PROVE EnabledAt(e)'
    <2>1. /\ Device'[e] = Device[e] /\ remote'[e] = remote[e]
          /\ ticking'[e] = ticking[e]
          /\ toHost'[e] = toHost[e] /\ toRemote'[e] = toRemote[e]
      BY <1>1 DEF Elsewhere
    <2>2. EnabledAt(e)
      BY <1>1
    <2> QED BY <2>1, <2>2 DEF EnabledAt
  <1> QED BY <1>1

\* The counter never forgets that it has started over.
LEMMA WrappedStays == [Next]_vars /\ wrapped => wrapped'
  <1> SUFFICES ASSUME [Next]_vars, wrapped PROVE wrapped'
    OBVIOUS
  <1>1. ASSUME AdvanceCid \/ UNCHANGED <<GlobalCID, wrapped>> PROVE wrapped'
    <2>1. CASE AdvanceCid
      BY <2>1, Zenon DEF AdvanceCid
    <2> QED BY <1>1, <2>1
  <1>2. ASSUME NEW d, Host(d) PROVE wrapped'
    BY <1>1, <1>2, HostCases
       DEF ConnectionRequest, ConfigurationRequest, ConfigurationResponse,
           DisconnectionRequest, Ignored
  <1>3. ASSUME NEW d, Remote(d) PROVE wrapped'
    BY <1>3 DEF Remote, OpenChannel, Configure, CloseChannel, Noise, RemoteReceive,
                Aside
  <1>4. ASSUME NEW d, OutputReport(d) \/ LinkUp(d) \/ LinkDown(d) PROVE wrapped'
    BY <1>4 DEF OutputReport, LinkUp, LinkDown
  <1>5. CASE UNCHANGED vars
    BY <1>5 DEF vars
  <1> QED BY <1>2, <1>3, <1>4, <1>5 DEF Next

LEMMA EnabledStep ==
    ASSUME Gentle PROVE EnabledInv /\ [Next]_vars => EnabledInv'
  <1> SUFFICES ASSUME EnabledInv, [Next]_vars PROVE EnabledInv'
    OBVIOUS
  <1>1. /\ Agreement' /\ Addressed' /\ Distinct'
        /\ TypeOK
    BY AgreementStep, AddressedStep, DistinctStep DEF EnabledInv, Gentle, Agreement
  <1>2. SUFFICES ASSUME ~wrapped' PROVE \A e \in Devices : EnabledAt(e)'
    BY <1>1 DEF EnabledInv
  <1>3. ~wrapped /\ \A e \in Devices : EnabledAt(e)
    BY <1>2, WrappedStays DEF EnabledInv
  <1>4. CASE UNCHANGED vars
    BY <1>3, <1>4 DEF vars, EnabledAt
  <1>5. ASSUME NEW d \in Devices, Host(d) PROVE \A e \in Devices : EnabledAt(e)'
    <2>1. Elsewhere(d)
      BY <1>5, AgreedHost DEF EnabledInv
    <2> QED BY <1>3, <1>5, <2>1, EnabledHost, EnabledElsewhere
  <1>6. ASSUME NEW d \in Devices, Remote(d) PROVE \A e \in Devices : EnabledAt(e)'
    <2>1. Elsewhere(d)
      BY <1>6, AgreedRemote DEF EnabledInv
    <2> QED BY <1>3, <1>6, <2>1, EnabledRemote, EnabledElsewhere
  <1>7. ASSUME NEW d \in Devices, OutputReport(d)
        PROVE  \A e \in Devices : EnabledAt(e)'
    <2>1. /\ Elsewhere(d) /\ UNCHANGED <<Device, ticking, remote, toHost>> /\ ticking[d]
      BY <1>1, <1>7, OutputReportStep
    <2>2. EnabledAt(d)'
      BY <1>3, <2>1 DEF EnabledAt, Founded
    <2> QED BY <1>3, <2>1, <2>2, EnabledElsewhere
  <1>8. ASSUME NEW d \in Devices, LinkUp(d) PROVE \A e \in Devices : EnabledAt(e)'
    BY <1>1, <1>3, <1>8, LinkUpStep DEF EnabledAt
  <1>9. ASSUME NEW d \in Devices, LinkDown(d)
        PROVE  \A e \in Devices : EnabledAt(e)'
    <2>1. /\ Elsewhere(d) /\ Device'[d] = ZeroDevice /\ ticking'[d] = FALSE
          /\ remote'[d] = [p \in Psms |-> Closed]
          /\ toHost'[d] = <<>> /\ toRemote'[d] = <<>>
      BY <1>1, <1>9, LinkDownStep
    <2>2. DOMAIN toHost'[d] = {} /\ DOMAIN toRemote'[d] = {}
      BY <2>1
    <2>3. \A p \in Psms : remote'[d][p].state = "closed"
      BY <2>1 DEF Closed
    <2>4. Device'[d].Established = {}
      BY <2>1 DEF ZeroDevice
    <2>5. EnabledAt(d)'
      BY <2>1, <2>2, <2>3, <2>4, CidFacts DEF EnabledAt, Founded, None, Psms
    <2> QED BY <1>3, <2>1, <2>5, EnabledElsewhere
  <1> QED BY <1>4, <1>5, <1>6, <1>7, <1>8, <1>9 DEF Next

LEMMA EnabledInit == Init => EnabledInv
  <1> SUFFICES ASSUME Init, NEW d \in Devices PROVE EnabledAt(d)
    BY AgreementInit, AddressedInit, DistinctInit DEF EnabledInv
  <1>1. DOMAIN toHost[d] = {} /\ DOMAIN toRemote[d] = {} /\ ticking[d] = FALSE
    BY DEF Init
  <1>2. \A p \in Psms : remote[d][p].state = "closed"
    BY DEF Init, Closed
  <1>3. Device[d].Established = {}
    BY DEF Init, ZeroDevice
  <1> QED BY <1>1, <1>2, <1>3, CidFacts DEF EnabledAt, Founded, None, Psms

\* Nothing is sent to a device and its timer is not started before it has
\* agreed to the parameters of both channels, until the counter starts over:
\* with the same id for both channels the driver would take the answer for one
\* as the answer for both.
THEOREM EnabledCorrect ==
    ASSUME Gentle PROVE Spec => [](~wrapped => EnabledWhenReady)
  BY EnabledInit, EnabledStep, EnabledImplies, PTL DEF Spec

-----------------------------------------------------------------------------
(* Bytes (Ds3Wire).                                                        *)

\* Frames and bodies.
Bytes == Seq(Nat)

\* The bytes of a word.
LowByte(n) == n % 256
HighByte(n) == (n \div 256) % 256

\* A number of two bytes, taken apart and put together again.
LEMMA WordFacts ==
    ASSUME NEW n \in Nat, n <= 65535
    PROVE  /\ LowByte(n) \in Nat /\ HighByte(n) \in Nat
           /\ LowByte(n) + 256 * HighByte(n) = n
  <1>1. n = 256 * (n \div 256) + (n % 256)
    OBVIOUS
  <1>2. n % 256 \in Nat /\ n % 256 <= 255
    OBVIOUS
  <1>3. n \div 256 \in Nat
    OBVIOUS
  <1>4. PICK q \in Nat, r \in Nat : q = n \div 256 /\ r = n % 256
    BY <1>2, <1>3
  <1>5. q <= 255
    BY <1>1, <1>2, <1>4
  <1>6. q % 256 = q
    BY <1>5
  <1>7. LowByte(n) = r /\ HighByte(n) = q
    BY <1>4, <1>6 DEF LowByte, HighByte
  <1> QED BY <1>1, <1>4, <1>7

\* The word is written with the lower byte first.
LEMMA WordBytes == \A n : Word(n) = <<LowByte(n), HighByte(n)>>
  BY DEF Word, LowByte, HighByte

\* The stored handle has the flag, to set it again changes nothing, and
\* without it the handle is the original one.
LEMMA StoredHandleFacts ==
    ASSUME NEW h \in Handles
    PROVE  \E x, y \in Nat : /\ StoredHandle(h) = <<x, y>> /\ SetFlag(y) = y
                             /\ y >= 32 /\ ToggleFlag(y) = y - 32
                             /\ x + 256 * (y - 32) = h
  <1>1. h \in 0..4095
    BY WireAssumption
  <1>2. h = 256 * (h \div 256) + (h % 256) /\ h \in Nat
    BY <1>1
  <1>3. h % 256 \in Nat /\ h % 256 <= 255
    BY <1>1
  <1>4. h \div 256 \in Nat
    BY <1>1
  <1>5. PICK q \in Nat, r \in Nat : q = h \div 256 /\ r = h % 256
    BY <1>3, <1>4
  <1>6. q \in 0..15
    BY <1>1, <1>2, <1>3, <1>5
  <1>7. SetFlag(q) = q + 32 /\ SetFlag(q + 32) = q + 32
        /\ ToggleFlag(q + 32) = q
    BY <1>6 DEF SetFlag, ToggleFlag, HasFlag
  <1>8. PICK y \in Nat : y = q + 32
    OBVIOUS
  <1>9. StoredHandle(h) = <<r, y>>
    BY <1>5, <1>7, <1>8 DEF StoredHandle
  <1>10. y - 32 = q
    BY <1>8
  <1>11. r + 256 * (y - 32) = h
    BY <1>2, <1>5, <1>10
  <1> QED BY <1>7, <1>8, <1>9, <1>10, <1>11

\* A channel id on the air is two bytes, not those of the signalling channel,
\* and read back it is the id.
OnAir(c, base, x, y) ==
    /\ Cid(c, base) = <<x, y>>
    /\ ~(x = 1 /\ y = 0)
    /\ \A f, i : ByteAt(f, i) = x /\ ByteAt(f, i + 1) = y
                   => CidAt(f, i, base) = c

LEMMA CidOnAir ==
    ASSUME NEW base \in CidBases, NEW c \in AnyCid
    PROVE  \E x, y \in Nat : OnAir(c, base, x, y)
  <1>1. CASE c = NoCid
    <2>1. Word(0) = <<0, 0>>
      BY DEF Word
    <2>2. Cid(c, base) = <<0, 0>>
      BY <1>1, <2>1 DEF Cid
    <2>3. \A f, i : ByteAt(f, i) = 0 /\ ByteAt(f, i + 1) = 0
                      => CidAt(f, i, base) = c
      BY <1>1 DEF CidAt, WordAt
    <2>4. OnAir(c, base, 0, 0)
      BY <2>2, <2>3 DEF OnAir
    <2> QED BY <2>4
  <1>2. CASE c # NoCid
    <2>1. c \in Nat /\ base \in Nat
      BY CidsAssumption, RemoteCidAssumption, WireAssumption
         DEF AnyCid, Cids, NoCid
    <2>2. base + c >= 64 /\ base + c <= 65535
      BY <1>2, <2>1, WireAssumption
    <2>3. PICK n \in Nat : n = base + c /\ n >= 64 /\ n <= 65535
      BY <2>2, <2>1
    <2>4. n <= 65535
      BY <2>3
    <2>5. /\ LowByte(n) \in Nat /\ HighByte(n) \in Nat
          /\ LowByte(n) + 256 * HighByte(n) = n
      BY <2>4, WordFacts
    <2>6. PICK x \in Nat, y \in Nat : Word(n) = <<x, y>> /\ x + 256 * y = n
      BY <2>5, WordBytes, Zenon
    <2>7. Cid(c, base) = <<x, y>>
      BY <1>2, <2>3, <2>6 DEF Cid
    <2>8. ~(x = 1 /\ y = 0) /\ x + 256 * y # 0 /\ (x + 256 * y) - base = c
      BY <2>1, <2>3, <2>6
    <2>9. \A f, i : ByteAt(f, i) = x /\ ByteAt(f, i + 1) = y
                      => CidAt(f, i, base) = c
      BY <2>8 DEF CidAt, WordAt
    <2> QED BY <2>7, <2>8, <2>9 DEF OnAir
  <1> QED BY <1>1, <1>2

\* Lengths of a body that fit the two bytes of either header.
Lengths == {n \in Nat : n <= 1000}

\* Both headers give back the lengths that were written into them.
LEMMA LengthFacts ==
    ASSUME NEW n \in Lengths
    PROVE  /\ n \in Nat
           /\ LowByte(n) \in Nat /\ HighByte(n) \in Nat
           /\ LowByte(n) + 256 * HighByte(n) = n
           /\ LowByte(n + 4) \in Nat /\ HighByte(n + 4) \in Nat
           /\ LowByte(n + 4) + 256 * HighByte(n + 4) = n + 4
  <1>1. n \in Nat /\ n <= 65535
    BY DEF Lengths
  <1>2. PICK m \in Nat : m = n + 4 /\ m <= 65535
    BY DEF Lengths
  <1>3. m <= 65535
    BY <1>2
  <1>4. LowByte(m) \in Nat /\ HighByte(m) \in Nat
        /\ LowByte(m) + 256 * HighByte(m) = m
    BY <1>3, WordFacts
  <1>5. LowByte(n) \in Nat /\ HighByte(n) \in Nat
        /\ LowByte(n) + 256 * HighByte(n) = n
    BY <1>1, WordFacts
  <1>6. n + 4 = m
    BY <1>2
  <1>7. LowByte(n + 4) = LowByte(m) /\ HighByte(n + 4) = HighByte(m)
    BY <1>6, Zenon
  <1> QED BY <1>1, <1>4, <1>5, <1>6, <1>7

\* The words of a frame.
LEMMA WordPlaces ==
    \A f : /\ WordAt(f, 2) = f[3] + 256 * f[4]
           /\ WordAt(f, 4) = f[5] + 256 * f[6]
           /\ WordAt(f, 10) = f[11] + 256 * f[12]
           /\ WordAt(f, 12) = f[13] + 256 * f[14]
           /\ WordAt(f, 16) = f[17] + 256 * f[18]
  BY DEF WordAt, ByteAt

\* What HID_Command puts in front of a body.
LEMMA HidFacts ==
    ASSUME NEW k1 \in Nat, NEW k2 \in Nat, NEW c1 \in Nat, NEW c2 \in Nat,
           NEW body \in Bytes, Len(body) \in Lengths
    PROVE  LET f == HID_Command(<<k1, k2>>, <<c1, c2>>, body) IN
           /\ f \in Bytes /\ Len(f) = 8 + Len(body)
           /\ f[1] = k1 /\ f[2] = k2 /\ f[7] = c1 /\ f[8] = c2
           /\ WordAt(f, 2) = Len(body) + 4
           /\ WordAt(f, 4) = Len(body)
           /\ \A j \in 1..Len(body) : f[8 + j] = body[j]
  <1>1. PICK l1 \in Nat, l2 \in Nat :
            l1 = LowByte(Len(body) + 4) /\ l2 = HighByte(Len(body) + 4)
    BY LengthFacts, Zenon
  <1>2. PICK n1 \in Nat, n2 \in Nat :
            n1 = LowByte(Len(body)) /\ n2 = HighByte(Len(body))
    BY LengthFacts, Zenon
  <1>3. /\ Word(Len(body) + 4) = <<l1, l2>> /\ l1 + 256 * l2 = Len(body) + 4
        /\ Word(Len(body)) = <<n1, n2>> /\ n1 + 256 * n2 = Len(body)
    BY <1>1, <1>2, LengthFacts, WordBytes, Zenon
  <1> DEFINE f == <<k1, k2>> \o <<l1, l2>> \o <<n1, n2>> \o <<c1, c2>> \o body
  <1>4. HID_Command(<<k1, k2>>, <<c1, c2>>, body) = f
    BY <1>3, Zenon DEF HID_Command, AclHeader
  <1>5. /\ f[1] = k1 /\ f[2] = k2 /\ f[3] = l1 /\ f[4] = l2
        /\ f[5] = n1 /\ f[6] = n2 /\ f[7] = c1 /\ f[8] = c2
    BY DEF Bytes
  <1>6. f \in Bytes /\ Len(f) = 8 + Len(body)
    BY DEF Bytes
  <1>7. \A j \in 1..Len(body) : f[8 + j] = body[j]
    BY DEF Bytes
  <1> HIDE DEF f
  <1>8. WordAt(f, 2) = l1 + 256 * l2 /\ WordAt(f, 4) = n1 + 256 * n2
    BY <1>5, WordPlaces, Zenon
  <1>9. WordAt(f, 2) = Len(body) + 4 /\ WordAt(f, 4) = Len(body)
    BY <1>3, <1>8, Zenon
  <1> QED BY <1>4, <1>5, <1>6, <1>7, <1>9, Zenon

\* The bytes that the structures of L2CAP.h name.
LEMMA BytePlaces ==
    \A f : /\ ByteAt(f, 6) = f[7] /\ ByteAt(f, 7) = f[8]
           /\ ByteAt(f, 8) = f[9] /\ ByteAt(f, 9) = f[10]
           /\ ByteAt(f, 12) = f[13] /\ ByteAt(f, 12 + 1) = f[14]
           /\ ByteAt(f, 14) = f[15] /\ ByteAt(f, 14 + 1) = f[16]
           /\ ByteAt(f, 6 + 1) = f[8]
           /\ IsControlChannel(f) <=> f[7] = 1 /\ f[8] = 0
  BY DEF ByteAt, IsControlChannel

\* Two bytes are known by their values, ...
LEMMA PairOf == ASSUME NEW g \in Seq(Nat), Len(g) = 2 PROVE g = <<g[1], g[2]>>
  OBVIOUS

\* ... and so are the first two of a frame.
LEMMA FirstTwo ==
    ASSUME NEW f \in Bytes, Len(f) >= 2
    PROVE  SubSeq(f, 1, 2) = <<f[1], f[2]>>
  <1>1. f \in Seq(Nat) /\ Len(f) \in Nat /\ 2 <= Len(f)
    BY DEF Bytes
  <1>2. /\ SubSeq(f, 1, 2) \in Seq(Nat) /\ Len(SubSeq(f, 1, 2)) = 2
        /\ SubSeq(f, 1, 2)[1] = f[1] /\ SubSeq(f, 1, 2)[2] = f[2]
    BY <1>1
  <1>3. SubSeq(f, 1, 2) = <<SubSeq(f, 1, 2)[1], SubSeq(f, 1, 2)[2]>>
    BY <1>2, PairOf, Zenon
  <1> QED BY <1>2, <1>3, Zenon

\* A frame on the link with handle h, as either end builds it.
LEMMA FrameFacts ==
    ASSUME NEW h \in Handles, NEW c1 \in Nat, NEW c2 \in Nat,
           NEW body \in Bytes, Len(body) \in Lengths
    PROVE  LET f == HID_Command(StoredHandle(h), <<c1, c2>>, body) IN
           /\ f \in Bytes /\ Len(f) = 8 + Len(body)
           /\ L2CAP_Command(StoredHandle(h), body)
                = HID_Command(StoredHandle(h), <<1, 0>>, body)
           /\ SubSeq(f, 1, 2) = StoredHandle(h)
           /\ f[7] = c1 /\ f[8] = c2
           /\ WordAt(f, 2) = Len(body) + 4
           /\ WordAt(f, 4) = Len(body)
           /\ \A j \in 1..Len(body) : f[8 + j] = body[j]
  <1>1. PICK x, y \in Nat : StoredHandle(h) = <<x, y>> /\ SetFlag(y) = y
    BY StoredHandleFacts, Zenon
  <1>2. x \in Nat /\ y \in Nat
    OBVIOUS
  <1> DEFINE f == HID_Command(<<x, y>>, <<c1, c2>>, body)
  <1>3. /\ f \in Bytes /\ Len(f) = 8 + Len(body)
        /\ f[1] = x /\ f[2] = y /\ f[7] = c1 /\ f[8] = c2
        /\ WordAt(f, 2) = Len(body) + 4
        /\ WordAt(f, 4) = Len(body)
        /\ \A j \in 1..Len(body) : f[8 + j] = body[j]
    BY <1>2, HidFacts
  <1>4. <<x, y>>[1] = x /\ <<x, y>>[2] = y
    OBVIOUS
  <1>5. L2CAP_Command(<<x, y>>, body) = HID_Command(<<x, y>>, <<1, 0>>, body)
    BY <1>1, <1>4, Zenon DEF L2CAP_Command, HID_Command
  <1> HIDE DEF f
  <1>6. SubSeq(f, 1, 2) = <<x, y>>
    <2>1. Len(body) \in Nat
      BY DEF Bytes
    <2>2. Len(f) >= 2
      BY <1>3, <2>1
    <2>3. SubSeq(f, 1, 2) = <<f[1], f[2]>>
      BY <1>3, <2>2, FirstTwo, Zenon
    <2> QED BY <1>3, <2>3, Zenon
  <1> QED BY <1>1, <1>3, <1>5, <1>6, Zenon DEF f

\* A signal on the link: the frame carries the two bytes of the signalling
\* channel and the bytes of the body at their places.
LEMMA SignalFacts ==
    ASSUME NEW h \in Handles, NEW body \in Bytes, Len(body) \in Lengths
    PROVE  LET f == HID_Command(StoredHandle(h), <<1, 0>>, body) IN
           /\ L2CAP_Command(StoredHandle(h), body) = f
           /\ Len(f) = 8 + Len(body)
           /\ WordAt(f, 2) = Len(body) + 4 /\ WordAt(f, 4) = Len(body)
           /\ SubSeq(f, 1, 2) = StoredHandle(h) /\ IsControlChannel(f)
           /\ Len(body) >= 4 => /\ f[9] = body[1] /\ f[10] = body[2]
                                /\ f[11] = body[3] /\ f[12] = body[4]
           /\ Len(body) >= 8 => /\ f[13] = body[5] /\ f[14] = body[6]
                                /\ f[15] = body[7] /\ f[16] = body[8]
           /\ Len(body) >= 10 => f[17] = body[9] /\ f[18] = body[10]
  <1> DEFINE f == HID_Command(StoredHandle(h), <<1, 0>>, body)
  <1>1. 1 \in Nat /\ 0 \in Nat
    OBVIOUS
  <1>2. /\ f \in Bytes /\ Len(f) = 8 + Len(body)
        /\ L2CAP_Command(StoredHandle(h), body) = f
        /\ SubSeq(f, 1, 2) = StoredHandle(h)
        /\ f[7] = 1 /\ f[8] = 0
        /\ WordAt(f, 2) = Len(body) + 4
        /\ WordAt(f, 4) = Len(body)
        /\ \A j \in 1..Len(body) : f[8 + j] = body[j]
    BY <1>1, FrameFacts
  <1>3. IsControlChannel(f)
    BY <1>2, BytePlaces, Zenon
  <1> HIDE DEF f
  <1>4. Len(body) \in Nat /\ \A j \in 1..Len(body) : f[8 + j] = body[j]
    BY <1>2 DEF Bytes
  <1>5. /\ Len(body) >= 4 => /\ f[9] = body[1] /\ f[10] = body[2]
                             /\ f[11] = body[3] /\ f[12] = body[4]
        /\ Len(body) >= 8 => /\ f[13] = body[5] /\ f[14] = body[6]
                             /\ f[15] = body[7] /\ f[16] = body[8]
        /\ Len(body) >= 10 => f[17] = body[9] /\ f[18] = body[10]
    BY ONLY <1>4
  <1> QED BY <1>2, <1>3, <1>5, Zenon DEF f

\* The bodies of the driver's signals, byte for byte.
LEMMA Body12 ==
    ASSUME NEW a \in Nat, NEW id \in Nat, NEW n \in Nat,
           NEW x \in Nat, NEW y \in Nat, NEW u \in Nat, NEW v \in Nat, NEW r \in Nat
    PROVE  LET b == <<a, id, n, 0>> \o <<x, y>> \o <<u, v>> \o <<r, 0, 0, 0>> IN
           /\ b \in Bytes /\ Len(b) = 12
           /\ b[1] = a /\ b[2] = id /\ b[3] = n /\ b[4] = 0
           /\ b[5] = x /\ b[6] = y /\ b[7] = u /\ b[8] = v
           /\ b[9] = r /\ b[10] = 0
  BY DEF Bytes

\* Configuration_Request, with its MTU option.
LEMMA Body12Option ==
    ASSUME NEW id \in Nat, NEW x \in Nat, NEW y \in Nat
    PROVE  LET b == <<4, id, 8, 0>> \o <<x, y>> \o <<0, 0, 1, 2, 255, 255>> IN
           /\ b \in Bytes /\ Len(b) = 12
           /\ b[1] = 4 /\ b[2] = id /\ b[3] = 8 /\ b[4] = 0
           /\ b[5] = x /\ b[6] = y
  BY DEF Bytes

\* Configuration_Response, with the option that its length leaves out.
LEMMA Body14 ==
    ASSUME NEW id \in Nat, NEW x \in Nat, NEW y \in Nat
    PROVE  LET b == <<5, id, 6, 0>> \o <<x, y>> \o <<0, 0, 0, 0, 1, 2, 160, 2>> IN
           /\ b \in Bytes /\ Len(b) = 14
           /\ b[1] = 5 /\ b[2] = id /\ b[3] = 6 /\ b[4] = 0
           /\ b[5] = x /\ b[6] = y
  BY DEF Bytes

\* A signal with two ids and nothing more.
LEMMA Body8 ==
    ASSUME NEW a \in Nat, NEW id \in Nat, NEW x \in Nat, NEW y \in Nat,
           NEW u \in Nat, NEW v \in Nat
    PROVE  LET b == <<a, id, 4, 0>> \o <<x, y>> \o <<u, v>> IN
           /\ b \in Bytes /\ Len(b) = 8
           /\ b[1] = a /\ b[2] = id /\ b[3] = 4 /\ b[4] = 0
           /\ b[5] = x /\ b[6] = y /\ b[7] = u /\ b[8] = v
  BY DEF Bytes

\* What is read from a signal, in terms of its body.
SignalReads(f, h, base, body) ==
    /\ Len(f) = 8 + Len(body)
    /\ WordAt(f, 2) = Len(body) + 4 /\ WordAt(f, 4) = Len(body)
    /\ SubSeq(f, 1, 2) = StoredHandle(h) /\ IsControlChannel(f)
    /\ ByteAt(f, 8) = body[1] /\ ByteAt(f, 9) = body[2]
    /\ WordAt(f, 10) = body[3] + 256 * body[4]
    /\ Len(body) >= 8 =>
          /\ WordAt(f, 12) = body[5] + 256 * body[6]
          /\ \A c : OnAir(c, base, body[5], body[6]) => CidAt(f, 12, base) = c
          /\ \A c : OnAir(c, base, body[7], body[8]) => CidAt(f, 14, base) = c
    /\ Len(body) >= 10 => WordAt(f, 16) = body[9] + 256 * body[10]

\* A frame made by L2CAP_Command is that of HID_Command with the signalling
\* channel, and is read like that.
LEMMA SignalRead ==
    ASSUME NEW h \in Handles, NEW base,
           NEW body \in Bytes, Len(body) \in Lengths, Len(body) >= 4
    PROVE  /\ L2CAP_Command(StoredHandle(h), body)
                = HID_Command(StoredHandle(h), <<1, 0>>, body)
           /\ SignalReads(L2CAP_Command(StoredHandle(h), body), h, base, body)
  <1> DEFINE f == HID_Command(StoredHandle(h), <<1, 0>>, body)
  <1>1. /\ L2CAP_Command(StoredHandle(h), body) = f
        /\ Len(f) = 8 + Len(body)
        /\ WordAt(f, 2) = Len(body) + 4 /\ WordAt(f, 4) = Len(body)
        /\ SubSeq(f, 1, 2) = StoredHandle(h) /\ IsControlChannel(f)
        /\ f[9] = body[1] /\ f[10] = body[2]
        /\ f[11] = body[3] /\ f[12] = body[4]
        /\ Len(body) >= 8 => /\ f[13] = body[5] /\ f[14] = body[6]
                             /\ f[15] = body[7] /\ f[16] = body[8]
        /\ Len(body) >= 10 => f[17] = body[9] /\ f[18] = body[10]
    BY SignalFacts
  <1> HIDE DEF f
  <1>2. ByteAt(f, 8) = body[1] /\ ByteAt(f, 9) = body[2]
    BY <1>1, BytePlaces, Zenon
  <1>3. WordAt(f, 10) = body[3] + 256 * body[4]
    <2>1. f[11] = body[3] /\ f[12] = body[4]
      BY <1>1
    <2> QED BY ONLY <2>1, WordPlaces
  <1>4. ASSUME Len(body) >= 8
        PROVE  /\ WordAt(f, 12) = body[5] + 256 * body[6]
               /\ \A c : OnAir(c, base, body[5], body[6])
                            => CidAt(f, 12, base) = c
               /\ \A c : OnAir(c, base, body[7], body[8])
                            => CidAt(f, 14, base) = c
    <2>1. /\ f[13] = body[5] /\ f[14] = body[6]
          /\ f[15] = body[7] /\ f[16] = body[8]
      BY <1>1, <1>4, Zenon
    <2>2. /\ ByteAt(f, 12) = body[5] /\ ByteAt(f, 12 + 1) = body[6]
          /\ ByteAt(f, 14) = body[7] /\ ByteAt(f, 14 + 1) = body[8]
      BY <2>1, BytePlaces, Zenon
    <2>3. f[13] = body[5] /\ f[14] = body[6]
      BY <2>1
    <2>4. WordAt(f, 12) = body[5] + 256 * body[6]
      BY ONLY <2>3, WordPlaces
    <2> QED BY <2>2, <2>4, Zenon DEF OnAir
  <1>5. ASSUME Len(body) >= 10
        PROVE  WordAt(f, 16) = body[9] + 256 * body[10]
    <2>1. f[17] = body[9] /\ f[18] = body[10]
      BY <1>1, <1>5, Zenon
    <2> QED BY ONLY <2>1, WordPlaces
  <1>6. SignalReads(f, h, base, body)
    BY <1>1, <1>2, <1>3, <1>4, <1>5, Zenon DEF SignalReads
  <1> QED BY <1>1, <1>6, Zenon DEF f

\* The structure that the device lays over a frame is chosen by its channel
\* and its code.
LEMMA DeviceReadsFacts ==
    ASSUME NEW f, NEW base, IsControlChannel(f)
    PROVE  /\ ByteAt(f, 8) = 3 => DeviceReads(f, base) =
                [type |-> "ConnectionResponse", dcid |-> CidAt(f, 12, base),
                 scid |-> CidAt(f, 14, base),
                 result |-> IF WordAt(f, 16) = 1 THEN "pending" ELSE "successful"]
           /\ ByteAt(f, 8) = 4 => DeviceReads(f, base) =
                [type |-> "ConfigurationRequest", dcid |-> CidAt(f, 12, base)]
           /\ ByteAt(f, 8) = 5 => DeviceReads(f, base) =
                [type |-> "ConfigurationResponse", scid |-> CidAt(f, 12, base)]
           /\ ByteAt(f, 8) = 7 => DeviceReads(f, base) =
                [type |-> "DisconnectionResponse", dcid |-> CidAt(f, 12, base),
                 scid |-> CidAt(f, 14, base)]
  <1>1. CASE ByteAt(f, 8) = 3
    <2>1. CASE WordAt(f, 16) = 1
      BY <1>1, <2>1 DEF DeviceReads
    <2>2. CASE WordAt(f, 16) # 1
      BY <1>1, <2>2 DEF DeviceReads
    <2> QED BY <2>1, <2>2
  <1>2. CASE ByteAt(f, 8) = 4
    BY <1>2 DEF DeviceReads
  <1>3. CASE ByteAt(f, 8) = 5
    BY <1>3 DEF DeviceReads
  <1>4. CASE ByteAt(f, 8) = 7
    BY <1>4 DEF DeviceReads
  <1> QED BY <1>1, <1>2, <1>3, <1>4

\* On any other channel a frame is HID data.
LEMMA DeviceReadsHid ==
    \A f, base : ~IsControlChannel(f) => DeviceReads(f, base) =
        [type |-> "Hid", channel |-> CidAt(f, 6, base),
         what |-> IF ByteAt(f, 8) = 83 THEN "enable" ELSE "report"]
  <1> TAKE f, base
  <1> HAVE ~IsControlChannel(f)
  <1>1. CASE ByteAt(f, 8) = 83
    BY <1>1 DEF DeviceReads
  <1>2. CASE ByteAt(f, 8) # 83
    BY <1>2 DEF DeviceReads
  <1> QED BY <1>1, <1>2

-----------------------------------------------------------------------------
(* The driver's messages.                                                  *)

\* Frame f, sent for message m, is read as m.
Understood(m, f, h, id, base) ==
    /\ DeviceReads(f, base) = m
    /\ WellFormed(m, f)
    /\ SubSeq(f, 1, 2) = StoredHandle(h)
    /\ IsControlChannel(f) => ByteAt(f, 9) = id

\* An identifier is a byte.
LEMMA IdFacts == ASSUME NEW id \in Identifiers PROVE id \in Nat
  BY WireAssumption

\* One lemma per message: the builder's bytes, what SignalRead finds there,
\* and the record that the structures make of it.
LEMMA ConnectionResponseRead ==
    ASSUME NEW h \in Handles, NEW id \in Identifiers, NEW base \in CidBases,
           NEW D \in AnyCid, NEW S \in AnyCid,
           NEW res \in {"pending", "successful"}
    PROVE  LET m == [type |-> "ConnectionResponse", dcid |-> D, scid |-> S,
                     result |-> res]
           IN  Understood(m, Frame(m, h, id, base), h, id, base)
  <1> DEFINE m == [type |-> "ConnectionResponse", dcid |-> D, scid |-> S,
                   result |-> res]
  <1>1. PICK x, y \in Nat : OnAir(D, base, x, y)
    BY CidOnAir, Zenon
  <1>2. PICK u, v \in Nat : OnAir(S, base, u, v)
    BY CidOnAir, Zenon
  <1>3. PICK r \in Nat : r = IF res = "pending" THEN 1 ELSE 0
    OBVIOUS
  <1> DEFINE b == <<3, id, 8, 0>> \o <<x, y>> \o <<u, v>> \o <<r, 0, 0, 0>>
             f == L2CAP_Command(StoredHandle(h), b)
  <1>4. Frame(m, h, id, base) = f
    <2>1. /\ m.type = "ConnectionResponse" /\ m.dcid = D /\ m.scid = S
          /\ m.result = res
      OBVIOUS
    <2>2. Frame(m, h, id, base)
            = L2CAP_Command(StoredHandle(h),
                 Connection_Response(id, Cid(S, base), Cid(D, base),
                                     IF res = "pending" THEN 1 ELSE 0))
      BY <2>1 DEF Frame
    <2>3. Connection_Response(id, Cid(S, base), Cid(D, base), r) = b
      BY <1>1, <1>2, Zenon DEF Connection_Response, OnAir
    <2> QED BY <1>3, <2>2, <2>3, Zenon
  <1>5. /\ b \in Bytes /\ Len(b) = 12
        /\ b[1] = 3 /\ b[2] = id /\ b[3] = 8 /\ b[4] = 0
        /\ b[5] = x /\ b[6] = y /\ b[7] = u /\ b[8] = v
        /\ b[9] = r /\ b[10] = 0
    BY IdFacts, Body12
  <1> HIDE DEF b
  <1>6. Len(b) \in Lengths /\ Len(b) >= 4 /\ Len(b) >= 8 /\ Len(b) >= 10
    BY <1>5 DEF Lengths
  <1>7. /\ Len(f) = 8 + Len(b)
        /\ WordAt(f, 2) = Len(b) + 4 /\ WordAt(f, 4) = Len(b)
        /\ SubSeq(f, 1, 2) = StoredHandle(h) /\ IsControlChannel(f)
        /\ ByteAt(f, 8) = b[1] /\ ByteAt(f, 9) = b[2]
        /\ WordAt(f, 10) = b[3] + 256 * b[4]
        /\ \A c : OnAir(c, base, b[5], b[6]) => CidAt(f, 12, base) = c
        /\ \A c : OnAir(c, base, b[7], b[8]) => CidAt(f, 14, base) = c
        /\ WordAt(f, 16) = b[9] + 256 * b[10]
    <2>1. SignalReads(f, h, base, b)
      BY <1>5, <1>6, SignalRead, Zenon
    <2> HIDE DEF f
    <2> QED BY <1>6, <2>1, Zenon DEF SignalReads
  <1> HIDE DEF f
  <1>8. /\ Len(f) = 20 /\ WordAt(f, 2) = 16 /\ WordAt(f, 4) = 12
        /\ WordAt(f, 10) = 8 /\ WordAt(f, 16) = r
        /\ IsControlChannel(f) /\ ByteAt(f, 8) = 3 /\ ByteAt(f, 9) = id
    BY <1>5, <1>7
  <1>9. CidAt(f, 12, base) = D /\ CidAt(f, 14, base) = S
    BY <1>1, <1>2, <1>5, <1>7, Zenon
  <1>10. (IF WordAt(f, 16) = 1 THEN "pending" ELSE "successful") = res
    BY <1>3, <1>8
  <1>11. DeviceReads(f, base) = m
    <2>1. DeviceReads(f, base)
            = [type |-> "ConnectionResponse", dcid |-> CidAt(f, 12, base),
               scid |-> CidAt(f, 14, base),
               result |-> IF WordAt(f, 16) = 1 THEN "pending" ELSE "successful"]
      BY <1>8, DeviceReadsFacts, Zenon
    <2> QED BY <1>10, <1>9, <2>1
  <1>12. WellFormed(m, f)
    BY <1>8 DEF WellFormed
  <1> QED BY <1>4, <1>7, <1>8, <1>11, <1>12, Zenon DEF Understood

LEMMA ConfigurationRequestRead ==
    ASSUME NEW h \in Handles, NEW id \in Identifiers, NEW base \in CidBases,
           NEW D \in AnyCid
    PROVE  LET m == [type |-> "ConfigurationRequest", dcid |-> D]
           IN  Understood(m, Frame(m, h, id, base), h, id, base)
  <1> DEFINE m == [type |-> "ConfigurationRequest", dcid |-> D]
  <1>1. PICK x, y \in Nat : OnAir(D, base, x, y)
    BY CidOnAir, Zenon
  <1> DEFINE b == <<4, id, 8, 0>> \o <<x, y>> \o <<0, 0, 1, 2, 255, 255>>
             f == L2CAP_Command(StoredHandle(h), b)
  <1>2. Frame(m, h, id, base) = f
    <2>1. m.type = "ConfigurationRequest" /\ m.dcid = D
      OBVIOUS
    <2>2. Frame(m, h, id, base)
            = L2CAP_Command(StoredHandle(h),
                            Configuration_Request(id, Cid(D, base)))
      BY <2>1 DEF Frame
    <2>3. Configuration_Request(id, Cid(D, base)) = b
      BY <1>1, Zenon DEF Configuration_Request, OnAir
    <2> QED BY <2>2, <2>3, Zenon
  <1>3. /\ b \in Bytes /\ Len(b) = 12
        /\ b[1] = 4 /\ b[2] = id /\ b[3] = 8 /\ b[4] = 0
        /\ b[5] = x /\ b[6] = y
    BY IdFacts, Body12Option
  <1> HIDE DEF b
  <1>4. Len(b) \in Lengths /\ Len(b) >= 4 /\ Len(b) >= 8
    BY <1>3 DEF Lengths
  <1>5. /\ Len(f) = 8 + Len(b)
        /\ WordAt(f, 2) = Len(b) + 4 /\ WordAt(f, 4) = Len(b)
        /\ SubSeq(f, 1, 2) = StoredHandle(h) /\ IsControlChannel(f)
        /\ ByteAt(f, 8) = b[1] /\ ByteAt(f, 9) = b[2]
        /\ WordAt(f, 10) = b[3] + 256 * b[4]
        /\ \A c : OnAir(c, base, b[5], b[6]) => CidAt(f, 12, base) = c
    <2>1. SignalReads(f, h, base, b)
      BY <1>3, <1>4, SignalRead, Zenon
    <2> HIDE DEF f
    <2> QED BY <1>4, <2>1, Zenon DEF SignalReads
  <1> HIDE DEF f
  <1>6. /\ Len(f) = 20 /\ WordAt(f, 2) = 16 /\ WordAt(f, 4) = 12
        /\ WordAt(f, 10) = 8
        /\ IsControlChannel(f) /\ ByteAt(f, 8) = 4 /\ ByteAt(f, 9) = id
    BY <1>3, <1>5
  <1>7. CidAt(f, 12, base) = D
    BY <1>1, <1>3, <1>5, Zenon
  <1>8. DeviceReads(f, base) = m
    BY <1>6, <1>7, DeviceReadsFacts
  <1>9. WellFormed(m, f)
    BY <1>6 DEF WellFormed
  <1> QED BY <1>2, <1>5, <1>6, <1>8, <1>9, Zenon DEF Understood

LEMMA ConfigurationResponseRead ==
    ASSUME NEW h \in Handles, NEW id \in Identifiers, NEW base \in CidBases,
           NEW S \in AnyCid
    PROVE  LET m == [type |-> "ConfigurationResponse", scid |-> S]
           IN  Understood(m, Frame(m, h, id, base), h, id, base)
  <1> DEFINE m == [type |-> "ConfigurationResponse", scid |-> S]
  <1>1. PICK x, y \in Nat : OnAir(S, base, x, y)
    BY CidOnAir, Zenon
  <1> DEFINE b == <<5, id, 6, 0>> \o <<x, y>> \o <<0, 0, 0, 0, 1, 2, 160, 2>>
             f == L2CAP_Command(StoredHandle(h), b)
  <1>2. Frame(m, h, id, base) = f
    <2>1. m.type = "ConfigurationResponse" /\ m.scid = S
      OBVIOUS
    <2>2. Frame(m, h, id, base)
            = L2CAP_Command(StoredHandle(h),
                            Configuration_Response(id, Cid(S, base)))
      BY <2>1 DEF Frame
    <2>3. Configuration_Response(id, Cid(S, base)) = b
      BY <1>1, Zenon DEF Configuration_Response, OnAir
    <2> QED BY <2>2, <2>3, Zenon
  <1>3. /\ b \in Bytes /\ Len(b) = 14
        /\ b[1] = 5 /\ b[2] = id /\ b[3] = 6 /\ b[4] = 0
        /\ b[5] = x /\ b[6] = y
    BY IdFacts, Body14
  <1> HIDE DEF b
  <1>4. Len(b) \in Lengths /\ Len(b) >= 4 /\ Len(b) >= 8
    BY <1>3 DEF Lengths
  <1>5. /\ Len(f) = 8 + Len(b)
        /\ WordAt(f, 2) = Len(b) + 4 /\ WordAt(f, 4) = Len(b)
        /\ SubSeq(f, 1, 2) = StoredHandle(h) /\ IsControlChannel(f)
        /\ ByteAt(f, 8) = b[1] /\ ByteAt(f, 9) = b[2]
        /\ WordAt(f, 10) = b[3] + 256 * b[4]
        /\ \A c : OnAir(c, base, b[5], b[6]) => CidAt(f, 12, base) = c
    <2>1. SignalReads(f, h, base, b)
      BY <1>3, <1>4, SignalRead, Zenon
    <2> HIDE DEF f
    <2> QED BY <1>4, <2>1, Zenon DEF SignalReads
  <1> HIDE DEF f
  <1>6. /\ Len(f) = 22 /\ WordAt(f, 2) = 18 /\ WordAt(f, 4) = 14
        /\ WordAt(f, 10) = 6
        /\ IsControlChannel(f) /\ ByteAt(f, 8) = 5 /\ ByteAt(f, 9) = id
    BY <1>3, <1>5
  <1>7. CidAt(f, 12, base) = S
    BY <1>1, <1>3, <1>5, Zenon
  <1>8. DeviceReads(f, base) = m
    BY <1>6, <1>7, DeviceReadsFacts
  <1>9. WellFormed(m, f)
    BY <1>6 DEF WellFormed
  <1> QED BY <1>2, <1>5, <1>6, <1>8, <1>9, Zenon DEF Understood

LEMMA DisconnectionResponseRead ==
    ASSUME NEW h \in Handles, NEW id \in Identifiers, NEW base \in CidBases,
           NEW D \in AnyCid, NEW S \in AnyCid
    PROVE  LET m == [type |-> "DisconnectionResponse", dcid |-> D, scid |-> S]
           IN  Understood(m, Frame(m, h, id, base), h, id, base)
  <1> DEFINE m == [type |-> "DisconnectionResponse", dcid |-> D, scid |-> S]
  <1>1. PICK x, y \in Nat : OnAir(D, base, x, y)
    BY CidOnAir, Zenon
  <1>2. PICK u, v \in Nat : OnAir(S, base, u, v)
    BY CidOnAir, Zenon
  <1> DEFINE b == <<7, id, 4, 0>> \o <<x, y>> \o <<u, v>>
             f == L2CAP_Command(StoredHandle(h), b)
  <1>3. Frame(m, h, id, base) = f
    <2>1. m.type = "DisconnectionResponse" /\ m.dcid = D /\ m.scid = S
      OBVIOUS
    <2>2. Frame(m, h, id, base)
            = L2CAP_Command(StoredHandle(h),
                            Disconnection_Response(id, Cid(D, base), Cid(S, base)))
      BY <2>1 DEF Frame
    <2>3. Disconnection_Response(id, Cid(D, base), Cid(S, base)) = b
      BY <1>1, <1>2, Zenon DEF Disconnection_Response, OnAir
    <2> QED BY <2>2, <2>3, Zenon
  <1>4. /\ b \in Bytes /\ Len(b) = 8
        /\ b[1] = 7 /\ b[2] = id /\ b[3] = 4 /\ b[4] = 0
        /\ b[5] = x /\ b[6] = y /\ b[7] = u /\ b[8] = v
    BY IdFacts, Body8
  <1> HIDE DEF b
  <1>5. Len(b) \in Lengths /\ Len(b) >= 4 /\ Len(b) >= 8
    BY <1>4 DEF Lengths
  <1>6. /\ Len(f) = 8 + Len(b)
        /\ WordAt(f, 2) = Len(b) + 4 /\ WordAt(f, 4) = Len(b)
        /\ SubSeq(f, 1, 2) = StoredHandle(h) /\ IsControlChannel(f)
        /\ ByteAt(f, 8) = b[1] /\ ByteAt(f, 9) = b[2]
        /\ WordAt(f, 10) = b[3] + 256 * b[4]
        /\ \A c : OnAir(c, base, b[5], b[6]) => CidAt(f, 12, base) = c
        /\ \A c : OnAir(c, base, b[7], b[8]) => CidAt(f, 14, base) = c
    <2>1. SignalReads(f, h, base, b)
      BY <1>4, <1>5, SignalRead, Zenon
    <2> HIDE DEF f
    <2> QED BY <1>5, <2>1, Zenon DEF SignalReads
  <1> HIDE DEF f
  <1>7. /\ Len(f) = 16 /\ WordAt(f, 2) = 12 /\ WordAt(f, 4) = 8
        /\ WordAt(f, 10) = 4
        /\ IsControlChannel(f) /\ ByteAt(f, 8) = 7 /\ ByteAt(f, 9) = id
    BY <1>4, <1>6
  <1>8. CidAt(f, 12, base) = D /\ CidAt(f, 14, base) = S
    BY <1>1, <1>2, <1>4, <1>6, Zenon
  <1>9. DeviceReads(f, base) = m
    BY <1>7, <1>8, DeviceReadsFacts
  <1>10. WellFormed(m, f)
    BY <1>7 DEF WellFormed
  <1> QED BY <1>3, <1>6, <1>7, <1>9, <1>10, Zenon DEF Understood

\* The bodies of HID_Command.
LEMMA HidBodies ==
    /\ HidEnable \in Bytes /\ Len(HidEnable) = 6 /\ HidEnable[1] = 83
    /\ OutputReportBody \in Bytes /\ Len(OutputReportBody) = 50
    /\ OutputReportBody[1] = 82
  <1>1. HidEnable \in Bytes /\ Len(HidEnable) = 6 /\ HidEnable[1] = 83
    BY DEF HidEnable, Bytes
  <1>2. [i \in 1..48 |-> 0] \in Seq(Nat) /\ Len([i \in 1..48 |-> 0]) = 48
    OBVIOUS
  <1>3. PICK z \in Seq(Nat) : z = [i \in 1..48 |-> 0]
    BY <1>2, Zenon
  <1>4. Len(z) = 48
    BY <1>2, <1>3, Zenon
  <1>5. /\ <<82, 1>> \o z \in Bytes /\ Len(<<82, 1>> \o z) = 2 + Len(z)
        /\ (<<82, 1>> \o z)[1] = 82
    BY DEF Bytes
  <1>6. OutputReportBody = <<82, 1>> \o z
    BY <1>3, Zenon DEF OutputReportBody
  <1>7. Len(<<82, 1>> \o z) = 50
    BY ONLY <1>4, <1>5
  <1> QED BY <1>1, <1>5, <1>6, <1>7, Zenon

\* HID_Command: reports and the request to enable them.
LEMMA HidRead ==
    ASSUME NEW h \in Handles, NEW id \in Identifiers, NEW base \in CidBases,
           NEW c \in AnyCid, NEW w \in {"enable", "report"}
    PROVE  LET m == [type |-> "Hid", channel |-> c, what |-> w]
           IN  Understood(m, Frame(m, h, id, base), h, id, base)
  <1> DEFINE m == [type |-> "Hid", channel |-> c, what |-> w]
  <1>1. PICK x, y \in Nat : OnAir(c, base, x, y)
    BY CidOnAir, Zenon
  <1>2. PICK b \in Bytes :
           /\ b = IF w = "enable" THEN HidEnable ELSE OutputReportBody
           /\ Len(b) \in {6, 50} /\ b[1] = IF w = "enable" THEN 83 ELSE 82
    BY HidBodies
  <1> DEFINE f == HID_Command(StoredHandle(h), <<x, y>>, b)
  <1>3. Frame(m, h, id, base) = f
    <2>1. m.type = "Hid" /\ m.channel = c /\ m.what = w
      OBVIOUS
    <2>2. Frame(m, h, id, base)
            = HID_Command(StoredHandle(h), Cid(c, base),
                          IF w = "enable" THEN HidEnable ELSE OutputReportBody)
      BY <2>1 DEF Frame
    <2> QED BY <1>1, <1>2, <2>2, Zenon DEF OnAir
  <1>4. Len(b) \in {6, 50}
    BY <1>2, Zenon
  <1>5. Len(b) \in Lengths
    <2>1. CASE Len(b) = 6
      BY ONLY <2>1 DEF Lengths
    <2>2. CASE Len(b) = 50
      BY ONLY <2>2 DEF Lengths
    <2> QED BY <1>4, <2>1, <2>2
  <1>6. /\ Len(f) = 8 + Len(b)
        /\ SubSeq(f, 1, 2) = StoredHandle(h)
        /\ f[7] = x /\ f[8] = y
        /\ WordAt(f, 2) = Len(b) + 4 /\ WordAt(f, 4) = Len(b)
        /\ \A j \in 1..Len(b) : f[8 + j] = b[j]
    BY <1>5, FrameFacts
  <1> HIDE DEF f
  <1>7. f[9] = b[1]
    BY <1>2, <1>6
  <1>8. /\ ~IsControlChannel(f) /\ CidAt(f, 6, base) = c
        /\ ByteAt(f, 8) = b[1]
    BY <1>1, <1>6, <1>7, BytePlaces, Zenon DEF OnAir
  <1>9. DeviceReads(f, base) = m
    <2>1. (IF ByteAt(f, 8) = 83 THEN "enable" ELSE "report") = w
      BY <1>2, <1>8
    <2>2. DeviceReads(f, base) = [type |-> "Hid", channel |-> CidAt(f, 6, base),
                what |-> IF ByteAt(f, 8) = 83 THEN "enable" ELSE "report"]
      BY <1>8, DeviceReadsHid, Zenon
    <2> QED BY <1>8, <2>1, <2>2
  <1>10. WellFormed(m, f)
    <2>1. /\ WordAt(f, 2) = Len(f) - 4 /\ WordAt(f, 4) = Len(f) - 8
          /\ Len(f) <= 64
      <3>1. CASE Len(b) = 6
        BY ONLY <1>6, <3>1
      <3>2. CASE Len(b) = 50
        BY ONLY <1>6, <3>2
      <3> QED BY <1>4, <3>1, <3>2
    <2> QED BY <2>1 DEF WellFormed
  <1> QED BY <1>3, <1>6, <1>8, <1>9, <1>10, Zenon DEF Understood

\* What the driver sends, the device takes for what it is.
LEMMA SentUnderstood ==
    ASSUME NEW h \in Handles, NEW id \in Identifiers, NEW base \in CidBases,
           NEW m \in RemoteMessages
    PROVE  Understood(m, Frame(m, h, id, base), h, id, base)
  <1>1. CASE m \in [type : {"ConnectionResponse"}, dcid : AnyCid, scid : AnyCid,
                    result : {"pending", "successful"}]
    <2>1. m = [type |-> "ConnectionResponse", dcid |-> m.dcid, scid |-> m.scid,
               result |-> m.result]
          /\ m.dcid \in AnyCid /\ m.scid \in AnyCid
          /\ m.result \in {"pending", "successful"}
      BY <1>1
    <2> QED BY <2>1, ConnectionResponseRead
  <1>2. CASE m \in [type : {"ConfigurationRequest"}, dcid : AnyCid]
    <2>1. m = [type |-> "ConfigurationRequest", dcid |-> m.dcid]
          /\ m.dcid \in AnyCid
      BY <1>2
    <2> QED BY <2>1, ConfigurationRequestRead
  <1>3. CASE m \in [type : {"ConfigurationResponse"}, scid : AnyCid]
    <2>1. m = [type |-> "ConfigurationResponse", scid |-> m.scid]
          /\ m.scid \in AnyCid
      BY <1>3
    <2> QED BY <2>1, ConfigurationResponseRead
  <1>4. CASE m \in [type : {"DisconnectionResponse"}, dcid : AnyCid, scid : AnyCid]
    <2>1. m = [type |-> "DisconnectionResponse", dcid |-> m.dcid, scid |-> m.scid]
          /\ m.dcid \in AnyCid /\ m.scid \in AnyCid
      BY <1>4
    <2> QED BY <2>1, DisconnectionResponseRead
  <1>5. CASE m \in [type : {"Hid"}, channel : AnyCid, what : {"enable", "report"}]
    <2>1. m = [type |-> "Hid", channel |-> m.channel, what |-> m.what]
          /\ m.channel \in AnyCid /\ m.what \in {"enable", "report"}
      BY <1>5
    <2> QED BY <2>1, HidRead
  <1> QED BY <1>1, <1>2, <1>3, <1>4, <1>5 DEF RemoteMessages

-----------------------------------------------------------------------------
(* The device's messages.                                                  *)

\* The handler that the dispatcher chooses, and what it reads.
LEMMA DriverReadsFacts ==
    ASSUME NEW f, NEW base, IsControlChannel(f)
    PROVE  /\ ByteAt(f, 8) = 2 => DriverReads(f, base) =
                [type |-> "ConnectionRequest", scid |-> CidAt(f, 14, base),
                 psm |-> IF WordAt(f, 12) = 17 THEN "command"
                         ELSE IF WordAt(f, 12) = 19 THEN "interrupt" ELSE "other"]
           /\ ByteAt(f, 8) = 4 => DriverReads(f, base) =
                [type |-> "ConfigurationRequest", dcid |-> CidAt(f, 12, base)]
           /\ ByteAt(f, 8) = 5 => DriverReads(f, base) =
                [type |-> "ConfigurationResponse", scid |-> CidAt(f, 12, base)]
           /\ ByteAt(f, 8) = 6 => DriverReads(f, base) =
                [type |-> "DisconnectionRequest", dcid |-> CidAt(f, 12, base),
                 scid |-> CidAt(f, 14, base)]
           /\ ByteAt(f, 8) = 8 => DriverReads(f, base) = [type |-> "Noise"]
  <1>1. CASE ByteAt(f, 8) = 2
    <2>1. CASE WordAt(f, 12) = 17
      BY <1>1, <2>1 DEF DriverReads
    <2>2. CASE WordAt(f, 12) = 19
      BY <1>1, <2>2 DEF DriverReads
    <2>3. CASE WordAt(f, 12) # 17 /\ WordAt(f, 12) # 19
      BY <1>1, <2>3 DEF DriverReads
    <2> QED BY <2>1, <2>2, <2>3
  <1>2. CASE ByteAt(f, 8) = 4
    BY <1>2 DEF DriverReads
  <1>3. CASE ByteAt(f, 8) = 5
    BY <1>3 DEF DriverReads
  <1>4. CASE ByteAt(f, 8) = 6
    BY <1>4 DEF DriverReads
  <1>5. CASE ByteAt(f, 8) = 8
    BY <1>5 DEF DriverReads
  <1> QED BY <1>1, <1>2, <1>3, <1>4, <1>5

\* On any other channel the driver looks for input reports only.
LEMMA DriverReadsHid ==
    \A f, base : ~IsControlChannel(f) => DriverReads(f, base) =
        [type |-> IF IsInputReport(f) THEN "Report" ELSE "Dropped"]
  <1> TAKE f, base
  <1> HAVE ~IsControlChannel(f)
  <1>1. CASE IsInputReport(f)
    BY <1>1 DEF DriverReads
  <1>2. CASE ~IsInputReport(f)
    BY <1>2 DEF DriverReads
  <1> QED BY <1>1, <1>2

\* The device's connection request.
LEMMA BodyConnection ==
    ASSUME NEW id \in Nat, NEW p \in Nat, NEW x \in Nat, NEW y \in Nat
    PROVE  LET b == <<2, id, 4, 0, p, 0>> \o <<x, y>> IN
           /\ b \in Bytes /\ Len(b) = 8
           /\ b[1] = 2 /\ b[5] = p /\ b[6] = 0 /\ b[7] = x /\ b[8] = y
  BY DEF Bytes

\* The device's answer to a configuration.
LEMMA Body10 ==
    ASSUME NEW id \in Nat, NEW x \in Nat, NEW y \in Nat, NEW r \in Nat
    PROVE  LET b == <<5, id, 6, 0>> \o <<x, y>> \o <<0, 0, r, 0>> IN
           /\ b \in Bytes /\ Len(b) = 10
           /\ b[1] = 5 /\ b[5] = x /\ b[6] = y
  BY DEF Bytes

\* A device's signal is read in the same way.
LEMMA DeviceSignal ==
    ASSUME NEW h \in Handles, NEW base, NEW b \in Bytes, Len(b) \in Lengths,
           Len(b) >= 4
    PROVE  SignalReads(DeviceFrame(h, <<1, 0>>, b), h, base, b)
  BY SignalRead, Zenon DEF DeviceFrame

\* The driver reads message m of a device as it is meant.
Received(m, h, id, base) ==
    DriverReads(DeviceFrame(h, <<1, 0>>, DeviceBody(m, id, base)), base)
        = Visible(m)

\* One lemma per message again; what the driver does not look at is left out
\* by Visible.
LEMMA ConnectionRequestRead ==
    ASSUME NEW h \in Handles, NEW id \in Identifiers, NEW base \in CidBases,
           NEW p \in Psms,
           NEW S \in AnyCid
    PROVE  LET m == [type |-> "ConnectionRequest", psm |-> p, scid |-> S]
           IN  Received(m, h, id, base)
  <1> DEFINE m == [type |-> "ConnectionRequest", psm |-> p, scid |-> S]
  <1>1. PICK x, y \in Nat : OnAir(S, base, x, y)
    BY CidOnAir, Zenon
  <1>2. PICK n \in Nat : n = Psm[p]
    BY DEF Psm, Psms, HidPsms
  <1> DEFINE b == <<2, id, 4, 0, n, 0>> \o <<x, y>>
             f == DeviceFrame(h, <<1, 0>>, b)
  <1>3. DeviceBody(m, id, base) = b
    <2>1. m.type = "ConnectionRequest" /\ m.psm = p /\ m.scid = S
      OBVIOUS
    <2>2. DeviceBody(m, id, base) = <<2, id, 4, 0, Psm[p], 0>> \o Cid(S, base)
      BY <2>1 DEF DeviceBody
    <2> QED BY <1>1, <1>2, <2>2, Zenon DEF OnAir
  <1>4. /\ b \in Bytes /\ Len(b) = 8
        /\ b[1] = 2
        /\ b[5] = n /\ b[6] = 0 /\ b[7] = x /\ b[8] = y
    BY IdFacts, BodyConnection
  <1> HIDE DEF b
  <1>5. Len(b) \in Lengths /\ Len(b) >= 4 /\ Len(b) >= 8
    BY <1>4 DEF Lengths
  <1>6. /\ IsControlChannel(f) /\ ByteAt(f, 8) = b[1]
        /\ WordAt(f, 12) = b[5] + 256 * b[6]
        /\ \A c : OnAir(c, base, b[5], b[6]) => CidAt(f, 12, base) = c
        /\ \A c : OnAir(c, base, b[7], b[8]) => CidAt(f, 14, base) = c
    <2>1. SignalReads(f, h, base, b)
      BY <1>4, <1>5, DeviceSignal, Zenon
    <2> HIDE DEF f
    <2> QED BY <1>5, <2>1, Zenon DEF SignalReads
  <1> HIDE DEF f
  <1>7. IsControlChannel(f) /\ ByteAt(f, 8) = 2
    BY <1>4, <1>6, Zenon
  <1>8. CidAt(f, 14, base) = S
    BY <1>1, <1>4, <1>6, Zenon
  <1>9. (IF WordAt(f, 12) = 17 THEN "command"
          ELSE IF WordAt(f, 12) = 19 THEN "interrupt" ELSE "other") = p
    <2>1. WordAt(f, 12) = n
      BY <1>4, <1>6
    <2> QED BY <1>2, <2>1 DEF Psm, Psms, HidPsms
  <1>10. DriverReads(f, base) = Visible(m)
    <2>1. DriverReads(f, base)
            = [type |-> "ConnectionRequest", scid |-> CidAt(f, 14, base),
               psm |-> IF WordAt(f, 12) = 17 THEN "command"
                       ELSE IF WordAt(f, 12) = 19 THEN "interrupt" ELSE "other"]
      BY <1>7, DriverReadsFacts, Zenon
    <2>2. Visible(m) = m
      BY DEF Visible
    <2> QED BY <1>8, <1>9, <2>1, <2>2
  <1> QED BY <1>3, <1>10, Zenon DEF Received, f

LEMMA ConfigurationAsked ==
    ASSUME NEW h \in Handles, NEW id \in Identifiers, NEW base \in CidBases,
           NEW D \in AnyCid
    PROVE  LET m == [type |-> "ConfigurationRequest", dcid |-> D]
           IN  Received(m, h, id, base)
  <1> DEFINE m == [type |-> "ConfigurationRequest", dcid |-> D]
  <1>1. PICK x, y \in Nat : OnAir(D, base, x, y)
    BY CidOnAir, Zenon
  <1> DEFINE b == <<4, id, 4, 0>> \o <<x, y>> \o <<0, 0>>
             f == DeviceFrame(h, <<1, 0>>, b)
  <1>2. DeviceBody(m, id, base) = b
    <2>1. m.type = "ConfigurationRequest" /\ m.dcid = D
      OBVIOUS
    <2>2. DeviceBody(m, id, base) = <<4, id, 4, 0>> \o Cid(D, base) \o <<0, 0>>
      BY <2>1 DEF DeviceBody
    <2> QED BY <1>1, <2>2, Zenon DEF OnAir
  <1>3. /\ b \in Bytes /\ Len(b) = 8
        /\ b[1] = 4 /\ b[5] = x /\ b[6] = y
    BY IdFacts, Body8
  <1> HIDE DEF b
  <1>4. Len(b) \in Lengths /\ Len(b) >= 4 /\ Len(b) >= 8
    BY <1>3 DEF Lengths
  <1>5. /\ IsControlChannel(f) /\ ByteAt(f, 8) = b[1]
        /\ WordAt(f, 12) = b[5] + 256 * b[6]
        /\ \A c : OnAir(c, base, b[5], b[6]) => CidAt(f, 12, base) = c
        /\ \A c : OnAir(c, base, b[7], b[8]) => CidAt(f, 14, base) = c
    <2>1. SignalReads(f, h, base, b)
      BY <1>3, <1>4, DeviceSignal, Zenon
    <2> HIDE DEF f
    <2> QED BY <1>4, <2>1, Zenon DEF SignalReads
  <1> HIDE DEF f
  <1>6. IsControlChannel(f) /\ ByteAt(f, 8) = 4
    BY <1>3, <1>5, Zenon
  <1>7. CidAt(f, 12, base) = D
    BY <1>1, <1>3, <1>5, Zenon
  <1>8. DriverReads(f, base) = Visible(m)
    <2>1. Visible(m) = m
      BY DEF Visible
    <2> QED BY <1>6, <1>7, <2>1, DriverReadsFacts
  <1> QED BY <1>2, <1>8, Zenon DEF Received, f

LEMMA ConfigurationAnswered ==
    ASSUME NEW h \in Handles, NEW id \in Identifiers, NEW base \in CidBases,
           NEW S \in AnyCid,
           NEW ok \in BOOLEAN
    PROVE  LET m == [type |-> "ConfigurationResponse", scid |-> S, agreed |-> ok]
           IN  Received(m, h, id, base)
  <1> DEFINE m == [type |-> "ConfigurationResponse", scid |-> S, agreed |-> ok]
  <1>1. PICK x, y \in Nat : OnAir(S, base, x, y)
    BY CidOnAir, Zenon
  <1>2. PICK r \in Nat : r = IF ok THEN 0 ELSE 1
    OBVIOUS
  <1> DEFINE b == <<5, id, 6, 0>> \o <<x, y>> \o <<0, 0, r, 0>>
             f == DeviceFrame(h, <<1, 0>>, b)
  <1>3. DeviceBody(m, id, base) = b
    <2>1. m.type = "ConfigurationResponse" /\ m.scid = S /\ m.agreed = ok
      OBVIOUS
    <2>2. DeviceBody(m, id, base) = <<5, id, 6, 0>> \o Cid(S, base)
                \o <<0, 0, IF ok THEN 0 ELSE 1, 0>>
      BY <2>1 DEF DeviceBody
    <2> QED BY <1>1, <1>2, <2>2, Zenon DEF OnAir
  <1>4. /\ b \in Bytes /\ Len(b) = 10
        /\ b[1] = 5 /\ b[5] = x /\ b[6] = y
    BY IdFacts, Body10
  <1> HIDE DEF b
  <1>5. Len(b) \in Lengths /\ Len(b) >= 4 /\ Len(b) >= 8
    BY <1>4 DEF Lengths
  <1>6. /\ IsControlChannel(f) /\ ByteAt(f, 8) = b[1]
        /\ WordAt(f, 12) = b[5] + 256 * b[6]
        /\ \A c : OnAir(c, base, b[5], b[6]) => CidAt(f, 12, base) = c
        /\ \A c : OnAir(c, base, b[7], b[8]) => CidAt(f, 14, base) = c
    <2>1. SignalReads(f, h, base, b)
      BY <1>4, <1>5, DeviceSignal, Zenon
    <2> HIDE DEF f
    <2> QED BY <1>5, <2>1, Zenon DEF SignalReads
  <1> HIDE DEF f
  <1>7. IsControlChannel(f) /\ ByteAt(f, 8) = 5
    BY <1>4, <1>6, Zenon
  <1>8. CidAt(f, 12, base) = S
    BY <1>1, <1>4, <1>6, Zenon
  <1>9. DriverReads(f, base) = Visible(m)
    <2>1. Visible(m) = [type |-> "ConfigurationResponse", scid |-> S]
      BY DEF Visible
    <2> QED BY <1>7, <1>8, <2>1, DriverReadsFacts
  <1> QED BY <1>3, <1>9, Zenon DEF Received, f

LEMMA DisconnectionRequestRead ==
    ASSUME NEW h \in Handles, NEW id \in Identifiers, NEW base \in CidBases,
           NEW D \in AnyCid,
           NEW S \in AnyCid
    PROVE  LET m == [type |-> "DisconnectionRequest", dcid |-> D, scid |-> S]
           IN  Received(m, h, id, base)
  <1> DEFINE m == [type |-> "DisconnectionRequest", dcid |-> D, scid |-> S]
  <1>1. PICK x, y \in Nat : OnAir(D, base, x, y)
    BY CidOnAir, Zenon
  <1>2. PICK u, v \in Nat : OnAir(S, base, u, v)
    BY CidOnAir, Zenon
  <1> DEFINE b == <<6, id, 4, 0>> \o <<x, y>> \o <<u, v>>
             f == DeviceFrame(h, <<1, 0>>, b)
  <1>3. DeviceBody(m, id, base) = b
    <2>1. m.type = "DisconnectionRequest" /\ m.dcid = D /\ m.scid = S
      OBVIOUS
    <2>2. DeviceBody(m, id, base) = <<6, id, 4, 0>> \o Cid(D, base) \o Cid(S, base)
      BY <2>1 DEF DeviceBody
    <2> QED BY <1>1, <1>2, <2>2, Zenon DEF OnAir
  <1>4. /\ b \in Bytes /\ Len(b) = 8
        /\ b[1] = 6
        /\ b[5] = x /\ b[6] = y /\ b[7] = u /\ b[8] = v
    BY IdFacts, Body8
  <1> HIDE DEF b
  <1>5. Len(b) \in Lengths /\ Len(b) >= 4 /\ Len(b) >= 8
    BY <1>4 DEF Lengths
  <1>6. /\ IsControlChannel(f) /\ ByteAt(f, 8) = b[1]
        /\ WordAt(f, 12) = b[5] + 256 * b[6]
        /\ \A c : OnAir(c, base, b[5], b[6]) => CidAt(f, 12, base) = c
        /\ \A c : OnAir(c, base, b[7], b[8]) => CidAt(f, 14, base) = c
    <2>1. SignalReads(f, h, base, b)
      BY <1>4, <1>5, DeviceSignal, Zenon
    <2> HIDE DEF f
    <2> QED BY <1>5, <2>1, Zenon DEF SignalReads
  <1> HIDE DEF f
  <1>7. IsControlChannel(f) /\ ByteAt(f, 8) = 6
    BY <1>4, <1>6, Zenon
  <1>8. CidAt(f, 12, base) = D /\ CidAt(f, 14, base) = S
    BY <1>1, <1>2, <1>4, <1>6, Zenon
  <1>9. DriverReads(f, base) = Visible(m)
    <2>1. Visible(m) = m
      BY DEF Visible
    <2> QED BY <1>7, <1>8, <2>1, DriverReadsFacts
  <1> QED BY <1>3, <1>9, Zenon DEF Received, f

LEMMA NoiseRead ==
    ASSUME NEW h \in Handles, NEW id \in Identifiers, NEW base \in CidBases
    PROVE  LET m == [type |-> "Noise"]
           IN  Received(m, h, id, base)
  <1> DEFINE m == [type |-> "Noise"]
  <1> DEFINE b == <<8, id, 0, 0>>
             f == DeviceFrame(h, <<1, 0>>, b)
  <1>1. DeviceBody(m, id, base) = b
    <2>1. m.type = "Noise"
      OBVIOUS
    <2>2. DeviceBody(m, id, base) = <<8, id, 0, 0>>
      BY <2>1 DEF DeviceBody
    <2> QED BY <2>2, Zenon DEF OnAir
  <1>2. /\ b \in Bytes /\ Len(b) = 4
        /\ b[1] = 8
    BY IdFacts DEF Bytes
  <1> HIDE DEF b
  <1>3. Len(b) \in Lengths /\ Len(b) >= 4
    BY <1>2 DEF Lengths
  <1>4. /\ IsControlChannel(f) /\ ByteAt(f, 8) = b[1]
    <2>1. SignalReads(f, h, base, b)
      BY <1>2, <1>3, DeviceSignal, Zenon
    <2> HIDE DEF f
    <2> QED BY <1>3, <2>1, Zenon DEF SignalReads
  <1> HIDE DEF f
  <1>5. IsControlChannel(f) /\ ByteAt(f, 8) = 8
    BY <1>2, <1>4, Zenon
  <1>6. DriverReads(f, base) = Visible(m)
    <2>1. Visible(m) = m
      BY DEF Visible
    <2> QED BY <1>5, <2>1, DriverReadsFacts
  <1> QED BY <1>1, <1>6, Zenon DEF Received, f

\* What a device sends reaches its handler with the ids in their places.
LEMMA ReceivedUnderstood ==
    ASSUME NEW h \in Handles, NEW id \in Identifiers, NEW base \in CidBases,
           NEW m \in HostMessages
    PROVE  Received(m, h, id, base)
  <1>1. CASE m \in [type : {"ConnectionRequest"}, psm : Psms, scid : AnyCid]
    <2>1. m = [type |-> "ConnectionRequest", psm |-> m.psm, scid |-> m.scid]
          /\ m.psm \in Psms /\ m.scid \in AnyCid
      BY <1>1
    <2> QED BY <2>1, ConnectionRequestRead
  <1>2. CASE m \in [type : {"ConfigurationRequest"}, dcid : AnyCid]
    <2>1. m = [type |-> "ConfigurationRequest", dcid |-> m.dcid]
          /\ m.dcid \in AnyCid
      BY <1>2
    <2> QED BY <2>1, ConfigurationAsked
  <1>3. CASE m \in [type : {"ConfigurationResponse"}, scid : AnyCid,
                    agreed : BOOLEAN]
    <2>1. m = [type |-> "ConfigurationResponse", scid |-> m.scid,
               agreed |-> m.agreed]
          /\ m.scid \in AnyCid /\ m.agreed \in BOOLEAN
      BY <1>3
    <2> QED BY <2>1, ConfigurationAnswered
  <1>4. CASE m \in [type : {"DisconnectionRequest"}, dcid : AnyCid, scid : AnyCid]
    <2>1. m = [type |-> "DisconnectionRequest", dcid |-> m.dcid, scid |-> m.scid]
          /\ m.dcid \in AnyCid /\ m.scid \in AnyCid
      BY <1>4
    <2> QED BY <2>1, DisconnectionRequestRead
  <1>5. CASE m \in [type : {"Noise"}]
    <2>1. m = [type |-> "Noise"]
      BY <1>5
    <2> QED BY <2>1, NoiseRead
  <1> QED BY <1>1, <1>2, <1>3, <1>4, <1>5 DEF HostMessages

-----------------------------------------------------------------------------
(* Reports, the end of a link, and the theorem.                            *)

\* What the driver does with a frame on another channel than that of signals.
\* What becomes of HID data of a device that begins with head.
Delivered(h, cid, head) ==
    DriverReads(DeviceFrame(h, cid, <<head, 1, 0>>), 0).type

LEMMA HidDelivered ==
    ASSUME NEW h \in Handles, NEW x \in Nat, NEW y \in Nat, ~(x = 1 /\ y = 0),
           NEW head \in Nat
    PROVE  Delivered(h, <<x, y>>, head)
             = IF head = 161 THEN "Report" ELSE "Dropped"
  <1> DEFINE b == <<head, 1, 0>>
             f == HID_Command(StoredHandle(h), <<x, y>>, b)
  <1>1. b \in Bytes /\ Len(b) = 3 /\ b[1] = head /\ b[2] = 1
    BY DEF Bytes
  <1> HIDE DEF b
  <1>2. Len(b) \in Lengths
    BY <1>1 DEF Lengths
  <1>3. b \in Bytes
    BY <1>1
  <1>4. /\ f[7] = x /\ f[8] = y
        /\ \A j \in 1..Len(b) : f[8 + j] = b[j]
    BY <1>3, <1>2, FrameFacts
  <1> HIDE DEF f
  <1>5. f[9] = b[1] /\ f[10] = b[2]
    BY ONLY <1>1, <1>4
  <1>6. /\ ~IsControlChannel(f) /\ ByteAt(f, 8) = head /\ ByteAt(f, 9) = 1
    BY <1>1, <1>4, <1>5, BytePlaces, Zenon
  <1>7. IsInputReport(f) <=> head = 161
    BY <1>6, Zenon DEF IsInputReport
  <1>8. DriverReads(f, 0)
          = [type |-> IF IsInputReport(f) THEN "Report" ELSE "Dropped"]
    BY <1>6, DriverReadsHid, Zenon
  <1>9. DriverReads(f, 0).type = IF head = 161 THEN "Report" ELSE "Dropped"
    BY <1>7, <1>8
  <1> QED BY <1>9, Zenon DEF Delivered, DeviceFrame, f, b

\* So of a HID channel only input reports are delivered, whatever its id.
LEMMA ReportsDelivered ==
    ASSUME NEW h \in Handles, NEW base \in CidBases, NEW c \in AnyCid
    PROVE  OnlyReportsDelivered(h, Cid(c, base))
  <1>1. PICK x, y \in Nat : OnAir(c, base, x, y)
    BY CidOnAir, Zenon
  <1>2. Cid(c, base) = <<x, y>> /\ ~(x = 1 /\ y = 0)
    BY <1>1, Zenon DEF OnAir
  <1>3. \A head \in Nat :
           Delivered(h, <<x, y>>, head)
             = IF head = 161 THEN "Report" ELSE "Dropped"
    BY <1>2, HidDelivered
  <1>4. /\ Delivered(h, <<x, y>>, 161) = "Report"
        /\ \A head \in {0, 82, 83, 163} :
              Delivered(h, <<x, y>>, head) = "Dropped"
    BY <1>3
  <1>5. OnlyReportsDelivered(h, <<x, y>>)
    BY <1>4, Zenon DEF OnlyReportsDelivered, Delivered
  <1> QED BY <1>2, <1>5, Zenon

\* HCI_Disconnect names the link by the handle it came with.
LEMMA DisconnectRead ==
    ASSUME NEW h \in Handles
    PROVE  WordAt(HCI_Disconnect(StoredHandle(h)), 3) = h
  <1>1. PICK x, y \in Nat :
           /\ StoredHandle(h) = <<x, y>> /\ SetFlag(y) = y
           /\ y >= 32 /\ ToggleFlag(y) = y - 32
           /\ x + 256 * (y - 32) = h
    BY StoredHandleFacts, Zenon
  <1>2. PICK z \in Nat : z = y - 32
    BY <1>1
  <1>3. HCI_Disconnect(<<x, y>>) = <<6, 4, 3, x, z, 19>>
    BY <1>1, <1>2 DEF HCI_Disconnect
  <1>4. WordAt(<<6, 4, 3, x, z, 19>>, 3) = x + 256 * z
    BY DEF WordAt, ByteAt
  <1> QED BY <1>1, <1>2, <1>3, <1>4, Zenon

\* The messages on the way are of the kinds above.
LEMMA TypeGivesUnderstood == TypeOK => UnderstoodAsMeant
  <1> SUFFICES ASSUME TypeOK, NEW d \in Devices, NEW h \in Handles,
                      NEW id \in Identifiers, NEW base \in CidBases
               PROVE  /\ \A i \in DOMAIN toRemote[d] :
                         LET frame == Frame(toRemote[d][i], h, id, base) IN
                         /\ DeviceReads(frame, base) = toRemote[d][i]
                         /\ WellFormed(toRemote[d][i], frame)
                         /\ SubSeq(frame, 1, 2) = StoredHandle(h)
                         /\ IsControlChannel(frame) => ByteAt(frame, 9) = id
                      /\ \A i \in DOMAIN toHost[d] :
                         LET m == toHost[d][i] IN
                         DriverReads(DeviceFrame(h, <<1, 0>>,
                             DeviceBody(m, id, base)), base) = Visible(m)
                      /\ \A p \in HidPsms : remote[d][p].state = "open" =>
                         OnlyReportsDelivered(h, Cid(remote[d][p].peer, base))
                      /\ acl[d] = "closing" =>
                         WordAt(HCI_Disconnect(StoredHandle(h)), 3) = h
    BY DEF UnderstoodAsMeant
  <1>1. ASSUME NEW i \in DOMAIN toRemote[d]
        PROVE  LET frame == Frame(toRemote[d][i], h, id, base) IN
               /\ DeviceReads(frame, base) = toRemote[d][i]
               /\ WellFormed(toRemote[d][i], frame)
               /\ SubSeq(frame, 1, 2) = StoredHandle(h)
               /\ IsControlChannel(frame) => ByteAt(frame, 9) = id
    <2>1. toRemote[d][i] \in RemoteMessages
      BY DEF TypeOK
    <2> QED BY <2>1, SentUnderstood, Zenon DEF Understood
  <1>2. ASSUME NEW i \in DOMAIN toHost[d]
        PROVE  LET m == toHost[d][i] IN
               DriverReads(DeviceFrame(h, <<1, 0>>, DeviceBody(m, id, base)), base)
                 = Visible(m)
    <2>1. toHost[d][i] \in HostMessages
      BY DEF TypeOK
    <2> QED BY <2>1, ReceivedUnderstood, Zenon DEF Received
  <1>3. ASSUME NEW p \in HidPsms
        PROVE  OnlyReportsDelivered(h, Cid(remote[d][p].peer, base))
    <2>1. remote[d][p].peer \in AnyCid
      BY DEF TypeOK, Channels, Psms
    <2> QED BY <2>1, ReportsDelivered, Zenon
  <1> QED BY <1>1, <1>2, <1>3, DisconnectRead, Zenon

\* Every message on the way means the same to both ends, whatever the handle
\* of the link, the identifiers and the ids of the channels (L2CAP.c:74-200,
\* L2CAP.h:195-357, Ds3.c:72-92, Bulkrwr.c:244-374).  Of the state it takes
\* no more than the types: the builders and the structures that are laid over
\* a frame agree about every message there can be.
THEOREM UnderstoodCorrect == Spec => []UnderstoodAsMeant
  BY TypeCorrect, TypeGivesUnderstood, PTL
=============================================================================
