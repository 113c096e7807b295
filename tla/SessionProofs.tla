---------------------------- MODULE SessionProofs ----------------------------
(***************************************************************************)
(* Proofs about Session, for any numbers of connections, notices and       *)
(* events.                                                                 *)
(*                                                                         *)
(* The argument is about the numbers of the messages.  Those of the packet *)
(* in hand, of the packets on their way and of the server follow on one    *)
(* another without a gap, across Multis.  Message 1 asks for the key and   *)
(* message 2 acknowledges it, so the number of the last message handled    *)
(* says which key the read loop has, the number of a message which key it  *)
(* is encrypted with, and the number of messages sent which key the server *)
(* has.                                                                    *)
(***************************************************************************)
EXTENDS Session, TLAPS

\* What the server sends, but for Multis.
LeafKinds == {"encryptRequest", "encryptResult", "encryptFailed", "logonOk", "logonFailed",
              "notice", "bad"}

\* A message that is not a Multi.
Leaf ==
    {m \in [kind: LeafKinds, n: 1 .. sent, body: {<< >>}]:
        /\ m.n = 1 <=> m.kind = "encryptRequest"
        /\ m.n = 2 <=> m.kind \in {"encryptResult", "encryptFailed"}
        /\ m.kind = "logonOk" => conn \in accepted}

\* A message in a Multi comes after the exchange of keys, alone or in a Multi
\* of its own.
Inner == {m \in Leaf: m.n > 2}
Small == Inner \cup {m \in [kind: {"multi"}, n: {0}, body: Seq(Inner)]: Len(m.body) = 1}

\* The number of a message in a Multi.
NumberOf(m) == IF m.kind = "multi" THEN m.body[1].n ELSE m.n

\* The numbers of the first and the last message in m.
FirstOf(m) == IF m.kind = "multi" THEN NumberOf(m.body[1]) ELSE m.n
LastOf(m) == IF m.kind = "multi" THEN NumberOf(m.body[Len(m.body)]) ELSE m.n

\* The messages of s follow on one another.
InOrder(s) == \A i \in 1 .. Len(s) - 1: FirstOf(s[i + 1]) = LastOf(s[i]) + 1

\* What a packet holds: one message, or a Multi of some that follow on one another.
Message ==
    Leaf \cup {m \in [kind: {"multi"}, n: {0}, body: Seq(Small)]:
                  m.body # << >> /\ InOrder(m.body)}

\* A message is encrypted if it comes after the exchange of keys.
KeyFor(m) == IF FirstOf(m) <= 2 THEN 0 ELSE conn

\* The number of the last message in hand.
InHand == IF work = << >> THEN last ELSE LastOf(work[Len(work)])

\* The messages in hand: the first is the next to handle, or the one last
\* handled while its handler waits.
Handled ==
    /\ InOrder(work)
    /\ work # << >> => FirstOf(work[1]) = IF pc = "handle" THEN last + 1 ELSE last
    /\ pc \in {"connected", "loggedOn", "request"} => work[1] \in Leaf

\* The packets on their way come after the messages in hand and end with the
\* last one sent.
OnTheirWay ==
    /\ \A i \in 1 .. Len(toClient): toClient[i].key = KeyFor(toClient[i].message)
    /\ \A i \in 1 .. Len(toClient) - 1:
          FirstOf(toClient[i + 1].message) = LastOf(toClient[i].message) + 1
    /\ IF toClient = << >> THEN InHand = sent
       ELSE /\ FirstOf(toClient[1].message) = InHand + 1
            /\ LastOf(toClient[Len(toClient)].message) = sent

Packets == [message: Message, key: {0, conn}]

\* The stream of messages, while it is read.
Stream ==
    /\ work \in Seq(Message) /\ toClient \in Seq(Packets)
    /\ pc # "down" => Handled /\ OnTheirWay

\* Where the exchange of keys is.
Keys ==
    /\ stage = "new" => sent = 0
    /\ stage = "asked" => sent = 1
    /\ stage = "keyed" => sent >= 2
    /\ skey = IF sent >= 2 THEN conn ELSE 0
    /\ key # 0 => key = conn /\ skey = conn
    /\ pc # "down" => key = (IF last >= 2 THEN conn ELSE 0) /\ (last = 1 => sessionKey = conn)

\* What is announced of connection n is true of it.
Announced(e, n) ==
    /\ n \in 1 .. conn
    /\ e = "connected" /\ n = conn => key = conn
    /\ e = "loggedOn" => n \in accepted

\* Every event on its way, and the one the user acts on, is true.
Announcements ==
    /\ \A n \in Conns: \A i \in 1 .. Len(incoming[n]): Announced(incoming[n][i], n)
    /\ \A i \in 1 .. Len(events): Announced(events[i].kind, events[i].conn)
    /\ user # 0 => Announced("connected", user)
    /\ pc = "connected" => key = conn
    /\ pc = "loggedOn" => conn \in accepted

EventKinds == {"connected", "loggedOn", "other"}
UserEvents == [kind: EventKinds, conn: 1 .. conn]
Requests == [kind: {"response", "logon", "request"}, key: {0, conn}, what: 0 .. conn]

\* The types of the other variables.
Types ==
    /\ conn \in 0 .. MaxConns
    /\ conn = 0 => pc = "down" /\ stage = "new" /\ toServer = << >>
    /\ pc \in {"down", "read", "handle", "connected", "loggedOn", "request"}
    /\ (work = << >>) <=> (pc \in {"down", "read"})
    /\ sessionKey \in {0, conn} /\ key \in {0, conn} /\ skey \in {0, conn} /\ ids \in {0, conn}
    /\ stage \in {"new", "asked", "keyed", "gone"}
    /\ sent \in Nat /\ last \in 0 .. sent /\ notices \in 0 .. MaxNotices
    /\ accepted \subseteq 1 .. conn /\ forwarders \subseteq 1 .. conn
    /\ toServer \in Seq(Requests)
    /\ incoming \in [Conns -> Seq(EventKinds)] /\ \A n \in Conns: Len(incoming[n]) <= Cap
    /\ events \in Seq(UserEvents) /\ Len(events) <= EventCap
    /\ user \in 0 .. conn

\* What the client wrote: the key it made, and logons that are encrypted if the
\* user was told of this connection.
Written ==
    \A i \in 1 .. Len(toServer):
        /\ toServer[i].kind = "response" => toServer[i].what = conn
        /\ toServer[i].kind = "logon" /\ toServer[i].what = conn =>
              toServer[i].key = conn /\ key = conn

\* The inductive invariant.
SInv == Types /\ Stream /\ Keys /\ Announcements /\ Written

-----------------------------------------------------------------------------
(* Sequences.                                                              *)

\* Taking the head off a queue.
LEMMA TailSeq ==
    ASSUME NEW S, NEW s \in Seq(S), s # << >>
    PROVE  /\ Tail(s) \in Seq(S) /\ Len(Tail(s)) = Len(s) - 1 /\ Len(s) \in Nat \ {0}
           /\ \A i \in 1 .. Len(s) - 1: Tail(s)[i] = s[i + 1]
           /\ Head(s) = s[1] /\ s[1] \in S /\ s[Len(s)] \in S
           /\ IF Tail(s) = << >> THEN Len(s) = 1 ELSE Tail(s)[Len(Tail(s))] = s[Len(s)]
  <1>1. /\ Len(s) \in Nat /\ Len(s) > 0
        /\ Tail(s) \in Seq(S) /\ Len(Tail(s)) = Len(s) - 1
        /\ \A i \in 1 .. Len(s) - 1: Tail(s)[i] = s[i + 1]
        /\ Head(s) = s[1] /\ s[1] \in S /\ s[Len(s)] \in S
    OBVIOUS
  <1>2. Tail(s) # << >> => Tail(s)[Len(Tail(s))] = s[Len(s)]
    BY <1>1
  <1>3. Tail(s) = << >> => Len(s) = 1
    <2>1. ASSUME NEW q, q = << >> PROVE Len(q) = 0
      BY <2>1
    <2>2. Tail(s) = << >> => Len(Tail(s)) = 0
      BY <2>1, Zenon
    <2>3. ASSUME NEW a \in Nat, NEW b, b = a - 1, b = 0 PROVE a = 1
      BY <2>3
    <2> QED BY <1>1, <2>2, <2>3, Zenon
  <1>4. Len(s) \in Nat \ {0}
    BY <1>1
  <1> QED BY <1>1, <1>2, <1>3, <1>4, Zenon

\* Appending to a queue.
LEMMA AppendSeq ==
    ASSUME NEW S, NEW s \in Seq(S), NEW e \in S
    PROVE  /\ Append(s, e) \in Seq(S) /\ Len(Append(s, e)) = Len(s) + 1 /\ Len(s) \in Nat
           /\ \A i \in 1 .. Len(s): Append(s, e)[i] = s[i]
           /\ Append(s, e)[Len(s) + 1] = e /\ Append(s, e) # << >>
  OBVIOUS

-----------------------------------------------------------------------------
(* Messages.                                                               *)

\* A message that is not a Multi: its number tells its kind.
LEMMA LeafForm ==
    ASSUME NEW m \in Leaf, sent \in Nat
    PROVE  /\ m.kind \in LeafKinds /\ m.kind # "multi" /\ m.n \in 1 .. sent
           /\ FirstOf(m) = m.n /\ LastOf(m) = m.n /\ NumberOf(m) = m.n
           /\ m.n = 1 <=> m.kind = "encryptRequest"
           /\ m.n = 2 <=> m.kind \in {"encryptResult", "encryptFailed"}
           /\ m.kind = "logonOk" => conn \in accepted
  <1>1. m \in [kind: LeafKinds, n: 1 .. sent, body: {<< >>}]
    BY DEF Leaf
  <1>2. m.kind \in LeafKinds /\ m.kind # "multi" /\ m.n \in 1 .. sent
    BY <1>1 DEF LeafKinds
  <1>3. FirstOf(m) = m.n /\ LastOf(m) = m.n /\ NumberOf(m) = m.n
    BY <1>2 DEF FirstOf, LastOf, NumberOf
  <1> QED BY <1>2, <1>3 DEF Leaf

\* A message in a Multi comes after the exchange of keys.
LEMMA SmallForm ==
    ASSUME NEW m \in Small, sent \in Nat
    PROVE  /\ NumberOf(m) \in 3 .. sent /\ FirstOf(m) = NumberOf(m) /\ LastOf(m) = NumberOf(m)
           /\ m \in Message
  <1>1. CASE m \in Inner
    BY <1>1, LeafForm DEF Inner, Message
  <1>2. CASE m \in [kind: {"multi"}, n: {0}, body: Seq(Inner)] /\ Len(m.body) = 1
    <2>1. m.kind = "multi" /\ m.body \in Seq(Inner) /\ m.body[1] \in Inner /\ m.body # << >>
      BY <1>2
    <2>2. m.body[1] \in Leaf /\ m.body[1].n \in 3 .. sent /\ NumberOf(m.body[1]) = m.body[1].n
      BY <2>1, LeafForm DEF Inner
    <2>3. m.body \in Seq(Small)
      BY <2>1 DEF Small
    <2>4. InOrder(m.body)
      BY <1>2 DEF InOrder
    <2> QED BY <1>2, <2>1, <2>2, <2>3, <2>4 DEF NumberOf, FirstOf, LastOf, Message
  <1> QED BY <1>1, <1>2 DEF Small

\* A message of a packet, in numbers.
LEMMA MessageForm ==
    ASSUME NEW m \in Message, sent \in Nat
    PROVE  /\ FirstOf(m) \in 1 .. sent /\ LastOf(m) \in 1 .. sent
           /\ m.kind # "multi" => m \in Leaf
           /\ m.kind = "multi" =>
                 /\ m.body \in Seq(Message) /\ m.body # << >> /\ InOrder(m.body)
                 /\ FirstOf(m.body[1]) = FirstOf(m) /\ LastOf(m.body[Len(m.body)]) = LastOf(m)
                 /\ FirstOf(m) > 2
  <1>1. CASE m \in Leaf
    BY <1>1, LeafForm
  <1>2. CASE /\ m \in [kind: {"multi"}, n: {0}, body: Seq(Small)]
             /\ m.body # << >> /\ InOrder(m.body)
    <2>1. /\ m.kind = "multi" /\ m.body \in Seq(Small) /\ m.body[1] \in Small
          /\ m.body[Len(m.body)] \in Small
      BY <1>2
    <2>2. m.body \in Seq(Message)
      BY <2>1, SmallForm
    <2>3. /\ NumberOf(m.body[1]) \in 3 .. sent /\ NumberOf(m.body[Len(m.body)]) \in 3 .. sent
          /\ FirstOf(m.body[1]) = NumberOf(m.body[1])
          /\ LastOf(m.body[Len(m.body)]) = NumberOf(m.body[Len(m.body)])
      BY <2>1, SmallForm
    <2>4. FirstOf(m) = NumberOf(m.body[1]) /\ LastOf(m) = NumberOf(m.body[Len(m.body)])
      BY <2>1 DEF FirstOf, LastOf
    <2> QED BY <1>2, <2>1, <2>2, <2>3, <2>4
  <1> QED BY <1>1, <1>2 DEF Message

\* A message stays one as the server sends more and accepts a logon.
LEMMA MessageStays ==
    ASSUME sent \in Nat, sent' \in Nat, sent <= sent', accepted \subseteq accepted', conn' = conn
    PROVE  Leaf \subseteq Leaf' /\ Message \subseteq Message'
  <1>1. Leaf \subseteq Leaf'
    BY DEF Leaf
  <1>2. Inner \subseteq Inner'
    BY <1>1 DEF Inner
  <1>3. Small \subseteq Small'
    BY <1>2 DEF Small
  <1>4. ASSUME NEW m \in Message PROVE m \in Message'
    <2>1. CASE m \in Leaf
      BY <1>1, <2>1 DEF Message
    <2>2. CASE m \in [kind: {"multi"}, n: {0}, body: Seq(Small)] /\ m.body # << >> /\ InOrder(m.body)
      <3>1. m \in [kind: {"multi"}, n: {0}, body: Seq(Small')]
        <4>1. m.body \in Seq(Small)
          BY <2>2
        <4>2. m.body \in Seq(Small')
          BY <1>3, <4>1
        <4> QED BY <2>2, <4>2
      <3> QED BY <2>2, <3>1 DEF Message
    <2> QED BY <1>4, <2>1, <2>2 DEF Message
  <1> QED BY <1>1, <1>4

\* What is left of messages in order is in order.
LEMMA InOrderTail ==
    ASSUME NEW s \in Seq(Message), s # << >>, InOrder(s)
    PROVE  /\ InOrder(Tail(s))
           /\ Tail(s) # << >> => FirstOf(Tail(s)[1]) = LastOf(s[1]) + 1
  <1>1. /\ Len(s) \in Nat /\ Len(s) > 0
        /\ Tail(s) \in Seq(Message) /\ Len(Tail(s)) = Len(s) - 1
        /\ \A i \in 1 .. Len(s) - 1: Tail(s)[i] = s[i + 1]
    BY TailSeq
  <1>2. InOrder(Tail(s))
    <2> SUFFICES ASSUME NEW i \in 1 .. Len(s) - 2
                 PROVE  FirstOf(Tail(s)[i + 1]) = LastOf(Tail(s)[i]) + 1
      BY <1>1 DEF InOrder
    <2>1. Tail(s)[i + 1] = s[(i + 1) + 1] /\ Tail(s)[i] = s[i + 1]
      BY <1>1
    <2> QED BY <1>1, <2>1 DEF InOrder
  <1>3. Tail(s) # << >> => Len(s) > 1
    BY <1>1
  <1>4. Len(s) > 1 => FirstOf(Tail(s)[1]) = LastOf(s[1]) + 1
    BY <1>1 DEF InOrder
  <1> QED BY <1>2, <1>3, <1>4

\* A body in place of its Multi.
LEMMA InOrderUnpack ==
    ASSUME NEW b \in Seq(Message), b # << >>, InOrder(b),
           NEW t \in Seq(Message), InOrder(t),
           t # << >> => FirstOf(t[1]) = LastOf(b[Len(b)]) + 1
    PROVE  /\ b \o t \in Seq(Message) /\ InOrder(b \o t) /\ b \o t # << >>
           /\ (b \o t)[1] = b[1]
           /\ (b \o t)[Len(b \o t)] = IF t = << >> THEN b[Len(b)] ELSE t[Len(t)]
  <1>1. /\ b \o t \in Seq(Message) /\ Len(b \o t) = Len(b) + Len(t)
        /\ \A i \in 1 .. Len(b) + Len(t):
              (b \o t)[i] = IF i <= Len(b) THEN b[i] ELSE t[i - Len(b)]
    OBVIOUS
  <1>2. Len(b) \in Nat /\ Len(b) > 0 /\ Len(t) \in Nat /\ (t = << >> <=> Len(t) = 0)
    OBVIOUS
  <1>3. ASSUME NEW i \in 1 .. Len(b) + Len(t) - 1
        PROVE  FirstOf((b \o t)[i + 1]) = LastOf((b \o t)[i]) + 1
    <2>1. CASE i < Len(b)
      BY <1>1, <1>2, <2>1 DEF InOrder
    <2>2. CASE i = Len(b)
      <3>1. (b \o t)[i] = b[Len(b)] /\ (b \o t)[i + 1] = t[1] /\ t # << >>
        BY <1>1, <1>2, <2>2
      <3> QED BY <3>1
    <2>3. CASE i > Len(b)
      <3>1. (b \o t)[i] = t[i - Len(b)] /\ (b \o t)[i + 1] = t[(i - Len(b)) + 1]
        BY <1>1, <1>2, <2>3
      <3>2. i - Len(b) \in 1 .. Len(t) - 1
        BY <1>2, <2>3
      <3> QED BY <3>1, <3>2 DEF InOrder
    <2> QED BY <1>2, <2>1, <2>2, <2>3
  <1>4. InOrder(b \o t)
    BY <1>1, <1>3 DEF InOrder
  <1> QED BY <1>1, <1>2, <1>4

\* A packet the server sends holds the next w messages.
LEMMA PacketForm ==
    ASSUME sent \in Nat, NEW kind, NEW w \in 1 .. 3, sent' = sent + w,
           \/ kind = "encryptRequest" /\ sent = 0 /\ w = 1
           \/ kind \in {"encryptResult", "encryptFailed"} /\ sent = 1 /\ w = 1
           \/ kind \in {"logonOk", "logonFailed", "notice", "bad"} /\ sent >= 2,
           kind = "logonOk" => (conn \in accepted)'
    PROVE  /\ Packet(kind, w) \in Message'
           /\ FirstOf(Packet(kind, w)) = sent + 1 /\ LastOf(Packet(kind, w)) = sent + w
  <1>1. CASE w = 1
    <2>1. Packet(kind, w) = Plain(kind, sent + 1)
      <3>1. w # 2 /\ w # 3
        BY <1>1
      <3> QED BY <1>1, <3>1, Zenon DEF Packet
    <2>2. Plain(kind, sent + 1) \in Leaf'
      BY <1>1 DEF Plain, Leaf, LeafKinds
    <2> QED BY <1>1, <2>1, <2>2 DEF Plain, FirstOf, LastOf, Message
  <1> SUFFICES ASSUME w # 1 PROVE /\ Packet(kind, w) \in Message'
                                  /\ FirstOf(Packet(kind, w)) = sent + 1
                                  /\ LastOf(Packet(kind, w)) = sent + w
    BY <1>1
  <1>2. /\ sent >= 2 /\ w \in {2, 3}
        /\ \A n \in sent + 1 .. sent + w: Plain(kind, n) \in Inner' /\ Plain("notice", n) \in Inner'
    BY DEF Plain, Inner, Leaf, LeafKinds
  <1>3. \A n \in sent + 1 .. sent + w:
            /\ Plain(kind, n) \in Small' /\ Plain("notice", n) \in Small'
            /\ FirstOf(Plain(kind, n)) = n /\ LastOf(Plain(kind, n)) = n
            /\ NumberOf(Plain(kind, n)) = n /\ NumberOf(Plain("notice", n)) = n
            /\ FirstOf(Plain("notice", n)) = n /\ LastOf(Plain("notice", n)) = n
    BY <1>2 DEF Small, FirstOf, LastOf, NumberOf, Plain
  <1>4. CASE w = 2
    <2> DEFINE b == <<Plain(kind, sent + 1), Plain("notice", sent + 2)>>
    <2>1. Packet(kind, w) = Multi(b)
      <3>1. (sent + 1) + 1 = sent + 2 /\ w # 1 /\ w # 3
        BY <1>4
      <3> QED BY <1>4, <3>1, Zenon DEF Packet
    <2>2. b \in Seq(Small') /\ Len(b) = 2 /\ b # << >>
      BY <1>3, <1>4
    <2>3. InOrder(b)
      BY <1>3, <1>4 DEF InOrder
    <2>4. Multi(b) \in Message'
      <3> HIDE DEF b
      <3> QED BY <2>2, <2>3 DEF Multi, Message
    <2>5. FirstOf(Multi(b)) = sent + 1 /\ LastOf(Multi(b)) = sent + 2
      BY <1>3, <1>4 DEF Multi, FirstOf, LastOf
    <2> QED BY <1>4, <2>1, <2>4, <2>5
  <1>5. CASE w = 3
    <2> DEFINE i == <<Plain(kind, sent + 2)>>
    <2> DEFINE b == <<Plain("notice", sent + 1), Multi(i), Plain("notice", sent + 3)>>
    <2>1. Packet(kind, w) = Multi(b)
      <3>1. (sent + 1) + 1 = sent + 2 /\ (sent + 1) + 2 = sent + 3 /\ w # 1 /\ w # 2
        BY <1>5
      <3> QED BY <1>5, <3>1, Zenon DEF Packet
    <2>2. Multi(i) \in Small' /\ NumberOf(Multi(i)) = sent + 2
      <3>1. i \in Seq(Inner') /\ Len(i) = 1
        BY <1>2, <1>5
      <3>2. i[1].n = sent + 2
        BY DEF Plain
      <3> HIDE DEF i
      <3> QED BY <3>1, <3>2 DEF Multi, Small, NumberOf
    <2>3. FirstOf(Multi(i)) = sent + 2 /\ LastOf(Multi(i)) = sent + 2
      <3>1. Len(i) = 1 /\ NumberOf(i[1]) = sent + 2
        BY <1>3, <1>5
      <3> HIDE DEF i
      <3> QED BY <3>1 DEF Multi, FirstOf, LastOf
    <2> HIDE DEF i
    <2>4. b \in Seq(Small') /\ Len(b) = 3 /\ b # << >>
      BY <1>3, <1>5, <2>2
    <2>5. InOrder(b)
      BY <1>3, <1>5, <2>3 DEF InOrder
    <2>6. FirstOf(Multi(b)) = sent + 1 /\ LastOf(Multi(b)) = sent + 3
      BY <1>3, <1>5, <2>2 DEF Multi, FirstOf, LastOf
    <2>7. Multi(b) \in Message'
      <3> HIDE DEF b
      <3> QED BY <2>4, <2>5 DEF Multi, Message
    <2> QED BY <1>5, <2>1, <2>6, <2>7
  <1> QED BY <1>2, <1>4, <1>5

-----------------------------------------------------------------------------
(* The stream.                                                             *)

\* What is kept of the stream by a step that sends nothing.
LEMMA StreamKept ==
    ASSUME Types, Stream, UNCHANGED <<conn, sent, accepted>>
    PROVE  /\ Message' = Message /\ Leaf' = Leaf /\ Packets' = Packets
           /\ toClient' = toClient /\ InHand' = InHand /\ OnTheirWay => OnTheirWay'
  <1>1. Leaf' = Leaf
    BY DEF Leaf
  <1>2. Small' = Small
    BY <1>1 DEF Small, Inner
  <1>3. Message' = Message
    BY <1>1, <1>2 DEF Message
  <1>4. Packets' = Packets
    BY <1>3 DEF Packets
  <1> QED BY <1>1, <1>3, <1>4 DEF OnTheirWay, KeyFor

\* Steps that leave the stream and what it depends on alone.
LEMMA StreamSame ==
    ASSUME Types, Stream, UNCHANGED <<conn, sent, accepted, pc, work, last, toClient>>
    PROVE  Stream'
  <1>1. InHand' = InHand
    BY DEF InHand
  <1> QED BY <1>1, StreamKept DEF Stream, Handled

\* The loop ends.
LEMMA StreamEnds ==
    ASSUME Types, Stream, UNCHANGED <<conn, sent, accepted>>, pc' = "down",
           work' \in {work, << >>}, toClient' \in Seq(Packets)
    PROVE  Stream'
  <1>1. work' \in Seq(Message)
    <2>1. << >> \in Seq(Message)
      OBVIOUS
    <2> QED BY <2>1, Zenon DEF Stream
  <1>2. Message' = Message /\ Packets' = Packets
    BY StreamKept
  <1> QED BY <1>1, <1>2 DEF Stream

\* A handler has begun and waits, or goes on waiting.
LEMMA StreamWaits ==
    ASSUME Types, Stream, UNCHANGED <<conn, sent, accepted, work, toClient>>,
           pc # "down", work # << >>, work[1] \in Leaf, last' = work[1].n,
           pc' \in {"connected", "loggedOn", "request"}
    PROVE  Stream'
  <1>1. InHand' = InHand
    BY DEF InHand
  <1>2. FirstOf(work[1]) = work[1].n
    BY LeafForm DEF Types
  <1> QED BY <1>1, <1>2, StreamKept DEF Stream, Handled

\* A message has been handled.
LEMMA StreamDone ==
    ASSUME Types, Stream, UNCHANGED <<conn, sent, accepted, toClient>>,
           pc # "down", work # << >>, work[1] \in Leaf, last' = work[1].n, Done
    PROVE  Stream'
  <1>1. work \in Seq(Message) /\ InOrder(work) /\ OnTheirWay
    BY DEF Stream, Handled
  <1>2. LastOf(work[1]) = last'
    BY LeafForm DEF Types
  <1>3. /\ Tail(work) \in Seq(Message) /\ InOrder(Tail(work))
        /\ Tail(work) # << >> => FirstOf(Tail(work)[1]) = last' + 1
    BY <1>1, <1>2, InOrderTail, TailSeq
  <1>4. InHand' = InHand
    <2>1. IF Tail(work) = << >> THEN Len(work) = 1 ELSE Tail(work)[Len(Tail(work))] = work[Len(work)]
      BY <1>1, TailSeq
    <2>2. CASE Tail(work) = << >>
      BY <1>2, <2>1, <2>2 DEF InHand, Done
    <2>3. CASE Tail(work) # << >>
      BY <2>1, <2>3 DEF InHand, Done
    <2> QED BY <2>2, <2>3
  <1>5. Handled'
    BY <1>3 DEF Handled, Done
  <1> QED BY <1>1, <1>3, <1>4, <1>5, StreamKept DEF Stream, Done

\* A Multi is replaced by its body.
LEMMA StreamUnpacks ==
    ASSUME Types, Stream, HandleMulti
    PROVE  Stream' /\ work' # << >>
  <1>1. /\ pc = "handle" /\ pc' = pc /\ Head(work).kind = "multi" /\ last' = last
        /\ work' = Head(work).body \o Tail(work) /\ UNCHANGED <<conn, sent, accepted, toClient>>
    BY DEF HandleMulti, Handling, Unpack, serverVars
  <1>2. work \in Seq(Message) /\ work # << >> /\ InOrder(work) /\ OnTheirWay /\ sent \in Nat
        /\ FirstOf(work[1]) = last + 1
    BY <1>1 DEF Types, Stream, Handled
  <1>3. Head(work) = work[1] /\ work[1] \in Message
    BY <1>2, TailSeq
  <1> DEFINE b == work[1].body
  <1>4. /\ b \in Seq(Message) /\ b # << >> /\ InOrder(b)
        /\ FirstOf(b[1]) = FirstOf(work[1]) /\ LastOf(b[Len(b)]) = LastOf(work[1])
    BY <1>1, <1>2, <1>3, MessageForm
  <1>5. /\ Tail(work) \in Seq(Message) /\ InOrder(Tail(work))
        /\ Tail(work) # << >> => FirstOf(Tail(work)[1]) = LastOf(work[1]) + 1
        /\ IF Tail(work) = << >> THEN Len(work) = 1 ELSE Tail(work)[Len(Tail(work))] = work[Len(work)]
    BY <1>2, InOrderTail, TailSeq
  <1>6. work' = b \o Tail(work)
    BY <1>1, <1>3
  <1> HIDE DEF b
  <1>7. /\ work' \in Seq(Message) /\ InOrder(work') /\ work' # << >> /\ work'[1] = b[1]
        /\ work'[Len(work')] = IF Tail(work) = << >> THEN b[Len(b)] ELSE Tail(work)[Len(Tail(work))]
    BY <1>4, <1>5, <1>6, InOrderUnpack, ZenonT(40)
  <1>8. InHand' = InHand
    <2>1. LastOf(work'[Len(work')]) = LastOf(work[Len(work)])
      <3>1. CASE Tail(work) = << >>
        BY <1>4, <1>5, <1>7, <3>1
      <3>2. CASE Tail(work) # << >>
        BY <1>5, <1>7, <3>2
      <3> QED BY <3>1, <3>2
    <2> QED BY <1>2, <1>7, <2>1 DEF InHand
  <1>9. Handled'
    BY <1>1, <1>2, <1>4, <1>7 DEF Handled
  <1> QED BY <1>1, <1>2, <1>7, <1>8, <1>9, StreamKept DEF Stream

\* A packet is read with its key.
LEMMA StreamReads ==
    ASSUME Types, Stream, ReadPacket
    PROVE  Stream'
  <1>1. /\ pc = "read" /\ toClient # << >> /\ work = << >> /\ toClient' = Tail(toClient)
        /\ UNCHANGED <<conn, last, sent, accepted>> /\ sent \in Nat
    BY DEF ReadPacket, serverVars, Types
  <1>2. toClient \in Seq(Packets) /\ OnTheirWay
    BY <1>1 DEF Stream
  <1>3. /\ Tail(toClient) \in Seq(Packets) /\ Len(Tail(toClient)) = Len(toClient) - 1
        /\ Len(toClient) \in Nat \ {0}
        /\ \A i \in 1 .. Len(toClient) - 1: Tail(toClient)[i] = toClient[i + 1]
        /\ Head(toClient) = toClient[1] /\ toClient[1] \in Packets
        /\ IF Tail(toClient) = << >> THEN Len(toClient) = 1
           ELSE Tail(toClient)[Len(Tail(toClient))] = toClient[Len(toClient)]
    BY <1>1, <1>2, TailSeq
  <1>4. CASE pc' = "down"
    <2>1. work' = work
      BY <1>4 DEF ReadPacket
    <2> QED BY <1>1, <1>3, <1>4, <2>1, StreamEnds
  <1>5. CASE pc' = "handle" /\ work' = <<Head(toClient).message>>
    <2> DEFINE m == toClient[1].message
    <2>1. m \in Message /\ work' = <<m>>
      BY <1>3, <1>5 DEF Packets
    <2>2. FirstOf(m) = last + 1
      BY <1>1, <1>2 DEF OnTheirWay, InHand
    <2> HIDE DEF m
    <2>3. work' \in Seq(Message) /\ work'[1] = m /\ Len(work') = 1 /\ work' # << >>
      BY <2>1
    <2>4. InHand' = LastOf(m)
      BY <2>3 DEF InHand
    <2>5. Handled'
      BY <1>1, <1>5, <2>2, <2>3 DEF Handled, InOrder
    <2>6. OnTheirWay'
      <3>1. \A i \in 1 .. Len(Tail(toClient)): Tail(toClient)[i].key = KeyFor(Tail(toClient)[i].message)
        BY <1>2, <1>3 DEF OnTheirWay
      <3>2. \A i \in 1 .. Len(Tail(toClient)) - 1:
               FirstOf(Tail(toClient)[i + 1].message) = LastOf(Tail(toClient)[i].message) + 1
        <4> SUFFICES ASSUME NEW i \in 1 .. Len(Tail(toClient)) - 1
                     PROVE  FirstOf(Tail(toClient)[i + 1].message) = LastOf(Tail(toClient)[i].message) + 1
          OBVIOUS
        <4>1. Tail(toClient)[i + 1] = toClient[(i + 1) + 1] /\ Tail(toClient)[i] = toClient[i + 1]
              /\ i + 1 \in 1 .. Len(toClient) - 1
          BY <1>3
        <4> QED BY <1>2, <4>1 DEF OnTheirWay
      <3>3. CASE Tail(toClient) = << >>
        <4>1. LastOf(m) = sent
          BY <1>1, <1>2, <1>3, <3>3 DEF OnTheirWay, m
        <4> QED BY <1>1, <2>4, <3>1, <3>2, <3>3, <4>1 DEF OnTheirWay, KeyFor
      <3>4. CASE Tail(toClient) # << >>
        <4>1. Len(toClient) > 1 /\ Tail(toClient)[1] = toClient[1 + 1]
          BY <1>3, <3>4
        <4>2. FirstOf(Tail(toClient)[1].message) = LastOf(m) + 1
          BY <1>2, <1>3, <4>1 DEF OnTheirWay, m
        <4>3. LastOf(Tail(toClient)[Len(Tail(toClient))].message) = sent
          BY <1>1, <1>2, <1>3, <3>4 DEF OnTheirWay, KeyFor
        <4> QED BY <1>1, <2>4, <3>1, <3>2, <3>4, <4>2, <4>3 DEF OnTheirWay, KeyFor
      <3> QED BY <3>3, <3>4
    <2> QED BY <1>1, <1>3, <2>3, <2>5, <2>6, StreamKept DEF Stream
  <1> QED BY <1>4, <1>5 DEF ReadPacket

\* The server sends a packet, encrypted with its key.
LEMMA StreamGrows ==
    ASSUME Types, Stream, Keys, NEW kind, NEW w \in 1 .. 3, SendPacket(kind, w, IF sent >= 2 THEN conn ELSE 0),
           UNCHANGED <<conn, pc, work, last>>, accepted \subseteq accepted',
           \/ kind = "encryptRequest" /\ sent = 0 /\ w = 1
           \/ kind \in {"encryptResult", "encryptFailed"} /\ sent = 1 /\ w = 1
           \/ kind \in {"logonOk", "logonFailed", "notice", "bad"} /\ sent >= 2,
           kind = "logonOk" => (conn \in accepted)'
    PROVE  Stream'
  <1> DEFINE m == Packet(kind, w)
             k == IF sent >= 2 THEN conn ELSE 0
             p == [message |-> m, key |-> k]
  <1>1. sent' = sent + w /\ sent \in Nat /\ sent' \in Nat /\ sent <= sent' /\ toClient' = Append(toClient, p)
    BY DEF SendPacket, Types
  <1>2. m \in Message' /\ FirstOf(m) = sent + 1 /\ LastOf(m) = sent'
    BY <1>1, PacketForm
  <1>3. Leaf \subseteq Leaf' /\ Message \subseteq Message' /\ Packets \subseteq Packets'
    <2>1. Leaf \subseteq Leaf' /\ Message \subseteq Message'
      BY <1>1, MessageStays
    <2> QED BY <2>1 DEF Packets
  <1>4. p \in Packets' /\ p.message = m /\ p.key = k
    BY <1>2 DEF Packets
  <1>5. k = IF FirstOf(m) <= 2 THEN 0 ELSE conn
    BY <1>1, <1>2
  <1> HIDE DEF m, k, p
  <1>6. toClient \in Seq(Packets') /\ work \in Seq(Message')
    BY <1>3 DEF Stream
  <1>7. /\ toClient' \in Seq(Packets') /\ Len(toClient') = Len(toClient) + 1 /\ Len(toClient) \in Nat
        /\ \A i \in 1 .. Len(toClient): toClient'[i] = toClient[i]
        /\ toClient'[Len(toClient) + 1] = p /\ toClient' # << >>
    BY <1>1, <1>4, <1>6, AppendSeq
  <1>8. ASSUME pc # "down" PROVE Handled' /\ OnTheirWay'
    <2>1. Handled /\ OnTheirWay
      BY <1>8 DEF Stream
    <2>2. Handled'
      BY <1>3, <2>1 DEF Handled
    <2>3. InHand' = InHand
      BY DEF InHand
    <2>4. \A i \in 1 .. Len(toClient'):
             toClient'[i].key = IF FirstOf(toClient'[i].message) <= 2 THEN 0 ELSE conn'
      BY <1>4, <1>5, <1>7, <2>1, SMTT(40) DEF OnTheirWay, KeyFor
    <2>5. CASE toClient = << >>
      <3>1. Len(toClient) = 0
        BY <2>5
      <3>2. toClient'[1] = p /\ Len(toClient') = 1
        BY <1>7, <3>1
      <3>3. InHand' = sent
        BY <2>1, <2>3, <2>5 DEF OnTheirWay
      <3>4. \A i \in 1 .. Len(toClient') - 1:
               FirstOf(toClient'[i + 1].message) = LastOf(toClient'[i].message) + 1
        BY <3>2
      <3>5. /\ FirstOf(toClient'[1].message) = InHand' + 1
            /\ LastOf(toClient'[Len(toClient')].message) = sent'
        BY <1>2, <1>4, <3>2, <3>3
      <3> QED BY <1>7, <2>2, <2>4, <3>4, <3>5 DEF OnTheirWay, KeyFor
    <2>6. CASE toClient # << >>
      <3>1. Len(toClient) > 0
        BY <1>6, <2>6
      <3>2. /\ FirstOf(toClient[1].message) = InHand + 1
            /\ LastOf(toClient[Len(toClient)].message) = sent
        BY <2>1, <2>6 DEF OnTheirWay
      <3>3. \A i \in 1 .. Len(toClient') - 1:
               FirstOf(toClient'[i + 1].message) = LastOf(toClient'[i].message) + 1
        <4> SUFFICES ASSUME NEW i \in 1 .. Len(toClient)
                     PROVE  FirstOf(toClient'[i + 1].message) = LastOf(toClient'[i].message) + 1
          BY <1>7
        <4>1. CASE i = Len(toClient)
          BY <1>2, <1>4, <1>7, <3>1, <3>2, <4>1
        <4>2. CASE i < Len(toClient)
          <5>1. toClient'[i + 1] = toClient[i + 1] /\ toClient'[i] = toClient[i]
            BY <1>7, <4>2
          <5> QED BY <1>7, <2>1, <4>2, <5>1 DEF OnTheirWay
        <4> QED BY <1>7, <4>1, <4>2
      <3>4. toClient'[1] = toClient[1]
        BY <1>7, <3>1
      <3> QED BY <1>2, <1>4, <1>7, <2>2, <2>3, <2>4, <3>2, <3>3, <3>4 DEF OnTheirWay, KeyFor
    <2> QED BY <2>5, <2>6
  <1> QED BY <1>6, <1>7, <1>8 DEF Stream

-----------------------------------------------------------------------------
(* Events and writes.                                                      *)

\* Events of E were placed, or dropped, in the channel of the connection.
Emitted(E) ==
    /\ incoming' \in [Conns -> Seq(EventKinds)]
    /\ \A n \in Conns: Len(incoming'[n]) <= Cap
    /\ \A n \in Conns: \A i \in 1 .. Len(incoming'[n]):
          \/ \E j \in 1 .. Len(incoming[n]): incoming'[n][i] = incoming[n][j]
          \/ n = conn /\ incoming'[n][i] \in E

\* Emitting an event that may be dropped.
LEMMA MayEmitForm ==
    ASSUME Types, conn # 0, NEW es \in Seq({"other"}), MayEmit(es)
    PROVE  Emitted({"other"})
  <1> USE SessionAssumption
  <1>1. conn \in Conns /\ incoming \in [Conns -> Seq(EventKinds)] /\ \A n \in Conns: Len(incoming[n]) <= Cap
    BY DEF Types, Conns
  <1> DEFINE q == incoming[conn] \o es
             r == IF Len(q) > Cap THEN SubSeq(q, 1, Cap) ELSE q
  <1>2. incoming' = [incoming EXCEPT ![conn] = r]
    BY <1>1 DEF MayEmit
  <1>3. /\ q \in Seq(EventKinds) /\ Len(q) \in Nat
        /\ \A i \in 1 .. Len(q):
              (\E j \in 1 .. Len(incoming[conn]): q[i] = incoming[conn][j]) \/ q[i] = "other"
    <2>1. incoming[conn] \in Seq(EventKinds) /\ es \in Seq(EventKinds)
      BY <1>1 DEF EventKinds
    <2>2. /\ q \in Seq(EventKinds) /\ Len(q) = Len(incoming[conn]) + Len(es)
          /\ \A i \in 1 .. Len(incoming[conn]) + Len(es):
                q[i] = IF i <= Len(incoming[conn]) THEN incoming[conn][i] ELSE es[i - Len(incoming[conn])]
      BY <2>1
    <2>3. \A k \in 1 .. Len(es): es[k] = "other"
      OBVIOUS
    <2> HIDE DEF q
    <2>4. ASSUME NEW i \in 1 .. Len(q)
          PROVE  (\E j \in 1 .. Len(incoming[conn]): q[i] = incoming[conn][j]) \/ q[i] = "other"
      <3>1. CASE i <= Len(incoming[conn])
        BY <2>1, <2>2, <3>1
      <3>2. CASE i > Len(incoming[conn])
        <4>1. q[i] = es[i - Len(incoming[conn])] /\ i - Len(incoming[conn]) \in 1 .. Len(es)
          BY <2>1, <2>2, <3>2
        <4> QED BY <2>3, <4>1
      <3> QED BY <2>1, <2>2, <3>1, <3>2
    <2>5. Len(q) \in Nat
      BY <2>2
    <2> QED BY <2>2, <2>4, <2>5
  <1> HIDE DEF q
  <1>4. /\ r \in Seq(EventKinds) /\ Len(r) <= Cap
        /\ \A i \in 1 .. Len(r):
              (\E j \in 1 .. Len(incoming[conn]): r[i] = incoming[conn][j]) \/ r[i] = "other"
    <2>1. CASE Len(q) <= Cap
      BY <1>3, <2>1
    <2>2. CASE Len(q) > Cap
      <3>1. /\ SubSeq(q, 1, Cap) \in Seq(EventKinds) /\ Len(SubSeq(q, 1, Cap)) = Cap
            /\ \A i \in 1 .. Cap: SubSeq(q, 1, Cap)[i] = q[i]
        BY <1>3, <2>2
      <3>2. r = SubSeq(q, 1, Cap)
        BY <2>2
      <3> HIDE DEF r
      <3>3. /\ r \in Seq(EventKinds) /\ Len(r) = Cap /\ Cap \in 1 .. Len(q)
            /\ \A i \in 1 .. Cap: r[i] = q[i] /\ i \in 1 .. Len(q)
        BY <1>3, <2>2, <3>1, <3>2
      <3> QED BY <1>3, <3>3
    <2> QED BY <1>3, <2>1, <2>2
  <1> HIDE DEF r
  <1> QED BY <1>1, <1>2, <1>4 DEF Emitted

\* Emitting an event that waits for room.
LEMMA MustEmitForm ==
    ASSUME Types, conn # 0, NEW e \in EventKinds, MustEmit(e)
    PROVE  Emitted({e})
  <1> USE SessionAssumption
  <1>1. conn \in Conns /\ incoming \in [Conns -> Seq(EventKinds)] /\ \A n \in Conns: Len(incoming[n]) <= Cap
    BY DEF Types, Conns
  <1> DEFINE r == Append(incoming[conn], e)
  <1>2. incoming' = [incoming EXCEPT ![conn] = r] /\ Len(incoming[conn]) < Cap
    BY <1>1 DEF MustEmit
  <1>3. /\ r \in Seq(EventKinds) /\ Len(r) = Len(incoming[conn]) + 1 /\ Len(incoming[conn]) \in Nat
        /\ \A i \in 1 .. Len(incoming[conn]): r[i] = incoming[conn][i]
        /\ r[Len(incoming[conn]) + 1] = e
    BY <1>1, AppendSeq
  <1> HIDE DEF r
  <1>4. \A i \in 1 .. Len(r):
            (\E j \in 1 .. Len(incoming[conn]): r[i] = incoming[conn][j]) \/ r[i] = e
    <2> SUFFICES ASSUME NEW i \in 1 .. Len(r)
                 PROVE  (\E j \in 1 .. Len(incoming[conn]): r[i] = incoming[conn][j]) \/ r[i] = e
      OBVIOUS
    <2>1. i \in 1 .. Len(incoming[conn]) \/ i = Len(incoming[conn]) + 1
      BY <1>3
    <2> QED BY <1>3, <2>1
  <1> QED BY <1>1, <1>2, <1>3, <1>4 DEF Emitted

\* What was announced stays true on the same connection.
LEMMA AnnouncementsKept ==
    ASSUME Types, Announcements, conn # 0, conn' = conn, key' \in {key, conn}, accepted \subseteq accepted',
           UNCHANGED <<events, user>>, NEW E, Emitted(E),
           "connected" \in E => key' = conn, "loggedOn" \in E => conn \in accepted',
           pc' = "connected" => key' = conn, pc' = "loggedOn" => conn \in accepted'
    PROVE  Announcements'
  <1> DEFINE A(e, n) == /\ n \in 1 .. conn
                        /\ e = "connected" /\ n = conn => key' = conn
                        /\ e = "loggedOn" => n \in accepted'
  <1>1. \A e, n: Announced(e, n) => A(e, n)
    BY DEF Announced
  <1>2. \A e \in E: A(e, conn)
    <2>1. conn \in 1 .. conn
      BY DEF Types
    <2> QED BY <2>1
  <1> HIDE DEF A
  <1>3. ASSUME NEW n \in Conns, NEW i \in 1 .. Len(incoming'[n])
        PROVE  A(incoming'[n][i], n)
    BY <1>1, <1>2 DEF Emitted, Announcements
  <1>4. \A i \in 1 .. Len(events'): A(events'[i].kind, events'[i].conn)
    BY <1>1 DEF Announcements
  <1>5. user' # 0 => A("connected", user')
    BY <1>1 DEF Announcements
  <1> USE DEF A
  <1> QED BY <1>3, <1>4, <1>5 DEF Announcements, Announced

\* A write keeps the rest.
LEMMA WriteForm ==
    ASSUME Types, Written, UNCHANGED <<conn, key>>, NEW kind \in {"response", "logon", "request"},
           NEW what \in 0 .. conn, Write(kind, what),
           kind = "response" => what = conn,
           kind = "logon" /\ what = conn => key = conn
    PROVE  toServer' \in Seq(Requests) /\ Written'
  <1> DEFINE r == [kind |-> kind, key |-> key, what |-> what]
  <1>1. r \in Requests /\ r.kind = kind /\ r.what = what /\ r.key = key
    BY DEF Requests, Types
  <1>2. toServer' = Append(toServer, r) /\ toServer \in Seq(Requests)
    BY DEF Write, Types
  <1> HIDE DEF r
  <1>3. /\ toServer' \in Seq(Requests) /\ Len(toServer') = Len(toServer) + 1 /\ Len(toServer) \in Nat
        /\ \A i \in 1 .. Len(toServer): toServer'[i] = toServer[i]
        /\ toServer'[Len(toServer) + 1] = r
    BY <1>1, <1>2, AppendSeq
  <1>4. Written'
    BY <1>1, <1>3 DEF Written
  <1> QED BY <1>3, <1>4

\* A step of the read loop keeps the types of what it leaves alone.
LEMMA LoopTypes ==
    ASSUME Types, UNCHANGED <<conn, serverVars, forwarders, events, user>>,
           pc' \in {"down", "read", "handle", "connected", "loggedOn", "request"},
           (work' = << >>) <=> (pc' \in {"down", "read"}), conn # 0,
           sessionKey' \in {0, conn}, key' \in {0, conn}, ids' \in {0, conn},
           last' \in 0 .. sent, toServer' \in Seq(Requests),
           incoming' \in [Conns -> Seq(EventKinds)], \A n \in Conns: Len(incoming'[n]) <= Cap
    PROVE  Types'
  <1>1. Requests' = Requests /\ UserEvents' = UserEvents
    BY DEF Requests, UserEvents
  <1> QED BY <1>1 DEF Types, serverVars

-----------------------------------------------------------------------------
(* The read loop.                                                          *)

\* What a handler that begins finds: the next message, by whose number it knows
\* where the exchange of keys is.
LEMMA HandlingForm ==
    ASSUME SInv, NEW kind \in LeafKinds, NEW es \in Seq({"other"}), Handling(kind, es)
    PROVE  /\ pc = "handle" /\ conn # 0 /\ work # << >> /\ work[1] \in Leaf /\ work[1].kind = kind
           /\ last' = work[1].n /\ last' = last + 1 /\ last \in Nat /\ last' \in 0 .. sent
           /\ kind = "encryptRequest" <=> last' = 1
           /\ kind \in {"encryptResult", "encryptFailed"} <=> last' = 2
           /\ kind = "logonOk" => conn \in accepted
           /\ Emitted({"other"})
  <1> USE DEF SInv
  <1>1. pc = "handle" /\ conn # 0 /\ work # << >> /\ sent \in Nat /\ last \in Nat
    BY DEF Handling, Types
  <1>2. work \in Seq(Message) /\ FirstOf(work[1]) = last + 1
    BY <1>1 DEF Stream, Handled
  <1>3. Head(work) = work[1] /\ work[1] \in Message
    BY <1>1, <1>2, TailSeq
  <1>4. work[1].kind = kind /\ kind # "multi" /\ last' = work[1].n
    BY <1>3 DEF Handling, LeafKinds
  <1>5. work[1] \in Leaf
    BY <1>1, <1>3, <1>4, MessageForm
  <1>6. Emitted({"other"})
    BY <1>1, MayEmitForm DEF Handling
  <1>7. /\ work[1].n \in 1 .. sent /\ FirstOf(work[1]) = work[1].n
        /\ work[1].n = 1 <=> work[1].kind = "encryptRequest"
        /\ work[1].n = 2 <=> work[1].kind \in {"encryptResult", "encryptFailed"}
        /\ work[1].kind = "logonOk" => conn \in accepted
    BY <1>1, <1>5, LeafForm
  <1> QED BY <1>1, <1>2, <1>4, <1>5, <1>6, <1>7

\* The end of a handler: the next message, or the next packet.
LEMMA DoneForm ==
    ASSUME Done
    PROVE  pc' \in {"read", "handle"} /\ ((work' = << >>) <=> (pc' = "read"))
  BY DEF Done

\* handleMulti puts its messages in front of the rest, in order.
LEMMA MultiStep ==
    ASSUME SInv, HandleMulti
    PROVE  SInv'
  <1> USE DEF SInv
  <1>1. /\ pc = "handle" /\ pc' = "handle" /\ conn # 0 /\ last' = last /\ MayEmit(<<"other">>)
        /\ UNCHANGED <<conn, toClient, serverVars, forwarders, events, user, sessionKey, key, ids, toServer>>
    BY DEF HandleMulti, Handling, Types
  <1>2. Emitted({"other"})
    <2>1. <<"other">> \in Seq({"other"})
      OBVIOUS
    <2> QED BY <1>1, <2>1, MayEmitForm
  <1>3. Stream' /\ work' # << >>
    BY StreamUnpacks
  <1>4. Types'
    BY <1>1, <1>2, <1>3, LoopTypes DEF Types, Emitted
  <1>5. Keys'
    BY <1>1 DEF Keys, serverVars
  <1>6. Announcements'
    BY <1>1, <1>2, AnnouncementsKept DEF serverVars
  <1>7. Written'
    BY <1>1 DEF Written
  <1> QED BY <1>3, <1>4, <1>5, <1>6, <1>7

\* A handler that ends with an error.
LEMMA FailedStep ==
    ASSUME SInv, Failed, Emitted({"other"}), conn # 0, last' \in 0 .. sent,
           sessionKey' \in {0, conn}, UNCHANGED <<conn, toClient, serverVars, forwarders, events, user,
                                                key, ids, toServer>>
    PROVE  SInv'
  <1> USE DEF SInv
  <1>1. Stream'
    BY StreamEnds DEF Failed, Stream, serverVars
  <1>2. Types'
    BY LoopTypes DEF Types, Emitted, Failed
  <1>3. Keys'
    BY DEF Keys, Failed, serverVars
  <1>4. Announcements'
    BY AnnouncementsKept DEF serverVars, Failed
  <1>5. Written'
    BY DEF Written
  <1> QED BY <1>1, <1>2, <1>3, <1>4, <1>5

\* handleEncryptRequest answers with the key, and does not use it yet.
LEMMA EncryptRequestStep ==
    ASSUME SInv, HandleChannelEncryptRequest
    PROVE  SInv'
  <1> USE DEF SInv
  <1>1. /\ Handling("encryptRequest", <<"other">>) /\ sessionKey' = conn
        /\ UNCHANGED <<conn, toClient, serverVars, forwarders, events, user, key, ids>>
        /\ WriteAndReturn("response", conn)
    BY DEF HandleChannelEncryptRequest, Handling
  <1>2. /\ pc = "handle" /\ conn # 0 /\ work # << >> /\ work[1] \in Leaf
        /\ last' = work[1].n /\ last' = last + 1 /\ last \in Nat /\ last' \in 0 .. sent
        /\ last' = 1 /\ Emitted({"other"})
    <2>1. <<"other">> \in Seq({"other"}) /\ "encryptRequest" \in LeafKinds
      BY DEF LeafKinds
    <2> QED BY <1>1, <2>1, HandlingForm
  <1>3. CASE Failed /\ UNCHANGED toServer
    BY <1>1, <1>2, <1>3, FailedStep
  <1>4. CASE Write("response", conn) /\ Done
    <2>1. Stream'
      BY <1>1, <1>2, <1>4, StreamDone DEF serverVars
    <2>2. toServer' \in Seq(Requests) /\ Written'
      <3>1. conn \in 0 .. conn
        BY DEF Types
      <3> QED BY <1>1, <1>4, <3>1, WriteForm
    <2>3. Types'
      BY <1>1, <1>2, <1>4, <2>2, DoneForm, LoopTypes DEF Types, Emitted
    <2>4. Keys'
      BY <1>1, <1>2 DEF Keys, serverVars
    <2>5. Announcements'
      BY <1>1, <1>2, <1>4, DoneForm, AnnouncementsKept DEF serverVars
    <2> QED BY <2>1, <2>2, <2>3, <2>4, <2>5
  <1> QED BY <1>1, <1>3, <1>4 DEF WriteAndReturn

\* The key that was made for the request is taken at message 2.
LEMMA EncryptResultStep ==
    ASSUME SInv, HandleChannelEncryptResult
    PROVE  SInv'
  <1> USE DEF SInv
  <1>0. <<"other">> \in Seq({"other"}) /\ {"encryptResult", "encryptFailed"} \subseteq LeafKinds
    BY DEF LeafKinds
  <1>1. CASE /\ Handling("encryptResult", <<"other">>)
             /\ TakeKey /\ pc' = "connected"
             /\ UNCHANGED <<work, ids, toServer>>
    <2>1. UNCHANGED <<conn, toClient, serverVars, forwarders, events, user>>
      BY <1>1 DEF Handling
    <2>2. /\ pc = "handle" /\ conn # 0 /\ work # << >> /\ work[1] \in Leaf
          /\ last' = work[1].n /\ last' = last + 1 /\ last \in Nat /\ last' \in 0 .. sent
          /\ last' = 2 /\ Emitted({"other"})
      BY <1>0, <1>1, HandlingForm
    <2>3. sent >= 2 /\ skey = conn /\ sessionKey = conn /\ key' = conn /\ sessionKey' = 0
      BY <1>1, <2>2 DEF Keys, TakeKey, Types
    <2>4. Stream'
      BY <1>1, <2>1, <2>2, StreamWaits DEF serverVars
    <2>5. Types'
      BY <1>1, <2>1, <2>2, <2>3, LoopTypes DEF Types, Emitted
    <2>6. Keys'
      BY <1>1, <2>1, <2>2, <2>3 DEF Keys, serverVars
    <2>7. Announcements'
      BY <1>1, <2>1, <2>2, <2>3, AnnouncementsKept DEF serverVars
    <2>8. Written'
      BY <1>1, <2>1, <2>3 DEF Written
    <2> QED BY <2>4, <2>5, <2>6, <2>7, <2>8
  <1>2. CASE /\ Handling("encryptFailed", <<"other">>) /\ Failed
             /\ UNCHANGED <<sessionKey, key, ids, toServer>>
    BY <1>0, <1>2, HandlingForm, FailedStep DEF Handling, Types
  <1> QED BY <1>1, <1>2 DEF HandleChannelEncryptResult

\* A handler that waits is about the message last handled.
LEMMA WaitingForm ==
    ASSUME SInv, pc \in {"connected", "loggedOn", "request"}
    PROVE  conn # 0 /\ work # << >> /\ work[1] \in Leaf /\ last = work[1].n /\ last \in 0 .. sent
  <1> USE DEF SInv
  <1>1. conn # 0 /\ work # << >> /\ sent \in Nat /\ last \in 0 .. sent
    BY DEF Types
  <1>2. work[1] \in Leaf /\ FirstOf(work[1]) = last
    BY <1>1 DEF Stream, Handled
  <1> QED BY <1>1, <1>2, LeafForm

\* EventConnected is placed when there is room; the key is in use by then.
LEMMA EmitConnectedStep ==
    ASSUME SInv, EmitConnected
    PROVE  SInv'
  <1> USE DEF SInv
  <1>1. /\ pc = "connected" /\ MustEmit("connected") /\ Done
        /\ UNCHANGED <<conn, sessionKey, key, ids, last, toClient, toServer, serverVars,
                       forwarders, events, user>>
    BY DEF EmitConnected
  <1>2. conn # 0 /\ work # << >> /\ work[1] \in Leaf /\ last = work[1].n /\ last \in 0 .. sent
    BY <1>1, WaitingForm
  <1>3. Emitted({"connected"})
    BY <1>1, <1>2, MustEmitForm DEF EventKinds
  <1>4. Stream'
    BY <1>1, <1>2, StreamDone DEF serverVars
  <1>5. Types'
    BY <1>1, <1>2, <1>3, DoneForm, LoopTypes DEF Types, Emitted
  <1>6. Keys'
    BY <1>1 DEF Keys, serverVars
  <1>7. Announcements'
    <2>1. key = conn
      BY <1>1 DEF Announcements
    <2> QED BY <1>1, <1>2, <1>3, <2>1, DoneForm, AnnouncementsKept DEF serverVars
  <1>8. Written'
    BY <1>1 DEF Written
  <1> QED BY <1>4, <1>5, <1>6, <1>7, <1>8

\* handleClientLogOnResponse, for an accepted and a refused logon.
LEMMA LogOnResponseStep ==
    ASSUME SInv, NEW kind \in {"logonOk", "logonFailed"}, HandleClientLogOnResponse(kind)
    PROVE  SInv'
  <1> USE DEF SInv
  <1>1. /\ Handling(kind, <<"other">>)
        /\ UNCHANGED <<conn, toClient, serverVars, forwarders, events, user, sessionKey, key, toServer>>
    BY DEF HandleClientLogOnResponse, Handling
  <1>2. /\ pc = "handle" /\ conn # 0 /\ work # << >> /\ work[1] \in Leaf
        /\ last' = work[1].n /\ last' = last + 1 /\ last \in Nat /\ last' \in 0 .. sent
        /\ last' # 1 /\ last' # 2 /\ Emitted({"other"})
        /\ kind = "logonOk" => conn \in accepted
    <2>1. <<"other">> \in Seq({"other"}) /\ kind \in LeafKinds
      BY DEF LeafKinds
    <2> QED BY <1>1, <2>1, HandlingForm
  <1>3. CASE kind = "logonOk"
    <2>1. ids' = conn /\ pc' = "loggedOn" /\ UNCHANGED work
      BY <1>3 DEF HandleClientLogOnResponse, LoggedOn
    <2>2. Stream'
      BY <1>1, <1>2, <2>1, StreamWaits DEF serverVars
    <2>3. Types'
      BY <1>1, <1>2, <2>1, LoopTypes DEF Types, Emitted
    <2>4. Keys'
      BY <1>1, <1>2 DEF Keys, serverVars
    <2>5. Announcements'
      BY <1>1, <1>2, <1>3, <2>1, AnnouncementsKept DEF serverVars
    <2>6. Written'
      BY <1>1 DEF Written
    <2> QED BY <2>2, <2>3, <2>4, <2>5, <2>6
  <1>4. CASE kind # "logonOk"
    <2>1. Failed /\ UNCHANGED ids
      BY <1>4 DEF HandleClientLogOnResponse, LoggedOn
    <2> QED BY <1>1, <1>2, <2>1, FailedStep DEF Types
  <1> QED BY <1>3, <1>4

\* EventLoggedOn is placed when there is room.
LEMMA EmitLoggedOnStep ==
    ASSUME SInv, EmitLoggedOn
    PROVE  SInv'
  <1> USE DEF SInv
  <1>1. /\ pc = "loggedOn" /\ MustEmit("loggedOn") /\ pc' = "request"
        /\ UNCHANGED <<conn, work, sessionKey, key, ids, last, toClient, toServer, serverVars,
                       forwarders, events, user>>
    BY DEF EmitLoggedOn
  <1>2. conn # 0 /\ work # << >> /\ work[1] \in Leaf /\ last = work[1].n /\ last \in 0 .. sent
    BY <1>1, WaitingForm
  <1>3. Emitted({"loggedOn"})
    BY <1>1, <1>2, MustEmitForm DEF EventKinds
  <1>4. Stream'
    BY <1>1, <1>2, StreamWaits DEF serverVars
  <1>5. Types'
    BY <1>1, <1>2, <1>3, LoopTypes DEF Types, Emitted
  <1>6. Keys'
    BY <1>1 DEF Keys, serverVars
  <1>7. Announcements'
    <2>1. conn \in accepted
      BY <1>1 DEF Announcements
    <2> QED BY <1>1, <1>2, <1>3, <2>1, AnnouncementsKept DEF serverVars
  <1>8. Written'
    BY <1>1 DEF Written
  <1> QED BY <1>4, <1>5, <1>6, <1>7, <1>8

\* A request that follows the logon is sent with the key in use.
LEMMA RequestStep ==
    ASSUME SInv, Request
    PROVE  SInv'
  <1> USE DEF SInv
  <1>1. /\ pc = "request" /\ MayEmit(<<"other">>) /\ WriteAndReturn("request", ids)
        /\ UNCHANGED <<conn, sessionKey, key, ids, last, toClient, serverVars, forwarders, events, user>>
    BY DEF Request
  <1>2. conn # 0 /\ work # << >> /\ work[1] \in Leaf /\ last = work[1].n /\ last \in 0 .. sent
    BY <1>1, WaitingForm
  <1>3. Emitted({"other"})
    <2>1. <<"other">> \in Seq({"other"})
      OBVIOUS
    <2> QED BY <1>1, <1>2, <2>1, MayEmitForm
  <1>4. CASE Failed /\ UNCHANGED toServer
    BY <1>1, <1>2, <1>3, <1>4, FailedStep DEF Types
  <1>5. CASE Write("request", ids) /\ Done
    <2>1. Stream'
      BY <1>1, <1>2, <1>5, StreamDone DEF serverVars
    <2>2. toServer' \in Seq(Requests) /\ Written'
      <3>1. ids \in 0 .. conn
        BY DEF Types
      <3> QED BY <1>1, <1>5, <3>1, WriteForm
    <2>3. Types'
      BY <1>1, <1>2, <1>3, <1>5, <2>2, DoneForm, LoopTypes DEF Types, Emitted
    <2>4. Keys'
      BY <1>1 DEF Keys, serverVars
    <2>5. Announcements'
      BY <1>1, <1>2, <1>3, <1>5, DoneForm, AnnouncementsKept DEF serverVars
    <2> QED BY <2>1, <2>2, <2>3, <2>4, <2>5
  <1> QED BY <1>1, <1>4, <1>5 DEF WriteAndReturn

\* A message that only makes an event.
LEMMA NoticeStep ==
    ASSUME SInv, HandleNotice
    PROVE  SInv'
  <1> USE DEF SInv
  <1>0. PICK es \in {<<"other">>, <<"other", "other">>}: Handling("notice", es)
    BY DEF HandleNotice
  <1>1. /\ Done
        /\ UNCHANGED <<conn, toClient, serverVars, forwarders, events, user, sessionKey, key, ids, toServer>>
    BY <1>0 DEF HandleNotice, Handling
  <1>2. /\ pc = "handle" /\ conn # 0 /\ work # << >> /\ work[1] \in Leaf
        /\ last' = work[1].n /\ last' = last + 1 /\ last \in Nat /\ last' \in 0 .. sent
        /\ last' # 1 /\ last' # 2 /\ Emitted({"other"})
    <2>1. "notice" \in LeafKinds
      BY DEF LeafKinds
    <2>2. <<"other">> \in Seq({"other"}) /\ <<"other", "other">> \in Seq({"other"})
      OBVIOUS
    <2>3. es \in Seq({"other"})
      BY <1>0, <2>2, Zenon
    <2> QED BY <1>0, <2>1, <2>3, HandlingForm
  <1>3. Stream'
    BY <1>1, <1>2, StreamDone DEF serverVars
  <1>4. Types'
    BY <1>1, <1>2, DoneForm, LoopTypes DEF Types, Emitted
  <1>5. Keys'
    BY <1>1, <1>2 DEF Keys, serverVars
  <1>6. Announcements'
    BY <1>1, <1>2, DoneForm, AnnouncementsKept DEF serverVars
  <1>7. Written'
    BY <1>1 DEF Written
  <1> QED BY <1>3, <1>4, <1>5, <1>6, <1>7

\* A message that cannot be handled ends Run.
LEMMA BadStep ==
    ASSUME SInv, HandleBad
    PROVE  SInv'
  <1> USE DEF SInv
  <1>1. PICK es \in {<< >>, <<"other">>}: Handling("bad", es)
    BY DEF HandleBad
  <1>2. /\ Failed
        /\ UNCHANGED <<conn, toClient, serverVars, forwarders, events, user, sessionKey, key, ids, toServer>>
    BY <1>1 DEF HandleBad, Handling
  <1>3. es \in Seq({"other"}) /\ "bad" \in LeafKinds
    <2>1. "bad" \in LeafKinds
      BY DEF LeafKinds
    <2>2. << >> \in Seq({"other"}) /\ <<"other">> \in Seq({"other"})
      OBVIOUS
    <2> QED BY <1>1, <2>1, <2>2, Zenon
  <1>4. conn # 0 /\ last' \in 0 .. sent /\ Emitted({"other"})
    BY <1>1, <1>3, HandlingForm
  <1> QED BY <1>2, <1>4, FailedStep DEF Types

\* Every handler keeps the invariant.
LEMMA HandleStep ==
    ASSUME SInv, Handle
    PROVE  SInv'
  BY MultiStep, EncryptRequestStep, EncryptResultStep, EmitConnectedStep, LogOnResponseStep,
     EmitLoggedOnStep, RequestStep, NoticeStep, BadStep DEF Handle

\* The loop begins on a new connection, of which nothing has been announced.
LEMMA ConnectStep ==
    ASSUME SInv, Connect
    PROVE  SInv'
  <1> USE SessionAssumption DEF SInv
  <1>1. /\ pc = "down" /\ conn < MaxConns /\ conn' = conn + 1 /\ pc' = "read" /\ work = << >>
        /\ forwarders' = forwarders \cup {conn'}
        /\ sessionKey' = 0 /\ key' = 0 /\ ids' = 0 /\ last' = 0 /\ toClient' = << >> /\ toServer' = << >>
        /\ stage' = "new" /\ skey' = 0 /\ sent' = 0 /\ notices' = 0
        /\ UNCHANGED <<work, accepted, incoming, events, user>>
    BY DEF Connect, Types
  <1>2. conn \in Nat /\ conn' \in 1 .. MaxConns /\ conn' \in Nat
    BY <1>1 DEF Types
  <1>3. Types'
    <2>1. << >> \in Seq(Requests')
      OBVIOUS
    <2>2. accepted' \subseteq 1 .. conn' /\ forwarders' \subseteq 1 .. conn' /\ user' \in 0 .. conn'
      BY <1>1, <1>2 DEF Types
    <2>3. events' \in Seq(UserEvents')
      <3>1. UserEvents \subseteq UserEvents'
        BY <1>1, <1>2 DEF UserEvents
      <3>2. events \in Seq(UserEvents) /\ UNCHANGED events
        BY <1>1 DEF Types
      <3> QED BY <3>1, <3>2
    <2> QED BY <1>1, <1>2, <2>1, <2>2, <2>3 DEF Types
  <1>4. Stream'
    <2>1. work' \in Seq(Message') /\ toClient' \in Seq(Packets')
      BY <1>1
    <2>2. Handled' /\ OnTheirWay'
      BY <1>1 DEF Handled, OnTheirWay, InOrder, InHand
    <2> QED BY <2>1, <2>2 DEF Stream
  <1>5. Keys'
    BY <1>1, <1>2 DEF Keys
  <1>6. Announcements'
    <2>1. /\ \A n \in Conns: \A i \in 1 .. Len(incoming[n]): Announced(incoming[n][i], n)
          /\ \A i \in 1 .. Len(events): Announced(events[i].kind, events[i].conn)
          /\ user # 0 => Announced("connected", user)
      BY DEF Announcements
    <2> QED BY <1>1, <1>2, <2>1 DEF Announcements, Announced
  <1>7. Written'
    BY <1>1 DEF Written
  <1> QED BY <1>3, <1>4, <1>5, <1>6, <1>7

\* The loop reads, or finds that the connection is lost.
LEMMA ReadStep ==
    ASSUME SInv, ReadPacket \/ Lost
    PROVE  SInv'
  <1> USE DEF SInv
  <1>1. /\ pc = "read" /\ work = << >> /\ conn # 0
        /\ UNCHANGED <<conn, sessionKey, key, ids, last, toServer, serverVars,
                       forwarders, incoming, events, user>>
        /\ \/ pc' = "down" /\ work' = work
           \/ pc' = "handle" /\ work' = <<Head(toClient).message>>
    BY DEF ReadPacket, Lost, Types
  <1>2. Stream'
    <2>1. CASE ReadPacket
      BY <2>1, StreamReads
    <2>2. CASE Lost
      BY <2>2, StreamEnds DEF Lost, Stream, serverVars
    <2> QED BY <2>1, <2>2
  <1>3. Types'
    <2>1. (work' = << >>) <=> (pc' \in {"down", "read"})
      BY <1>1
    <2> QED BY <1>1, <2>1, LoopTypes DEF Types
  <1>4. Keys'
    BY <1>1 DEF Keys, serverVars
  <1>5. Announcements'
    BY <1>1 DEF Announcements, Announced, serverVars
  <1>6. Written'
    BY <1>1 DEF Written
  <1> QED BY <1>2, <1>3, <1>4, <1>5, <1>6

-----------------------------------------------------------------------------
(* Forwarders and the user.                                                *)

\* The forwarder moves an event on, or drops it.
LEMMA ForwardStep ==
    ASSUME SInv, NEW n \in Conns, Forward(n)
    PROVE  SInv'
  <1> USE DEF SInv
  <1> DEFINE q == incoming[n]
             e == [kind |-> Head(q), conn |-> n]
  <1>1. /\ q # << >> /\ n \in forwarders /\ incoming' = [incoming EXCEPT ![n] = Tail(q)]
        /\ \/ events' = Append(events, e) /\ Len(events) < EventCap
           \/ events' = events
        /\ UNCHANGED <<conn, loopVars, toClient, toServer, serverVars, forwarders, user>>
    BY DEF Forward, Types
  <1>2. /\ q \in Seq(EventKinds) /\ Len(q) <= Cap /\ n \in 1 .. conn
        /\ incoming \in [Conns -> Seq(EventKinds)]
        /\ events \in Seq(UserEvents) /\ Len(events) <= EventCap
    BY <1>1 DEF Types
  <1>3. /\ Tail(q) \in Seq(EventKinds) /\ Len(Tail(q)) = Len(q) - 1 /\ Len(q) \in Nat \ {0}
        /\ \A i \in 1 .. Len(q) - 1: Tail(q)[i] = q[i + 1]
        /\ Head(q) = q[1] /\ q[1] \in EventKinds
    BY <1>1, <1>2, TailSeq
  <1>4. e \in UserEvents /\ e.kind = q[1] /\ e.conn = n
    BY <1>2, <1>3 DEF UserEvents
  <1> HIDE DEF e
  <1>5. /\ Append(events, e) \in Seq(UserEvents)
        /\ Len(Append(events, e)) = Len(events) + 1 /\ Len(events) \in Nat
        /\ \A i \in 1 .. Len(events): Append(events, e)[i] = events[i]
        /\ Append(events, e)[Len(events) + 1] = e
    BY <1>2, <1>4, AppendSeq
  <1> HIDE DEF q
  <1>6. Types'
    <2>1. events' \in Seq(UserEvents) /\ Len(events') <= EventCap
      <3>1. CASE events' = Append(events, e) /\ Len(events) < EventCap
        BY <1>5, <3>1, SessionAssumption
      <3> QED BY <1>1, <1>2, <3>1
    <2>2. /\ incoming' \in [Conns -> Seq(EventKinds)]
          /\ \A c \in Conns: incoming'[c] = IF c = n THEN Tail(q) ELSE incoming[c]
      BY <1>1, <1>2, <1>3
    <2>3. \A c \in Conns: Len(incoming'[c]) <= Cap
      BY <1>2, <1>3, <2>2, SessionAssumption DEF Types
    <2>4. Requests' = Requests /\ UserEvents' = UserEvents
      BY <1>1 DEF Requests, UserEvents
    <2> QED BY <1>1, <2>1, <2>2, <2>3, <2>4 DEF Types, loopVars, serverVars
  <1>7. Stream'
    BY <1>1, StreamSame DEF loopVars, serverVars
  <1>8. Keys' /\ Written'
    BY <1>1 DEF Keys, Written, loopVars, serverVars
  <1>9. Announcements'
    <2>1. \A i \in 1 .. Len(q): Announced(q[i], n)
      BY DEF Announcements, q
    <2>2. \A c \in Conns: \A i \in 1 .. Len(incoming'[c]): Announced(incoming'[c][i], c)
      <3>1. ASSUME NEW i \in 1 .. Len(Tail(q)) PROVE Announced(Tail(q)[i], n)
        BY <1>3, <2>1
      <3>2. ASSUME NEW c \in Conns, c # n, NEW i \in 1 .. Len(incoming[c])
            PROVE  Announced(incoming[c][i], c)
        BY DEF Announcements
      <3>3. \A c \in Conns: incoming'[c] = IF c = n THEN Tail(q) ELSE incoming[c]
        BY <1>1, <1>2
      <3> QED BY <3>1, <3>2, <3>3
    <2>3. \A i \in 1 .. Len(events'): Announced(events'[i].kind, events'[i].conn)
      <3>1. \A i \in 1 .. Len(events): Announced(events[i].kind, events[i].conn)
        BY DEF Announcements
      <3>2. Announced(e.kind, e.conn)
        BY <1>3, <1>4, <2>1
      <3>3. CASE events' = Append(events, e)
        <4> SUFFICES ASSUME NEW i \in 1 .. Len(events) + 1
                     PROVE  Announced(Append(events, e)[i].kind, Append(events, e)[i].conn)
          BY <1>5, <3>3
        <4>1. i \in 1 .. Len(events) \/ i = Len(events) + 1
          BY <1>5
        <4> QED BY <1>5, <3>1, <3>2, <4>1
      <3> QED BY <1>1, <3>1, <3>3
    <2>4. user # 0 => Announced("connected", user)
      BY DEF Announcements
    <2>5. UNCHANGED <<conn, key, accepted, pc, user>>
      BY <1>1 DEF loopVars, serverVars
    <2> QED BY <2>2, <2>3, <2>4, <2>5 DEF Announcements, Announced
  <1> QED BY <1>6, <1>7, <1>8, <1>9

\* The user reads an event, and may have to log on.
LEMMA UserReadStep ==
    ASSUME SInv, UserRead
    PROVE  SInv'
  <1> USE DEF SInv
  <1>1. /\ events # << >> /\ events' = Tail(events)
        /\ user' = IF Head(events).kind = "connected" THEN Head(events).conn ELSE 0
        /\ UNCHANGED <<conn, loopVars, toClient, toServer, serverVars, forwarders, incoming>>
    BY DEF UserRead
  <1>2. events \in Seq(UserEvents) /\ Len(events) <= EventCap /\ conn \in Nat
    BY DEF Types
  <1>3. /\ Tail(events) \in Seq(UserEvents)
        /\ Len(Tail(events)) = Len(events) - 1 /\ Len(events) \in Nat \ {0}
        /\ \A i \in 1 .. Len(events) - 1: Tail(events)[i] = events[i + 1]
        /\ Head(events) = events[1] /\ events[1] \in UserEvents
    BY <1>1, <1>2, TailSeq
  <1>4. Types'
    <2>1. user' \in 0 .. conn
      BY <1>1, <1>2, <1>3 DEF UserEvents
    <2>2. events' \in Seq(UserEvents) /\ Len(events') <= EventCap
      BY <1>1, <1>2, <1>3, SessionAssumption
    <2>3. Requests' = Requests /\ UserEvents' = UserEvents
      BY <1>1 DEF Requests, UserEvents
    <2> QED BY <1>1, <2>1, <2>2, <2>3 DEF Types, loopVars, serverVars
  <1>5. Stream'
    BY <1>1, StreamSame DEF loopVars, serverVars
  <1>6. Keys' /\ Written'
    BY <1>1 DEF Keys, Written, loopVars, serverVars
  <1>7. Announcements'
    <2>1. \A i \in 1 .. Len(events): Announced(events[i].kind, events[i].conn)
      BY DEF Announcements
    <2>2. \A i \in 1 .. Len(events'): Announced(events'[i].kind, events'[i].conn)
      BY <1>1, <1>3, <2>1
    <2>3. user' # 0 => Announced("connected", user')
      BY <1>1, <1>3, <2>1
    <2>4. UNCHANGED <<conn, key, accepted, pc, incoming>>
      BY <1>1 DEF loopVars, serverVars
    <2>5. \A n \in Conns: \A i \in 1 .. Len(incoming[n]): Announced(incoming[n][i], n)
      BY DEF Announcements
    <2> QED BY <2>2, <2>3, <2>4, <2>5 DEF Announcements, Announced
  <1> QED BY <1>4, <1>5, <1>6, <1>7

\* A logon that answers the EventConnected of this connection is encrypted.
LEMMA LogonStep ==
    ASSUME SInv, Logon
    PROVE  SInv'
  <1> USE DEF SInv
  <1>1. /\ user # 0 /\ user' = 0 /\ MayEmit(<<"other">>)
        /\ Write("logon", user) \/ UNCHANGED toServer
        /\ UNCHANGED <<conn, loopVars, toClient, serverVars, forwarders, events>>
    BY DEF Logon
  <1>2. conn # 0 /\ user \in 0 .. conn /\ Announced("connected", user)
    BY <1>1 DEF Types, Announcements
  <1>3. Emitted({"other"})
    <2>1. <<"other">> \in Seq({"other"})
      OBVIOUS
    <2> QED BY <1>1, <1>2, <2>1, MayEmitForm
  <1>4. toServer' \in Seq(Requests) /\ Written'
    <2>1. CASE UNCHANGED toServer
      BY <1>1, <2>1 DEF Written, Types, loopVars
    <2>2. CASE Write("logon", user)
      BY <1>1, <1>2, <2>2, WriteForm DEF Announced, loopVars
    <2> QED BY <1>1, <2>1, <2>2
  <1>5. Types'
    <2>1. Requests' = Requests /\ UserEvents' = UserEvents
      BY <1>1 DEF Requests, UserEvents
    <2> QED BY <1>1, <1>3, <1>4, <2>1 DEF Types, loopVars, serverVars, Emitted
  <1>6. Stream'
    BY <1>1, StreamSame DEF loopVars, serverVars
  <1>7. Keys'
    BY <1>1 DEF Keys, loopVars, serverVars
  <1>8. Announcements'
    <2>1. \A n \in Conns: \A i \in 1 .. Len(incoming'[n]): Announced(incoming'[n][i], n)
      <3>1. Announced("other", conn)
        BY <1>2 DEF Announced, Types
      <3> QED BY <1>3, <3>1 DEF Emitted, Announcements
    <2>2. \A i \in 1 .. Len(events): Announced(events[i].kind, events[i].conn)
      BY DEF Announcements
    <2>3. UNCHANGED <<conn, key, accepted, pc, events>> /\ user' = 0
      BY <1>1 DEF loopVars, serverVars
    <2> QED BY <2>1, <2>2, <2>3 DEF Announcements, Announced
  <1> QED BY <1>4, <1>5, <1>6, <1>7, <1>8

\* A forwarder that stops takes nothing back.
LEMMA StopForwarderStep ==
    ASSUME SInv, NEW n \in Conns, StopForwarder(n)
    PROVE  SInv'
  <1> USE DEF SInv
  <1>1. /\ forwarders' \subseteq forwarders
        /\ UNCHANGED <<conn, loopVars, toClient, toServer, serverVars, incoming, events, user>>
    BY DEF StopForwarder
  <1>2. Types'
    <2>1. Requests' = Requests /\ UserEvents' = UserEvents
      BY <1>1 DEF Requests, UserEvents
    <2> QED BY <1>1, <2>1 DEF Types, loopVars, serverVars
  <1>3. Stream'
    BY <1>1, StreamSame DEF loopVars, serverVars
  <1>4. Keys' /\ Written'
    BY <1>1 DEF Keys, Written, loopVars, serverVars
  <1>5. Announcements'
    BY <1>1 DEF Announcements, Announced, loopVars, serverVars
  <1> QED BY <1>2, <1>3, <1>4, <1>5

-----------------------------------------------------------------------------
(* The server.                                                             *)

\* A step of the server keeps what it leaves alone.
LEMMA ServerKeeps ==
    ASSUME SInv, ServerIdle, conn # 0, stage' \in {"new", "asked", "keyed", "gone"},
           sent' \in Nat, sent <= sent', skey' \in {0, conn}, notices' \in 0 .. MaxNotices,
           accepted \subseteq accepted', accepted' \subseteq accepted \cup {conn},
           toServer' \in Seq(Requests)
    PROVE  Types' /\ Announcements'
  <1> USE DEF SInv
  <1>1. UNCHANGED <<conn, pc, work, sessionKey, key, ids, last, forwarders, incoming, events, user>>
    BY DEF ServerIdle, loopVars
  <1>2. Types'
    <2>1. Requests' = Requests /\ UserEvents' = UserEvents
      BY <1>1 DEF Requests, UserEvents
    <2>2. accepted' \subseteq 1 .. conn /\ last \in 0 .. sent'
      BY DEF Types
    <2> QED BY <1>1, <2>1, <2>2 DEF Types
  <1>3. Announcements'
    BY <1>1 DEF Announcements, Announced
  <1> QED BY <1>2, <1>3

\* The server asks for a key: message 1.
LEMMA ServerRequestStep ==
    ASSUME SInv, ServerRequest
    PROVE  SInv'
  <1> USE DEF SInv
  <1>1. /\ conn # 0 /\ stage = "new" /\ stage' = "asked" /\ SendPacket("encryptRequest", 1, 0)
        /\ ServerIdle /\ UNCHANGED <<toServer, skey, notices, accepted>>
    BY DEF ServerRequest
  <1>2. UNCHANGED <<conn, pc, work, sessionKey, key, last>>
    BY <1>1 DEF ServerIdle, loopVars
  <1>3. sent = 0 /\ sent' = 1
    BY <1>1 DEF Keys, SendPacket
  <1>4. Stream'
    BY <1>1, <1>2, <1>3, StreamGrows
  <1>5. Types' /\ Announcements'
    BY <1>1, <1>3, ServerKeeps DEF Types
  <1>6. Keys' /\ Written'
    BY <1>1, <1>2, <1>3 DEF Keys, Written
  <1> QED BY <1>4, <1>5, <1>6

\* The server sends a packet of messages, numbered on.
LEMMA ServerNoticeStep ==
    ASSUME SInv, ServerNotice
    PROVE  SInv'
  <1> USE SessionAssumption DEF SInv
  <1>1. /\ stage = "keyed" /\ notices < MaxNotices /\ notices' = notices + 1
        /\ ServerIdle /\ UNCHANGED <<toServer, stage, skey, accepted>>
    BY DEF ServerNotice
  <1>2. PICK kind \in {"notice", "bad"}, w \in 1 .. 3: SendPacket(kind, w, skey)
    BY DEF ServerNotice
  <1>3. UNCHANGED <<conn, pc, work, sessionKey, key, last>>
    BY <1>1 DEF ServerIdle, loopVars
  <1>4. conn # 0 /\ sent >= 2 /\ sent \in Nat /\ sent' = sent + w /\ skey = conn
    BY <1>1, <1>2 DEF Keys, SendPacket, Types
  <1>5. Stream'
    BY <1>1, <1>2, <1>3, <1>4, StreamGrows
  <1>6. Types' /\ Announcements'
    BY <1>1, <1>4, ServerKeeps, SMTT(40) DEF Types
  <1>7. Keys' /\ Written'
    BY <1>1, <1>3, <1>4 DEF Keys, Written
  <1> QED BY <1>5, <1>6, <1>7

\* The server answers what it receives: a key by message 2, a logon.
LEMMA ServerReceiveStep ==
    ASSUME SInv, ServerReceive
    PROVE  SInv'
  <1> USE DEF SInv
  <1> DEFINE m == Head(toServer)
  <1>1. /\ toServer # << >> /\ stage # "gone" /\ toServer' = Tail(toServer) /\ ServerIdle
        /\ ServerResult(m) \/ ServerLogon(m) \/ ServerOther(m)
    BY DEF ServerReceive
  <1>2. UNCHANGED <<conn, pc, work, sessionKey, key, last>>
    BY <1>1 DEF ServerIdle, loopVars
  <1>3. toServer \in Seq(Requests) /\ sent \in Nat
    BY DEF Types
  <1>4. /\ Tail(toServer) \in Seq(Requests) /\ Len(Tail(toServer)) = Len(toServer) - 1
        /\ Len(toServer) \in Nat \ {0}
        /\ \A i \in 1 .. Len(toServer) - 1: Tail(toServer)[i] = toServer[i + 1]
        /\ m = toServer[1]
    BY <1>1, <1>3, TailSeq
  <1>5. Written'
    BY <1>1, <1>2, <1>4 DEF Written
  <1>6. m.kind = "response" => m.what = conn
    BY <1>4 DEF Written
  <1> HIDE DEF m
  <1>7. CASE ServerResult(m)
    <2>1. /\ stage = "asked" /\ skey' = conn /\ UNCHANGED <<notices, accepted>>
          /\ \/ SendPacket("encryptResult", 1, 0) /\ stage' = "keyed"
             \/ SendPacket("encryptFailed", 1, 0) /\ stage' = "gone"
      BY <1>6, <1>7 DEF ServerResult, GoodResponse
    <2>2. sent = 1 /\ sent' = 2 /\ conn # 0
      BY <2>1 DEF Keys, SendPacket, Types
    <2>3. Stream'
      BY <1>2, <2>1, <2>2, StreamGrows
    <2>4. Types' /\ Announcements'
      BY <1>1, <1>4, <2>1, <2>2, ServerKeeps DEF Types
    <2>5. Keys'
      BY <1>2, <2>1, <2>2 DEF Keys
    <2> QED BY <1>5, <2>3, <2>4, <2>5
  <1>8. CASE ServerLogon(m)
    <2>1. stage = "keyed" /\ UNCHANGED <<stage, skey, notices>>
      BY <1>8 DEF ServerLogon, GoodLogon
    <2>2. PICK kind \in {"logonOk", "logonFailed"}, w \in 1 .. 3:
             /\ SendPacket(kind, w, skey) /\ accepted \subseteq accepted'
             /\ accepted' \subseteq accepted \cup {conn}
             /\ kind = "logonOk" => conn \in accepted'
      BY <1>8 DEF ServerLogon
    <2>3. conn # 0 /\ sent >= 2 /\ sent' = sent + w /\ skey = conn
      BY <2>1, <2>2 DEF Keys, SendPacket, Types
    <2>4. Stream'
      BY <1>2, <1>3, <2>1, <2>2, <2>3, StreamGrows
    <2>5. Types' /\ Announcements'
      BY <1>1, <1>3, <1>4, <2>1, <2>2, <2>3, ServerKeeps, SMTT(40) DEF Types
    <2>6. Keys'
      BY <1>2, <1>3, <2>1, <2>3 DEF Keys
    <2> QED BY <1>5, <2>4, <2>5, <2>6
  <1>9. CASE ServerOther(m)
    <2>1. stage' \in {stage, "gone"} /\ UNCHANGED <<toClient, skey, sent, notices, accepted>>
      BY <1>9 DEF ServerOther
    <2>2. conn # 0
      BY <1>1 DEF Types
    <2>3. Stream'
      BY <1>2, <2>1, StreamSame
    <2>4. Types' /\ Announcements'
      BY <1>1, <1>3, <1>4, <2>1, <2>2, ServerKeeps DEF Types
    <2>5. Keys'
      BY <1>2, <2>1 DEF Keys
    <2> QED BY <1>5, <2>3, <2>4, <2>5
  <1> QED BY <1>1, <1>7, <1>8, <1>9

-----------------------------------------------------------------------------
\* Before the first connection the invariant holds.
LEMMA SInvInit == Init => SInv
  <1> SUFFICES ASSUME Init PROVE SInv
    OBVIOUS
  <1> USE SessionAssumption DEF Init
  <1>1. Types
    <2>1. << >> \in Seq(Requests) /\ << >> \in Seq(UserEvents) /\ << >> \in Seq(EventKinds)
      OBVIOUS
    <2> QED BY <2>1 DEF Types
  <1>2. Stream
    <2>1. << >> \in Seq(Message) /\ << >> \in Seq(Packets)
      OBVIOUS
    <2> QED BY <2>1 DEF Stream
  <1>3. Keys /\ Announcements /\ Written
    BY DEF Keys, Announcements, Written
  <1> QED BY <1>1, <1>2, <1>3 DEF SInv

\* Every step of the client, the user and the server keeps it.
LEMMA SInvStep == SInv /\ [Next]_vars => SInv'
  <1> SUFFICES ASSUME SInv, [Next]_vars PROVE SInv'
    OBVIOUS
  <1>1. CASE UNCHANGED vars
    <2> USE <1>1 DEF SInv, vars, loopVars, serverVars
    <2>1. Types'
      <3>1. Requests' = Requests /\ UserEvents' = UserEvents
        BY DEF Requests, UserEvents
      <3> QED BY <3>1 DEF Types
    <2>2. Stream'
      BY StreamSame
    <2>3. Keys' /\ Announcements' /\ Written'
      BY DEF Keys, Announcements, Announced, Written
    <2> QED BY <2>1, <2>2, <2>3
  <1>2. CASE Connect \/ Lost \/ ReadPacket \/ Handle
    BY <1>2, ConnectStep, ReadStep, HandleStep
  <1>3. CASE \E n \in Conns: Forward(n) \/ StopForwarder(n)
    BY <1>3, ForwardStep, StopForwarderStep
  <1>4. CASE ServerRequest \/ ServerReceive \/ ServerNotice
    BY <1>4, ServerRequestStep, ServerReceiveStep, ServerNoticeStep
  <1>5. CASE UserRead \/ Logon
    BY <1>5, UserReadStep, LogonStep
  <1> QED BY <1>1, <1>2, <1>3, <1>4, <1>5 DEF Next

\* Hence it always holds.
LEMMA AlwaysSInv == Spec => []SInv
  BY SInvInit, SInvStep, PTL DEF Spec

-----------------------------------------------------------------------------
\* Type correctness of the session, the capacities of the channels included.
THEOREM SessionTypeCorrect == Spec => []TypeOK
  <1>1. SInv => TypeOK
    <2> SUFFICES ASSUME SInv PROVE TypeOK
      OBVIOUS
    <2>1. \A i \in 1 .. Len(work): work[i].kind \in Kinds
      <3> SUFFICES ASSUME NEW i \in 1 .. Len(work) PROVE work[i].kind \in Kinds
        OBVIOUS
      <3>1. work[i] \in Message /\ sent \in Nat
        BY DEF SInv, Stream, Types
      <3>2. work[i].kind # "multi" => work[i].kind \in LeafKinds
        BY <3>1, MessageForm, LeafForm
      <3> QED BY <3>2 DEF LeafKinds, Kinds
    <2> QED BY <2>1 DEF SInv, Types, TypeOK
  <1> QED BY <1>1, AlwaysSInv, PTL

\* The read loop changes to the session key exactly between the last packet in the
\* clear and the first encrypted one, on every connection.
THEOREM KeysInStep == Spec => []ReadsInStep
  <1>1. SInv => ReadsInStep
    <2> SUFFICES ASSUME SInv, pc = "read", toClient # << >> PROVE Head(toClient).key = key
      BY DEF ReadsInStep
    <2>1. work = << >> /\ last \in Nat /\ toClient \in Seq(Packets) /\ OnTheirWay
      BY DEF SInv, Types, Stream
    <2>2. Head(toClient) = toClient[1] /\ Len(toClient) \in Nat \ {0}
      BY <2>1, TailSeq
    <2>3. FirstOf(toClient[1].message) = last + 1 /\ toClient[1].key = KeyFor(toClient[1].message)
      BY <2>1, <2>2 DEF OnTheirWay, InHand
    <2> QED BY <2>1, <2>2, <2>3 DEF SInv, Keys, KeyFor
  <1> QED BY <1>1, AlwaysSInv, PTL

\* A user who waits for the EventConnected of a connection does not log on to it
\* in the clear.
THEOREM LogonsEncrypted == Spec => []LogonEncrypted
  <1>1. SInv => LogonEncrypted
    <2> SUFFICES ASSUME SInv, NEW i \in 1 .. Len(toServer),
                        toServer[i].kind = "logon", toServer[i].what = conn
                 PROVE  toServer[i].key # 0 /\ toServer[i].key = skey
      BY DEF LogonEncrypted
    <2>1. conn # 0
      BY DEF SInv, Types
    <2> QED BY <2>1 DEF SInv, Written, Keys
  <1> QED BY <1>1, AlwaysSInv, PTL

\* Whoever reads EventLoggedOn, however late, reads it of a connection on which
\* the server accepted a logon.
THEOREM LoggedOnIsTrue == Spec => []LoggedOnTrue
  <1>1. SInv => LoggedOnTrue
    BY DEF SInv, Announcements, Announced, LoggedOnTrue
  <1> QED BY <1>1, AlwaysSInv, PTL

\* Every step that handles a message handles the one after the last: none is
\* handled twice, left out or out of order, whatever the nesting of the Multis.
THEOREM MessagesInOrder == Spec => HandledInOrder
  <1>1. ASSUME SInv, Handle, pc = "handle", Head(work).kind # "multi"
        PROVE  Head(work).n = last + 1 /\ last' = last + 1
    <2>1. PICK kind \in LeafKinds, es \in {<< >>, <<"other">>, <<"other", "other">>}: Handling(kind, es)
      BY <1>1
         DEF Handle, HandleMulti, HandleChannelEncryptRequest, HandleChannelEncryptResult, EmitConnected,
             HandleClientLogOnResponse, EmitLoggedOn, Request, HandleNotice, HandleBad, Handling, LeafKinds
    <2>2. es \in Seq({"other"})
      <3>1. << >> \in Seq({"other"}) /\ <<"other">> \in Seq({"other"}) /\ <<"other", "other">> \in Seq({"other"})
        OBVIOUS
      <3> QED BY <3>1, Zenon
    <2>3. last' = last + 1 /\ kind # "multi"
      BY <1>1, <2>1, <2>2, HandlingForm DEF LeafKinds
    <2>4. last' = Head(work).n
      BY <2>1, <2>3 DEF Handling
    <2> QED BY <2>3, <2>4
  <1>2. ASSUME SInv, [Next]_vars
        PROVE  [Handle /\ pc = "handle" /\ Head(work).kind # "multi" =>
                    Head(work).n = last + 1 /\ last' = last + 1]_vars
    BY <1>1, <1>2
  <1> QED BY <1>2, AlwaysSInv, PTL DEF Spec, HandledInOrder
=============================================================================
