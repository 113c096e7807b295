------------------------ MODULE TCPRefinementProofs ------------------------
(***************************************************************************)
(* A TCPConnection used by at most one sender and at most one reader       *)
(* implements FrameChannel: for any keys, closers, deadlines, any number   *)
(* of calls and of frames, every step of the connection is a step of the   *)
(* channel or leaves it as it is.                                          *)
(***************************************************************************)
EXTENDS TCPConnectionProofs, SequenceTheorems

-----------------------------------------------------------------------------
(* Sequences: what the refinement mapping builds are functions on 1 .. n.  *)

\* A function on 1 .. n is a sequence of length n (WireFrames, the inbox, got).
LEMMA FunctionIsSeq ==
    ASSUME NEW S, NEW n \in Nat, NEW f \in [1 .. n -> S]
    PROVE  f \in Seq(S) /\ Len(f) = n
  <1>1. f \in Seq(S)
    BY SeqDef
  <1>2. DOMAIN f = 1 .. Len(f) /\ Len(f) \in Nat
    BY <1>1, LenProperties
  <1>3. DOMAIN f = 1 .. n
    OBVIOUS
  <1> QED BY <1>1, <1>2, <1>3

\* A function on 1 .. n + 1 that extends one on 1 .. n appends its last value.
LEMMA FunctionAppends ==
    ASSUME NEW S, NEW n \in Nat, NEW f \in [1 .. n -> S], NEW g \in [1 .. n + 1 -> S],
           \A i \in 1 .. n: g[i] = f[i]
    PROVE  g = Append(f, g[n + 1])
  <1>1. f \in Seq(S) /\ Len(f) = n
    BY FunctionIsSeq
  <1>2. g \in Seq(S) /\ Len(g) = n + 1
    <2>1. n + 1 \in Nat
      OBVIOUS
    <2> QED BY <2>1, FunctionIsSeq
  <1>3. g[n + 1] \in S
    OBVIOUS
  <1> DEFINE e == g[n + 1]
  <1>4. /\ Append(f, e) \in Seq(S) /\ Len(Append(f, e)) = n + 1
        /\ \A i \in 1 .. n: Append(f, e)[i] = f[i]
        /\ Append(f, e)[n + 1] = e
    <2>1. e \in S
      BY <1>3
    <2> HIDE DEF e
    <2> QED BY <1>1, <2>1
  <1>5. \A i \in 1 .. n + 1: g[i] = Append(f, e)[i]
    <2> SUFFICES ASSUME NEW i \in 1 .. n + 1 PROVE g[i] = Append(f, e)[i]
      OBVIOUS
    <2>1. CASE i \in 1 .. n
      BY <1>4, <2>1
    <2>2. CASE i = n + 1
      BY <1>4, <2>2
    <2> QED BY <2>1, <2>2
  <1> HIDE DEF e
  <1>6. g = Append(f, e)
    BY <1>2, <1>4, <1>5, SeqEqual
  <1> QED BY <1>6 DEF e

-----------------------------------------------------------------------------
(* What the mapping needs beyond the invariants of TCPConnectionProofs: at *)
(* which part of a frame the outgoing stream ends, and that the reader has *)
(* checked what it has passed of the frame it is in.                       *)

\* How much of a frame is in the stream at each step of Send.
OutLength ==
    torn \/ \A s \in Senders:
        /\ spc[s] \in {"idle", "key", "deadline", "length"} => Len(out) % 3 = 0
        /\ spc[s] = "magic" => Len(out) % 3 = 1
        /\ spc[s] = "data" => Len(out) % 3 = 2

\* Read is past the length or magic of a frame only if they are good.
FrameChecked ==
    \A r \in Readers:
        /\ rpc[r] = "magic" => frames[Len(delivered) + 1].fault # "huge"
        /\ rpc[r] = "body" => frames[Len(delivered) + 1].fault = "none"

\* What the mapping needs.
RefInv == SafeInv /\ FrameInv /\ ReadInv /\ OutLength /\ FrameChecked

\* A fresh connection has written and read nothing.
LEMMA RefInit == Init => RefInv
  <1> SUFFICES ASSUME Init PROVE RefInv
    OBVIOUS
  <1>1. SafeInv /\ FrameInv /\ ReadInv
    BY SafeInit, FrameInit, ReadInit
  <1>2. OutLength /\ FrameChecked
    BY DEF Init, OutLength, FrameChecked
  <1> QED BY <1>1, <1>2 DEF RefInv

\* With one sender, the stream ends where the sender's step says.
LEMMA OutLengthStep ==
    ASSUME OneSender, TypeOK, OutLength, [Next]_vars
    PROVE  OutLength'
  <1>1. CASE UNCHANGED <<spc, out, torn>>
    BY <1>1 DEF OutLength
  <1>2. ASSUME NEW s \in Senders, SendStep(s) PROVE OutLength'
    <2>a. Senders = {s}
      BY DEF OneSender
    <2>b. spc \in [Senders -> {"idle", "key", "deadline"} \cup WriteSteps]
      BY DEF TypeOK
    <2>0. CASE torn
      <3>1. torn'
        BY <1>2, <2>0
        DEF SendStep, SendCall, SendKey, SendDeadline, Write, WriteFail, sendVars
      <3> QED BY <3>1 DEF OutLength
    <2>00. CASE torn'
      BY <2>00 DEF OutLength
    <2> SUFFICES ASSUME ~torn, ~torn' PROVE OutLength'
      BY <2>0, <2>00
    <2>1. CASE UNCHANGED out /\ spc'[s] \in {"idle", "key", "deadline", "length"}
               /\ spc[s] \in {"idle", "key", "deadline", "length"}
      BY <2>1, <2>a DEF OutLength
    <2>2. ASSUME NEW dl \in Deadlines, NEW valid \in BOOLEAN, SendCall(s, dl, valid)
          PROVE OutLength'
      BY <2>1, <2>2, <2>b DEF SendCall, SendReturn, SendGoto
    <2>3. CASE SendKey(s)
      BY <2>1, <2>3, <2>b DEF SendKey, SendReturn, SendGoto
    <2>4. ASSUME NEW past \in BOOLEAN, SendDeadline(s, past) PROVE OutLength'
      BY <2>1, <2>4, <2>b DEF SendDeadline, SendReturn, SendGoto
    <2>5. ASSUME NEW partial \in BOOLEAN, WriteFail(s, partial) PROVE OutLength'
      BY <2>1, <2>5, <2>b DEF WriteFail, SendReturn
    <2>6. CASE Write(s)
      <3> DEFINE f == Written(s, spc[s])
      <3>1. f \in Fragment /\ out \in Seq(Fragment) /\ out' = Append(out, f)
        BY <2>6 DEF Write, Written, Fragment, TypeOK
      <3>2. Len(out') = Len(out) + 1 /\ Len(out) \in Nat
        <4> HIDE DEF f
        <4> QED BY <3>1
      <3>3. /\ spc[s] = "length" => spc'[s] = "magic"
            /\ spc[s] = "magic" => spc'[s] = "data"
            /\ spc[s] = "data" => spc'[s] = "idle"
            /\ spc[s] \in {"length", "magic", "data"}
        BY <2>6, <2>b DEF Write, NextWrite, SendReturn, SendGoto, WriteSteps
      <3>4. \A n \in Nat:
               /\ n % 3 = 0 => (n + 1) % 3 = 1
               /\ n % 3 = 1 => (n + 1) % 3 = 2
               /\ n % 3 = 2 => (n + 1) % 3 = 0
        OBVIOUS
      <3>5. /\ spc[s] = "length" => Len(out) % 3 = 0
            /\ spc[s] = "magic" => Len(out) % 3 = 1
            /\ spc[s] = "data" => Len(out) % 3 = 2
        BY <2>a DEF OutLength
      <3>6. /\ spc'[s] \in {"idle", "key", "deadline", "length"} => Len(out') % 3 = 0
            /\ spc'[s] = "magic" => Len(out') % 3 = 1
            /\ spc'[s] = "data" => Len(out') % 3 = 2
        BY <3>2, <3>3, <3>4, <3>5
      <3> QED BY <2>a, <3>6 DEF OutLength
    <2> QED BY <1>2, <2>2, <2>3, <2>4, <2>5, <2>6 DEF SendStep
  <1> USE DEF sendVars
  <1>3. ASSUME NEW r \in Readers, ReadStep(r) PROVE OutLength'
    BY <1>1, <1>3 DEF ReadStep, ReadCall, ReadDeadline, ReadLength, ReadMagic,
                      ReadBody, ReadFail
  <1>4. ASSUME NEW c \in Closers, CloseStep(c) PROVE OutLength'
    BY <1>1, <1>4 DEF CloseStep, CloseMark, CloseSocket
  <1>5. CASE Environment
    BY <1>1, <1>5 DEF Environment, ServerFrame, Arrive, PeerGone, DeadlinePasses
  <1>6. ASSUME NEW k \in Keys, SetSessionKey(k) PROVE OutLength'
    BY <1>1, <1>6 DEF SetSessionKey
  <1>7. CASE UNCHANGED vars
    BY <1>1, <1>7 DEF vars
  <1> QED BY <1>2, <1>3, <1>4, <1>5, <1>6, <1>7 DEF Next

\* Where the reader is in its frame, that frame is one of the server's.
LEMMA ReaderFrame ==
    ASSUME TypeOK, ReaderPlace, NEW r \in Readers
    PROVE  /\ Len(delivered) \in Nat /\ Len(frames) \in Nat
           /\ rpc[r] \in {"magic", "body"} => Len(delivered) + 1 \in 1 .. Len(frames)
           /\ rpc[r] = "length" => HeadFrame = Len(delivered) + 1
           /\ rpc[r] = "magic" => HeadFrame = Len(delivered) + 1
  <1>1. /\ Len(delivered) \in Nat /\ Len(frames) \in Nat
        /\ taken \in Nat /\ taken <= 3 * Len(frames)
    BY DEF TypeOK
  <1>2. \A n \in Nat: (3 * n) \div 3 = n /\ (3 * n + 1) \div 3 = n
    OBVIOUS
  <1> QED BY <1>1, <1>2 DEF ReaderPlace, HeadFrame

\* With one reader, the length and the magic it has passed were good.
LEMMA FrameCheckedStep ==
    ASSUME OneReader, TypeOK, ReadInv, FrameChecked, [Next]_vars
    PROVE  FrameChecked'
  <1>0. ReaderPlace
    BY DEF ReadInv
  <1>1. CASE UNCHANGED <<rpc, frames, delivered>>
    BY <1>1 DEF FrameChecked
  <1>2. ASSUME NEW r \in Readers, ReadStep(r) PROVE FrameChecked'
    <2>a. Readers = {r} /\ rpc \in [Readers -> ReadSteps] /\ UNCHANGED frames
      BY <1>2 DEF OneReader, TypeOK, ReadStep, ReadCall, ReadDeadline, ReadLength,
                  ReadMagic, ReadBody, ReadFail, netVars
    <2>1. CASE rpc'[r] \notin {"magic", "body"}
      BY <2>1, <2>a DEF FrameChecked
    <2>2. ASSUME NEW dl \in Deadlines, NEW valid \in BOOLEAN, ReadCall(r, dl, valid)
          PROVE FrameChecked'
      <3>1. \/ rpc' = [rpc EXCEPT ![r] = IF "refused" = "ok" THEN "idle" ELSE "stopped"]
            \/ rpc' = [rpc EXCEPT ![r] = IF "nil" = "ok" THEN "idle" ELSE "stopped"]
            \/ rpc' = [rpc EXCEPT ![r] = "deadline"]
        BY <2>2, Zenon DEF ReadCall, ReadReturn, ReadGoto
      <3> QED BY <2>1, <2>a, <3>1
    <2>3. ASSUME NEW past \in BOOLEAN, ReadDeadline(r, past) PROVE FrameChecked'
      BY <2>1, <2>3, <2>a DEF ReadDeadline, ReadReturn, ReadGoto
    <2>4. CASE ReadLength(r)
      <3>1. HeadPart = "length" /\ HeadFrame = Len(delivered) + 1
        BY <1>0, <2>4, HeadAt, ReaderFrame DEF ReadLength
      <3> QED BY <2>4, <2>a, <3>1 DEF ReadLength, ReadReturn, ReadGoto, FrameChecked
    <2>5. CASE ReadMagic(r)
      <3>1. HeadFrame = Len(delivered) + 1 /\ HeadFrame \in 1 .. Len(frames)
        BY <1>0, <2>5, ReaderFrame, HeadFrameKnown DEF ReadMagic
      <3>2. frames[HeadFrame].fault \in Faults /\ frames[HeadFrame].fault # "huge"
        <4>1. frames[HeadFrame] \in ServerFrames
          <5>1. frames \in Seq(ServerFrames)
            BY DEF TypeOK
          <5> QED BY <3>1, <5>1, ElementOfSeq
        <4>2. frames[HeadFrame].fault # "huge"
          BY <2>5, <3>1 DEF ReadMagic, FrameChecked
        <4> QED BY <4>1, <4>2 DEF ServerFrames
      <3> QED BY <2>5, <2>a, <3>1, <3>2
          DEF ReadMagic, MagicGood, ReadReturn, ReadGoto, FrameChecked, Faults
    <2>6. CASE ReadBody(r)
      BY <2>1, <2>6, <2>a DEF ReadBody, ReadReturn
    <2>7. CASE ReadFail(r)
      BY <2>1, <2>7, <2>a DEF ReadFail, ReadReturn
    <2> QED BY <1>2, <2>2, <2>3, <2>4, <2>5, <2>6, <2>7 DEF ReadStep
  <1> USE DEF readVars, netVars
  <1>3. ASSUME NEW s \in Senders, SendStep(s) PROVE FrameChecked'
    BY <1>1, <1>3 DEF SendStep, SendCall, SendKey, SendDeadline, Write, WriteFail
  <1>4. ASSUME NEW c \in Closers, CloseStep(c) PROVE FrameChecked'
    BY <1>1, <1>4 DEF CloseStep, CloseMark, CloseSocket
  <1>5. ASSUME NEW k \in Keys \cup {NoKey}, NEW fault \in Faults, ServerFrame(k, fault)
        PROVE FrameChecked'
    <2>1. \A f \in 1 .. Len(frames): frames'[f] = frames[f]
      BY <1>5 DEF ServerFrame, TypeOK
    <2>2. UNCHANGED <<rpc, delivered>>
      BY <1>5 DEF ServerFrame
    <2> QED BY <1>0, <2>1, <2>2, ReaderFrame DEF FrameChecked
  <1>6. CASE Arrive \/ PeerGone \/ DeadlinePasses
    BY <1>1, <1>6 DEF Arrive, PeerGone, DeadlinePasses
  <1>7. ASSUME NEW k \in Keys, SetSessionKey(k) PROVE FrameChecked'
    BY <1>1, <1>7 DEF SetSessionKey
  <1>8. CASE UNCHANGED vars
    BY <1>1, <1>8 DEF vars
  <1> QED BY <1>2, <1>3, <1>4, <1>5, <1>6, <1>7, <1>8 DEF Next, Environment

\* With one sender and one reader, every step keeps what the mapping needs.
LEMMA RefStep ==
    ASSUME OneSender, OneReader PROVE RefInv /\ [Next]_vars => RefInv'
  <1> SUFFICES ASSUME RefInv, [Next]_vars PROVE RefInv'
    OBVIOUS
  <1>1. TypeOK /\ SafeInv /\ FrameInv /\ ReadInv /\ OutLength /\ FrameChecked
    BY DEF RefInv, SafeInv
  <1>2. SafeInv' /\ FrameInv' /\ ReadInv'
    BY <1>1, SafeStep, FrameStep, ReadKept
  <1>3. OutLength' /\ FrameChecked'
    BY <1>1, OutLengthStep, FrameCheckedStep
  <1> QED BY <1>2, <1>3 DEF RefInv

-----------------------------------------------------------------------------
(* The mapping, part by part.                                              *)

\* The channel's variables: its call under way, the frames of the server, those that
\* were read, and whether reading goes on.
Call == IF Sending = {} THEN "none"
        ELSE IF Sending \cap late = {} THEN "open" ELSE "sealed"
Inbox == [f \in 1 .. Len(frames) |->
             [key |-> frames[f].key, good |-> frames[f].fault = "none"]]
Got == [d \in 1 .. Len(delivered) |->
             IF delivered[d].part = "data" THEN delivered[d].frame ELSE 0]
Reading == \A r \in Readers: rpc[r] # "stopped"

\* What is not touched is mapped to what it was.
LEMMA MappedSame ==
    /\ UNCHANGED <<spc, late>> => UNCHANGED Call
    /\ UNCHANGED out => UNCHANGED WireFrames
    /\ UNCHANGED frames => UNCHANGED Inbox
    /\ UNCHANGED delivered => UNCHANGED Got
    /\ UNCHANGED rpc => UNCHANGED Reading
  <1>1. UNCHANGED <<spc, late>> => UNCHANGED Call
    BY DEF Call, Sending
  <1>2. UNCHANGED out => UNCHANGED WireFrames
    BY DEF WireFrames, WholeAt, Follows
  <1>3. UNCHANGED frames => UNCHANGED Inbox
    BY DEF Inbox
  <1>4. UNCHANGED delivered => UNCHANGED Got
    BY DEF Got
  <1>5. UNCHANGED rpc => UNCHANGED Reading
    BY DEF Reading
  <1> QED BY <1>1, <1>2, <1>3, <1>4, <1>5

\* A step that leaves every mapped part alone leaves the channel alone.
LEMMA ChannelSame ==
    ASSUME UNCHANGED <<sessionKey, state, sockClosed, Call, WireFrames, torn,
                       Inbox, Got, Reading>>
    PROVE  UNCHANGED Channel!vars
  BY DEF Channel!vars, Call, Inbox, Got, Reading

\* With one sender, the call under way is that sender's.
LEMMA CallOfSender ==
    ASSUME OneSender, NEW s \in Senders
    PROVE  Call = IF spc[s] = "idle" THEN "none" ELSE IF s \in late THEN "sealed" ELSE "open"
  <1>1. Senders = {s}
    BY DEF OneSender
  <1> QED BY <1>1 DEF Call, Sending

\* A new connection is a new channel.
LEMMA ChannelInit == Init => Channel!Init
  <1> SUFFICES ASSUME Init PROVE Channel!Init
    OBVIOUS
  <1>1. Sending = {}
    BY DEF Init, Sending
  <1>2. WireFrames = << >>
    BY DEF Init, WireFrames
  <1>3. Inbox = << >> /\ Got = << >>
    BY DEF Init, Inbox, Got
  <1>4. Reading = TRUE
    BY DEF Init, Reading
  <1>5. (state = "disconnecting") = FALSE
    BY DEF Init
  <1> QED BY <1>1, <1>2, <1>3, <1>4, <1>5 DEF Init, Channel!Init, Inbox, Got, Reading

-----------------------------------------------------------------------------
(* The sender.                                                             *)

\* Appending a fragment that does not end a frame adds no frame to the wire.
LEMMA WireStays ==
    ASSUME out \in Seq(Fragment), NEW f \in Fragment, out' = Append(out, f),
           Len(out) % 3 # 2
    PROVE  UNCHANGED WireFrames
  <1>1. Len(out) \in Nat /\ Len(out') = Len(out) + 1
    OBVIOUS
  <1>2. \A i \in 1 .. Len(out): out'[i] = out[i]
    OBVIOUS
  <1>3. Len(out') \div 3 = Len(out) \div 3
    BY <1>1, SMTT(40)
  <1>4. ASSUME NEW g \in 1 .. Len(out) \div 3
        PROVE  3 * g \in 1 .. Len(out) /\ 3 * g - 2 \in 1 .. Len(out)
               /\ (3 * g - 2) + 1 \in 1 .. Len(out) /\ (3 * g - 2) + 2 \in 1 .. Len(out)
    BY <1>1
  <1>5. ASSUME NEW g \in 1 .. Len(out) \div 3
        PROVE  /\ out'[3 * g] = out[3 * g]
               /\ out'[3 * g - 2] = out[3 * g - 2]
               /\ out'[(3 * g - 2) + 1] = out[(3 * g - 2) + 1]
               /\ out'[(3 * g - 2) + 2] = out[(3 * g - 2) + 2]
    BY <1>2, <1>4
  <1>6. \A g \in 1 .. Len(out) \div 3:
            [key |-> out'[3 * g].key,
             whole |-> /\ out'[3 * g - 2].part = "length"
                       /\ Follows(out'[3 * g - 2], out'[(3 * g - 2) + 1])
                       /\ Follows(out'[(3 * g - 2) + 1], out'[(3 * g - 2) + 2])]
            = [key |-> out[3 * g].key, whole |-> WholeAt(3 * g - 2)]
    BY <1>5 DEF WholeAt
  <1> QED BY <1>3, <1>6 DEF WireFrames, WholeAt

\* Appending the data of a frame whose length and magic are there adds one whole
\* frame.
LEMMA WireGrows ==
    ASSUME out \in Seq(Fragment), NEW f \in Fragment, out' = Append(out, f),
           Len(out) % 3 = 2, out[Len(out) - 1].part = "length",
           Follows(out[Len(out) - 1], out[Len(out)]), Follows(out[Len(out)], f)
    PROVE  WireFrames' = Append(WireFrames, [key |-> f.key, whole |-> TRUE])
  <1> DEFINE n == Len(out) \div 3
             W == [key: Keys \cup {NoKey}, whole: BOOLEAN]
  <1>1. /\ Len(out) \in Nat /\ n \in Nat /\ Len(out) = 3 * n + 2
        /\ Len(out') = Len(out) + 1 /\ Len(out') \div 3 = n + 1
    OBVIOUS
  <1>2. \A i \in 1 .. Len(out): out'[i] = out[i]
    OBVIOUS
  <1>3. out'[Len(out) + 1] = f
    OBVIOUS
  <1>o. out' \in Seq(Fragment)
    OBVIOUS
  <1> HIDE DEF n
  <1>4. \A g \in 1 .. n:
               /\ 3 * g \in 1 .. Len(out) /\ 3 * g - 2 \in 1 .. Len(out)
               /\ (3 * g - 2) + 1 \in 1 .. Len(out) /\ (3 * g - 2) + 2 \in 1 .. Len(out)
    BY <1>1
  <1>5. \A g \in 1 .. n:
            /\ out'[3 * g] = out[3 * g]
            /\ out'[3 * g - 2] = out[3 * g - 2]
            /\ out'[(3 * g - 2) + 1] = out[(3 * g - 2) + 1]
            /\ out'[(3 * g - 2) + 2] = out[(3 * g - 2) + 2]
    BY <1>2, <1>4
  <1>6. WireFrames \in [1 .. n -> W]
    <2>1. \A g \in 1 .. n: out[3 * g] \in Fragment
      BY <1>4, ElementOfSeq
    <2>2. \A g \in 1 .. n: out[3 * g].key \in Keys \cup {NoKey}
      BY <2>1 DEF Fragment
    <2>3. \A g \in 1 .. n: WholeAt(3 * g - 2) \in BOOLEAN
      BY DEF WholeAt, Follows
    <2> QED BY <2>2, <2>3 DEF WireFrames, n
  <1>7. WireFrames' \in [1 .. n + 1 -> W]
    <2>1. \A g \in 1 .. n + 1: 3 * g \in 1 .. Len(out')
      BY <1>1
    <2>2. \A g \in 1 .. n + 1: out'[3 * g] \in Fragment
      BY <1>o, <2>1, ElementOfSeq
    <2>3. \A g \in 1 .. n + 1: out'[3 * g].key \in Keys \cup {NoKey}
      BY <2>2 DEF Fragment
    <2> QED BY <1>1, <2>3 DEF WireFrames, WholeAt, Follows
  <1>8. \A g \in 1 .. n: WireFrames'[g] = WireFrames[g]
    <2> SUFFICES ASSUME NEW g \in 1 .. n PROVE WireFrames'[g] = WireFrames[g]
      OBVIOUS
    <2>1. WireFrames[g] = [key |-> out[3 * g].key, whole |-> WholeAt(3 * g - 2)]
      BY DEF WireFrames, n
    <2>2. g \in 1 .. Len(out') \div 3
      BY <1>1
    <2>3. WireFrames'[g] =
              [key |-> out'[3 * g].key,
               whole |-> /\ out'[3 * g - 2].part = "length"
                         /\ Follows(out'[3 * g - 2], out'[(3 * g - 2) + 1])
                         /\ Follows(out'[(3 * g - 2) + 1], out'[(3 * g - 2) + 2])]
      BY <2>2 DEF WireFrames, WholeAt
    <2> QED BY <1>5, <2>1, <2>3 DEF WholeAt
  <1>9. WireFrames'[n + 1] = [key |-> f.key, whole |-> TRUE]
    <2>1. n + 1 \in 1 .. Len(out') \div 3
      BY <1>1
    <2>2. WireFrames'[n + 1] =
              [key |-> out'[3 * (n + 1)].key,
               whole |-> /\ out'[3 * (n + 1) - 2].part = "length"
                         /\ Follows(out'[3 * (n + 1) - 2], out'[(3 * (n + 1) - 2) + 1])
                         /\ Follows(out'[(3 * (n + 1) - 2) + 1], out'[(3 * (n + 1) - 2) + 2])]
      BY <2>1 DEF WireFrames, WholeAt
    <2>3. /\ 3 * (n + 1) = Len(out) + 1 /\ 3 * (n + 1) - 2 = Len(out) - 1
          /\ (3 * (n + 1) - 2) + 1 = Len(out) /\ (3 * (n + 1) - 2) + 2 = Len(out) + 1
          /\ Len(out) - 1 \in 1 .. Len(out) /\ Len(out) \in 1 .. Len(out)
      BY <1>1
    <2>4. /\ out'[3 * (n + 1)] = f
          /\ out'[3 * (n + 1) - 2] = out[Len(out) - 1]
          /\ out'[(3 * (n + 1) - 2) + 1] = out[Len(out)]
          /\ out'[(3 * (n + 1) - 2) + 2] = f
      BY <1>2, <1>3, <2>3
    <2> QED BY <2>2, <2>4
  <1> HIDE DEF W
  <1>10. WireFrames' = Append(WireFrames, WireFrames'[n + 1])
    BY <1>1, <1>6, <1>7, <1>8, FunctionAppends
  <1> QED BY <1>9, <1>10

\* Before the data of a frame, its length and its magic are the end of the stream.
LEMMA FrameBegun ==
    ASSUME TypeOK, FramesIntact, SenderPlace, ~torn, NEW s \in Senders, spc[s] = "data",
           Len(out) % 3 = 2
    PROVE  /\ out[Len(out)] = Written(s, "magic")
           /\ out[Len(out) - 1].part = "length"
           /\ Follows(out[Len(out) - 1], out[Len(out)])
  <1>1. out[Len(out)] = Written(s, "magic")
    BY DEF SenderPlace
  <1>2. Len(out) \in Nat /\ Len(out) - 1 \in 1 .. Len(out) - 1
        /\ (Len(out) - 1) + 1 = Len(out) /\ Len(out) - 1 \in 1 .. Len(out)
    <2>1. out \in Seq(Fragment)
      BY DEF TypeOK
    <2>2. Len(out) \in Nat
      BY <2>1, LenProperties
    <2>3. Len(out) >= 2
      BY <2>2
    <2> QED BY <2>2, <2>3
  <1>3. Follows(out[Len(out) - 1], out[Len(out)])
    <2>1. Follows(out[Len(out) - 1], out[(Len(out) - 1) + 1])
      BY <1>2 DEF FramesIntact
    <2> QED BY <1>2, <2>1
  <1>4. out[Len(out) - 1].part \in WriteSteps
    <2>1. out[Len(out) - 1] \in Fragment
      BY <1>2, ElementOfSeq DEF TypeOK
    <2> QED BY <2>1 DEF Fragment
  <1> QED BY <1>1, <1>3, <1>4 DEF Follows, Written, WriteSteps

\* What a step of the sender leaves alone of the channel.
LEMMA SendLeaves ==
    ASSUME NEW s \in Senders, SendStep(s)
    PROVE  UNCHANGED <<sessionKey, state, sockClosed, Inbox, Got, Reading>>
  <1>1. UNCHANGED <<sessionKey, state, sockClosed, frames, delivered, rpc>>
    BY DEF SendStep, SendCall, SendKey, SendDeadline, Write, WriteFail,
           connVars, readVars, netVars, closeVars
  <1> QED BY <1>1, MappedSame

\* A call of Send that is accepted begins the channel's call, and one that is
\* refused is nothing to it.
LEMMA CallMaps ==
    ASSUME OneSender, RefInv, NEW s \in Senders,
           NEW dl \in Deadlines, NEW valid \in BOOLEAN, SendCall(s, dl, valid)
    PROVE  Channel!Next \/ UNCHANGED Channel!vars
  <1>1. UNCHANGED <<sessionKey, state, sockClosed, Inbox, Got, Reading>>
    BY SendLeaves DEF SendStep
  <1>2. UNCHANGED <<WireFrames, torn>>
    BY MappedSame DEF SendCall
  <1>3. spc \in [Senders -> {"idle", "key", "deadline"} \cup WriteSteps]
    BY DEF RefInv, SafeInv, TypeOK
  <1>4. Call = "none"
    BY CallOfSender DEF SendCall
  <1>5. Call' = IF spc'[s] = "idle" THEN "none" ELSE IF s \in late' THEN "sealed" ELSE "open"
    <2>1. Senders = {s}
      BY DEF OneSender
    <2> QED BY <2>1 DEF Call, Sending
  <1>6. CASE SendAccepts(valid)
    <2>1. Call' = IF sessionKey = NoKey THEN "open" ELSE "sealed"
      BY <1>3, <1>5, <1>6 DEF SendCall, SendGoto
    <2>2. ~(state = "disconnecting")
      BY <1>6 DEF SendAccepts
    <2>3. Channel!Accept
      BY <1>1, <1>2, <1>4, <2>1, <2>2 DEF Channel!Accept, Call, Inbox, Got, Reading
    <2> QED BY <2>3 DEF Channel!Next
  <1>7. CASE ~SendAccepts(valid)
    <2>1. Call' = "none"
      BY <1>3, <1>5, <1>7 DEF SendCall, SendReturn
    <2> QED BY <1>1, <1>2, <1>4, <2>1, ChannelSame
  <1> QED BY <1>6, <1>7

\* A Send that goes on without writing is no step of the channel, and one that
\* returns an error abandons the call.
LEMMA NoWriteMaps ==
    ASSUME OneSender, RefInv, NEW s \in Senders, SendStep(s),
           UNCHANGED <<late, out>>, torn' = torn \/ torn' = TRUE, spc[s] # "idle",
           spc'[s] = "idle" \/ UNCHANGED torn
    PROVE  Channel!Next \/ UNCHANGED Channel!vars
  <1>1. UNCHANGED <<sessionKey, state, sockClosed, Inbox, Got, Reading>>
    BY SendLeaves
  <1>2. UNCHANGED WireFrames
    BY MappedSame
  <1>3. Call = IF s \in late THEN "sealed" ELSE "open"
    BY CallOfSender
  <1>4. Call' = IF spc'[s] = "idle" THEN "none" ELSE IF s \in late' THEN "sealed" ELSE "open"
    <2>1. Senders = {s}
      BY DEF OneSender
    <2> QED BY <2>1 DEF Call, Sending
  <1>5. CASE spc'[s] = "idle"
    <2>1. Call' = "none" /\ Call # "none"
      BY <1>3, <1>4, <1>5
    <2>2. torn' \in {torn, TRUE}
      OBVIOUS
    <2>3. Channel!Abandon
      BY <1>1, <1>2, <2>1, <2>2 DEF Channel!Abandon, Call, Inbox, Got, Reading
    <2> QED BY <2>3 DEF Channel!Next
  <1>6. CASE spc'[s] # "idle"
    <2>1. UNCHANGED Call
      BY <1>3, <1>4, <1>6
    <2>2. UNCHANGED torn
      BY <1>6
    <2> QED BY <1>1, <1>2, <2>1, <2>2, ChannelSame
  <1> QED BY <1>5, <1>6

\* A write is no step of the channel while the frame is not complete, and its
\* transmission when it is; after a torn frame it garbles the wire.
LEMMA WriteMaps ==
    ASSUME OneSender, RefInv, NEW s \in Senders, Write(s)
    PROVE  Channel!Next \/ UNCHANGED Channel!vars
  <1>1. UNCHANGED <<sessionKey, state, sockClosed, Inbox, Got, Reading>>
    BY SendLeaves DEF SendStep
  <1>2. TypeOK /\ KeyCarried /\ FrameInv /\ OutLength
    BY DEF RefInv, SafeInv
  <1>3. /\ UNCHANGED <<late, torn>> /\ spc[s] \in {"length", "magic", "data"}
        /\ spc[s] # "idle" /\ ~sockClosed
    BY DEF Write, WriteSteps
  <1>4. /\ spc[s] = "data" => spc'[s] = "idle"
        /\ spc[s] # "data" => spc'[s] # "idle"
    BY <1>2 DEF TypeOK, Write, NextWrite, SendReturn, SendGoto
  <1>5. Call = IF s \in late THEN "sealed" ELSE "open"
    BY <1>3, CallOfSender
  <1>6. Call' = IF spc'[s] = "idle" THEN "none" ELSE IF s \in late THEN "sealed" ELSE "open"
    <2>1. Senders = {s}
      BY DEF OneSender
    <2> QED BY <1>3, <2>1 DEF Call, Sending
  <1>7. CASE torn
    <2>1. Call # "none" /\ Call' \in {Call, "none"}
      BY <1>5, <1>6
    <2>2. Channel!Garble
      BY <1>1, <1>3, <1>7, <2>1 DEF Channel!Garble, Call, Inbox, Got, Reading
    <2> QED BY <2>2 DEF Channel!Next
  <1> SUFFICES ASSUME ~torn PROVE Channel!Next \/ UNCHANGED Channel!vars
    BY <1>7
  <1> DEFINE f == Written(s, spc[s])
  <1>8. f \in Fragment /\ out \in Seq(Fragment) /\ out' = Append(out, f)
    BY <1>2 DEF Write, Written, Fragment, TypeOK
  <1>9. FramesIntact /\ SenderPlace
    BY <1>2 DEF FrameInv
  <1>10. CASE spc[s] # "data"
    <2>1. Len(out) % 3 # 2
      BY <1>2, <1>3, <1>10 DEF OutLength
    <2>2. UNCHANGED WireFrames
      <3> HIDE DEF f
      <3> QED BY <1>8, <2>1, WireStays
    <2>3. UNCHANGED Call
      BY <1>4, <1>5, <1>6, <1>10
    <2> QED BY <1>1, <1>3, <2>2, <2>3, ChannelSame
  <1>11. CASE spc[s] = "data"
    <2>1. Len(out) % 3 = 2
      BY <1>2, <1>11 DEF OutLength
    <2>2. /\ out[Len(out)] = Written(s, "magic") /\ out[Len(out) - 1].part = "length"
          /\ Follows(out[Len(out) - 1], out[Len(out)])
      BY <1>2, <1>9, <1>11, <2>1, FrameBegun
    <2>3. Follows(out[Len(out)], f)
      BY <1>11, <2>2 DEF Follows, Written
    <2>4. f.key = skey[s]
      BY DEF Written
    <2>5. WireFrames' = Append(WireFrames, [key |-> f.key, whole |-> TRUE])
      <3> HIDE DEF f
      <3> QED BY <1>8, <2>1, <2>2, <2>3, WireGrows
    <2>6. Call # "none" /\ Call' = "none" /\ (Call = "sealed" => s \in late)
      BY <1>4, <1>5, <1>6, <1>11
    <2>7. Call = "sealed" => skey[s] # NoKey
      BY <1>2, <1>11, <2>6 DEF KeyCarried, WriteSteps
    <2>8. skey[s] \in Keys \cup {NoKey}
      BY <1>2 DEF TypeOK
    <2>9. Channel!Transmit(skey[s])
      BY <1>1, <1>3, <2>4, <2>5, <2>6, <2>7
      DEF Channel!Transmit, Call, Inbox, Got, Reading
    <2> QED BY <2>8, <2>9 DEF Channel!Next
  <1> QED BY <1>10, <1>11

\* Every step of the sender.
LEMMA SendMaps ==
    ASSUME OneSender, RefInv, NEW s \in Senders, SendStep(s)
    PROVE  Channel!Next \/ UNCHANGED Channel!vars
  <1>1. ASSUME NEW dl \in Deadlines, NEW valid \in BOOLEAN, SendCall(s, dl, valid)
        PROVE Channel!Next \/ UNCHANGED Channel!vars
    BY <1>1, CallMaps
  <1>2. CASE SendKey(s)
    <2>1. UNCHANGED <<late, out, torn>> /\ spc[s] # "idle"
      BY <1>2 DEF SendKey
    <2> QED BY <2>1, NoWriteMaps
  <1>3. ASSUME NEW past \in BOOLEAN, SendDeadline(s, past)
        PROVE Channel!Next \/ UNCHANGED Channel!vars
    <2>1. UNCHANGED <<late, out, torn>> /\ spc[s] # "idle"
      BY <1>3 DEF SendDeadline
    <2> QED BY <2>1, NoWriteMaps
  <1>4. CASE Write(s)
    BY <1>4, WriteMaps
  <1>5. ASSUME NEW partial \in BOOLEAN, WriteFail(s, partial)
        PROVE Channel!Next \/ UNCHANGED Channel!vars
    <2>1. UNCHANGED <<late, out>> /\ spc[s] # "idle"
      BY <1>5 DEF WriteFail, WriteSteps
    <2>2. torn' = torn \/ torn' = TRUE
      BY <1>5, Zenon DEF WriteFail, RefInv, SafeInv, TypeOK
    <2>3. spc'[s] = "idle"
      BY <1>5 DEF WriteFail, SendReturn, RefInv, SafeInv, TypeOK
    <2> QED BY <2>1, <2>2, <2>3, NoWriteMaps
  <1> QED BY <1>1, <1>2, <1>3, <1>4, <1>5 DEF SendStep

-----------------------------------------------------------------------------
(* The reader.                                                             *)

\* What a step of the reader leaves alone of the channel.
LEMMA ReadLeaves ==
    ASSUME NEW r \in Readers, ReadStep(r)
    PROVE  UNCHANGED <<sessionKey, state, sockClosed, Call, WireFrames, torn, Inbox>>
  <1>1. UNCHANGED <<sessionKey, state, sockClosed, spc, late, out, torn, frames>>
    BY DEF ReadStep, ReadCall, ReadDeadline, ReadLength, ReadMagic, ReadBody, ReadFail,
           connVars, sendVars, netVars, closeVars
  <1> QED BY <1>1, MappedSame

\* A step of Read that returns no packet ends the reading, or is no step of the
\* channel.
LEMMA NoPacketMaps ==
    ASSUME OneReader, RefInv, NEW r \in Readers, ReadStep(r),
           UNCHANGED delivered, rpc[r] # "stopped"
    PROVE  Channel!Next \/ UNCHANGED Channel!vars
  <1>1. UNCHANGED <<sessionKey, state, sockClosed, Call, WireFrames, torn, Inbox>>
    BY ReadLeaves
  <1>2. UNCHANGED Got
    BY MappedSame
  <1>3. Readers = {r}
    BY DEF OneReader
  <1>4. CASE rpc'[r] = "stopped"
    <2>1. Reading' = FALSE
      BY <1>3, <1>4 DEF Reading
    <2>2. Channel!StopReading
      BY <1>1, <1>2, <2>1 DEF Channel!StopReading, Call, Inbox, Got, Reading
    <2> QED BY <2>2 DEF Channel!Next
  <1>5. CASE rpc'[r] # "stopped"
    <2>1. UNCHANGED Reading
      BY <1>3, <1>5 DEF Reading
    <2> QED BY <1>1, <1>2, <2>1, ChannelSame
  <1> QED BY <1>4, <1>5

\* A body that Read returns is the channel's next frame.
LEMMA PacketMaps ==
    ASSUME OneReader, RefInv, NEW r \in Readers, ReadBody(r), delivered' # delivered
    PROVE  Channel!Next
  <1>1. UNCHANGED <<sessionKey, state, sockClosed, Call, WireFrames, torn, Inbox>>
    BY ReadLeaves DEF ReadStep
  <1>2. TypeOK /\ ReadInSync /\ ReaderPlace /\ FrameChecked
    BY DEF RefInv, SafeInv, ReadInv
  <1>3. Readers = {r} /\ rpc[r] = "body" /\ CanTake
    BY DEF OneReader, ReadBody
  <1> DEFINE n == Len(delivered)
             F == 1 .. Len(frames)
  <1>4. n \in Nat /\ Len(frames) \in Nat /\ n + 1 \in F
    BY <1>2, <1>3, ReaderFrame
  <1>5. HeadPart = "data" /\ HeadFrame = n + 1
    BY <1>2, <1>3, HeadAt
  <1>6. frames[n + 1].fault = "none"
    BY <1>2, <1>3 DEF FrameChecked
  <1>7. /\ delivered' = Append(delivered, [frame |-> n + 1, part |-> "data"])
        /\ sessionKey # NoKey => frames[n + 1].key = sessionKey
        /\ rpc' = [rpc EXCEPT ![r] = "idle"]
    BY <1>5 DEF ReadBody, ReadReturn
  <1>8. Reading = TRUE /\ Reading' = TRUE
    BY <1>2, <1>3, <1>7 DEF Reading, TypeOK
  <1>9. Inbox[n + 1] = [key |-> frames[n + 1].key, good |-> frames[n + 1].fault = "none"]
    BY <1>4 DEF Inbox
  <1>10. Len(Inbox) = Len(frames)
    <2> DEFINE S == {Inbox[g]: g \in F}
    <2>1. Inbox \in [1 .. Len(frames) -> S]
      BY DEF Inbox
    <2> HIDE DEF S
    <2> QED BY <1>4, <2>1, FunctionIsSeq
  <1>11. Len(Got) = n /\ Got' = Append(Got, n + 1)
    <2>1. /\ Len(delivered') = n + 1
          /\ \A d \in 1 .. n: delivered'[d] = delivered[d]
          /\ delivered'[n + 1] = [frame |-> n + 1, part |-> "data"]
      BY <1>2, <1>7 DEF TypeOK
    <2>2. \A d \in 1 .. n: delivered[d].frame = d /\ delivered[d].part = "data"
      BY <1>2 DEF ReadInSync
    <2>3. Got = [d \in 1 .. n |-> d]
      BY <2>2 DEF Got
    <2>4. Got' = [d \in 1 .. n + 1 |-> d]
      <3>1. \A d \in 1 .. n + 1: delivered'[d].frame = d /\ delivered'[d].part = "data"
        <4> SUFFICES ASSUME NEW d \in 1 .. n + 1
                     PROVE  delivered'[d].frame = d /\ delivered'[d].part = "data"
          OBVIOUS
        <4>1. CASE d \in 1 .. n
          BY <2>1, <2>2, <4>1
        <4>2. CASE d = n + 1
          BY <2>1, <4>2
        <4> QED BY <1>4, <4>1, <4>2
      <3> QED BY <2>1, <3>1 DEF Got
    <2> HIDE DEF n
    <2>5. Got \in [1 .. n -> Nat] /\ Got' \in [1 .. n + 1 -> Nat]
      BY <1>4, <2>3, <2>4
    <2>6. \A d \in 1 .. n: Got'[d] = Got[d]
      BY <1>4, <2>3, <2>4
    <2>7. Got' = Append(Got, Got'[n + 1]) /\ Got'[n + 1] = n + 1
      <3>1. Got' = Append(Got, Got'[n + 1])
        BY <1>4, <2>5, <2>6, FunctionAppends
      <3>2. Got'[n + 1] = n + 1
        BY <1>4, <2>4
      <3> QED BY <3>1, <3>2
    <2>8. Len(Got) = n
      BY <1>4, <2>5, FunctionIsSeq
    <2> QED BY <2>7, <2>8
  <1> HIDE DEF n, F
  <1>12. Inbox[n + 1].good /\ (sessionKey # NoKey => Inbox[n + 1].key = sessionKey)
    <2> DEFINE b == frames[n + 1].fault = "none"
    <2>1. b /\ b \in BOOLEAN
      BY <1>6
    <2>2. Inbox[n + 1].good = b /\ Inbox[n + 1].key = frames[n + 1].key
      <3> HIDE DEF b
      <3>1. Inbox[n + 1] = [key |-> frames[n + 1].key, good |-> b]
        BY <1>9 DEF b
      <3> QED BY <3>1
    <2> HIDE DEF b
    <2> QED BY <1>7, <2>1, <2>2
  <1>13. n + 1 <= Len(Inbox) /\ ~sockClosed
    BY <1>3, <1>4, <1>10 DEF F, CanTake
  <1>14. Channel!Deliver
    BY <1>1, <1>8, <1>11, <1>12, <1>13 DEF Channel!Deliver, Call, Inbox, Got, Reading
  <1> QED BY <1>14 DEF Channel!Next

\* Every step of the reader.
LEMMA ReadMaps ==
    ASSUME OneReader, RefInv, NEW r \in Readers, ReadStep(r)
    PROVE  Channel!Next \/ UNCHANGED Channel!vars
  <1>1. CASE delivered' # delivered
    <2>1. ReadBody(r)
      BY <1>1 DEF ReadStep, ReadCall, ReadDeadline, ReadLength, ReadMagic, ReadFail
    <2> QED BY <1>1, <2>1, PacketMaps
  <1>2. CASE UNCHANGED delivered
    <2>1. rpc[r] # "stopped"
      BY DEF ReadStep, ReadCall, ReadDeadline, ReadLength, ReadMagic, ReadBody, ReadFail
    <2> QED BY <1>2, <2>1, NoPacketMaps
  <1> QED BY <1>1, <1>2

-----------------------------------------------------------------------------
(* The key, Close, the server, and the whole.                              *)

\* A frame that the server sends is one more in the channel's inbox.
LEMMA ServerMaps ==
    ASSUME RefInv, NEW k \in Keys \cup {NoKey}, NEW fault \in Faults, ServerFrame(k, fault)
    PROVE  Channel!Next
  <1> DEFINE n == Len(frames)
             I == [key: Keys \cup {NoKey}, good: BOOLEAN]
             b == fault = "none"
  <1>1. UNCHANGED <<sessionKey, state, sockClosed, torn, Call, WireFrames, Got, Reading>>
    BY MappedSame DEF ServerFrame, connVars, sendVars, readVars, closeVars
  <1>2. frames \in Seq(ServerFrames) /\ frames' \in Seq(ServerFrames)
    <2>1. TypeOK
      BY DEF RefInv, SafeInv
    <2>2. [key |-> k, fault |-> fault] \in ServerFrames
      BY DEF ServerFrames
    <2> QED BY <2>1, <2>2 DEF TypeOK, ServerFrame
  <1>3. /\ n \in Nat /\ Len(frames') = n + 1
        /\ \A g \in 1 .. n: frames'[g] = frames[g]
        /\ frames'[n + 1] = [key |-> k, fault |-> fault]
    BY <1>2 DEF ServerFrame
  <1>4. Inbox \in [1 .. n -> I]
    <2>1. \A g \in 1 .. n: frames[g] \in ServerFrames
      BY <1>2, ElementOfSeq
    <2> QED BY <2>1 DEF Inbox, ServerFrames
  <1>5. Inbox' \in [1 .. n + 1 -> I]
    <2>1. \A g \in 1 .. n + 1: frames'[g] \in ServerFrames
      BY <1>2, <1>3, ElementOfSeq
    <2> QED BY <1>3, <2>1 DEF Inbox, ServerFrames
  <1>6. \A g \in 1 .. n: Inbox'[g] = Inbox[g]
    BY <1>3 DEF Inbox
  <1>7. Inbox'[n + 1] = [key |-> k, good |-> b]
    BY <1>3 DEF Inbox
  <1>8. b \in BOOLEAN
    OBVIOUS
  <1> HIDE DEF n, I, b
  <1>9. Inbox' = Append(Inbox, Inbox'[n + 1])
    BY <1>3, <1>4, <1>5, <1>6, FunctionAppends
  <1>10. Inbox' = Append(Inbox, [key |-> k, good |-> b])
    BY <1>7, <1>9
  <1>11. Channel!ServerSends
    BY <1>1, <1>8, <1>10 DEF Channel!ServerSends, Call, Inbox, Got, Reading
  <1> QED BY <1>11 DEF Channel!Next

\* Every step of the connection is a step of the channel or none.
LEMMA ChannelStep ==
    ASSUME OneSender, OneReader PROVE RefInv /\ [Next]_vars => [Channel!Next]_(Channel!vars)
  <1> SUFFICES ASSUME RefInv, [Next]_vars PROVE Channel!Next \/ UNCHANGED Channel!vars
    OBVIOUS
  <1> USE DEF connVars, sendVars, readVars, netVars, closeVars
  <1>1. ASSUME NEW k \in Keys, SetSessionKey(k)
        PROVE Channel!Next \/ UNCHANGED Channel!vars
    <2>1. UNCHANGED <<sockClosed, torn, Call, WireFrames, Inbox, Got, Reading>>
      BY <1>1, MappedSame DEF SetSessionKey
    <2>2. sessionKey' \in Keys
      BY <1>1 DEF SetSessionKey
    <2>3. (state' = "disconnecting") = (state = "disconnecting")
      BY <1>1 DEF SetSessionKey, KeyedState
    <2>4. Channel!SetKey
      BY <2>1, <2>2, <2>3 DEF Channel!SetKey, Call, Inbox, Got, Reading
    <2> QED BY <2>4 DEF Channel!Next
  <1>2. ASSUME NEW s \in Senders, SendStep(s)
        PROVE Channel!Next \/ UNCHANGED Channel!vars
    BY <1>2, SendMaps
  <1>3. ASSUME NEW r \in Readers, ReadStep(r)
        PROVE Channel!Next \/ UNCHANGED Channel!vars
    BY <1>3, ReadMaps
  <1>4. ASSUME NEW c \in Closers, CloseMark(c)
        PROVE Channel!Next \/ UNCHANGED Channel!vars
    <2>1. UNCHANGED <<sessionKey, sockClosed, torn, Call, WireFrames, Inbox, Got, Reading>>
      BY <1>4, MappedSame DEF CloseMark
    <2>2. (state' = "disconnecting") = TRUE
      BY <1>4 DEF CloseMark, ClosingState
    <2>3. Channel!Close
      BY <2>1, <2>2 DEF Channel!Close, Call, Inbox, Got, Reading
    <2> QED BY <2>3 DEF Channel!Next
  <1>5. ASSUME NEW c \in Closers, CloseSocket(c)
        PROVE Channel!Next \/ UNCHANGED Channel!vars
    <2>1. UNCHANGED <<sessionKey, state, torn, Call, WireFrames, Inbox, Got, Reading>>
      BY <1>5, MappedSame DEF CloseSocket
    <2>2. state = "disconnecting" /\ sockClosed' = TRUE
      BY <1>5 DEF CloseSocket, RefInv, SafeInv, CloseMarked
    <2>3. Channel!Shut
      BY <2>1, <2>2 DEF Channel!Shut, Call, Inbox, Got, Reading
    <2> QED BY <2>3 DEF Channel!Next
  <1>6. ASSUME NEW k \in Keys \cup {NoKey}, NEW fault \in Faults, ServerFrame(k, fault)
        PROVE Channel!Next
    BY <1>6, ServerMaps
  <1>7. CASE Arrive \/ PeerGone \/ DeadlinePasses \/ UNCHANGED vars
    <2>1. UNCHANGED <<sessionKey, state, sockClosed, spc, late, out, torn, frames,
                      delivered, rpc>>
      BY <1>7 DEF Arrive, PeerGone, DeadlinePasses, vars
    <2> QED BY <2>1, MappedSame, ChannelSame
  <1> QED BY <1>1, <1>2, <1>3, <1>4, <1>5, <1>6, <1>7 DEF Next, CloseStep, Environment

\* With one sender and one reader, the three writes of Send count as one and so do
\* the three reads of Read, with key changes, deadlines, failures and Close in
\* between.
THEOREM ImplementsChannel == ASSUME OneSender, OneReader PROVE Spec => ChannelSpec
  BY RefInit, RefStep, ChannelInit, ChannelStep, PTL DEF Spec, ChannelSpec, Channel!Spec
=============================================================================
