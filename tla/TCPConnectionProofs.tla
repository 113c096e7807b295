------------------------ MODULE TCPConnectionProofs ------------------------
(***************************************************************************)
(* Proofs about TCPConnection: for any number of senders, readers and      *)
(* closers, any keys, any number of calls and frames.                      *)
(***************************************************************************)
EXTENDS TCPConnection, TLAPS

-----------------------------------------------------------------------------
(* Type correctness.                                                       *)

\* The part of the stream at the read position is one of the three parts of a
\* frame (HeadPart, HeadFrame).
LEMMA HeadType ==
    ASSUME taken \in Nat
    PROVE  HeadPart \in WriteSteps /\ HeadFrame \in Nat
  <1>1. taken % 3 \in 0 .. 2 /\ taken \div 3 \in Nat
    OBVIOUS
  <1>2. taken % 3 = 0 \/ taken % 3 = 1 \/ taken % 3 = 2
    BY <1>1
  <1> QED BY <1>1, <1>2 DEF HeadPart, HeadFrame, Parts, WriteSteps

\* A frame some of whose fragments have arrived is a frame of the server.
LEMMA HeadFrameKnown ==
    ASSUME TypeOK, CanTake
    PROVE  HeadFrame \in 1 .. Len(frames)
  <1>1. taken \in Nat /\ taken < 3 * Len(frames) /\ Len(frames) \in Nat
    BY DEF TypeOK, CanTake
  <1>2. taken \div 3 < Len(frames) /\ taken \div 3 \in Nat
    BY <1>1
  <1> QED BY <1>1, <1>2 DEF HeadFrame

\* Every action of the module keeps every variable in its type.
LEMMA TypeStep == TypeOK /\ [Next]_vars => TypeOK'
  <1> SUFFICES ASSUME TypeOK, [Next]_vars PROVE TypeOK'
    OBVIOUS
  <1> USE ConstantsAssumption
  <1> USE DEF TypeOK, connVars, sendVars, readVars, netVars, closeVars
  <1>1. ASSUME NEW k \in Keys, SetSessionKey(k) PROVE TypeOK'
    BY <1>1 DEF SetSessionKey, KeyedState, State
  <1>2. ASSUME NEW s \in Senders, SendStep(s) PROVE TypeOK'
    <2>1. ASSUME NEW dl \in Deadlines, NEW valid \in BOOLEAN, SendCall(s, dl, valid)
          PROVE TypeOK'
      <3>1. sn' \in [Senders -> Nat] /\ late' \subseteq Senders
        BY <2>1 DEF SendCall
      <3>2. /\ spc' \in [Senders -> {"idle", "key", "deadline"} \cup WriteSteps]
            /\ sres' \in [Senders -> SendResults]
        BY <2>1 DEF SendCall, SendReturn, SendGoto, SendResults
      <3>3. sdl' \in [Senders -> BOOLEAN]
        BY <2>1 DEF SendCall
      <3> QED BY <2>1, <3>1, <3>2, <3>3 DEF SendCall
    <2>2. CASE SendKey(s)
      BY <2>2 DEF SendKey, KeyInUse, SendReturn, SendGoto, SendResults
    <2>3. ASSUME NEW past \in BOOLEAN, SendDeadline(s, past) PROVE TypeOK'
      BY <2>3, ZenonT(40) DEF SendDeadline, SendReturn, SendGoto, SendResults, WriteSteps
    <2>4. CASE Write(s)
      <3>1. [by |-> s, n |-> sn[s], part |-> spc[s], key |-> skey[s]] \in Fragment
        BY <2>4 DEF Write, Fragment
      <3>2. out' \in Seq(Fragment)
        BY <2>4, <3>1 DEF Write
      <3>3. /\ spc' \in [Senders -> {"idle", "key", "deadline"} \cup WriteSteps]
            /\ sres' \in [Senders -> SendResults]
        BY <2>4, ZenonT(40) DEF Write, NextWrite, SendReturn, SendGoto, SendResults, WriteSteps
      <3> QED BY <2>4, <3>2, <3>3 DEF Write
    <2>5. ASSUME NEW partial \in BOOLEAN, WriteFail(s, partial) PROVE TypeOK'
      <3>1. WriteErrors \subseteq SendResults
        BY DEF WriteErrors, SendResults
      <3> QED BY <2>5, <3>1 DEF WriteFail, SendReturn
    <2> QED BY <1>2, <2>1, <2>2, <2>3, <2>4, <2>5 DEF SendStep
  <1>3. ASSUME NEW r \in Readers, ReadStep(r) PROVE TypeOK'
    <2>1. ASSUME NEW dl \in Deadlines, NEW valid \in BOOLEAN, ReadCall(r, dl, valid)
          PROVE TypeOK'
      BY <2>1, ZenonT(40) DEF ReadCall, ReadReturn, ReadGoto, ReadResults, ReadSteps
    <2>2. ASSUME NEW past \in BOOLEAN, ReadDeadline(r, past) PROVE TypeOK'
      BY <2>2, ZenonT(40) DEF ReadDeadline, ReadReturn, ReadGoto, ReadResults, ReadSteps
    <2>3. CASE ReadLength(r)
      <3>1. taken' \in 0 .. arrived'
        BY <2>3 DEF ReadLength, CanTake, Take
      <3>2. /\ rpc' \in [Readers -> ReadSteps] /\ rres' \in [Readers -> ReadResults]
        BY <2>3 DEF ReadLength, ReadReturn, ReadGoto, ReadResults, ReadSteps
      <3> QED BY <2>3, <3>1, <3>2 DEF ReadLength
    <2>4. CASE ReadMagic(r)
      <3>1. taken' \in 0 .. arrived'
        BY <2>4 DEF ReadMagic, CanTake, Take
      <3>2. /\ rpc' \in [Readers -> ReadSteps] /\ rres' \in [Readers -> ReadResults]
        BY <2>4, ZenonT(40) DEF ReadMagic, ReadReturn, ReadGoto, ReadResults, ReadSteps
      <3> QED BY <2>4, <3>1, <3>2 DEF ReadMagic
    <2>5. CASE ReadBody(r)
      <3>1. taken \in Nat
        OBVIOUS
      <3>2. delivered' \in Seq(Body)
        <4> DEFINE body == [frame |-> HeadFrame, part |-> HeadPart]
        <4>1. body \in Body
          BY <3>1, HeadType DEF Body
        <4>2. delivered' = delivered \/ delivered' = Append(delivered, body)
          BY <2>5 DEF ReadBody
        <4>3. delivered \in Seq(Body)
          OBVIOUS
        <4>4. Append(delivered, body) \in Seq(Body)
          <5> HIDE DEF body, TypeOK
          <5> QED BY <4>1, <4>3
        <4> QED BY ONLY <4>2, <4>3, <4>4
      <3>3. rpc' \in [Readers -> ReadSteps] /\ rres' \in [Readers -> ReadResults]
        BY <2>5, ZenonT(40) DEF ReadBody, ReadReturn, ReadResults, ReadSteps
      <3>4. taken' \in 0 .. arrived'
        BY <2>5 DEF ReadBody, CanTake, Take
      <3> QED BY <2>5, <3>2, <3>3, <3>4 DEF ReadBody
    <2>6. CASE ReadFail(r)
      <3>1. ReadErrors \subseteq ReadResults
        BY DEF ReadErrors, ReadResults
      <3> QED BY <2>6, <3>1 DEF ReadFail, ReadReturn, ReadSteps
    <2> QED BY <1>3, <2>1, <2>2, <2>3, <2>4, <2>5, <2>6 DEF ReadStep
  <1>4. ASSUME NEW c \in Closers, CloseStep(c) PROVE TypeOK'
    BY <1>4, ZenonT(40) DEF CloseStep, CloseMark, ClosingState, CloseSocket, State
  <1>5. CASE Environment
    <2>1. ASSUME NEW k \in Keys \cup {NoKey}, NEW fault \in Faults, ServerFrame(k, fault)
          PROVE TypeOK'
      <3>1. frames' \in Seq(ServerFrames)
        <4>1. [key |-> k, fault |-> fault] \in ServerFrames
          BY DEF ServerFrames
        <4> QED BY <2>1, <4>1 DEF ServerFrame
      <3>2. Len(frames') = Len(frames) + 1 /\ Len(frames) \in Nat
        BY <2>1 DEF ServerFrame
      <3>3. arrived' \in 0 .. 3 * Len(frames')
        BY <2>1, <3>2 DEF ServerFrame
      <3> QED BY <2>1, <3>1, <3>3 DEF ServerFrame
    <2>2. CASE Arrive
      <3>1. Len(frames) \in Nat /\ arrived' \in 0 .. 3 * Len(frames')
        BY <2>2 DEF Arrive
      <3>2. taken' \in 0 .. arrived'
        BY <2>2, <3>1 DEF Arrive
      <3> QED BY <2>2, <3>1, <3>2 DEF Arrive
    <2>3. CASE PeerGone
      BY <2>3 DEF PeerGone
    <2>4. CASE DeadlinePasses
      BY <2>4 DEF DeadlinePasses
    <2> QED BY <1>5, <2>1, <2>2, <2>3, <2>4 DEF Environment
  <1>6. CASE UNCHANGED vars
    BY <1>6 DEF vars
  <1> QED BY <1>1, <1>2, <1>3, <1>4, <1>5, <1>6 DEF Next

\* The connection starts in its types (NewTCPConnection).
LEMMA TypeInit == Init => TypeOK
  <1> SUFFICES ASSUME Init PROVE TypeOK
    OBVIOUS
  <1>1. /\ state \in State /\ sessionKey \in Keys \cup {NoKey}
        /\ sockClosed \in BOOLEAN /\ peerGone \in BOOLEAN
        /\ wdl \in {"none", "future", "past"} /\ rdl \in {"none", "future", "past"}
    BY DEF Init, State
  <1>2. /\ spc \in [Senders -> {"idle", "key", "deadline"} \cup WriteSteps]
        /\ skey \in [Senders -> Keys \cup {NoKey}]
        /\ sn \in [Senders -> Nat] /\ sres \in [Senders -> SendResults]
    BY DEF Init, SendResults
  <1>7. late \subseteq Senders /\ torn \in BOOLEAN
    BY Zenon DEF Init
  <1>8. out \in Seq(Fragment)
    BY DEF Init
  <1>3. sdl \in [Senders -> BOOLEAN] /\ rdead \in [Readers -> BOOLEAN]
    BY Zenon DEF Init
  <1>4. /\ rpc \in [Readers -> ReadSteps]
        /\ rres \in [Readers -> ReadResults]
        /\ delivered \in Seq(Body)
    BY DEF Init, ReadSteps, ReadResults
  <1>5. /\ frames \in Seq(ServerFrames)
        /\ arrived \in 0 .. 3 * Len(frames) /\ taken \in 0 .. arrived
    BY DEF Init
  <1>6. cpc \in [Closers -> {"idle", "marked", "done"}]
    BY DEF Init
  <1> QED BY <1>1, <1>2, <1>3, <1>4, <1>5, <1>6, <1>7, <1>8 DEF TypeOK

\* Type correctness of the connection, whatever the goroutines, keys and bounds.
THEOREM TypeCorrect == Spec => []TypeOK
  BY TypeInit, TypeStep, PTL DEF Spec

-----------------------------------------------------------------------------
(* Closing and encryption, for any number of goroutines.  What the three   *)
(* properties need beyond themselves: a closer that has marked the state   *)
(* finds it marked when it closes the socket, and a call that found a key  *)
(* on entry still finds one when it reads it.                              *)

CloseMarked == \A c \in Closers: cpc[c] = "marked" => state = "disconnecting"

KeyCarried ==
    \A s \in late: /\ spc[s] = "key" => sessionKey # NoKey
                   /\ spc[s] \in {"deadline"} \cup WriteSteps => skey[s] # NoKey

SafeInv == /\ TypeOK /\ StateMatches /\ CloseMarked
           /\ GracefulClose /\ KeyCarried

\* A fresh connection satisfies the strengthened invariant.
LEMMA SafeInit == Init => SafeInv
  <1> SUFFICES ASSUME Init PROVE SafeInv
    OBVIOUS
  <1>1. TypeOK
    BY TypeInit
  <1>2. StateMatches /\ CloseMarked /\ KeyCarried
    BY DEF Init, StateMatches, CloseMarked, KeyCarried
  <1>3. GracefulClose
    BY DEF Init, GracefulClose
  <1> QED BY <1>1, <1>2, <1>3 DEF SafeInv

\* Every action preserves the strengthened invariant.
LEMMA SafeStep == SafeInv /\ [Next]_vars => SafeInv'
  <1> SUFFICES ASSUME SafeInv, [Next]_vars PROVE SafeInv'
    OBVIOUS
  <1>0. TypeOK'
    BY TypeStep DEF SafeInv
  <1> DEFINE Rest == StateMatches /\ CloseMarked /\ GracefulClose /\ KeyCarried
  <1> SUFFICES Rest'
    BY <1>0 DEF SafeInv
  <1> USE ConstantsAssumption
  <1> USE DEF SafeInv, TypeOK, StateMatches, CloseMarked, GracefulClose, KeyCarried,
              connVars, sendVars, readVars, netVars, closeVars
  <1>1. ASSUME NEW k \in Keys, SetSessionKey(k) PROVE Rest'
    BY <1>1 DEF SetSessionKey, KeyedState, State
  <1>2. ASSUME NEW s \in Senders, SendStep(s) PROVE Rest'
    <2>1. ASSUME NEW dl \in Deadlines, NEW valid \in BOOLEAN, SendCall(s, dl, valid)
          PROVE Rest'
      BY <2>1 DEF SendCall, SendReturn, SendGoto, WriteSteps
    <2>2. CASE SendKey(s)
      <3>1. UNCHANGED <<connVars, sdl, late, readVars, closeVars>> /\ spc[s] = "key"
        BY <2>2 DEF SendKey
      <3>2. \A q \in Senders \ {s}: spc'[q] = spc[q] /\ sres'[q] = sres[q] /\ skey'[q] = skey[q]
        BY <2>2 DEF SendKey, SendReturn, SendGoto
      <3>3. /\ skey'[s] = sessionKey
            /\ \/ spc'[s] = "idle" /\ sres'[s] = "encryptError"
               \/ spc'[s] = "deadline" /\ sres'[s] = sres[s]
        BY <2>2 DEF SendKey, KeyInUse, SendReturn, SendGoto
      <3> QED BY <3>1, <3>2, <3>3 DEF WriteSteps
    <2>3. ASSUME NEW past \in BOOLEAN, SendDeadline(s, past) PROVE Rest'
      <3>1. CASE sdl[s] /\ sockClosed
        <4>1. SendReturn(s, "deadlineError")
          BY <2>3, <3>1 DEF SendDeadline
        <4>2. UNCHANGED <<connVars, skey, sdl, late, readVars, closeVars>> /\ spc[s] = "deadline"
          BY <2>3 DEF SendDeadline
        <4> QED BY <3>1, <4>1, <4>2 DEF SendReturn, WriteSteps
      <3>2. CASE ~(sdl[s] /\ sockClosed)
        <4>1. SendGoto(s, "length")
          BY <2>3, <3>2 DEF SendDeadline
        <4>2. UNCHANGED <<connVars, skey, sdl, late, readVars, closeVars>> /\ spc[s] = "deadline"
          BY <2>3 DEF SendDeadline
        <4> QED BY <4>1, <4>2 DEF SendGoto, WriteSteps
      <3> QED BY <3>1, <3>2
    <2>4. CASE Write(s)
      <3>1. UNCHANGED <<connVars, skey, sdl, late, readVars, closeVars>> /\ spc[s] \in WriteSteps
        BY <2>4 DEF Write
      <3>2. \A q \in Senders \ {s}: spc'[q] = spc[q] /\ sres'[q] = sres[q]
        BY <2>4 DEF Write, SendReturn, SendGoto
      <3>3. \/ spc'[s] = "idle" /\ sres'[s] = "ok"
            \/ spc'[s] \in WriteSteps /\ sres'[s] = sres[s]
        BY <2>4 DEF Write, NextWrite, SendReturn, SendGoto, WriteSteps
      <3> QED BY <3>1, <3>2, <3>3 DEF WriteSteps
    <2>5. ASSUME NEW partial \in BOOLEAN, WriteFail(s, partial) PROVE Rest'
      BY <2>5 DEF WriteFail, WriteErrors, SendReturn, WriteSteps
    <2> QED BY <1>2, <2>1, <2>2, <2>3, <2>4, <2>5 DEF SendStep
  <1>3. ASSUME NEW r \in Readers, ReadStep(r) PROVE Rest'
    <2>1. UNCHANGED <<connVars, sendVars, closeVars>>
      BY <1>3 DEF ReadStep, ReadCall, ReadDeadline, ReadLength, ReadMagic, ReadBody,
                  ReadFail
    <2>2. \A q \in Readers: rres'[q] # "closed"
      BY <1>3 DEF ReadStep, ReadCall, ReadDeadline, ReadLength, ReadMagic, ReadBody,
                  ReadFail, ReadErrors, ReadReturn, ReadGoto
    <2>3. \A q \in Readers: rpc'[q] = "stopped" /\ rres'[q] = "deadlineError" =>
              sockClosed' /\ rdead'[q]
      BY <1>3, <2>1 DEF ReadStep, ReadCall, ReadDeadline, ReadLength, ReadMagic, ReadBody,
                        ReadFail, ReadErrors, ReadReturn, ReadGoto
    <2> QED BY <2>1, <2>2, <2>3
  <1>4. ASSUME NEW c \in Closers, CloseStep(c) PROVE Rest'
    <2>1. CASE CloseMark(c)
      BY <2>1 DEF CloseMark, ClosingState
    <2>2. CASE CloseSocket(c)
      BY <2>2 DEF CloseSocket
    <2> QED BY <1>4, <2>1, <2>2 DEF CloseStep
  <1>5. CASE Environment
    <2>1. UNCHANGED <<connVars, closeVars, spc, skey, sdl, sres, late, rpc, rdead, rres>>
      BY <1>5 DEF Environment, ServerFrame, Arrive, PeerGone, DeadlinePasses
    <2> QED BY <2>1
  <1>6. CASE UNCHANGED vars
    BY <1>6 DEF vars
  <1> QED BY <1>1, <1>2, <1>3, <1>4, <1>5, <1>6 DEF Next

\* State, key and socket agree at every moment (SetSessionKey, Close).
THEOREM StateAgrees == Spec => []StateMatches
  BY SafeInit, SafeStep, PTL DEF Spec, SafeInv

\* No write of a Send and no read of a Read reports that Close closed its socket;
\* only setting a deadline on the closed socket does, for a context that has one.
THEOREM ClosesGracefully == Spec => []GracefulClose
  BY SafeInit, SafeStep, PTL DEF Spec, SafeInv

\* A Send called after the key was set writes no plaintext.
THEOREM NoPlaintextOnceKeyed == Spec => []EncryptedOnceKeyed
  <1>1. SafeInv => EncryptedOnceKeyed
    BY DEF SafeInv, KeyCarried, EncryptedOnceKeyed
  <1> QED BY <1>1, SafeInit, SafeStep, PTL DEF Spec

\* The state only moves forward: unencrypted, encrypted, disconnecting.
THEOREM StateForward == Spec => StateMonotone
  <1>1. TypeOK /\ [Next]_vars =>
          [/\ state = "disconnecting" => state' = "disconnecting"
           /\ state = "encrypted" => state' # "unencrypted"]_vars
    <2> SUFFICES ASSUME TypeOK, Next
                 PROVE  /\ state = "disconnecting" => state' = "disconnecting"
                        /\ state = "encrypted" => state' # "unencrypted"
      OBVIOUS
    <2>1. UNCHANGED state \/ (\E k \in Keys: SetSessionKey(k))
            \/ (\E c \in Closers: CloseMark(c))
      BY DEF Next, SendStep, SendCall, SendKey, SendDeadline, Write, WriteFail,
             ReadStep, ReadCall, ReadDeadline, ReadLength, ReadMagic, ReadBody,
             ReadFail, CloseStep, CloseSocket, Environment, ServerFrame,
             Arrive, PeerGone, DeadlinePasses, connVars
    <2> QED BY <2>1 DEF SetSessionKey, KeyedState, CloseMark, ClosingState
  <1> QED BY <1>1, TypeInit, TypeStep, PTL DEF Spec, StateMonotone

-----------------------------------------------------------------------------
(* Framing, for a connection with at most one sender (two of them tear     *)
(* each other's frames) and any readers and closers.  The invariant ties   *)
(* the sender's step to the last fragment of the stream.                   *)

OneSender == \A s, t \in Senders: s = t

Written(s, part) == [by |-> s, n |-> sn[s], part |-> part, key |-> skey[s]]

SenderPlace ==
    \A s \in Senders:
        /\ spc[s] \in {"idle", "key", "deadline", "length"} /\ out # << >>
              => out[Len(out)].part = "data"
        /\ spc[s] = "magic" => out # << >> /\ out[Len(out)] = Written(s, "length")
        /\ spc[s] = "data" => out # << >> /\ out[Len(out)] = Written(s, "magic")

FrameInv == torn \/ (FramesIntact /\ SenderPlace)

\* Appending a fragment that continues the stream keeps it framed.
LEMMA FramedAppend ==
    ASSUME out \in Seq(Fragment), NEW f \in Fragment,
           out # << >> => out[1].part = "length",
           out = << >> => f.part = "length",
           \A j \in 1 .. Len(out) - 1: Follows(out[j], out[j + 1]),
           out # << >> => Follows(out[Len(out)], f),
           out' = Append(out, f)
    PROVE  /\ out' # << >> /\ out'[1].part = "length" /\ out'[Len(out')] = f
           /\ \A j \in 1 .. Len(out') - 1: Follows(out'[j], out'[j + 1])
  <1>1. Len(out) \in Nat /\ Len(out') = Len(out) + 1 /\ out' # << >>
    OBVIOUS
  <1>2. out'[Len(out')] = f /\ \A j \in 1 .. Len(out): out'[j] = out[j]
    BY <1>1
  <1>3. out'[1].part = "length"
    <2>1. CASE out = << >>
      BY <1>1, <1>2, <2>1
    <2>2. CASE out # << >>
      BY <1>1, <1>2, <2>2
    <2> QED BY <2>1, <2>2
  <1>4. ASSUME NEW j \in 1 .. Len(out') - 1 PROVE Follows(out'[j], out'[j + 1])
    <2>1. CASE j < Len(out)
      <3>1. j \in 1 .. Len(out) - 1 /\ j \in 1 .. Len(out) /\ j + 1 \in 1 .. Len(out)
        BY <1>1, <2>1
      <3>2. out'[j] = out[j] /\ out'[j + 1] = out[j + 1]
        BY <1>2, <3>1
      <3>3. Follows(out[j], out[j + 1])
        BY <3>1
      <3> QED BY <3>2, <3>3
    <2>2. CASE j = Len(out)
      <3>1. out # << >> /\ j \in 1 .. Len(out)
        BY <1>1, <2>2
      <3>2. out'[j] = out[Len(out)] /\ out'[j + 1] = f
        BY <1>1, <1>2, <2>2, <3>1
      <3> QED BY <3>1, <3>2
    <2> QED BY <1>1, <2>1, <2>2
  <1> QED BY <1>1, <1>2, <1>3, <1>4

\* With one sender, every step of it keeps the stream framed.
LEMMA FrameSend ==
    ASSUME OneSender, TypeOK, FrameInv, NEW s \in Senders, SendStep(s)
    PROVE  FrameInv'
  <1> USE DEF TypeOK, connVars, sendVars, readVars, netVars, closeVars
  <1>0. CASE torn
    <2>1. torn'
      BY <1>0 DEF SendStep, SendCall, SendKey, SendDeadline, Write, WriteFail
    <2> QED BY <2>1 DEF FrameInv
  <1>00. CASE torn'
    BY <1>00 DEF FrameInv
  <1> SUFFICES ASSUME ~torn, ~torn' PROVE FrameInv'
    BY <1>0, <1>00
  <1>a. FramesIntact /\ SenderPlace
    BY DEF FrameInv
  <1>b. Senders = {s}
    BY DEF OneSender
  <1>1. CASE UNCHANGED out /\ spc'[s] \in {"idle", "key", "deadline", "length"}
             /\ spc[s] \in {"idle", "key", "deadline", "length"}
    BY <1>1, <1>a, <1>b DEF FrameInv, FramesIntact, Follows, SenderPlace
  <1>2. ASSUME NEW dl \in Deadlines, NEW valid \in BOOLEAN, SendCall(s, dl, valid)
        PROVE FrameInv'
    BY <1>1, <1>2 DEF SendCall, SendReturn, SendGoto
  <1>3. CASE SendKey(s)
    BY <1>1, <1>3 DEF SendKey, SendReturn, SendGoto
  <1>4. ASSUME NEW past \in BOOLEAN, SendDeadline(s, past) PROVE FrameInv'
    BY <1>1, <1>4 DEF SendDeadline, SendReturn, SendGoto
  <1>5. ASSUME NEW partial \in BOOLEAN, WriteFail(s, partial) PROVE FrameInv'
    BY <1>1, <1>5 DEF WriteFail, SendReturn
  <1>6. CASE Write(s)
    <2> DEFINE f == Written(s, spc[s])
    <2>1. f \in Fragment /\ out' = Append(out, f) /\ out \in Seq(Fragment)
      BY <1>6 DEF Write, Written, Fragment
    <2>2. /\ out # << >> => out[1].part = "length"
          /\ \A j \in 1 .. Len(out) - 1: Follows(out[j], out[j + 1])
      BY <1>a DEF FramesIntact
    <2>3. out = << >> => f.part = "length"
      BY <1>6, <1>a DEF Write, Written, SenderPlace, WriteSteps
    <2>4. out # << >> => Follows(out[Len(out)], f)
      <3>1. CASE spc[s] = "length"
        BY <1>a, <3>1 DEF Follows, Written, SenderPlace
      <3>2. CASE spc[s] = "magic"
        <4>1. out # << >> => out[Len(out)] = Written(s, "length")
          BY <1>a, <3>2 DEF SenderPlace
        <4> QED BY <3>2, <4>1 DEF Follows, Written
      <3>3. CASE spc[s] = "data"
        <4>1. out # << >> => out[Len(out)] = Written(s, "magic")
          BY <1>a, <3>3 DEF SenderPlace
        <4> QED BY <3>3, <4>1 DEF Follows, Written
      <3> QED BY <1>6, <3>1, <3>2, <3>3 DEF Write, WriteSteps
    <2>5. /\ out' # << >> /\ out'[1].part = "length" /\ out'[Len(out')] = f
          /\ \A j \in 1 .. Len(out') - 1: Follows(out'[j], out'[j + 1])
      <3> HIDE DEF f, TypeOK
      <3> QED BY <2>1, <2>2, <2>3, <2>4, FramedAppend
    <2>6. SenderPlace'
      BY <1>6, <1>b, <2>5
      DEF Write, Written, SenderPlace, SendReturn, SendGoto, NextWrite, WriteSteps
    <2> QED BY <2>5, <2>6 DEF FrameInv, FramesIntact
  <1> QED BY <1>2, <1>3, <1>4, <1>5, <1>6 DEF SendStep

\* A fresh connection has written nothing.
LEMMA FrameInit == Init => FrameInv
  BY DEF Init, FrameInv, FramesIntact, SenderPlace

\* With one sender, no step of any goroutine disturbs the framing.
LEMMA FrameStep == ASSUME OneSender PROVE TypeOK /\ FrameInv /\ [Next]_vars => FrameInv'
  <1> SUFFICES ASSUME TypeOK, FrameInv, [Next]_vars PROVE FrameInv'
    OBVIOUS
  <1>1. ASSUME NEW s \in Senders, SendStep(s) PROVE FrameInv'
    BY <1>1, FrameSend
  <1>2. CASE UNCHANGED <<spc, skey, sn, out, torn>>
    BY <1>2 DEF FrameInv, FramesIntact, Follows, SenderPlace, Written
  <1> USE DEF sendVars
  <1>3. ASSUME NEW r \in Readers, ReadStep(r) PROVE FrameInv'
    BY <1>2, <1>3 DEF ReadStep, ReadCall, ReadDeadline, ReadLength, ReadMagic,
                      ReadBody, ReadFail
  <1>4. ASSUME NEW c \in Closers, CloseStep(c) PROVE FrameInv'
    BY <1>2, <1>4 DEF CloseStep, CloseMark, CloseSocket
  <1>5. CASE Environment
    BY <1>2, <1>5 DEF Environment, ServerFrame, Arrive, PeerGone, DeadlinePasses
  <1>6. ASSUME NEW k \in Keys, SetSessionKey(k) PROVE FrameInv'
    BY <1>2, <1>6 DEF SetSessionKey
  <1>7. CASE UNCHANGED vars
    BY <1>2, <1>7 DEF vars
  <1> QED BY <1>1, <1>3, <1>4, <1>5, <1>6, <1>7 DEF Next

\* With one sender, the stream holds whole frames until a Send fails half way.
THEOREM FramesStayIntact == ASSUME OneSender PROVE Spec => []FramesIntact
  <1>1. FrameInv => FramesIntact
    BY DEF FrameInv, FramesIntact
  <1> QED BY <1>1, FrameInit, FrameStep, TypeInit, TypeStep, PTL DEF Spec

-----------------------------------------------------------------------------
(* Reading, for a connection with at most one reader (two of them lose     *)
(* their place).  The invariant ties the reader's step to the position in  *)
(* the stream and to the number of packets delivered.                      *)

OneReader == \A r, q \in Readers: r = q

ReaderPlace ==
    \A r \in Readers:
        /\ rpc[r] \in {"idle", "deadline", "length"} => taken = 3 * Len(delivered)
        /\ rpc[r] = "magic" => taken = 3 * Len(delivered) + 1
        /\ rpc[r] = "body" => taken = 3 * Len(delivered) + 2

ReadInv == ReadInSync /\ ReaderPlace

\* What the reader finds at the position it has in each step.
LEMMA HeadAt ==
    ASSUME TypeOK, ReaderPlace, NEW r \in Readers
    PROVE  /\ Len(delivered) \in Nat
           /\ rpc[r] = "length" => HeadPart = "length"
           /\ rpc[r] = "magic" => HeadPart = "magic"
           /\ rpc[r] = "body" => HeadPart = "data" /\ HeadFrame = Len(delivered) + 1
  <1>1. Len(delivered) \in Nat
    BY DEF TypeOK
  <1>2. \A n \in Nat: /\ (3 * n) % 3 = 0 /\ (3 * n + 1) % 3 = 1 /\ (3 * n + 2) % 3 = 2
                     /\ (3 * n + 2) \div 3 = n
    OBVIOUS
  <1> QED BY <1>1, <1>2 DEF ReaderPlace, HeadPart, HeadFrame, Parts

\* With one reader, every step of it keeps it in place.
LEMMA ReadKeepsPlace ==
    ASSUME OneReader, TypeOK, ReadInv, NEW r \in Readers, ReadStep(r)
    PROVE  ReadInv'
  <1> USE DEF TypeOK, netVars
  <1>a. Readers = {r}
    BY DEF OneReader
  <1>b. ReadInSync /\ ReaderPlace
    BY DEF ReadInv
  <1>1. ASSUME NEW dl \in Deadlines, NEW valid \in BOOLEAN, ReadCall(r, dl, valid)
        PROVE ReadInv'
    BY <1>1, <1>a, <1>b
    DEF ReadInv, ReadInSync, ReaderPlace, ReadCall, ReadReturn, ReadGoto
  <1>2. ASSUME NEW past \in BOOLEAN, ReadDeadline(r, past) PROVE ReadInv'
    BY <1>2, <1>a, <1>b
    DEF ReadInv, ReadInSync, ReaderPlace, ReadDeadline, ReadReturn, ReadGoto
  <1>3. CASE ReadLength(r)
    <2>1. HeadPart = "length" /\ HeadFrame \in 1 .. Len(frames)
      BY <1>3, <1>b, HeadAt, HeadFrameKnown DEF ReadLength
    <2>2. ReadInSync'
      BY <1>3, <1>a, <1>b, <2>1 DEF ReadLength, ReadInSync, ReadReturn, ReadGoto
    <2>3. ReaderPlace'
      BY <1>3, <1>a, <1>b, HeadAt DEF ReadLength, ReaderPlace, ReadReturn, ReadGoto, Take
    <2> QED BY <2>2, <2>3 DEF ReadInv
  <1>4. CASE ReadMagic(r)
    <2>1. HeadPart = "magic" /\ HeadFrame \in 1 .. Len(frames)
      BY <1>4, <1>b, HeadAt, HeadFrameKnown DEF ReadMagic, MagicGood
    <2>2. ReadInSync'
      BY <1>4, <1>a, <1>b, <2>1
      DEF ReadMagic, MagicGood, ReadInSync, ReadReturn, ReadGoto, Faults, ServerFrames
    <2>3. ReaderPlace'
      BY <1>4, <1>a, <1>b, HeadAt DEF ReadMagic, MagicGood, ReaderPlace, ReadReturn, ReadGoto, Take
    <2> QED BY <2>2, <2>3 DEF ReadInv
  <1>5. CASE ReadBody(r)
    <2>1. /\ HeadPart = "data" /\ HeadFrame = Len(delivered) + 1
          /\ Len(delivered) \in Nat /\ taken = 3 * Len(delivered) + 2
      BY <1>5, <1>b, HeadAt DEF ReadBody, ReaderPlace
    <2>2. CASE rpc'[r] = "stopped" /\ rres'[r] = "decryptError" /\ UNCHANGED delivered
      BY <1>5, <2>2, <1>a, <1>b DEF ReadBody, ReadInv, ReadInSync, ReaderPlace
    <2>3. CASE /\ rpc'[r] = "idle" /\ rres'[r] = "ok"
               /\ delivered' = Append(delivered, [frame |-> HeadFrame, part |-> HeadPart])
      <3>1. /\ Len(delivered') = Len(delivered) + 1
            /\ \A d \in 1 .. Len(delivered): delivered'[d] = delivered[d]
            /\ delivered'[Len(delivered) + 1] = [frame |-> HeadFrame, part |-> HeadPart]
        BY <2>3
      <3>2. \A d \in 1 .. Len(delivered'):
               delivered'[d].frame = d /\ delivered'[d].part = "data"
        <4> SUFFICES ASSUME NEW d \in 1 .. Len(delivered')
                     PROVE  delivered'[d].frame = d /\ delivered'[d].part = "data"
          OBVIOUS
        <4>1. CASE d \in 1 .. Len(delivered)
          BY <3>1, <4>1, <1>b DEF ReadInSync
        <4>2. CASE d = Len(delivered) + 1
          BY <2>1, <3>1, <4>2
        <4> QED BY <2>1, <3>1, <4>1, <4>2
      <3>3. ReadInSync'
        BY <1>5, <1>a, <1>b, <2>3, <3>2 DEF ReadBody, ReadInSync
      <3>4. ReaderPlace'
        BY <1>5, <1>a, <2>1, <2>3, <3>1 DEF ReadBody, ReaderPlace, Take
      <3> QED BY <3>3, <3>4 DEF ReadInv
    <2> QED BY <1>5, <2>2, <2>3 DEF ReadBody, ReadReturn
  <1>6. CASE ReadFail(r)
    BY <1>6, <1>a, <1>b
    DEF ReadInv, ReadInSync, ReaderPlace, ReadFail, ReadReturn, ReadErrors
  <1> QED BY <1>1, <1>2, <1>3, <1>4, <1>5, <1>6 DEF ReadStep

\* A fresh connection has read nothing.
LEMMA ReadInit == Init => ReadInv
  BY DEF Init, ReadInv, ReadInSync, ReaderPlace

\* With one reader, no step of any goroutine makes it lose its place.
LEMMA ReadKept == ASSUME OneReader PROVE TypeOK /\ ReadInv /\ [Next]_vars => ReadInv'
  <1> SUFFICES ASSUME TypeOK, ReadInv, [Next]_vars PROVE ReadInv'
    OBVIOUS
  <1> USE DEF readVars, netVars
  <1>1. ASSUME NEW r \in Readers, ReadStep(r) PROVE ReadInv'
    BY <1>1, ReadKeepsPlace
  <1>2. CASE UNCHANGED <<rpc, rres, taken, delivered, frames>>
    BY <1>2 DEF ReadInv, ReadInSync, ReaderPlace
  <1>3. ASSUME NEW s \in Senders, SendStep(s) PROVE ReadInv'
    BY <1>2, <1>3 DEF SendStep, SendCall, SendKey, SendDeadline, Write, WriteFail
  <1>4. ASSUME NEW c \in Closers, CloseStep(c) PROVE ReadInv'
    BY <1>2, <1>4 DEF CloseStep, CloseMark, CloseSocket
  <1>5. ASSUME NEW k \in Keys \cup {NoKey}, NEW fault \in Faults, ServerFrame(k, fault)
        PROVE ReadInv'
    <2>1. /\ Len(frames') = Len(frames) + 1 /\ Len(frames) \in Nat
          /\ \A f \in 1 .. Len(frames): f \in 1 .. Len(frames') /\ frames'[f] = frames[f]
      BY <1>5 DEF ServerFrame, TypeOK
    <2>2. UNCHANGED <<rpc, rres, taken, delivered>>
      BY <1>5 DEF ServerFrame
    <2> QED BY <2>1, <2>2 DEF ReadInv, ReadInSync, ReaderPlace
  <1>6. CASE Arrive \/ PeerGone \/ DeadlinePasses
    BY <1>2, <1>6 DEF Arrive, PeerGone, DeadlinePasses
  <1>7. ASSUME NEW k \in Keys, SetSessionKey(k) PROVE ReadInv'
    BY <1>2, <1>7 DEF SetSessionKey
  <1>8. CASE UNCHANGED vars
    BY <1>2, <1>8 DEF vars
  <1> QED BY <1>1, <1>3, <1>4, <1>5, <1>6, <1>7, <1>8 DEF Next, Environment

\* With one reader, as Protocol.Run is, Read never loses its place and returns
\* the bodies of the frames in order.
THEOREM ReadsInSync == ASSUME OneReader PROVE Spec => []ReadInSync
  <1>1. ReadInv => ReadInSync
    BY DEF ReadInv
  <1> QED BY <1>1, ReadInit, ReadKept, TypeInit, TypeStep, PTL DEF Spec
=============================================================================
