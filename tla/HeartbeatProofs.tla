-------------------------- MODULE HeartbeatProofs --------------------------
(***************************************************************************)
(* Proofs about Heartbeat, for any number of logons and closes and any     *)
(* capacity of the channel of events.  The heart of the invariant is that  *)
(* the field holds nil or the newest channel, and that a loop selects on   *)
(* nil, on its own channel or on a newer one.                              *)
(***************************************************************************)
EXTENDS Heartbeat, TLAPS

FieldNewest == stopHeartbeat = 0 \/ stopHeartbeat = started

WatchNewer ==
    \A i \in Beats: /\ pc[i] # "none" => i <= started
                    /\ pc[i] = "wait" => watch[i] = 0 \/ watch[i] >= i

Inv == /\ TypeOK /\ NoDoubleClose /\ OnlyCurrentOpen
       /\ FieldNewest /\ WatchNewer /\ EndsOnlyWhenTold

\* A protocol starts without heartbeats (NewProtocol).
LEMMA InvInit == Init => Inv
  <1> SUFFICES ASSUME Init PROVE Inv
    OBVIOUS
  <1> USE BoundsAssumption DEF Init
  <1>1. TypeOK
    <2>1. started \in 0 .. MaxBeats /\ stopHeartbeat \in 0 .. started /\ buf \in 0 .. Cap
      OBVIOUS
    <2>2. pc \in [Beats -> Steps] /\ watch \in [Beats -> 0 .. started]
      BY DEF Steps
    <2> QED BY <2>1, <2>2 DEF TypeOK
  <1>2. NoDoubleClose /\ OnlyCurrentOpen /\ FieldNewest
    BY DEF NoDoubleClose, OnlyCurrentOpen, FieldNewest
  <1>3. WatchNewer /\ EndsOnlyWhenTold
    BY DEF WatchNewer, EndsOnlyWhenTold
  <1> QED BY <1>1, <1>2, <1>3 DEF Inv

\* The steps that touch neither channels nor heartbeats: the forwarder, the
\* events, the end of the read loop, the connection.
LEMMA InvKept ==
    ASSUME Inv, UNCHANGED <<chanVars, pc, watch>>, ctxDone => ctxDone',
           buf' \in 0 .. Cap, forwarding' \in BOOLEAN,
           closing' \in BOOLEAN, connClosed' \in BOOLEAN, ctxDone' \in BOOLEAN,
           run' \in {"reading", "handling", "announce", "request", "ended"}
    PROVE  Inv'
  <1> USE DEF chanVars
  <1>1. TypeOK'
    BY DEF Inv, TypeOK
  <1>2. NoDoubleClose' /\ OnlyCurrentOpen' /\ FieldNewest' /\ WatchNewer'
    BY DEF Inv, NoDoubleClose, OnlyCurrentOpen, FieldNewest, WatchNewer
  <1>3. EndsOnlyWhenTold'
    BY DEF Inv, EndsOnlyWhenTold
  <1> QED BY <1>1, <1>2, <1>3 DEF Inv

\* Every turn of a heartbeat's loop preserves the invariant; the case that
\* matters is StopCase.
LEMMA InvBeat == ASSUME Inv, NEW i \in Beats, BeatStep(i) PROVE Inv'
  <1> USE BoundsAssumption DEF chanVars, envVars, beatVars, Beats
  <1>a. /\ TypeOK /\ NoDoubleClose /\ OnlyCurrentOpen
        /\ FieldNewest /\ WatchNewer /\ EndsOnlyWhenTold
    BY DEF Inv
  <1>b. /\ UNCHANGED <<chanVars, run, envVars, forwarding>> /\ buf' \in 0 .. Cap
    BY <1>a DEF BeatStep, Watch, StopCase, CtxCase, Finish, TickCase, Sent, EmitError,
                MayEmit, MustEmit, TypeOK
  <1>c. NoDoubleClose' /\ OnlyCurrentOpen' /\ FieldNewest'
    BY <1>a, <1>b DEF NoDoubleClose, OnlyCurrentOpen, FieldNewest
  <1>d. \E p \in Steps \ {"none"}: pc' = [pc EXCEPT ![i] = p]
    BY DEF BeatStep, Watch, StopCase, CtxCase, Finish, TickCase, Sent, EmitError, Steps
  <1>e. pc[i] # "none"
    BY DEF BeatStep, Watch, StopCase, CtxCase, Finish, TickCase, Sent, EmitError
  <1>f. pc' \in [Beats -> Steps] /\ \A j \in Beats \ {i}: pc'[j] = pc[j]
    BY <1>a, <1>d DEF TypeOK
  <1>1. CASE Watch(i)
    <2>1. watch' = [watch EXCEPT ![i] = stopHeartbeat] /\ pc'[i] = "wait"
      BY <1>1, <1>a DEF Watch, TypeOK
    <2>2. TypeOK'
      BY <1>a, <1>b, <1>f, <2>1 DEF TypeOK
    <2>3. WatchNewer'
      BY <1>a, <1>b, <1>e, <1>f, <2>1 DEF WatchNewer, FieldNewest, TypeOK
    <2>4. EndsOnlyWhenTold'
      BY <1>a, <1>b, <1>f, <2>1 DEF EndsOnlyWhenTold
    <2> QED BY <1>c, <2>2, <2>3, <2>4 DEF Inv
  <1>2. CASE ~Watch(i)
    <2>1. watch' = watch /\ pc'[i] # "wait" /\ pc[i] # "select"
      BY <1>2, <1>a DEF BeatStep, Watch, StopCase, CtxCase, Finish, TickCase, Sent,
                        EmitError, TypeOK
    <2>2. TypeOK'
      BY <1>a, <1>b, <1>f, <2>1 DEF TypeOK
    <2>3. WatchNewer'
      BY <1>a, <1>b, <1>e, <1>f, <2>1 DEF WatchNewer
    <2>4. EndsOnlyWhenTold'
      <3>1. CASE StopCase(i)
        <4>1. /\ watch[i] \in closed /\ watch[i] \in 1 .. started /\ pc[i] = "wait"
              /\ started \in Nat /\ i \in Nat
          BY <3>1, <1>a DEF StopCase, TypeOK
        <4>2. i <= watch[i] /\ i \in 1 .. started
          BY <4>1, <1>a DEF WatchNewer
        <4>3. CASE i = watch[i]
          BY <4>1, <4>3, <1>a, <1>b, <1>f DEF EndsOnlyWhenTold
        <4>4. CASE i < watch[i]
          <5>1. i # stopHeartbeat
            BY <4>1, <4>2, <4>4, <1>a DEF FieldNewest, TypeOK
          <5>2. i \in closed
            BY <4>2, <5>1, <1>a DEF OnlyCurrentOpen
          <5> QED BY <5>2, <1>a, <1>b, <1>f DEF EndsOnlyWhenTold
        <4> QED BY <4>1, <4>2, <4>3, <4>4
      <3>2. CASE CtxCase(i)
        BY <3>2, <1>b DEF CtxCase, EndsOnlyWhenTold
      <3>3. CASE TickCase(i) \/ Sent(i) \/ EmitError(i)
        <4>1. pc'[i] # "done"
          BY <3>3, <1>a DEF TickCase, Sent, EmitError, TypeOK
        <4> QED BY <4>1, <1>a, <1>b, <1>f DEF EndsOnlyWhenTold
      <3> QED BY <1>2, <3>1, <3>2, <3>3 DEF BeatStep
    <2> QED BY <1>c, <2>2, <2>3, <2>4 DEF Inv
  <1> QED BY <1>1, <1>2

\* startHeartbeat preserves the invariant: the channel it closes was open, and
\* is no longer the current one.
LEMMA InvStart == ASSUME Inv, StartHeartbeat PROVE Inv'
  <1> USE BoundsAssumption DEF chanVars, envVars, beatVars, Beats
  <1>a. /\ TypeOK /\ NoDoubleClose /\ OnlyCurrentOpen
        /\ FieldNewest /\ WatchNewer /\ EndsOnlyWhenTold
    BY DEF Inv
  <1>b. /\ started \in Nat /\ started + 1 \in Beats /\ started' = started + 1
        /\ stopHeartbeat' = started + 1 /\ stopHeartbeat \in 0 .. started
        /\ closed' = closed \cup ({stopHeartbeat} \ {0}) /\ closed \subseteq 1 .. started
        /\ UNCHANGED <<watch, envVars, buf, forwarding>>
        /\ pc' = [pc EXCEPT ![started + 1] = "select"]
    BY <1>a DEF StartHeartbeat, ClosedByStart, TypeOK
  <1>1. stopHeartbeat \notin closed
    BY <1>a, <1>b DEF OnlyCurrentOpen
  <1>2. TypeOK'
    <2>1. watch \in [1 .. MaxBeats -> 0 .. started] /\ \A n \in 0 .. started: n \in 0 .. started + 1
      BY <1>a, <1>b DEF TypeOK
    <2>2. watch' \in [1 .. MaxBeats -> 0 .. started']
      BY <1>b, <2>1
    <2>3. closed' \subseteq 1 .. started' /\ pc' \in [1 .. MaxBeats -> Steps]
      BY <1>a, <1>b DEF TypeOK, Steps
    <2>4. panicked' \in BOOLEAN /\ run' \in {"reading", "handling", "announce", "request", "ended"}
      BY DEF StartHeartbeat
    <2> QED BY <1>a, <1>b, <2>2, <2>3, <2>4 DEF TypeOK
  <1>3. NoDoubleClose'
    BY <1>1, <1>a DEF StartHeartbeat, NoDoubleClose
  <1>4. OnlyCurrentOpen'
    BY <1>a, <1>b DEF OnlyCurrentOpen
  <1>5. FieldNewest'
    BY <1>b DEF FieldNewest
  <1>6. WatchNewer'
    BY <1>a, <1>b DEF WatchNewer, TypeOK
  <1>7. EndsOnlyWhenTold'
    BY <1>a, <1>b DEF EndsOnlyWhenTold, TypeOK
  <1> QED BY <1>2, <1>3, <1>4, <1>5, <1>6, <1>7 DEF Inv

\* Close preserves the invariant: the channel it closes was open, and the field
\* no longer names it.
LEMMA InvClose == ASSUME Inv, CloseStop PROVE Inv'
  <1> USE DEF chanVars, beatVars
  <1>a. /\ TypeOK /\ NoDoubleClose /\ OnlyCurrentOpen
        /\ FieldNewest /\ WatchNewer /\ EndsOnlyWhenTold
    BY DEF Inv
  <1>b. /\ UNCHANGED <<started, beatVars, run, connClosed, ctxDone, buf, forwarding>>
        /\ closing' = TRUE
    BY DEF CloseStop
  <1>1. CASE stopHeartbeat = 0
    <2>1. UNCHANGED <<chanVars, pc, watch>>
      BY <1>1, <1>b DEF CloseStop
    <2> QED BY <1>a, <1>b, <2>1, InvKept DEF TypeOK
  <1>2. CASE stopHeartbeat # 0
    <2>1. /\ stopHeartbeat \in 1 .. started /\ closed' = closed \cup {stopHeartbeat}
          /\ stopHeartbeat' = 0 /\ started \in Nat
      BY <1>2, <1>a DEF CloseStop, FieldAfterClose, TypeOK
    <2>2. stopHeartbeat \notin closed
      BY <2>1, <1>a DEF OnlyCurrentOpen
    <2>3. panicked' = panicked
      BY <1>2, <2>2, <1>a DEF CloseStop, TypeOK
    <2>4. TypeOK'
      BY <1>a, <1>b, <2>1, <2>3 DEF TypeOK
    <2>5. OnlyCurrentOpen' /\ FieldNewest' /\ NoDoubleClose'
      BY <1>a, <1>b, <2>1, <2>3 DEF OnlyCurrentOpen, FieldNewest, NoDoubleClose
    <2>6. WatchNewer' /\ EndsOnlyWhenTold'
      BY <1>a, <1>b, <2>1 DEF WatchNewer, EndsOnlyWhenTold
    <2> QED BY <2>4, <2>5, <2>6 DEF Inv
  <1> QED BY <1>1, <1>2

\* Every step preserves the invariant.
LEMMA InvStep == Inv /\ [Next]_vars => Inv'
  <1> SUFFICES ASSUME Inv, [Next]_vars PROVE Inv'
    OBVIOUS
  <1> USE DEF chanVars, envVars, beatVars
  <1>a. TypeOK /\ Cap \in Nat
    BY BoundsAssumption DEF Inv
  <1>1. CASE StartHeartbeat
    BY <1>1, InvStart
  <1>2. ASSUME NEW i \in Beats, BeatStep(i) PROVE Inv'
    BY <1>2, InvBeat
  <1>3. CASE CloseStop
    BY <1>3, InvClose
  <1>4. CASE RunRead \/ RunEnd \/ Announce \/ Request
    <2>1. UNCHANGED <<chanVars, pc, watch, envVars, forwarding>>
      BY <1>4 DEF RunRead, RunEnd, Announce, Request
    <2>2. buf' \in 0 .. Cap
      BY <1>4, <1>a DEF RunRead, RunEnd, Announce, Request, MayEmit, MustEmit, TypeOK
    <2>3. run' \in {"reading", "handling", "announce", "request", "ended"}
      BY <1>4 DEF RunRead, RunEnd, Announce, Request
    <2> QED BY <1>a, <2>1, <2>2, <2>3, InvKept DEF TypeOK
  <1>5. CASE CloseConnection \/ CtxCancel \/ Forward \/ ForwarderExit
    <2>1. UNCHANGED <<chanVars, pc, watch, run>>
      BY <1>5 DEF CloseConnection, CtxCancel, Forward, ForwarderExit
    <2>2. buf' \in 0 .. Cap
      BY <1>5, <1>a DEF CloseConnection, CtxCancel, Forward, ForwarderExit, TypeOK
    <2>3. /\ forwarding' \in BOOLEAN /\ closing' \in BOOLEAN /\ connClosed' \in BOOLEAN
          /\ ctxDone' \in BOOLEAN /\ (ctxDone => ctxDone')
      BY <1>5, <1>a DEF CloseConnection, CtxCancel, Forward, ForwarderExit, TypeOK
    <2> QED BY <1>a, <2>1, <2>2, <2>3, InvKept DEF TypeOK
  <1>6. CASE UNCHANGED vars
    BY <1>6, <1>a, InvKept DEF vars, TypeOK
  <1> QED BY <1>1, <1>2, <1>3, <1>4, <1>5, <1>6 DEF Next, RunStep

\* Type correctness: the field, the closed channels and the channel each loop
\* selects on are ones that startHeartbeat made.
THEOREM HeartbeatTypeCorrect == Spec => []TypeOK
  BY InvInit, InvStep, PTL DEF Spec, Inv

\* startHeartbeat and Close never close a stop channel twice (which panics),
\* whatever the order and number of logons and closes.
THEOREM NeverPanics == Spec => []NoDoubleClose
  BY InvInit, InvStep, PTL DEF Spec, Inv

\* Every stop channel but the current one is closed.
THEOREM NoChannelForgotten == Spec => []OnlyCurrentOpen
  BY InvInit, InvStep, PTL DEF Spec, Inv

\* The current heartbeat is never stopped by mistake.
THEOREM CurrentHeartbeatLives == Spec => []EndsOnlyWhenTold
  BY InvInit, InvStep, PTL DEF Spec, Inv
=============================================================================
