----------------------------- MODULE Heartbeat -----------------------------
(***************************************************************************)
(* protocol/heartbeat.go and what it runs beside: the read loop of         *)
(* protocol.go, which starts a heartbeat for every successful logon,       *)
(* Protocol.Close, and the channel of events with its forwarder            *)
(* (client/connection.go).                                                 *)
(*                                                                         *)
(* Heartbeat i is the goroutine of the i-th startHeartbeat; channel i is   *)
(* the stop channel that call made.  The goroutine reads the field         *)
(* h.stopHeartbeat anew, and without the mutex, at every turn of its loop. *)
(* The field is one machine word, so the read returns the value before or  *)
(* after a concurrent write: the races are the interleavings of Watch with *)
(* the locked sections of startHeartbeat and Close.                        *)
(***************************************************************************)
EXTENDS Naturals

CONSTANTS
    MaxBeats,   \* bound: calls of startHeartbeat
    Cap         \* capacity of the channel of events (128 in the client)

ASSUME BoundsAssumption == MaxBeats \in Nat /\ Cap \in Nat \ {0}

VARIABLES
    started,        \* calls of startHeartbeat so far
    stopHeartbeat,  \* the field: a channel, 0 for nil
    closed,         \* the channels that are closed
    panicked,       \* a closed channel was closed again
    pc, watch,      \* of each heartbeat: its step, the channel it selects on
    run,            \* step of the read loop (Protocol.Run)
    closing,        \* a Close is between its locked section and connection.Close
    connClosed,     \* the connection is closed
    ctxDone,        \* the context of Run is done
    buf, forwarding \* events in the channel; the forwarder is there

vars == <<started, stopHeartbeat, closed, panicked, pc, watch, run, closing,
          connClosed, ctxDone, buf, forwarding>>
chanVars == <<started, stopHeartbeat, closed, panicked>>
beatVars == <<pc, watch>>
envVars == <<closing, connClosed, ctxDone>>

Beats == 1 .. MaxBeats
Steps == {"none", "select", "wait", "send", "emit", "done"}

Init ==
    /\ started = 0 /\ stopHeartbeat = 0 /\ closed = {} /\ panicked = FALSE
    /\ pc = [i \in Beats |-> "none"] /\ watch = [i \in Beats |-> 0]
    /\ run = "reading"
    /\ closing = FALSE /\ connClosed = FALSE /\ ctxDone = FALSE
    /\ buf = 0 /\ forwarding = TRUE

-----------------------------------------------------------------------------
(* The channel of events.  An event of a session's course waits for room,  *)
(* an event of a single message is dropped when there is none.             *)

MustEmit == buf < Cap /\ buf' = buf + 1
MayEmit == buf' = IF buf < Cap THEN buf + 1 ELSE buf

Forward ==
    /\ forwarding /\ buf > 0 /\ buf' = buf - 1
    /\ UNCHANGED <<chanVars, beatVars, run, envVars, forwarding>>

\* Mutant: the forwarder gives up while the context lives.
ForwarderExit_Early ==
    /\ forwarding /\ forwarding' = FALSE
    /\ UNCHANGED <<chanVars, beatVars, run, envVars, buf>>
ForwarderExit ==
    /\ forwarding /\ ctxDone /\ forwarding' = FALSE
    /\ UNCHANGED <<chanVars, beatVars, run, envVars, buf>>

-----------------------------------------------------------------------------
(* The read loop: packets that start no heartbeat are left out.            *)

\* A logon response is read; handling it ends the loop (an error result) or
\* starts a heartbeat.  EventMessageReceived may be dropped.
RunRead ==
    /\ run = "reading" /\ ~connClosed
    /\ run' = "handling" /\ MayEmit
    /\ UNCHANGED <<chanVars, beatVars, envVars, forwarding>>

\* Read returns nil or an error, or a handler fails.  Nothing is closed.
RunEnd ==
    /\ run \in {"reading", "handling"} /\ run' = "ended"
    /\ UNCHANGED <<chanVars, beatVars, envVars, buf, forwarding>>

\* The channels closed once startHeartbeat has stopped the running heartbeat.
\* Mutants: the field is replaced before it is closed; nothing is closed.
ClosedByStart_New == IF stopHeartbeat # 0 THEN closed \cup {started + 1} ELSE closed
ClosedByStart_None == closed
ClosedByStart == closed \cup ({stopHeartbeat} \ {0})

\* startHeartbeat, with the mutex held.
StartHeartbeat ==
    /\ run = "handling" /\ started < MaxBeats
    /\ run' = "announce"
    /\ panicked' = (panicked \/ stopHeartbeat \in closed)
    /\ closed' = ClosedByStart
    /\ started' = started + 1
    /\ stopHeartbeat' = started + 1
    /\ pc' = [pc EXCEPT ![started + 1] = "select"]
    /\ UNCHANGED <<watch, envVars, buf, forwarding>>

\* EventLoggedOn.
Announce ==
    /\ run = "announce" /\ run' = "request" /\ MustEmit
    /\ UNCHANGED <<chanVars, beatVars, envVars, forwarding>>

\* The request for item announcements; its failure ends the loop.
Request ==
    /\ run = "request" /\ MayEmit
    /\ run' \in IF connClosed THEN {"ended"} ELSE {"reading", "ended"}
    /\ UNCHANGED <<chanVars, beatVars, envVars, forwarding>>

-----------------------------------------------------------------------------
(* One turn of a heartbeat's loop.                                         *)

Watch(i) ==
    /\ pc[i] = "select"
    /\ pc' = [pc EXCEPT ![i] = "wait"]
    /\ watch' = [watch EXCEPT ![i] = stopHeartbeat]
    /\ UNCHANGED <<chanVars, run, envVars, buf, forwarding>>

Finish(i) ==
    /\ pc' = [pc EXCEPT ![i] = "done"]
    /\ UNCHANGED <<chanVars, watch, run, envVars, buf, forwarding>>

StopCase(i) == pc[i] = "wait" /\ watch[i] \in closed /\ Finish(i)
\* Mutant: the case is missing.
CtxCase_Missing(i) == pc[i] = "wait" /\ FALSE /\ Finish(i)
CtxCase(i) == pc[i] = "wait" /\ ctxDone /\ Finish(i)

\* Protocol.Send: EventMessageSent, then the connection, which refuses at once
\* when it is closing.  (The context has no deadline; that it is done makes no
\* difference to a write that has begun.)
TickCase(i) ==
    /\ pc[i] = "wait" /\ MayEmit
    /\ pc' = [pc EXCEPT ![i] = IF connClosed THEN "emit" ELSE "send"]
    /\ UNCHANGED <<chanVars, watch, run, envVars, forwarding>>

Sent(i) ==
    /\ pc[i] = "send"
    /\ \E next \in {"select", "emit"}: pc' = [pc EXCEPT ![i] = next]
    /\ UNCHANGED <<chanVars, watch, run, envVars, buf, forwarding>>

\* EventError.
EmitError(i) ==
    /\ pc[i] = "emit" /\ MustEmit
    /\ pc' = [pc EXCEPT ![i] = "select"]
    /\ UNCHANGED <<chanVars, watch, run, envVars, forwarding>>

-----------------------------------------------------------------------------
(* Protocol.Close, by anyone, any number of times.                         *)

\* The field after Close; mutant: it keeps the closed channel.
FieldAfterClose_Kept == stopHeartbeat
FieldAfterClose == 0

CloseStop ==
    /\ closing' = TRUE
    /\ IF stopHeartbeat # 0
       THEN /\ panicked' = (panicked \/ stopHeartbeat \in closed)
            /\ closed' = closed \cup {stopHeartbeat}
            /\ stopHeartbeat' = FieldAfterClose
       ELSE UNCHANGED <<panicked, closed, stopHeartbeat>>
    /\ UNCHANGED <<started, beatVars, run, connClosed, ctxDone, buf, forwarding>>

CloseConnection ==
    /\ closing /\ closing' = FALSE /\ connClosed' = TRUE
    /\ UNCHANGED <<chanVars, beatVars, run, ctxDone, buf, forwarding>>

CtxCancel ==
    /\ ctxDone' = TRUE
    /\ UNCHANGED <<chanVars, beatVars, run, closing, connClosed, buf, forwarding>>

-----------------------------------------------------------------------------
RunStep == RunRead \/ RunEnd \/ StartHeartbeat \/ Announce \/ Request

BeatStep(i) ==
    \/ Watch(i) \/ StopCase(i) \/ CtxCase(i) \/ TickCase(i) \/ Sent(i) \/ EmitError(i)

Next ==
    \/ RunStep \/ \E i \in Beats: BeatStep(i)
    \/ CloseStop \/ CloseConnection \/ CtxCancel
    \/ Forward \/ ForwarderExit

Spec == Init /\ [][Next]_vars

(***************************************************************************)
(* Fairness: a runnable goroutine runs.  select chooses at random among    *)
(* the cases that are ready, so a case that is ready at every turn is      *)
(* taken at some turn (strong fairness), and a sender waiting in the queue *)
(* of a channel is served.  A Send that waits for the peer returns for     *)
(* certain only once the connection is closed (TCPConnection:              *)
(* CloseUnblocks).  Ticks, cancellation and Close are not fair.            *)
(***************************************************************************)
Fairness ==
    /\ WF_vars(Forward) /\ WF_vars(ForwarderExit) /\ WF_vars(CloseConnection)
    /\ SF_vars(Announce)
    /\ \A i \in Beats:
          /\ WF_vars(Watch(i)) /\ WF_vars(connClosed /\ Sent(i))
          /\ SF_vars(EmitError(i)) /\ SF_vars(StopCase(i)) /\ SF_vars(CtxCase(i))

FairSpec == Spec /\ Fairness

\* A peer that always reads, so that every Send returns.
ReadingPeerSpec == FairSpec /\ \A i \in Beats: WF_vars(Sent(i))

-----------------------------------------------------------------------------
(* Properties.                                                             *)

\* Every variable has its type; channels are numbered by the calls that made them.
TypeOK ==
    /\ started \in 0 .. MaxBeats /\ stopHeartbeat \in 0 .. started
    /\ closed \subseteq 1 .. started /\ panicked \in BOOLEAN
    /\ pc \in [Beats -> Steps] /\ watch \in [Beats -> 0 .. started]
    /\ run \in {"reading", "handling", "announce", "request", "ended"}
    /\ closing \in BOOLEAN /\ connClosed \in BOOLEAN /\ ctxDone \in BOOLEAN
    /\ buf \in 0 .. Cap /\ forwarding \in BOOLEAN

\* No stop channel is ever closed twice, which would panic: not by a second
\* logon, nor by Close after Close, nor by a logon handled after a Close.
NoDoubleClose == ~panicked

\* The stop channel of every heartbeat but the current one is closed, and the
\* current one's is open: no heartbeat is forgotten without being told to stop.
OnlyCurrentOpen ==
    \A c \in 1 .. started: c \notin closed <=> c = stopHeartbeat

\* While the context lives, a heartbeat ends only if its own stop channel was
\* closed: although a loop may come to select on a later heartbeat's channel, the
\* current heartbeat is never stopped by mistake.
EndsOnlyWhenTold ==
    \A i \in Beats: pc[i] = "done" /\ ~ctxDone => i \in closed

\* While the context lives nobody waits for ever for room in the channel of
\* events: neither the read loop with EventLoggedOn nor a heartbeat with its
\* EventError (the forwarder of the client never blocks).
EventsAccepted ==
    /\ run = "announce" ~> run # "announce" \/ ctxDone
    /\ \A i \in Beats: pc[i] = "emit" ~> pc[i] # "emit" \/ ctxDone

\* Heartbeat i waits for room in a full channel that nobody empties any more.
Stranded(i) == pc[i] = "emit" /\ buf = Cap /\ ~forwarding

\* Once the context is done and the connection is closed every heartbeat ends, the
\* one blocked in Send too, but for one that is stranded with its EventError.  (The
\* context alone does not end a heartbeat whose write waits for the peer.)
CtxStops ==
    \A i \in Beats: ctxDone /\ connClosed /\ pc[i] # "none" ~> pc[i] = "done" \/ Stranded(i)

\* heartbeat.go:16: "If a heartbeat is already running, stop it."  Once another
\* heartbeat is started the earlier ones end, if every Send returns.
OldHeartbeatStops == \A i \in Beats: started > i ~> pc[i] = "done" \/ ctxDone
=============================================================================
