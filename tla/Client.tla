------------------------------- MODULE Client -------------------------------
(***************************************************************************)
(* client/connection.go: the goroutine in Connect, which dials, runs the   *)
(* protocol and perhaps reconnects, and the goroutines that call           *)
(* Disconnect.  The fields protocol and reconnect are shared without a     *)
(* lock; each access is a step of its own, as both are a machine word.     *)
(*                                                                         *)
(* The field protocol is None (nil) or the server its connection leads to; *)
(* it keeps its value when Run returns.                                    *)
(***************************************************************************)
EXTENDS Naturals, Sequences, FiniteSets

CONSTANTS
    Servers,        \* servers of the directory
    Load,           \* their load, a function to Nat
    Unsupported,    \* those whose type is not "netfilter"
    Disconnectors,  \* goroutines that call Disconnect
    Reconnect,      \* values WithReconnect may be given: subset of BOOLEAN
    EventCap,       \* capacity of the channel of events (512)
    None            \* no connection: nil

ASSUME ClientAssumption ==
    /\ Load \in [Servers -> Nat] /\ Unsupported \subseteq Servers
    /\ Reconnect \subseteq BOOLEAN /\ EventCap \in Nat \ {0}
    /\ IsFiniteSet(Servers) /\ None \notin Servers

VARIABLES
    protocol, reconnect,   \* the fields
    pc, err,               \* the goroutine in Connect; connect's error
    todo,                  \* servers still to dial, sorted
    reached,               \* servers dialled with success in this attempt
    conn,                  \* the connection the dial loop holds: a server or None
    open,                  \* the socket of c.protocol is open
    dpc,                   \* the goroutines in Disconnect
    events,                \* events in the channel
    ctxDone,               \* the context of Connect is done
    extra                  \* history: attempts begun after Disconnect's flag (0 .. 2)

vars == <<protocol, reconnect, pc, err, todo, reached, conn, open,
          dpc, events, ctxDone, extra>>
dialVars == <<todo, reached, conn>>
sockVars == <<protocol, open>>
restVars == <<dpc, events, ctxDone>>

Init ==
    /\ protocol = None /\ reconnect \in Reconnect
    /\ pc = "idle" /\ err = FALSE
    /\ todo = << >> /\ reached = {} /\ conn = None
    /\ open = FALSE
    /\ dpc = [d \in Disconnectors |-> "idle"]
    /\ events = 0 /\ ctxDone = FALSE /\ extra = 0

-----------------------------------------------------------------------------
(* Connect and connect.                                                    *)

\* The next attempt begins.
Attempt ==
    /\ pc' = "identity" /\ err' = FALSE
    /\ extra' = IF pc # "idle" /\ ~reconnect /\ extra < 2 THEN extra + 1 ELSE extra

ConnectCall ==
    /\ pc = "idle" /\ Attempt
    /\ UNCHANGED <<reconnect, dialVars, sockVars, restVars>>

\* connect returns an error before it has a connection.
Fail ==
    /\ pc' = "check" /\ err' = TRUE

GetIdentity ==
    /\ pc = "identity"
    /\ Fail \/ (pc' = "list" /\ UNCHANGED err)
    /\ UNCHANGED <<reconnect, dialVars, sockVars, restVars, extra>>

\* The orders the sort may leave S in: by load, servers of equal load anyhow.
SortedByLoad(S) ==
    {q \in [1 .. Cardinality(S) -> S] :
        \A i, j \in 1 .. Cardinality(S): i < j => q[i] # q[j] /\ Load[q[i]] <= Load[q[j]]}

\* The directory's answer: an error, no server, or some servers.
GetList ==
    /\ pc = "list"
    /\ \/ Fail /\ UNCHANGED dialVars
       \/ /\ ~ctxDone
          /\ \E S \in (SUBSET Servers) \ {{}}: todo' \in SortedByLoad(S)
          /\ reached' = {} /\ conn' = None
          /\ pc' = "dial" /\ UNCHANGED err
    /\ UNCHANGED <<reconnect, sockVars, restVars, extra>>

\* What the dial loop holds after a server failed: a connection that is nil, and
\* the error.  Mutant: the error of a server is dropped.
DialError_Dropped == FALSE
DialError == TRUE

\* The servers the loop still has to visit.  Mutant: it stays at a server.
Remaining_Stuck == todo
Remaining == Tail(todo)

\* One turn of the dial loop.  The loop has no break: each success replaces
\* conn, and err is the last server's.
Dial ==
    /\ pc = "dial" /\ todo # << >>
    /\ todo' = Remaining
    /\ \/ /\ Head(todo) \notin Unsupported /\ ~ctxDone
          /\ conn' = Head(todo) /\ reached' = reached \cup {Head(todo)}
          /\ err' = FALSE
       \/ /\ Head(todo) \notin Unsupported
          /\ conn' = None /\ err' = DialError /\ UNCHANGED reached
       \/ /\ Head(todo) \in Unsupported
          /\ err' = DialError /\ UNCHANGED <<conn, reached>>
    /\ UNCHANGED <<reconnect, pc, sockVars, restVars, extra>>

\* After the loop: the attempt fails with the last error, or the protocol is
\* installed and run.  (The sockets of the other servers, and of the protocol
\* before, stay open with nobody to close them.)
DialDone ==
    /\ pc = "dial" /\ todo = << >>
    /\ IF err
       THEN pc' = "check" /\ UNCHANGED sockVars
       ELSE pc' = "run" /\ protocol' = conn /\ open' = TRUE
    /\ UNCHANGED <<reconnect, err, dialVars, restVars, extra>>

\* Protocol.Run returns: an error when the network or a message fails, and once
\* the connection is closed usually nil.  It leaves the connection as it is.
RunReturns ==
    /\ pc = "run" /\ pc' = "check"
    /\ err' \in IF open THEN {TRUE} ELSE BOOLEAN
    /\ UNCHANGED <<reconnect, dialVars, sockVars, restVars, extra>>

\* Connect after connect.  Mutant: the flag is not looked at again.
Check_NoFlag ==
    /\ pc = "check"
    /\ IF err THEN pc' = "report" /\ UNCHANGED <<err, extra>> ELSE Attempt
    /\ UNCHANGED <<reconnect, dialVars, sockVars, restVars>>
Check ==
    /\ pc = "check"
    /\ \/ ~reconnect /\ pc' = "returned" /\ UNCHANGED <<err, extra>>
       \/ reconnect /\ err /\ pc' = "report" /\ UNCHANGED <<err, extra>>
       \/ reconnect /\ ~err /\ Attempt
    /\ UNCHANGED <<reconnect, dialVars, sockVars, restVars>>

\* EventError waits for room in the channel.
EmitError == events < EventCap /\ events' = events + 1

\* The error is reported and the loop goes round.
Report ==
    /\ pc = "report" /\ EmitError
    /\ Attempt
    /\ UNCHANGED <<reconnect, dialVars, sockVars, dpc, ctxDone>>

-----------------------------------------------------------------------------
(* Disconnect, on a client whose Connect has been called.                  *)

DisconnectCall(d) ==
    /\ dpc[d] = "idle" /\ pc # "idle"
    /\ dpc' = [dpc EXCEPT ![d] = IF protocol = None THEN "noop" ELSE "flag"]
    /\ UNCHANGED <<reconnect, pc, err, dialVars, sockVars, events, ctxDone, extra>>

\* Mutant: the flag stays.
FlagAfter_Kept == reconnect
FlagAfter == FALSE

DisconnectFlag(d) ==
    /\ dpc[d] = "flag"
    /\ dpc' = [dpc EXCEPT ![d] = "close"]
    /\ reconnect' = FlagAfter
    /\ UNCHANGED <<pc, err, dialVars, sockVars, events, ctxDone, extra>>

\* Protocol.Close of whatever protocol the field holds now.
DisconnectClose(d) ==
    /\ dpc[d] = "close"
    /\ dpc' = [dpc EXCEPT ![d] = "done"]
    /\ open' = FALSE
    /\ UNCHANGED <<protocol, reconnect, pc, err, dialVars, events, ctxDone, extra>>

-----------------------------------------------------------------------------
(* The forwarders of the connections so far place events in the same       *)
(* channel, when there is room; they outlive their connections.            *)

Forward ==
    /\ protocol # None /\ events < EventCap /\ events' = events + 1
    /\ UNCHANGED <<reconnect, pc, err, dialVars, sockVars, dpc, ctxDone, extra>>

-----------------------------------------------------------------------------
(* The user: reads events, cancels the context.                            *)

Consume ==
    /\ events > 0 /\ events' = events - 1
    /\ UNCHANGED <<reconnect, pc, err, dialVars, sockVars, dpc, ctxDone, extra>>

CtxCancel ==
    /\ ~ctxDone /\ ctxDone' = TRUE
    /\ UNCHANGED <<reconnect, pc, err, dialVars, sockVars, dpc, events, extra>>

-----------------------------------------------------------------------------
ConnectStep ==
    GetIdentity \/ GetList \/ Dial \/ DialDone \/ Check \/ Report

DisconnectStep(d) == DisconnectFlag(d) \/ DisconnectClose(d)

Next ==
    \/ ConnectCall \/ ConnectStep \/ RunReturns
    \/ \E d \in Disconnectors: DisconnectCall(d) \/ DisconnectStep(d)
    \/ Forward \/ Consume \/ CtxCancel

Spec == Init /\ [][Next]_vars

(***************************************************************************)
(* Fairness: the two kinds of goroutine run, and the user reads the        *)
(* events, so that a sender in the channel's queue is served in its turn   *)
(* although the forwarders fill the channel too (strong fairness).  While  *)
(* the context lives Run returns once its connection is closed: its Read   *)
(* and Send return (TCPConnection: CloseUnblocks) and its forwarder takes  *)
(* its events (Session: HandlerReturns).  When the context is done the     *)
(* forwarder is gone, and Run may wait for ever to place an event.         *)
(***************************************************************************)
Fairness ==
    /\ WF_vars(ConnectStep) /\ SF_vars(Report)
    /\ WF_vars(~open /\ ~ctxDone /\ RunReturns)
    /\ \A d \in Disconnectors: WF_vars(DisconnectStep(d))
    /\ WF_vars(Consume)

FairSpec == Spec /\ Fairness

-----------------------------------------------------------------------------
(* Properties.                                                             *)

\* Every variable has its type; the fields and the dial loop name servers of the
\* directory.
TypeOK ==
    /\ protocol \in Servers \cup {None} /\ reconnect \in BOOLEAN
    /\ pc \in {"idle", "identity", "list", "dial", "run", "check", "report", "returned"}
    /\ err \in BOOLEAN /\ open \in BOOLEAN /\ ctxDone \in BOOLEAN
    /\ todo \in Seq(Servers) /\ reached \subseteq Servers
    /\ conn \in Servers \cup {None}
    /\ dpc \in [Disconnectors -> {"idle", "noop", "flag", "close", "done"}]
    /\ events \in 0 .. EventCap /\ extra \in 0 .. 2

\* The protocol always runs on a connection that this attempt dialled with
\* success, although the dial loop goes on after both a success and a failure
\* and overwrites the connection and the error separately.
RunsOnDialled == pc = "run" => protocol \in reached /\ protocol \notin Unsupported

\* After Disconnect has cleared the flag the connect loop begins at most one
\* more attempt: the one it had decided on before.
AtMostOneMore == extra <= 1

\* A Disconnect that closes the protocol Connect is running makes Connect
\* return, unless the context ends first: the flag is cleared before the connection
\* is closed, so that no other attempt is begun.
ClosedRunReturns == pc = "run" /\ ~open ~> pc = "returned" \/ ctxDone

\* Every attempt comes to an end of its own: it runs a protocol, or is over; and
\* one that failed gets its EventError placed, so that the loop goes on, although
\* the forwarders of earlier connections compete for the room.
AttemptSettles ==
    /\ pc = "identity" ~> pc \in {"run", "returned", "report"}
    /\ pc = "report" ~> pc = "identity"
=============================================================================
