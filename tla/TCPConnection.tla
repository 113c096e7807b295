--------------------------- MODULE TCPConnection ---------------------------
(***************************************************************************)
(* connection/tcp.go: one TCPConnection shared by the goroutines that use  *)
(* it.  Senders call Send, Readers call Read, Closers call Close, anybody  *)
(* sets the session key.  The mutex of the struct protects each single     *)
(* access to state and sessionKey and nothing longer, so every access, and *)
(* every operation on the socket, is a step of its own.                    *)
(*                                                                         *)
(* The outgoing stream is a sequence of the fragments Send writes (length, *)
(* magic, data).  The incoming stream is a sequence of server frames whose *)
(* fragments arrive one by one: fragment number f (from 0) is part f % 3   *)
(* of frame f \div 3 + 1.                                                  *)
(***************************************************************************)
EXTENDS Naturals, Sequences

CONSTANTS
    Senders,    \* goroutines that call Send (heartbeat, Run, the user)
    Readers,    \* goroutines that call Read (Protocol.Run is the one in use)
    Closers,    \* goroutines that call Close
    Keys,       \* non-empty session keys
    ShortKeys,  \* those that are not 32 bytes: encrypting with one fails
    NoKey,      \* the empty session key
    Deadlines,  \* may a caller's context carry a deadline: subset of BOOLEAN
    MaxSends,   \* bound: Send calls per sender
    MaxFrames   \* bound: frames the server sends

ASSUME ConstantsAssumption ==
    /\ NoKey \notin Keys
    /\ ShortKeys \subseteq Keys
    /\ Deadlines \subseteq BOOLEAN
    /\ MaxSends \in Nat /\ MaxFrames \in Nat
    /\ Senders \cap Readers = {}

VARIABLES
    state, sessionKey,           \* the fields of the struct
    sockClosed,                  \* connection.Close() has been called
    peerGone,                    \* the server ended or reset the connection
    wdl, rdl,                    \* write and read deadline set on the socket
    spc, skey, sdl, sn, sres,    \* Send: step, key read, ctx deadline, call, result
    out,                         \* fragments written to the socket
    torn,                        \* a Send failed and left part of a frame behind
    late,                        \* history: calls that began with the key set
    rpc, rdead, rres,            \* Read: step, ctx deadline, result of the last call
    frames, arrived, taken,      \* server frames, fragments arrived, fragments read
    delivered,                   \* bodies returned by Read, in order
    cpc                          \* Close: step

connVars == <<state, sessionKey>>
sendVars == <<spc, skey, sdl, sn, sres, out, torn, late, wdl>>
readVars == <<rpc, rdead, rres, taken, delivered, rdl>>
netVars == <<peerGone, frames, arrived>>
closeVars == <<cpc, sockClosed>>
vars == <<connVars, sendVars, readVars, netVars, closeVars>>

State == {"disconnecting", "unencrypted", "encrypted"}
Parts == <<"length", "magic", "data">>
WriteSteps == {"length", "magic", "data"}
Faults == {"none", "huge", "badMagic"}   \* what Read rejects in a frame
Fragment == [by: Senders, n: Nat, part: WriteSteps, key: Keys \cup {NoKey}]
ServerFrames == [key: Keys \cup {NoKey}, fault: Faults]
Body == [frame: Nat, part: WriteSteps]
ReadSteps == {"idle", "deadline", "length", "magic", "body", "stopped"}
SendResults == {"none", "ok", "refused", "encryptError", "deadlineError",
                "graceful", "closed", "timeout", "netError"}
ReadResults == {"none", "ok", "refused", "nil", "deadlineError", "closed",
                "timeout", "eof", "tooLarge", "badMagic", "decryptError"}

Init ==                                             \* NewTCPConnection
    /\ state = "unencrypted" /\ sessionKey = NoKey
    /\ sockClosed = FALSE /\ peerGone = FALSE
    /\ wdl = "none" /\ rdl = "none"
    /\ spc = [s \in Senders |-> "idle"]
    /\ skey = [s \in Senders |-> NoKey]
    /\ sdl = [s \in Senders |-> FALSE]
    /\ sn = [s \in Senders |-> 0]
    /\ sres = [s \in Senders |-> "none"]
    /\ late = {}
    /\ out = << >> /\ torn = FALSE
    /\ rpc = [r \in Readers |-> "idle"]
    /\ rdead = [r \in Readers |-> FALSE]
    /\ rres = [r \in Readers |-> "none"]
    /\ frames = << >> /\ arrived = 0 /\ taken = 0 /\ delivered = << >>
    /\ cpc = [c \in Closers |-> "idle"]

-----------------------------------------------------------------------------
(* State and key.  A call with an empty key returns at once.               *)

\* The transition of SetSessionKey.  Mutant: the key is stored and the state
\* forgotten.
KeyedState_Forgotten == state
KeyedState == IF state = "unencrypted" THEN "encrypted" ELSE state

SetSessionKey(k) ==
    /\ state' = KeyedState
    /\ sessionKey' = k
    /\ UNCHANGED <<sendVars, readVars, netVars, closeVars>>

-----------------------------------------------------------------------------
(* Send.                                                                   *)

SendReturn(s, result) ==
    /\ spc' = [spc EXCEPT ![s] = "idle"]
    /\ sres' = [sres EXCEPT ![s] = result]

SendGoto(s, step) ==
    /\ spc' = [spc EXCEPT ![s] = step]
    /\ UNCHANGED sres

\* The checks on entry; valid is FALSE for a nil context or empty data.  Mutant: a
\* connection that is closing takes the call.
SendAccepts_Closing(valid) == valid
SendAccepts(valid) == valid /\ state # "disconnecting"

SendCall(s, dl, valid) ==
    /\ spc[s] = "idle" /\ sn[s] < MaxSends
    /\ sn' = [sn EXCEPT ![s] = @ + 1]
    /\ sdl' = [sdl EXCEPT ![s] = dl]
    /\ late' = IF sessionKey # NoKey THEN late \cup {s} ELSE late \ {s}
    /\ IF SendAccepts(valid)
       THEN SendGoto(s, "key") ELSE SendReturn(s, "refused")
    /\ UNCHANGED <<connVars, skey, out, torn, wdl, readVars, netVars, closeVars>>

\* The key Send encrypts with; mutant: the state, and not the key, decides.
KeyInUse_ByState == IF state = "encrypted" THEN sessionKey ELSE NoKey
KeyInUse == sessionKey

\* GetSessionKey, and encryption with it when there is one.
SendKey(s) ==
    /\ spc[s] = "key"
    /\ skey' = [skey EXCEPT ![s] = KeyInUse]
    /\ IF KeyInUse \in ShortKeys
       THEN SendReturn(s, "encryptError") ELSE SendGoto(s, "deadline")
    /\ UNCHANGED <<connVars, sdl, sn, out, torn, late, wdl,
                   readVars, netVars, closeVars>>

\* SetWriteDeadline, only when the context has a deadline; its error is
\* returned even when the connection is being closed.  past is TRUE when the
\* deadline is over already.
SendDeadline(s, past) ==
    /\ spc[s] = "deadline"
    /\ IF sdl[s] /\ sockClosed
       THEN SendReturn(s, "deadlineError") /\ UNCHANGED wdl
       ELSE /\ SendGoto(s, "length")
            /\ wdl' = IF ~sdl[s] THEN wdl ELSE IF past THEN "past" ELSE "future"
    /\ UNCHANGED <<connVars, skey, sdl, sn, out, torn, late,
                   readVars, netVars, closeVars>>

\* The write that follows; mutant: the magic is left out.
NextWrite_NoMagic(part) == "data"
NextWrite(part) == IF part = "length" THEN "magic" ELSE "data"

\* One of the three writes succeeds.
Write(s) ==
    /\ spc[s] \in WriteSteps
    /\ ~sockClosed /\ wdl # "past"
    /\ out' = Append(out, [by |-> s, n |-> sn[s], part |-> spc[s], key |-> skey[s]])
    /\ IF spc[s] = "data" THEN SendReturn(s, "ok")
                          ELSE SendGoto(s, NextWrite(spc[s]))
    /\ UNCHANGED <<connVars, skey, sdl, sn, torn, late, wdl,
                   readVars, netVars, closeVars>>

\* How a write may fail now; mutant: a closed socket is tried again.
WriteErrors_RetryClosed ==
    IF sockClosed THEN {} ELSE IF wdl = "past" THEN {"timeout"} ELSE {}
WriteErrors ==
    IF sockClosed THEN {IF state = "disconnecting" THEN "graceful" ELSE "closed"}
    ELSE IF wdl = "past" THEN {"timeout"}
    ELSE IF peerGone THEN {"netError"} ELSE {}

\* One of the three writes fails: the call returns, whatever was written of the
\* frame stays in the stream.  partial: bytes of this fragment got out too.
WriteFail(s, partial) ==
    /\ spc[s] \in WriteSteps
    /\ \E e \in WriteErrors: SendReturn(s, e)
    /\ torn' = (torn \/ partial \/ spc[s] # "length")
    /\ UNCHANGED <<connVars, skey, sdl, sn, out, late, wdl,
                   readVars, netVars, closeVars>>

-----------------------------------------------------------------------------
(* Read.  Protocol.Run calls Read again after a packet and stops after a   *)
(* nil reader or an error.                                                 *)

\* Mutant: the loop goes on after an error.
ReadReturn_GoOn(r, result) ==
    /\ rpc' = [rpc EXCEPT ![r] = "idle"]
    /\ rres' = [rres EXCEPT ![r] = result]
ReadReturn(r, result) ==
    /\ rpc' = [rpc EXCEPT ![r] = IF result = "ok" THEN "idle" ELSE "stopped"]
    /\ rres' = [rres EXCEPT ![r] = result]

ReadGoto(r, step) ==
    /\ rpc' = [rpc EXCEPT ![r] = step]
    /\ UNCHANGED rres

ReadCall(r, dl, valid) ==
    /\ rpc[r] = "idle"
    /\ rdead' = [rdead EXCEPT ![r] = dl]
    /\ CASE ~valid -> ReadReturn(r, "refused")
         [] valid /\ state = "disconnecting" -> ReadReturn(r, "nil")
         [] OTHER -> ReadGoto(r, "deadline")
    /\ UNCHANGED <<connVars, sendVars, netVars, closeVars,
                   taken, delivered, rdl>>

ReadDeadline(r, past) ==
    /\ rpc[r] = "deadline"
    /\ IF rdead[r] /\ sockClosed
       THEN ReadReturn(r, "deadlineError") /\ UNCHANGED rdl
       ELSE /\ ReadGoto(r, "length")
            /\ rdl' = IF ~rdead[r] THEN rdl ELSE IF past THEN "past" ELSE "future"
    /\ UNCHANGED <<connVars, sendVars, netVars, closeVars,
                   rdead, taken, delivered>>

\* What the next unread fragment is, and the frame it belongs to.
HeadPart == Parts[(taken % 3) + 1]
HeadFrame == (taken \div 3) + 1
\* Mutant: the read does not wait for the bytes.
CanTake_NoWait == ~sockClosed /\ rdl # "past" /\ taken < 3 * Len(frames)
\* Mutant: the read waits for bytes beyond the frame.
CanTake_OneMore == ~sockClosed /\ rdl # "past" /\ taken + 1 < arrived
CanTake == ~sockClosed /\ rdl # "past" /\ taken < arrived
Take == taken' = taken + 1

\* Four bytes are read as the length.  The magic, read as a length, is over
\* 1 MB; body bytes read as a length may be anything.
ReadLength(r) ==
    /\ rpc[r] = "length" /\ CanTake /\ Take
    /\ \/ /\ HeadPart = "length" => frames[HeadFrame].fault = "huge"
          /\ ReadReturn(r, "tooLarge")
       \/ /\ HeadPart # "magic"
          /\ HeadPart = "length" => frames[HeadFrame].fault # "huge"
          /\ ReadGoto(r, "magic")
    /\ UNCHANGED <<connVars, sendVars, netVars, closeVars,
                   rdead, delivered, rdl>>

\* Four bytes are compared with the magic.  Mutant: they are skipped.
MagicGood_Skipped == TRUE
MagicGood == HeadPart = "magic" /\ frames[HeadFrame].fault # "badMagic"

ReadMagic(r) ==
    /\ rpc[r] = "magic" /\ CanTake /\ Take
    /\ IF MagicGood
       THEN ReadGoto(r, "body") ELSE ReadReturn(r, "badMagic")
    /\ UNCHANGED <<connVars, sendVars, netVars, closeVars,
                   rdead, delivered, rdl>>

\* The body, and then its decryption when a key is set at that moment: a body
\* that is not encrypted with this key fails the HMAC check.  (Reading the body
\* commutes with every step of the other goroutines on the key, so that the two
\* are one step here.)
ReadBody(r) ==
    /\ rpc[r] = "body" /\ CanTake /\ Take
    /\ IF /\ sessionKey # NoKey
          /\ \/ sessionKey \in ShortKeys
             \/ HeadPart # "data"
             \/ frames[HeadFrame].key # sessionKey
       THEN ReadReturn(r, "decryptError") /\ UNCHANGED delivered
       ELSE /\ ReadReturn(r, "ok")
            /\ delivered' = Append(delivered, [frame |-> HeadFrame, part |-> HeadPart])
    /\ UNCHANGED <<connVars, sendVars, netVars, closeVars, rdead, rdl>>

\* How a read may fail now; mutant: a closed socket is tried again.
ReadErrors_RetryClosed ==
    IF sockClosed THEN {} ELSE IF rdl = "past" THEN {"timeout"} ELSE {}
ReadErrors ==
    IF sockClosed THEN {IF state = "disconnecting" THEN "nil" ELSE "closed"}
    ELSE IF rdl = "past" THEN {"timeout"}
    ELSE IF peerGone /\ taken = arrived THEN {"eof"} ELSE {}

\* The socket read fails, in any of the three steps.
ReadFail(r) ==
    /\ rpc[r] \in {"length", "magic", "body"}
    /\ \E e \in ReadErrors: ReadReturn(r, e)
    /\ UNCHANGED <<connVars, sendVars, netVars, closeVars,
                   rdead, taken, delivered, rdl>>

-----------------------------------------------------------------------------
(* Close: the state first, under the mutex, then the socket.               *)

\* The state Close sets; mutant: it says nothing of the closing.
ClosingState_Silent == state
ClosingState == "disconnecting"

CloseMark(c) ==
    /\ cpc[c] = "idle"
    /\ state' = ClosingState
    /\ cpc' = [cpc EXCEPT ![c] = "marked"]
    /\ UNCHANGED <<sessionKey, sendVars, readVars, netVars, sockClosed>>

\* The socket; net.Conn.Close reports an error when it is closed already, which
\* Close returns.
CloseSocket(c) ==
    /\ cpc[c] = "marked"
    /\ sockClosed' = TRUE
    /\ cpc' = [cpc EXCEPT ![c] = "done"]
    /\ UNCHANGED <<connVars, sendVars, readVars, netVars>>

-----------------------------------------------------------------------------
(* The server and the clock.                                               *)

ServerFrame(k, fault) ==
    /\ Len(frames) < MaxFrames /\ ~peerGone
    /\ frames' = Append(frames, [key |-> k, fault |-> fault])
    /\ UNCHANGED <<connVars, sendVars, readVars, closeVars, peerGone, arrived>>

Arrive ==
    /\ arrived < 3 * Len(frames)
    /\ arrived' = arrived + 1
    /\ UNCHANGED <<connVars, sendVars, readVars, closeVars, peerGone, frames>>

PeerGone ==
    /\ ~peerGone /\ peerGone' = TRUE
    /\ UNCHANGED <<connVars, sendVars, readVars, closeVars, frames, arrived>>

DeadlinePasses ==
    /\ \/ wdl = "future" /\ wdl' = "past" /\ UNCHANGED rdl
       \/ rdl = "future" /\ rdl' = "past" /\ UNCHANGED wdl
    /\ UNCHANGED <<connVars, netVars, closeVars,
                   spc, skey, sdl, sn, sres, out, torn, late,
                   rpc, rdead, rres, taken, delivered>>

-----------------------------------------------------------------------------
SendStep(s) ==
    \/ \E dl \in Deadlines, valid \in BOOLEAN: SendCall(s, dl, valid)
    \/ SendKey(s)
    \/ \E past \in BOOLEAN: SendDeadline(s, past)
    \/ Write(s)
    \/ \E partial \in BOOLEAN: WriteFail(s, partial)

ReadStep(r) ==
    \/ \E dl \in Deadlines, valid \in BOOLEAN: ReadCall(r, dl, valid)
    \/ \E past \in BOOLEAN: ReadDeadline(r, past)
    \/ ReadLength(r) \/ ReadMagic(r) \/ ReadBody(r)
    \/ ReadFail(r)

CloseStep(c) == CloseMark(c) \/ CloseSocket(c)

Environment ==
    \/ \E k \in Keys \cup {NoKey}, fault \in Faults: ServerFrame(k, fault)
    \/ Arrive \/ PeerGone \/ DeadlinePasses

Next ==
    \/ \E k \in Keys: SetSessionKey(k)
    \/ \E s \in Senders: SendStep(s)
    \/ \E r \in Readers: ReadStep(r)
    \/ \E c \in Closers: CloseStep(c)
    \/ Environment

Spec == Init /\ [][Next]_vars

(***************************************************************************)
(* Fairness.  A goroutine that is runnable runs, so a call that can return *)
(* or move on does, and Run calls Read again after a packet.  Not fair:    *)
(* starting a Send or a Close, a successful write (the peer may stop       *)
(* reading), the server sending, the clock.                                *)
(***************************************************************************)
Fairness ==
    /\ \A s \in Senders:
          /\ WF_vars(SendKey(s))
          /\ WF_vars(\E past \in BOOLEAN: SendDeadline(s, past))
          /\ WF_vars(\E partial \in BOOLEAN: WriteFail(s, partial))
    /\ \A r \in Readers:
          /\ WF_vars(\E dl \in Deadlines, valid \in BOOLEAN: ReadCall(r, dl, valid))
          /\ WF_vars(\E past \in BOOLEAN: ReadDeadline(r, past))
          /\ WF_vars(ReadLength(r) \/ ReadMagic(r) \/ ReadBody(r))
          /\ WF_vars(ReadFail(r))
    /\ \A c \in Closers: WF_vars(CloseSocket(c))
    /\ WF_vars(Arrive)

FairSpec == Spec /\ Fairness

-----------------------------------------------------------------------------
(* Properties.                                                             *)

\* Every variable has its type; the incoming stream is read no further than it
\* has arrived.
TypeOK ==
    /\ state \in State /\ sessionKey \in Keys \cup {NoKey}
    /\ sockClosed \in BOOLEAN /\ peerGone \in BOOLEAN
    /\ wdl \in {"none", "future", "past"} /\ rdl \in {"none", "future", "past"}
    /\ spc \in [Senders -> {"idle", "key", "deadline"} \cup WriteSteps]
    /\ skey \in [Senders -> Keys \cup {NoKey}]
    /\ sdl \in [Senders -> BOOLEAN] /\ sn \in [Senders -> Nat]
    /\ sres \in [Senders -> SendResults] /\ late \subseteq Senders
    /\ out \in Seq(Fragment) /\ torn \in BOOLEAN
    /\ rpc \in [Readers -> ReadSteps]
    /\ rdead \in [Readers -> BOOLEAN] /\ rres \in [Readers -> ReadResults]
    /\ frames \in Seq(ServerFrames)
    /\ arrived \in 0 .. 3 * Len(frames) /\ taken \in 0 .. arrived
    /\ delivered \in Seq(Body)
    /\ cpc \in [Closers -> {"idle", "marked", "done"}]

\* The state and the key agree: an unencrypted connection has no key, an
\* encrypted one has one, and the socket is closed only after the state says so
\* (SetSessionKey and Close update them separately).
StateMatches ==
    /\ state = "unencrypted" => sessionKey = NoKey
    /\ state = "encrypted" => sessionKey # NoKey
    /\ sockClosed => state = "disconnecting"

\* A Send or Read that a concurrent Close interrupts in one of its writes or reads
\* never reports "use of closed network connection": it returns nil (the ErrClosed
\* branches of Send and Read).  The one error of a closed socket that gets out is
\* that of setting a deadline on it, and only to a caller whose context has one.
GracefulClose ==
    /\ \A s \in Senders:
          /\ sres[s] # "closed"
          /\ spc[s] = "idle" /\ sres[s] = "deadlineError" => sockClosed /\ sdl[s]
    /\ \A r \in Readers:
          /\ rres[r] # "closed"
          /\ rpc[r] = "stopped" /\ rres[r] = "deadlineError" => sockClosed /\ rdead[r]

\* A Send that was called after SetSessionKey returned never puts plaintext on
\* the wire, whatever other goroutines do in between.
EncryptedOnceKeyed ==
    \A s \in late: spc[s] \in WriteSteps => skey[s] # NoKey

\* The lifecycle of state.go: a connection never leaves Disconnecting and never
\* goes back from Encrypted to Unencrypted.
StateMonotone ==
    [][/\ state = "disconnecting" => state' = "disconnecting"
       /\ state = "encrypted" => state' # "unencrypted"]_vars

\* Fragment g may follow fragment f in the stream: it is the next part of the
\* same call's frame, or f ends a frame and g starts another.
Follows(f, g) ==
    IF f.part = "data" THEN g.part = "length"
    ELSE /\ g.part = IF f.part = "length" THEN "magic" ELSE "data"
         /\ g.by = f.by /\ g.n = f.n /\ g.key = f.key

\* Until a Send fails half way, the outgoing stream is a sequence of whole
\* frames, the last one perhaps unfinished ([length][magic][data] of Send).
FramesIntact ==
    torn \/ /\ out # << >> => out[1].part = "length"
            /\ \A j \in 1 .. Len(out) - 1: Follows(out[j], out[j + 1])

\* A reader rejects a length or a magic only when the server sent a bad one: it
\* never loses its place in the stream, and what it returns is the body of a
\* frame, the frames in the order they were sent, none left out.
ReadInSync ==
    /\ \A r \in Readers:
          /\ rres[r] = "tooLarge" => \E f \in 1 .. Len(frames): frames[f].fault = "huge"
          /\ rres[r] = "badMagic" => \E f \in 1 .. Len(frames): frames[f].fault = "badMagic"
    /\ \A d \in 1 .. Len(delivered):
          delivered[d].frame = d /\ delivered[d].part = "data"

\* Every call in flight when the socket is closed returns, and the read loop
\* ends: Close unblocks a Read that waits for data and a Send that waits for the
\* peer.
CloseUnblocks ==
    /\ \A s \in Senders: sockClosed ~> spc[s] = "idle"
    /\ \A r \in Readers: sockClosed ~> rpc[r] = "stopped"

\* A frame that has arrived in full is returned by Read, unless the read loop
\* ended: Read never waits for more bytes than the frame has.
FrameDelivered ==
    \A f \in 1 .. MaxFrames:
        arrived >= 3 * f ~> \/ Len(delivered) >= f
                            \/ \E r \in Readers: rpc[r] = "stopped"

-----------------------------------------------------------------------------
(* The connection, used by one sender and one reader, implements           *)
(* FrameChannel.                                                           *)

\* What the server makes of the outgoing stream: it takes three fragments for a
\* frame, which is whole if they are the three parts of one Send.
WholeAt(i) ==
    /\ out[i].part = "length"
    /\ Follows(out[i], out[i + 1]) /\ Follows(out[i + 1], out[i + 2])
WireFrames ==
    [f \in 1 .. Len(out) \div 3 |->
        [key |-> out[3 * f].key, whole |-> WholeAt(3 * f - 2)]]

Sending == {s \in Senders: spc[s] # "idle"}

Channel == INSTANCE FrameChannel WITH
    key <- sessionKey,
    closing <- state = "disconnecting",
    shut <- sockClosed,
    call <- IF Sending = {} THEN "none" ELSE IF Sending \cap late = {} THEN "open" ELSE "sealed",
    wire <- WireFrames,
    garbled <- torn,
    inbox <- [f \in 1 .. Len(frames) |->
                 [key |-> frames[f].key, good |-> frames[f].fault = "none"]],
    got <- [d \in 1 .. Len(delivered) |->
                 IF delivered[d].part = "data" THEN delivered[d].frame ELSE 0],
    reading <- \A r \in Readers: rpc[r] # "stopped"

\* The three writes of Send count as one and the three reads of Read as one, with
\* key changes, deadlines, failures and Close in between: every step of the
\* connection is a step of the channel or none.
ChannelSpec == Channel!Spec

=============================================================================
