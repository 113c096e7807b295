------------------------------ MODULE Session ------------------------------
(***************************************************************************)
(* protocol/protocol.go, handlers.go, read.go and write.go, with           *)
(* client/login.go: the read loop on one connection after another, from    *)
(* the exchange of the session key to the logon and the notices after it,  *)
(* together with the server, the forwarders of events and a user who logs  *)
(* on when told that the client is connected.                              *)
(*                                                                         *)
(* A message is its kind and its number in the order the server sends      *)
(* them; a Multi has a sequence of messages as its body, which may hold a  *)
(* Multi again.  A packet is a message and the session key it is encrypted *)
(* with, 0 for none.  Session keys and the identifiers of a session are    *)
(* named after the connection they were made for.  The heartbeat, whose    *)
(* start is a part of HandleLogOnResponse, has its own module.             *)
(***************************************************************************)
EXTENDS Naturals, Sequences

CONSTANTS
    MaxConns,    \* bound: connections made
    MaxNotices,  \* bound: packets of notices the server sends on a connection
    Cap,         \* capacity of a protocol's channel of events (128)
    EventCap     \* capacity of the user's channel of events (512)

ASSUME SessionAssumption ==
    /\ MaxConns \in Nat /\ MaxNotices \in Nat
    /\ Cap \in Nat \ {0} /\ EventCap \in Nat \ {0}

Conns == 1 .. MaxConns

VARIABLES
    conn,               \* the connection of c.protocol, 0 for none yet
    pc, work,           \* the read loop: its step, messages of the packet still to handle
    sessionKey, key,    \* the key kept by the protocol, the key of the connection
    ids,                \* steamID and sessionID
    toClient, toServer, \* packets on their way
    stage, skey,        \* the server: its step, the key it uses
    sent, notices,      \* the server: messages and packets of notices sent
    accepted,           \* history: connections the server accepted a logon on
    last,               \* history: number of the last message handled
    forwarders,         \* connections whose forwarder is running
    incoming, events,   \* the protocols' channels of events, the user's
    user                \* connection whose EventConnected the user reacts to, 0 for none

loopVars == <<pc, work, sessionKey, key, ids, last>>
serverVars == <<stage, skey, sent, notices, accepted>>
vars == <<conn, loopVars, toClient, toServer, serverVars, forwarders, incoming, events, user>>

Init ==
    /\ conn = 0 /\ pc = "down" /\ work = << >>
    /\ sessionKey = 0 /\ key = 0 /\ ids = 0
    /\ toClient = << >> /\ toServer = << >>
    /\ stage = "new" /\ skey = 0 /\ sent = 0 /\ notices = 0 /\ accepted = {}
    /\ last = 0 /\ forwarders = {}
    /\ incoming = [n \in Conns |-> << >>] /\ events = << >> /\ user = 0

-----------------------------------------------------------------------------
(* Events: "connected", "loggedOn", or "other" for the ones that only      *)
(* report.                                                                 *)

\* An event the handler waits to place (a plain channel send).
MustEmit(e) ==
    /\ Len(incoming[conn]) < Cap
    /\ incoming' = [incoming EXCEPT ![conn] = Append(@, e)]

\* Events that are dropped when there is no room (a select with a default).
MayEmit(es) ==
    incoming' = [incoming EXCEPT ![conn] =
                    LET q == @ \o es IN IF Len(q) > Cap THEN SubSeq(q, 1, Cap) ELSE q]

\* The forwarder of connection n passes an event on, or drops it when the user's
\* channel is full; it outlives the connection.  Mutant: it waits for room.
Forward_Waits(n) ==
    /\ n \in forwarders /\ incoming[n] # << >> /\ Len(events) < EventCap
    /\ incoming' = [incoming EXCEPT ![n] = Tail(@)]
    /\ events' = Append(events, [kind |-> Head(incoming[n]), conn |-> n])
    /\ UNCHANGED <<conn, loopVars, toClient, toServer, serverVars, forwarders, user>>
Forward(n) ==
    /\ n \in forwarders /\ incoming[n] # << >>
    /\ incoming' = [incoming EXCEPT ![n] = Tail(@)]
    /\ events' = IF Len(events) < EventCap
                 THEN Append(events, [kind |-> Head(incoming[n]), conn |-> n]) ELSE events
    /\ UNCHANGED <<conn, loopVars, toClient, toServer, serverVars, forwarders, user>>

\* It returns when it sees that the user's context is done.
StopForwarder(n) ==
    /\ n \in forwarders /\ forwarders' = forwarders \ {n}
    /\ UNCHANGED <<conn, loopVars, toClient, toServer, serverVars, incoming, events, user>>

-----------------------------------------------------------------------------
(* The read loop (Protocol.Run).                                           *)

\* connect installs a protocol on a new connection, after Run on the one before
\* has returned; it fails once the context is done.
Connect ==
    /\ pc = "down" /\ conn < MaxConns /\ forwarders = 1 .. conn
    /\ conn' = conn + 1 /\ pc' = "read" /\ forwarders' = forwarders \cup {conn'}
    /\ sessionKey' = 0 /\ key' = 0 /\ ids' = 0 /\ last' = 0
    /\ toClient' = << >> /\ toServer' = << >>
    /\ stage' = "new" /\ skey' = 0 /\ sent' = 0 /\ notices' = 0
    /\ UNCHANGED <<work, accepted, incoming, events, user>>

\* Read reports that the connection failed or was closed, and Run returns.
Lost ==
    /\ pc = "read" /\ pc' = "down"
    /\ UNCHANGED <<conn, work, sessionKey, key, ids, last, toClient, toServer, serverVars,
                   forwarders, incoming, events, user>>

\* A packet is read; what does not come out of the decryption with the key in
\* use as a message ends the loop.
ReadPacket ==
    /\ pc = "read" /\ toClient # << >>
    /\ toClient' = Tail(toClient)
    /\ IF Head(toClient).key = key
       THEN pc' = "handle" /\ work' = <<Head(toClient).message>>
       ELSE pc' = "down" /\ UNCHANGED work
    /\ UNCHANGED <<conn, sessionKey, key, ids, last, toServer, serverVars,
                   forwarders, incoming, events, user>>

\* The handler returns: the packet is done, or handleMulti goes on to the next
\* message in it.
Done ==
    work' = Tail(work) /\ pc' = IF Tail(work) = << >> THEN "read" ELSE "handle"

\* The handler returns an error, and so do handleMulti around it and Run.
Failed == pc' = "down" /\ work' = << >>

\* Protocol.Write and Connection.Send: encrypted with the key there is.  what is
\* the key in a response, the identifiers in a request and, in a logon, the
\* connection whose EventConnected it answers.
Write(kind, what) ==
    toServer' = Append(toServer, [kind |-> kind, key |-> key, what |-> what])

\* A write ends the handler, with an error when the socket fails.
WriteAndReturn(kind, what) ==
    \/ Write(kind, what) /\ Done
    \/ Failed /\ UNCHANGED toServer

\* readMessage, and handleMessage up to its switch: the message is announced.
Handling(kind, es) ==
    /\ pc = "handle" /\ Head(work).kind = kind
    /\ MayEmit(es)
    /\ last' = IF kind = "multi" THEN last ELSE Head(work).n
    /\ UNCHANGED <<conn, toClient, serverVars, forwarders, events, user>>

\* The messages of a Multi come before what follows it.  Mutants: the first is
\* handled again; the Multis among them are left out.
Unpack_Again(m, rest) == <<m.body[1]>> \o m.body \o rest
Unpack_Shallow(m, rest) == SelectSeq(m.body, LAMBDA b: b.kind # "multi") \o rest
Unpack(m, rest) == m.body \o rest

HandleMulti ==
    /\ Handling("multi", <<"other">>)
    /\ work' = Unpack(Head(work), Tail(work))
    /\ UNCHANGED <<pc, sessionKey, key, ids, toServer>>

\* A key is made, kept, and sent to the server.
HandleChannelEncryptRequest ==
    /\ Handling("encryptRequest", <<"other">>)
    /\ sessionKey' = conn /\ WriteAndReturn("response", conn)
    /\ UNCHANGED <<key, ids>>

\* SetSessionKey gives the connection the key that was kept, which is then
\* forgotten.  Mutant: it is forgotten first, and an empty key is ignored.
TakeKey_Forgotten == sessionKey' = 0 /\ UNCHANGED key
TakeKey == sessionKey' = 0 /\ key' = IF sessionKey = 0 THEN key ELSE sessionKey

HandleChannelEncryptResult ==
    \/ /\ Handling("encryptResult", <<"other">>)
       /\ TakeKey /\ pc' = "connected"
       /\ UNCHANGED <<work, ids, toServer>>
    \/ /\ Handling("encryptFailed", <<"other">>) /\ Failed
       /\ UNCHANGED <<sessionKey, key, ids, toServer>>

\* It waits to place EventConnected, and returns.
EmitConnected ==
    /\ pc = "connected" /\ MustEmit("connected") /\ Done
    /\ UNCHANGED <<conn, sessionKey, key, ids, last, toClient, toServer, serverVars,
                   forwarders, events, user>>

\* Is a response to the logon a success?  Mutant: any response is.
LoggedOn_Any(kind) == TRUE
LoggedOn(kind) == kind = "logonOk"

\* The heartbeat is started and the identifiers are kept.
HandleClientLogOnResponse(kind) ==
    /\ Handling(kind, <<"other">>)
    /\ IF LoggedOn(kind)
       THEN ids' = conn /\ pc' = "loggedOn" /\ UNCHANGED work
       ELSE Failed /\ UNCHANGED ids
    /\ UNCHANGED <<sessionKey, key, toServer>>

\* It waits to place EventLoggedOn,
EmitLoggedOn ==
    /\ pc = "loggedOn" /\ MustEmit("loggedOn") /\ pc' = "request"
    /\ UNCHANGED <<conn, work, sessionKey, key, ids, last, toClient, toServer, serverVars,
                   forwarders, events, user>>

\* and asks for the item announcements (Send: EventMessageSent, then Write).
Request ==
    /\ pc = "request" /\ MayEmit(<<"other">>)
    /\ WriteAndReturn("request", ids)
    /\ UNCHANGED <<conn, sessionKey, key, ids, last, toClient, serverVars,
                   forwarders, events, user>>

\* Announcements and notifications, with an event of their own, and messages
\* that nobody handles, without.
HandleNotice ==
    /\ \E es \in {<<"other">>, <<"other", "other">>}: Handling("notice", es)
    /\ Done
    /\ UNCHANGED <<sessionKey, key, ids, toServer>>

\* A header that cannot be parsed, before the announcement, or a body, after it.
HandleBad ==
    /\ \E es \in {<< >>, <<"other">>}: Handling("bad", es)
    /\ Failed
    /\ UNCHANGED <<sessionKey, key, ids, toServer>>

Handle ==
    \/ HandleMulti
    \/ HandleChannelEncryptRequest
    \/ HandleChannelEncryptResult
    \/ EmitConnected
    \/ \E kind \in {"logonOk", "logonFailed"}: HandleClientLogOnResponse(kind)
    \/ EmitLoggedOn
    \/ Request
    \/ HandleNotice
    \/ HandleBad

-----------------------------------------------------------------------------
(* The server.                                                             *)

Plain(kind, n) == [kind |-> kind, n |-> n, body |-> << >>]
Multi(body) == [kind |-> "multi", n |-> 0, body |-> body]

\* A packet with w messages, one of kind among notices: alone, in a Multi, or in
\* a Multi in a Multi.
Packet(kind, w) ==
    LET n == sent + 1
    IN  CASE w = 1 -> Plain(kind, n)
          [] w = 2 -> Multi(<<Plain(kind, n), Plain("notice", n + 1)>>)
          [] w = 3 -> Multi(<<Plain("notice", n), Multi(<<Plain(kind, n + 1)>>),
                              Plain("notice", n + 2)>>)

SendPacket(kind, w, k) ==
    /\ toClient' = Append(toClient, [message |-> Packet(kind, w), key |-> k])
    /\ sent' = sent + w

ServerIdle == UNCHANGED <<conn, loopVars, forwarders, incoming, events, user>>

\* It asks for a session key.
ServerRequest ==
    /\ conn # 0 /\ stage = "new" /\ stage' = "asked"
    /\ SendPacket("encryptRequest", 1, 0)
    /\ ServerIdle /\ UNCHANGED <<toServer, skey, notices, accepted>>

\* Messages it can make sense of.
GoodResponse(m) == m.kind = "response" /\ stage = "asked" /\ m.key = 0
GoodLogon(m) == m.kind = "logon" /\ stage = "keyed" /\ m.key = skey

\* It takes the key; its answer is the last packet in the clear.
ServerResult(m) ==
    /\ GoodResponse(m) /\ skey' = m.what
    /\ \/ SendPacket("encryptResult", 1, 0) /\ stage' = "keyed"
       \/ SendPacket("encryptFailed", 1, 0) /\ stage' = "gone"
    /\ UNCHANGED <<notices, accepted>>

\* It answers a logon it can decrypt.
ServerLogon(m) ==
    /\ GoodLogon(m)
    /\ \/ \E w \in 1 .. 3: SendPacket("logonOk", w, skey) /\ accepted' = accepted \cup {conn}
       \/ \E w \in 1 .. 3: SendPacket("logonFailed", w, skey) /\ UNCHANGED accepted
    /\ UNCHANGED <<stage, skey, notices>>

\* It gives the connection up over anything else but a request.
ServerOther(m) ==
    /\ ~GoodResponse(m) /\ ~GoodLogon(m)
    /\ stage' = IF m.kind = "request" THEN stage ELSE "gone"
    /\ UNCHANGED <<toClient, skey, sent, notices, accepted>>

ServerReceive ==
    /\ toServer # << >> /\ stage # "gone"
    /\ toServer' = Tail(toServer)
    /\ \/ ServerResult(Head(toServer))
       \/ ServerLogon(Head(toServer))
       \/ ServerOther(Head(toServer))
    /\ ServerIdle

\* It sends notices, or a message that cannot be parsed among them.
ServerNotice ==
    /\ stage = "keyed" /\ notices < MaxNotices
    /\ notices' = notices + 1
    /\ \E kind \in {"notice", "bad"}, w \in 1 .. 3: SendPacket(kind, w, skey)
    /\ ServerIdle /\ UNCHANGED <<toServer, stage, skey, accepted>>

-----------------------------------------------------------------------------
(* The user.                                                               *)

\* The user takes an event and reacts to EventConnected.
UserRead ==
    /\ user = 0 /\ events # << >>
    /\ events' = Tail(events)
    /\ user' = IF Head(events).kind = "connected" THEN Head(events).conn ELSE 0
    /\ UNCHANGED <<conn, loopVars, toClient, toServer, serverVars, forwarders, incoming>>

\* Logon, on the protocol there is now (Send: EventMessageSent, then Write).
Logon ==
    /\ user # 0 /\ user' = 0
    /\ MayEmit(<<"other">>)
    /\ Write("logon", user) \/ UNCHANGED toServer
    /\ UNCHANGED <<conn, loopVars, toClient, serverVars, forwarders, events>>

-----------------------------------------------------------------------------
Next ==
    \/ Connect \/ Lost \/ ReadPacket \/ Handle
    \/ \E n \in Conns: Forward(n) \/ StopForwarder(n)
    \/ ServerRequest \/ ServerReceive \/ ServerNotice
    \/ UserRead \/ Logon

Spec == Init /\ [][Next]_vars

\* The handler writes to the server, and may have to wait for it to read.
Writing == pc = "request" \/ (pc = "handle" /\ Head(work).kind = "encryptRequest")

(* A goroutine that can run does: the handlers, but for a write, which may  *)
(* block, and the forwarders; and Read returns a packet that was sent, as   *)
(* long as the connection is not lost (FrameDelivered of TCPConnection).    *)
(* Nothing is assumed of the server or the user.                            *)
FairSpec ==
    /\ Spec /\ WF_vars(ReadPacket) /\ WF_vars(Handle /\ ~Writing)
    /\ \A n \in Conns: WF_vars(Forward(n))

-----------------------------------------------------------------------------
(* Properties.                                                             *)

Kinds == {"encryptRequest", "encryptResult", "encryptFailed", "logonOk", "logonFailed",
          "notice", "bad", "multi"}

\* Types, and the shape of the read loop: there is a message exactly while a
\* handler runs, and the channels of events stay within their capacities.
TypeOK ==
    /\ conn \in 0 .. MaxConns
    /\ pc \in {"down", "read", "handle", "connected", "loggedOn", "request"}
    /\ (work = << >>) <=> (pc \in {"down", "read"})
    /\ \A i \in 1 .. Len(work): work[i].kind \in Kinds
    /\ {sessionKey, key, skey, ids} \subseteq {0, conn}
    /\ stage \in {"new", "asked", "keyed", "gone"}
    /\ last \in 0 .. sent /\ notices \in 0 .. MaxNotices
    /\ accepted \subseteq 1 .. conn /\ forwarders \subseteq 1 .. conn
    /\ \A n \in Conns: Len(incoming[n]) <= Cap
    /\ Len(events) <= EventCap /\ user \in 0 .. conn

\* The read loop and the server change to the session key at the same packet of
\* the stream: whatever the read loop reads next is encrypted with the key it
\* will use (handleChannelEncryptResult sets it before the next Read).
ReadsInStep ==
    pc = "read" /\ toClient # << >> => Head(toClient).key = key

\* A logon that answers the EventConnected of the connection it is sent on is
\* encrypted, with the key the server has: the event is not announced before the
\* key is in place.
LogonEncrypted ==
    \A i \in 1 .. Len(toServer):
        toServer[i].kind = "logon" /\ toServer[i].what = conn =>
            toServer[i].key # 0 /\ toServer[i].key = skey

\* EventLoggedOn is only announced for a connection on which the server accepted
\* a logon, however late it reaches the user.
LoggedOnTrue ==
    /\ \A n \in Conns: \A i \in 1 .. Len(incoming[n]):
           incoming[n][i] = "loggedOn" => n \in accepted
    /\ \A i \in 1 .. Len(events): events[i].kind = "loggedOn" => events[i].conn \in accepted

\* Messages are handled in the order the server sent them, none twice and none
\* left out, also the ones inside a Multi inside a Multi: a step that handles a
\* message handles the one after the last.
HandledInOrder ==
    [][Handle /\ pc = "handle" /\ Head(work).kind # "multi" =>
          Head(work).n = last + 1 /\ last' = last + 1]_vars

\* A handler waiting to place its event gets it placed, whether or not the user
\* reads events, as long as the forwarder of its connection runs: it returns, or
\* comes to a write, which only the server can hold up.
HandlerReturns ==
    pc \in {"handle", "connected", "loggedOn"}
        ~> (pc \in {"down", "read"} \/ Writing \/ conn \notin forwarders)

\* A logon the server accepted is completed: the client keeps the identifiers of
\* the session, however deep in a Multi the answer is and whatever is sent around
\* it, unless the connection or its forwarder is gone.
LogonCompletes ==
    conn \in accepted ~> (ids = conn \/ pc = "down" \/ conn \notin forwarders)

\* tcp.go says of a connection that it must be "upgraded to encrypted state using
\* SetSessionKey before sending sensitive data": no logon goes out in the clear.
NoPlainLogon ==
    \A i \in 1 .. Len(toServer): toServer[i].kind = "logon" => toServer[i].key # 0

=============================================================================
