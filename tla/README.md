# A TLA+ verification project for go-steam

go-steam is a Go client for the Steam network. It signs a user in over the web
API, keeps a TCP connection to a connection manager ("CM server"), exchanges a
session key on it, logs on, sends heartbeats and reports what the server says as
events. This directory models the parts of it that hold state and run
concurrently, checks them with TLC on small instances and proves the main
invariants with TLAPS for every value of the constants: every safety property that
a run checks is also a theorem, and so is the refinement.

`PROJECT.json` lists components, runs, mutants, theorems and hazards, and maps
every definition to the lines it models.

## The system

| Part | State | Operations | Talks to |
|---|---|---|---|
| TCP connection (`connection/tcp.go`, `state.go`) | `state`, `sessionKey` under a mutex; the socket and its deadlines | `Send`, `Read`, `SetSessionKey`, `Close` | called by the protocol's read loop, the heartbeat, the user |
| Protocol (`protocol/protocol.go`, `handlers.go`, `read.go`, `write.go`) | kept session key, steam and session identifiers, channel of events | `Run` (the read loop), `handleMessage` and six handlers, `Send`, `Write`, `Close` | reads the connection; emits to its channel of events |
| Heartbeat (`protocol/heartbeat.go`) | the field `stopHeartbeat`, one goroutine per logon | `startHeartbeat`, its loop, `Close` | sends on the connection; emits `EventError` |
| Client connection (`client/connection.go`, `login.go`) | `protocol`, `reconnect` (no lock), the user's channel of events | `Connect`, `Disconnect`, `Logon`, the forwarder goroutine of each connection | runs the protocol; dials the servers of the directory |
| Identity provider (`identity/credentials.go`) | cached identity under a mutex held over the whole login | `BeginAuthSession`, `SubmitSteamGuardCode`, `WaitForConfirmation`, `GetIdentity` | polls the authentication service |
| Client authentication (`client/client.go`) | `authIDP`, `authIdentity` under `authMu`, also held over the whole login | the same, and `SetIdentity`, `Identity` | calls the provider; `Connect` and `Logon` call `Identity` |
| Message headers, SteamID, TOTP, padding, ciphers | none | pure conversions | |
| Web API (`api/`) | none | typed requests over `net/http` | |
| `language/steam`, `vendor`, `cmd`, `examples` | | generated, third-party, build tool, examples | |

What is hard in it:

* **Concurrency without locks.** The socket is written by the read loop, the
  heartbeat and the user; `protocol`, `reconnect` and `stopHeartbeat` are shared
  fields with no or partial locking; the three parts of a frame are three writes.
* **Order.** Both ends must change to the session key at the same packet; the
  state must be marked before the socket is closed; the flag must be cleared
  before the protocol is closed; a Multi holds messages, and Multis again.
* **Blocking.** Some events wait for room in a channel and some are dropped; two
  mutexes are held while a login polls for minutes; only the socket and the
  context can unblock the calls in flight.
* **Stale state.** An identity may expire or be replaced during a login; an event
  may be acted on after the connection it speaks of was replaced.
* **Partial failure.** A `Send` may fail between two writes, an attempt to connect
  may find some servers good and some bad, a Multi may fail half way.

## Modules

| Module | Models | Notes |
|---|---|---|
| `TCPConnection` | the TCP connection with any number of senders, readers and closers | every access to a locked field and every socket operation is a step |
| `Heartbeat` | the heartbeats of a protocol, its read loop as their starter, `Close`, the channel of events | the select of the loop is one action per case |
| `Client` (`MCClient`) | `Connect`, `connect`, `Disconnect` | each access to `protocol` and `reconnect` is a step |
| `Session` | the read loop, the handlers, `Logon`, the forwarders, on one connection after another | with the server and a user who logs on at `EventConnected` |
| `IdentityProvider` (`MCIdentityProvider`) | the provider and Steam's side of a login | the four operations share the steps of a login |
| `AuthClient` (`MCAuthClient`) | the client's authentication methods | extends `IdentityProvider` and composes with it: every call into the provider is made by the client |
| `FrameChannel` | nothing: an abstract specification of what a connection promises one sender and one reader | `TCPConnection` is shown to implement it (`ChannelSpec`) |
| `SteamID`, `Packets`, `SymmetricCrypto`, `Totp` (`MCCodecs`) | the pure conversions: SteamIDs and their notations, message headers and Multis, padding and packet encryption, authentication codes | operators without state; `MCCodecs` enumerates their inputs |
| `TCPConnectionProofs`, `HeartbeatProofs`, `ClientProofs`, `IdentityProviderProofs`, `AuthClientProofs`, `SessionProofs` | the theorems about each of these | `AuthClientProofs` extends the provider's proofs as `AuthClient` extends the provider |
| `TCPRefinementProofs` | that `TCPConnection` implements `FrameChannel` | extends `TCPConnectionProofs` |
| `CodecProofs` | the codecs for every input | extends `MCCodecs`, whose properties it proves for every bound |

How state and code correspond:

* **TCPConnection.** `state`, `sessionKey` are the fields. `spc`, `rpc` and `cpc`
  are the places of the goroutines in `Send`, `Read` and `Close`. `out` is the
  outgoing stream as fragments (length, magic, data) with writer and key; the
  incoming one is `frames`, of which `arrived` fragments are there and `taken`
  are read. A write may block, fail after a part of the fragment, or find the
  socket closed, the peer gone or the deadline past; what a call returns then
  depends on the state read *after* the failure, as in the code.
* **Heartbeat.** Heartbeat *i* belongs to the *i*-th `startHeartbeat`, and so does
  stop channel *i*. `Watch` is the unlocked read of the field that every turn of
  the loop makes.
* **Client.** `pc` is the goroutine in `Connect`: identity, list, dial, run, check,
  report. `todo` is the sorted list; the dial loop overwrites connection and
  error separately and has no break. The list is any order of the servers that is
  sorted by load (the code's sort is not stable).
* **Session.** A packet is a message and the key it is encrypted with, so that "the
  wrong key" is a state and not a cipher. `work` is what is left of the packet:
  `handleMulti` calls `readMessage` on each message before it returns, which is
  the same as putting the messages of a Multi in front of what follows it.
  A handler that waits for room in the channel has a step of its own for it.
  Whether a header or body can be parsed is nondeterministic.
* **IdentityProvider.** Sessions are numbered; the cached identity is the number of
  the session it came from. `pc` is the step of a caller: lock, open, update,
  poll, sleep. Steam accepts codes, approves, and may fail any request.
* **AuthClient.** `cpc` is the place in the client's method; while it is "call", the
  caller's steps are those of the provider.
* **FrameChannel.** A `Send` puts a whole frame on the wire in one step, or fails; `Read`
  returns the next good frame in one step, if the key there is opens it; nothing
  begins after `Close`. The mapping at the end of `TCPConnection` takes every three
  fragments of the stream for a frame, as the server does, and the call under
  way from the place of the sender: "sealed" if it began when there was a key.
  Once a `Send` has failed half way nothing more is promised of the wire.
* **Codecs.** A SteamID is a number of constant width and a text the record of what
  its pattern captures. A byte of a message is the name of the field it was
  written for and its place in it, so that reading a field from the wrong place
  shows. A block of ciphertext remembers key, predecessor and plaintext, and
  decrypts to any block at all when key or predecessor are others; an HMAC
  remembers what it was computed over. A shift multiplies or divides by an element of
  `Pow2`, a recursive function (the prover has no laws for `2 ^ n`), and the other
  recursive conversions are recursive functions too.

Actions marked external in the map stand for what is outside the repository:
the server, the socket's peer and timers, the user's context and event loop.

## Runs

| Run | Instance | What it shows |
|---|---|---|
| `tcp_send` | one sender with three sends, two closers, a good and a short key, deadlines | state, key and socket agree; a write that `Close` interrupts reports no error, and setting a deadline on the closed socket is the only step that does; no plaintext once keyed; whole frames until a `Send` fails half way; `Close` unblocks a blocked sender; the connection implements `FrameChannel` |
| `tcp_read` | one reader, one closer, two frames, faults | the reader keeps its place, reports no error of a read that `Close` interrupts, returns each frame that arrived, ends when the socket is closed; the connection implements `FrameChannel` |
| `tcp_senders` | two senders | *violation*: frames interleave, though `Send` is documented as safe for concurrent use |
| `hb_run` | two logons, channel of one event | no stop channel is closed twice or forgotten; the current heartbeat is not stopped by mistake; nobody waits for ever for room while the context lives; once the context is done and the connection closed every heartbeat ends, but for one left with an event for a full channel that has lost its forwarder |
| `hb_old` | the same, with a peer that always reads | *violation*: the earlier heartbeat may go on for ever after a second logon, although every `Send` returns |
| `client_loop` | three servers, two of equal load, one unsupported; two goroutines in `Disconnect` | the protocol runs on a server that answered; at most one attempt begins after `Disconnect` cleared the flag; closing the running protocol ends `Connect` while the context lives; every attempt settles, and one that failed gets its error placed among the events of the forwarders |
| `session_run` | two connections, channels of one event, packets of one to three messages with nested Multis | both sides change keys at the same packet; a logon meant for this connection is encrypted; `EventLoggedOn` is true; each step that handles a message handles the next one, so none twice; a handler returns or comes to a write while its forwarder runs; an accepted logon is completed |
| `session_logon` | the same | *violation*: an `EventConnected` acted on after a reconnection sends the logon in the clear |
| `idp_login` | two callers, two sessions, four kinds of offer, a shared secret | one login at a time and none needless; a fresh identity is kept; identities are earned; a login ends when cancelled or approved |
| `auth_login` | two callers in the client's methods | the provider's mutex is never contended; no update is lost; the two caches agree |
| `auth_set` | the same | *violation*: an identity that `SetIdentity` was to invalidate comes back |
| `codec` | SteamIDs of 14 bits; messages with up to three bytes of header and body, and Multis of up to three messages, cut at every byte; blocks of two bytes; digests with every last byte | setting a field leaves the others alone; clan and chat conversions undo each other; no notation changes the account; JSON gives back public desktop accounts and other valid types; a message is read as it was written or rejected; a Multi gives exactly its whole messages; padding is undone; a cut or spliced packet is rejected; every digest has a code |

**Bounds.** Two callers, senders or closers are enough for the interleavings at
issue: each property speaks of one goroutine overtaken by another, and the
proofs remove the bound for all but liveness. Three sends are one that fails
half way, one after it and one after a change of key. Two frames are the one
read and the one a lost place would run into. Two logons, connections or sessions
are the old one and the new one. Channels have capacity one so that
they are full after a single event (128 and 512 in the code). Three servers with
two of equal load give the dial loop every order of success and failure and the
sort a tie. One packet of notices on a connection, next to the answer to the
logon, holds up to three messages and a Multi in a Multi. In `codec` the fields of a
SteamID keep their order and the four bits of type and universe, of which every
value occurs; account and instance are narrowed to three and two bits, and one
bit above the fields stands for four. Two blocks and two plaintexts are what a
cut, a swap or a splice needs; the other lengths in a message are the code's. In `Session` every
message that is sent is bounded by these; in the other modules the named
constants `Max...` are the only bounds.

Deadlock checking is off in all runs: every system modelled may properly come to
rest (a closed connection, a `Connect` that returned, a user who calls nothing),
and the bounds stop the environment. That nobody is left waiting is stated as
liveness instead.

**Fairness.** A goroutine that can take a step takes it (Go's scheduler): weak
fairness on the steps inside a call. Never fair: the user's calls, the server, the
network, cancellation, the passing of deadlines, a write that succeeds.
Beyond that:

* `Heartbeat` has strong fairness on the cases of a `select`, which chooses at
  random among the ready ones, and on a sender waiting on a channel, whose queue
  is first in, first out. A `Send` under way returns for certain only once the
  connection is closed (`CloseUnblocks`): a context that is done does not end a
  write that waits for the peer. `hb_old` alone adds that every `Send` returns
  (`ReadingPeerSpec`), so that what it shows is not a blocked write.
* `IdentityProvider` has strong fairness on taking the mutex: a `sync.Mutex` hands
  over to a waiter that has starved. Requests are answered or fail, as the HTTP
  client does.
* `Client` assumes that `Run` returns once its connection is closed while the
  context lives: `Read` and `Send` return (`CloseUnblocks`) and the forwarder takes
  the events (`HandlerReturns`). Nothing is assumed of `Run` once the context is
  done and the forwarder may be gone. The user reads events (without a reader,
  `EventError` blocks the loop), and a sender in the channel's queue gets its turn
  (strong fairness on `Report`). Its step that asks for the identity is
  fair too, which is only so while no authentication method is polling: they
  share `authMu`.
* `Session` has weak fairness on handlers except where they write to the server
  (handlers.go:129, 179), on forwarders and on reading a packet the
  server has sent, which `FrameDelivered` of `TCPConnection` justifies; losing the
  connection instead is always possible. The user may never read an event.

**Mutants.** Every property of every passing run has a mutant: a definition
with a plausible mistake (a dropped guard, a swapped order, a forgotten key)
under which TLC finds the property violated. They stand before the definition
they change, named after it.

## Theorems

All proofs are for arbitrary constants that satisfy the named assumption of the
module (finitely many servers, keys that are not the empty key, capacities above
zero, and the like); nothing is assumed of the bounds beyond being natural numbers.

* **TCPConnectionProofs.** `TypeCorrect`; then `StateAgrees`, `ClosesGracefully`,
  `NoPlaintextOnceKeyed` and `StateForward` from one inductive invariant: besides
  the properties it says that a closer about to close the socket has already
  marked the state, that a closed socket implies the mark, and that a sender
  which began keyed carries the key it read. `FramesStayIntact` and `ReadsInSync`
  hold under `OneSender` and `OneReader` (at most one goroutine in `Send`, in
  `Read`), and need to know the place of that goroutine: what the last fragment
  in the stream is at each of its steps, and the position in the frame at each
  step of `Read`. `tcp_senders` shows that `OneSender` cannot be dropped.
* **HeartbeatProofs.** `HeartbeatTypeCorrect`, `NeverPanics`, `NoChannelForgotten`,
  `CurrentHeartbeatLives`. The invariant adds that the field is nil or the newest
  channel (`FieldNewest`) and that a loop selects on nil, its own channel or a
  newer one (`WatchNewer`): a loop that ends because of a newer channel belongs
  to a heartbeat whose own was closed before.
* **ClientProofs.** `ClientTypeCorrect`, `RunsOnGoodConnection`, `OneMoreAttempt`. At
  the head of the dial loop there is an error, or a good connection, or a server
  left to try (`DialLoop`): hence no error at its end means a good connection.
  Once an attempt was begun against the flag, the flag stays clear and the loop
  is past the place where it could begin another (`LastAttempt`).
* **IdentityProviderProofs.** `ProviderTypeCorrect`, `OneLoginAtATime`,
  `IdentitiesEarned`, `FreshNeverReplaced`. The invariant adds which session a
  caller is about at each step (`HasSession`) and that every token was issued
  for an accepted code or a confirmation (`TokensEarned`). The action
  property follows: only a caller that found no good identity stores one, and it
  has held the mutex since.
* **AuthClientProofs.** `ClientTypeCorrect`, `InnerLockFree`, `UpdatesKept`,
  `CachesInStep`. The provider's own invariant is kept, because every step of the
  client is a step of the provider or touches nothing of it but contexts. To it
  are added that the holder of `authMu` is the one caller inside the provider
  (`HolderCalls`), which is why nobody waits for the inner mutex, and how far the
  two cached identities may be apart during a call: not at all until the provider
  has a new one, and then the new one is what the call returns (`CallResult`).
* **SessionProofs.** `SessionTypeCorrect`, `KeysInStep`, `LogonsEncrypted`,
  `LoggedOnIsTrue`, `MessagesInOrder`. Messages are numbered by the server as it
  sends them. The numbers in hand, on their way and at the server follow on one
  another without a gap, through Multis in Multis (`Handled`, `OnTheirWay`).
  Message 1 asks for the key and 2 acknowledges it, so these numbers say which key
  the read loop has, which one a packet is encrypted with and which one the
  server has (`Keys`). Every event on its way through the two channels is true of
  the connection it came from (`Announcements`), and so is a logon written on the
  strength of one (`Written`).
* **TCPRefinementProofs.** `ImplementsChannel`: under `OneSender` and `OneReader`,
  `TCPConnection` implements `FrameChannel`. The invariant is that of
  `TCPConnectionProofs` with the length of the stream modulo three at each step of
  `Send` (`OutLength`) and what `Read` has checked of a frame (`FrameChecked`).
  There is a lemma for each action: the first two writes of `Send` leave the
  channel alone and the third is its `Send`; likewise for `Read`; setting
  the deadline, failures before the first byte, and a `Close` that only marks the
  state are stutters. The channel has no fairness, so nothing of liveness is lost.
* **CodecProofs.** `SteamIDsSound`, `HeadersReadBack`, `MultisSplit`,
  `UnpaddingInvertsPadding`, `PacketsSealed` and `EveryDigestHasItsCode` are about
  operators, for every input: fields of every width (so also 32, 20, 4, 4
  and 4 bits), headers, bodies, Multis and plaintexts of every length, every block
  size, and all digests. `SteamIDsStayKept`, `PacketsStayRead`, `PacketsStayAuthentic`
  and `DigestsHaveCodes` restate them for what the run picks, under any bounds.
  A SteamID is a number in mixed radix with its fields for digits (`Parts`,
  `MadeOfFields`); reading and setting a digit is done once (`OneField`) and the rest
  is about digits. A Multi, a chain of cipher blocks, the plaintexts collected
  from one and the powers of two are recursive functions. That such a function exists, and
  what it gives, is proved by induction; as the library's induction theorems cannot
  be instantiated by the provers, `Induction` is stated for a set of numbers and
  proved from the well-foundedness of `<` (`LeastNumber`). The only
  assumptions are those on the constants: at least four bits for type and universe, one
  for the other fields, block sizes that are byte values, and that the SteamIDs of
  universes 1 to 5 are matched by the Steam64 pattern, which for the code's widths is
  10^16 <= 2^56 and 6 * 2^56 <= 10^18.

Checked by TLC only: the liveness properties `CloseUnblocks`, `FrameDelivered`,
`EventsAccepted`, `CtxStops`, `ClosedRunReturns`, `AttemptSettles`, `LoginEnds`,
`HandlerReturns` and `LogonCompletes`; fairness and ENABLED are out of the prover's reach. The
inductive invariants of the state machines were checked with TLC before they were proved.

## Where the code and its documentation disagree

Four runs show a disagreement (`findings` in `PROJECT.json` quotes both sides):
concurrent `Send`s, the old heartbeat, `Logon` after a reconnection,
`SetIdentity`. Others were met while modelling and have no run of their own:

* `Disconnect` "disconnects from the server" (connection.go:94), but `Connect` reads
  `reconnect` once after each attempt: a `Disconnect` after that read closes the
  protocol of the attempt before, and the loop connects again. `AtMostOneMore`
  bounds it to one attempt, which may then run for as long as it likes.
* `Run` returns on an error without stopping the heartbeat or closing the connection
  (protocol.go:79): after a reconnection the old heartbeat goes on, on the old
  socket.
* `Read` "blocks until a complete packet is received or the context is cancelled"
  (tcp.go:178), and the context of `Send` "can be used to cancel the operation"
  (tcp.go:119), but both only look at the context's deadline: a heartbeat in a
  write that waits for the peer ends by `Close` and not with its context, and one
  that waits for room in the channel ends by neither (`CtxStops`).
* A `Send` that fails after its first byte leaves part of a frame in the stream and
  the connection usable (tcp.go:159); from there on the stream is out of step.
* The dial loop has no break (connection.go:50-61): the *last* server that
  answers is kept, not the "lowest-load server" of the repository's README
  (README.md:340), and a failure of the last one fails the attempt; connections
  dialled before it are never closed.
* A second `Close` returns the error of the socket, though documented as safe to
  repeat (tcp.go:265); a `Read` that `Close` overtakes before its
  `SetReadDeadline` returns that error and not nil (tcp.go:198); two concurrent
  `Read`s lose their place although "thread-safe" (tcp.go:185); a write deadline
  stays on the socket after the call that set it (tcp.go:145).
* With reconnection, `Connect` goes on after its context is done
  (connection.go:17).
* When the context is done the forwarder returns while the read loop may still
  have to place `EventConnected` or `EventLoggedOn`: with a full channel `Run`,
  and `Connect`, hang (connection.go:75). While it runs it drops events for
  which the user's channel has no room, these two included (connection.go:83).
* `BeginAuthSession` for other credentials opens a session for the first account
  (client.go:122); the other authentication methods wait for one that polls
  whatever becomes of their own context (client.go:209).
* A logon response without an interval panics in the handler, one with interval
  zero in the heartbeat (handlers.go:170).
* The extended header is written with a four-byte size and no padding
  (write.go:111) and read with a one-byte size and three bytes of padding, where
  the comment says seven (read.go:108, 144, 166). Both come to 39 bytes, so the body
  is found, with the identifiers three bytes off.
* A protobuf message with an empty header and an empty body is rejected: reading zero
  bytes at the end of the packet is an error (read.go:64).
* `FromSteam2` and `FromSteam3` pass universe and type in the opposite order to
  the constructor's (steamid_2.go:43, steamid_3.go:36): "STEAM_1:..." comes out right
  because both are 1, while "[G:1:9999]" of the doc (steamid_3.go:17) becomes an
  individual of universe 7. Chats are printed with a T that the pattern does not
  accept (steamid_3.go:12, 70). A Steam2 number of 2^31 or more silently wraps
  (steamid_2.go:43), and so does a JSON number between 2^32 and the least
  SteamID, taken for an account (steamid.go:177).

## Not modelled

Ciphers, protobuf, gzip and HTTP are libraries; a value carries what they preserve
(the key, the messages in order). The web API is stateless. Generated, vendored
and example code is left out. The contents of events, the interval of the
heartbeat, account names, codes and tokens are abstracted away. Of the cryptography,
key generation, signatures and `SymmetricDecryptECB` (which nothing calls) are
library calls with their errors passed on; of `totp`, the time step and the device
identifier. `internal/` wraps `sync.Once` and a JSON number.

Nearly all of the repository's lines are the generated protocol buffers under
`language/steam` (250,000 of 255,000), which have no logic of their own; of the
4,000 hand-written lines outside the examples the map covers half, the rest being
declarations, documentation and the web API.

## Plan

Done: all components above are modelled and checked, and every safety property of
a passing run, and the refinement, is proved.

1. Proofs: the parts of the liveness arguments that are safety (what a blocked
   handler or caller waits for, and that it can be released), as invariants.
2. `Session` with the heartbeat as a second sender, and the identifiers it carries;
   the event of `BeginAuthSession` and accounts in `AuthClient`.
