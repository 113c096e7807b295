--------------------------- MODULE FrameChannel ---------------------------
(***************************************************************************)
(* What a connection promises the goroutine that sends on it and the one   *)
(* that reads from it, without writes, deadlines, locks and sockets: a     *)
(* Send puts one whole frame on the wire at once, or none; Read returns    *)
(* the server's frames one after the other; nothing begins after Close.    *)
(***************************************************************************)
EXTENDS Naturals, Sequences

CONSTANTS
    Keys, NoKey   \* session keys, and the empty one

VARIABLES
    key,      \* the session key
    closing,  \* Close was called,
    shut,     \* and the connection is down
    call,     \* the Send under way: "none", "open" or, if it began with a key, "sealed"
    wire,     \* the frames sent: their key, and whether all parts are there
    garbled,  \* a Send failed half way: of the wire nothing more is promised
    inbox,    \* the frames the server sent: their key, and whether they are good
    got,      \* the numbers of the frames Read returned
    reading   \* the reader has not stopped

vars == <<key, closing, shut, call, wire, garbled, inbox, got, reading>>

Init ==
    /\ key = NoKey /\ closing = FALSE /\ shut = FALSE
    /\ call = "none" /\ wire = << >> /\ garbled = FALSE
    /\ inbox = << >> /\ got = << >> /\ reading = TRUE

-----------------------------------------------------------------------------
SetKey ==
    /\ key' \in Keys
    /\ UNCHANGED <<closing, shut, call, wire, garbled, inbox, got, reading>>

Close ==
    /\ closing' = TRUE
    /\ UNCHANGED <<key, shut, call, wire, garbled, inbox, got, reading>>

Shut ==
    /\ closing /\ shut' = TRUE
    /\ UNCHANGED <<key, closing, call, wire, garbled, inbox, got, reading>>

\* A Send begins.
Accept ==
    /\ call = "none" /\ ~closing
    /\ call' = IF key = NoKey THEN "open" ELSE "sealed"
    /\ UNCHANGED <<key, closing, shut, wire, garbled, inbox, got, reading>>

\* It succeeds: its frame is on the wire, encrypted if there was a key when it
\* began (and perhaps if one was set since).
Transmit(k) ==
    /\ call # "none" /\ ~shut /\ ~garbled
    /\ call = "sealed" => k # NoKey
    /\ wire' = Append(wire, [key |-> k, whole |-> TRUE]) /\ call' = "none"
    /\ UNCHANGED <<key, closing, shut, garbled, inbox, got, reading>>

\* It fails.
Abandon ==
    /\ call # "none" /\ call' = "none" /\ garbled' \in {garbled, TRUE}
    /\ UNCHANGED <<key, closing, shut, wire, inbox, got, reading>>

\* A write on a stream that an earlier Send has left half way.
Garble ==
    /\ garbled /\ ~shut /\ call # "none" /\ call' \in {call, "none"}
    /\ UNCHANGED <<key, closing, shut, garbled, inbox, got, reading>>

ServerSends ==
    /\ \E k \in Keys \cup {NoKey}, good \in BOOLEAN:
           inbox' = Append(inbox, [key |-> k, good |-> good])
    /\ UNCHANGED <<key, closing, shut, call, wire, garbled, got, reading>>

\* Read returns the next frame, a good one, which the key there is opens.
Deliver ==
    LET n == Len(got) + 1
    IN  /\ reading /\ ~shut /\ n <= Len(inbox)
        /\ inbox[n].good /\ (key # NoKey => inbox[n].key = key)
        /\ got' = Append(got, n)
        /\ UNCHANGED <<key, closing, shut, call, wire, garbled, inbox, reading>>

StopReading ==
    /\ reading' = FALSE
    /\ UNCHANGED <<key, closing, shut, call, wire, garbled, inbox, got>>

-----------------------------------------------------------------------------
Next ==
    \/ SetKey \/ Close \/ Shut
    \/ Accept \/ (\E k \in Keys \cup {NoKey}: Transmit(k)) \/ Abandon \/ Garble
    \/ ServerSends \/ Deliver \/ StopReading

Spec == Init /\ [][Next]_vars
=============================================================================
