------------------------------ MODULE Packets ------------------------------
(***************************************************************************)
(* The layout of messages: the headers of protocol/write.go and read.go,   *)
(* and the messages in a Multi (handleMulti).                              *)
(*                                                                         *)
(* A byte is the name of the field it was written for and its place in the *)
(* field.  Reading takes bytes off the front, whatever they were written   *)
(* for.                                                                    *)
(***************************************************************************)
EXTENDS Naturals, Sequences

Bytes(field, width) == [i \in 1 .. width |-> <<field, i>>]

(***************************************************************************)
(* A message to write: its EMsg, whether it has a protobuf header, of how  *)
(* many bytes, how many more for the session (2) and steam (9) identifiers *)
(* it lacks, and the bytes of its body.                                    *)
(***************************************************************************)
EMsgs == {"EncryptRequest", "EncryptResponse", "Hello", "Other"}

\* Write adds the identifiers a protobuf header lacks, but to the messages of a
\* client without a session, such as Hello.
ProtoBytes(m) == IF m.emsg = "Hello" THEN m.proto ELSE m.proto + m.missing

StandardHeader == Bytes("emsg", 4) \o Bytes("TargetJobID", 8) \o Bytes("SourceJobID", 8)

ExtendedSize == Bytes("size", 4)

\* (The server writes an EncryptRequest as Write does an EncryptResponse.)
Header(m) ==
    CASE m.emsg \in {"EncryptRequest", "EncryptResponse"} -> StandardHeader
      [] m.emsg \in {"Hello", "Other"} /\ m.hasProto ->
            Bytes("emsg", 4) \o Bytes("length", 4) \o Bytes("proto", ProtoBytes(m))
      [] OTHER ->
            Bytes("emsg", 4) \o ExtendedSize \o Bytes("version", 2)
              \o Bytes("TargetJobID", 8) \o Bytes("SourceJobID", 8) \o Bytes("canary", 1)
              \o Bytes("SteamID", 8) \o Bytes("SessionID", 4)

Write(m) == Header(m) \o Bytes("body", m.body)

\* EMsg and flag of the first four bytes.
Flagged(m) == m.emsg \in {"Hello", "Other"} /\ m.hasProto

-----------------------------------------------------------------------------
(* Reading the header of message m from the bytes p.  The result is the    *)
(* bytes read for the two job identifiers, or for the protobuf header, and *)
(* the rest; << >> stands for an error.                                    *)

Drop(p, n) == SubSeq(p, n + 1, Len(p))

\* After the length, at least one byte must be left even for an empty header
\* (bytes.Reader.Read at the end of its data).
readProtobufHeader(p, length) ==
    IF Len(p) < 4 \/ Len(p) = 4 \/ Len(p) < 4 + length THEN << >>
    ELSE <<SubSeq(p, 5, 4 + length), << >>, Drop(p, 4 + length)>>

readStandardHeader(p) ==
    IF Len(p) < 16 THEN << >> ELSE <<SubSeq(p, 1, 8), SubSeq(p, 9, 16), Drop(p, 16)>>

\* The value of a byte read as the size: 36 for the first byte of what Write
\* writes there, whose other bytes are 0.
SizeValue(byte) == IF byte = <<"size", 1>> THEN 36 ELSE 0

\* A size of one byte, a version of two, and by the size nothing; job identifiers,
\* canary and a byte of padding; or job identifiers, canary, SteamID, SessionID
\* and three bytes of padding.
readExtendedHeader(p) ==
    IF Len(p) < 3 THEN << >>
    ELSE CASE SizeValue(p[1]) = 0 -> << << >>, << >>, Drop(p, 3) >>
           [] SizeValue(p[1]) = 20 /\ Len(p) >= 3 + 8 + 8 + 1 + 1 ->
                <<SubSeq(p, 4, 11), SubSeq(p, 12, 19), Drop(p, 3 + 8 + 8 + 1 + 1)>>
           [] SizeValue(p[1]) = 36 /\ Len(p) >= 3 + 8 + 8 + 1 + 8 + 4 + 3 ->
                <<SubSeq(p, 4, 11), SubSeq(p, 12, 19), Drop(p, 3 + 8 + 8 + 1 + 8 + 4 + 3)>>
           [] OTHER -> << >>

readHeader(m, p) ==
    IF Flagged(m) THEN readProtobufHeader(p, ProtoBytes(m))
    ELSE IF m.emsg = "EncryptRequest" THEN readStandardHeader(p)
    ELSE readExtendedHeader(p)

readMessage(m, p) == IF Len(p) < 4 THEN << >> ELSE readHeader(m, Drop(p, 4))

-----------------------------------------------------------------------------
(* handleMulti, of messages with the given sizes of which, once they are   *)
(* decompressed, the first cut bytes are there: how many messages are      *)
(* handled, and whether it succeeds.  (Handling a message succeeds here;   *)
(* Session has the messages that fail.)                                    *)

SizeBytes == 4

Position(sizes) ==
    LET at[k \in 1 .. Len(sizes) + 1] == IF k = 1 THEN 0 ELSE at[k - 1] + SizeBytes + sizes[k - 1]
    IN  at

\* The checks on a message of which the size was read and left bytes follow.
\* Mutant: the size is taken to include itself.
SubMessageFits_Whole(size, left) == size >= 4 /\ left + SizeBytes >= size
SubMessageFits(size, left) == size >= 4 /\ left >= size

handleMulti(sizes, cut) ==
    LET turn[k \in 1 .. Len(sizes) + 1] ==
            LET left == cut - Position(sizes)[k]
            IN  IF left = 0 THEN [handled |-> k - 1, ok |-> TRUE]
                ELSE IF left < SizeBytes \/ ~SubMessageFits(sizes[k], left - SizeBytes)
                THEN [handled |-> k - 1, ok |-> FALSE]
                ELSE turn[k + 1]
    IN  IF cut = 0 THEN [handled |-> 0, ok |-> FALSE] ELSE turn[1]

-----------------------------------------------------------------------------
(* Properties, of one message cut after some bytes, and of one Multi.      *)

\* A message that was written is read if all of it is there: the body begins
\* where the header ends, also behind the extended header, whose fields the
\* reader looks for at other places than they were written; job identifiers
\* and protobuf headers are found.  If the header is cut, reading fails.  (The one
\* message that cannot be read has an empty protobuf header and no body.)
ReadAsWritten(m, cut) ==
    LET header == Len(Header(m))
        r == readMessage(m, SubSeq(Write(m), 1, cut))
    IN  m.emsg # "EncryptResponse" =>
          /\ cut < header => r = << >>
          /\ cut >= header /\ (cut > header \/ ~Flagged(m) \/ ProtoBytes(m) > 0) =>
                /\ r # << >> /\ r[3] = SubSeq(Bytes("body", m.body), 1, cut - header)
                /\ Flagged(m) => r[1] = Bytes("proto", ProtoBytes(m))
                /\ m.emsg = "EncryptRequest" =>
                      r[1] = Bytes("TargetJobID", 8) /\ r[2] = Bytes("SourceJobID", 8)

\* handleMulti handles exactly the leading messages that are there in full and
\* long enough to hold an EMsg, and succeeds if there is one and nothing is left.
MultiExact(sizes, cut) ==
    LET at == Position(sizes)
        good == {k \in 0 .. Len(sizes): at[k + 1] <= cut /\ \A i \in 1 .. k: sizes[i] >= 4}
        r == handleMulti(sizes, cut)
    IN  /\ r.handled \in good /\ \A k \in good: k <= r.handled
        /\ r.ok <=> cut > 0 /\ at[r.handled + 1] = cut
=============================================================================
