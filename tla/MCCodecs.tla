------------------------------ MODULE MCCodecs ------------------------------
(***************************************************************************)
(* The codecs of the client, checked for TLC on bounded inputs: a          *)
(* behaviour picks one input.                                              *)
(***************************************************************************)
EXTENDS SteamID, Packets, SymmetricCrypto, Totp

CONSTANTS MaxBody,    \* largest body and protobuf header of a message
          MaxSize,    \* largest message in a Multi
          MaxData,    \* longest data to pad
          MaxPlain,   \* longest data to encrypt
          DigestBytes \* bytes that digests are made of

ASSUME BoundsAssumption ==
    /\ MaxBody \in Nat /\ MaxSize \in Nat /\ MaxData \in Nat /\ MaxPlain \in Nat
    /\ DigestBytes \subseteq 0 .. 255

\* The numbers of 17 or 18 decimal digits: 10^16 is 0.14 and 10^18 is 13.88 of the
\* 2^56 at which the universe begins.
MCSteam64Pattern ==
    LET public == Pow2[accountUniverseOffset]
    IN  (14 * public) \div 100 .. (1388 * public) \div 100

VARIABLE input
vars == <<input>>

Data(n) == UNION {[1 .. k -> Byte]: k \in 0 .. n}

Messages ==
    [emsg: EMsgs, hasProto: BOOLEAN, proto: 0 .. MaxBody, missing: {0, 2, 9, 11},
     body: 0 .. MaxBody]

\* Digests with any byte at the offset, another before and behind it, and any last byte.
Digests ==
    {[i \in 1 .. DigestLength |-> IF i = DigestLength THEN l ELSE IF i % 2 = 0 THEN a ELSE b]:
        a, b \in DigestBytes, l \in 0 .. 255}

Init == input = [kind |-> "none"]

PickSteamID == \E sid \in SteamIDs: input' = [kind |-> "sid", sid |-> sid]
PickMessage ==
    \E m \in Messages: \E cut \in 0 .. Len(Write(m)):
        input' = [kind |-> "message", m |-> m, cut |-> cut]
PickMulti ==
    \E sizes \in UNION {[1 .. k -> 3 .. MaxSize]: k \in 1 .. 3}:
        \E cut \in 0 .. Position(sizes)[Len(sizes) + 1]:
            input' = [kind |-> "multi", sizes |-> sizes, cut |-> cut]
PickPadding == \E data \in Data(MaxData): input' = [kind |-> "padding", data |-> data]
PickPlain ==
    \E data, other \in Data(MaxPlain) \ {<< >>}, key \in SessionKeys:
        input' = [kind |-> "plain", data |-> data, other |-> other, key |-> key]
PickDigest ==
    \E digest \in Digests, b \in DigestBytes:
        input' = [kind |-> "digest", digest |-> digest, other |-> [i \in 1 .. DigestLength |-> b]]

Next ==
    /\ input.kind = "none"
    /\ PickSteamID \/ PickMessage \/ PickMulti \/ PickPadding \/ PickPlain \/ PickDigest

Spec == Init /\ [][Next]_vars

-----------------------------------------------------------------------------
(* The properties, for the input that was picked.                          *)

\* SteamIDs, all of their width: a field is set without disturbing the others, clans
\* and their chats are converted into one another, no notation turns an account
\* into another, and JSON gives back public desktop accounts, valid SteamIDs of other
\* types, and numbers on either side of the least SteamID (SurvivesJSON).
SteamIDsKept ==
    input.kind = "sid" =>
        /\ SetsOneField(input.sid) /\ ClanAndChat(input.sid)
        /\ AccountKept(input.sid) /\ SurvivesJSON(input.sid)

\* Messages of every kind, and Multis of up to three, cut anywhere: what Write wrote
\* is read back by readMessage, and handleMulti finds exactly the whole messages.
PacketsRead ==
    /\ input.kind = "message" => ReadAsWritten(input.m, input.cut)
    /\ input.kind = "multi" => MultiExact(input.sizes, input.cut)

\* Plaintexts of up to MaxPlain bytes, one or two, and padded data: unpadding accepts
\* only what padding made, and SymmetricDecrypt only what was encrypted.
PacketsAuthentic ==
    /\ input.kind = "padding" => PaddingInverse(input.data)
    /\ input.kind = "plain" => Authentic(input.data, input.key, input.other)

\* Digests with every last byte: each gives a code, of the 31 bits it points to.
CodesOfDigests == input.kind = "digest" => CodeOfDigest(input.digest, input.other)
=============================================================================
