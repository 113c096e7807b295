-------------------------- MODULE SymmetricCrypto --------------------------
(***************************************************************************)
(* crypto/pkcs7.go, encrypt.go and decrypt.go: padding, and packets        *)
(* encrypted in CBC mode under an IV that authenticates the plaintext.     *)
(*                                                                         *)
(* The block cipher and HMAC-SHA1 are ideal: a block of ciphertext         *)
(* remembers its key, the block before it and the plaintext, and decrypts  *)
(* to any block at all if key or predecessor are others; an HMAC remembers *)
(* what it was computed over.                                              *)
(***************************************************************************)
EXTENDS Naturals, Sequences

CONSTANTS
    BlockSize,    \* 16
    Byte,         \* the values of a byte, the lengths of paddings among them
    SessionKeys,  \* keys of 32 bytes
    Randoms       \* the three random bytes of an IV

ASSUME CryptoAssumption ==
    BlockSize \in Nat \ {0} /\ Byte \subseteq Nat /\ 1 .. BlockSize \subseteq Byte

Blocks == [1 .. BlockSize -> Byte]

-----------------------------------------------------------------------------
(* Padding.  An error is the empty set, a result the set of it alone.      *)

PadLength(data) == BlockSize - (Len(data) % BlockSize)

Pkcs7Pad(data) ==
    LET pad == PadLength(data) IN data \o [i \in 1 .. pad |-> pad]

PaddingGood(data, padLen) ==
    \A i \in Len(data) - padLen + 1 .. Len(data): data[i] = padLen

Pkcs7Unpad(data) ==
    IF Len(data) = 0 \/ Len(data) % BlockSize # 0 THEN {}
    ELSE LET padLen == data[Len(data)]
         IN  IF padLen = 0 \/ padLen > BlockSize \/ ~PaddingGood(data, padLen) THEN {}
             ELSE {SubSeq(data, 1, Len(data) - padLen)}

-----------------------------------------------------------------------------
(* Ciphertexts.                                                            *)

\* The IV; mutant: the digest is over the random bytes alone.
HmacIv_NoInput(input, key, random) == [mac |-> <<key, random>>, random |-> random]
HmacIv(input, key, random) == [mac |-> <<key, random, input>>, random |-> random]

BlockOf(data, i) == SubSeq(data, (i - 1) * BlockSize + 1, i * BlockSize)

\* The encrypted IV, then the blocks, each chained to the one before; << >> for
\* the error of an empty input.
SymmetricEncrypt(input, key, iv) ==
    LET padded == Pkcs7Pad(input)
        cipher[i \in 0 .. Len(padded) \div BlockSize] ==
            IF i = 0 THEN [key |-> key, iv |-> iv]
            ELSE [key |-> key, prev |-> cipher[i - 1], plain |-> BlockOf(padded, i)]
    IN  IF input = << >> THEN << >>
        ELSE <<cipher[0]>> \o [i \in 1 .. Len(padded) \div BlockSize |-> cipher[i]]

SymmetricEncryptWithHmacIv(input, key, random) ==
    SymmetricEncrypt(input, key, HmacIv(input, key, random))

\* The blocks that block i of a ciphertext may decrypt to.
DecryptBlock(c, i, key) ==
    IF c[i].key = key /\ c[i].prev = c[i - 1] THEN {c[i].plain} ELSE Blocks

\* The padded plaintexts the blocks after the IV may decrypt to.
Plaintexts(c, key) ==
    LET upto[i \in 1 .. Len(c)] ==
            IF i = 1 THEN {<< >>}
            ELSE {p \o b: p \in upto[i - 1], b \in DecryptBlock(c, i, key)}
    IN  upto[Len(c)]

\* The IV is the one decrypted with the key, and its digest the one of the plaintext.
HmacGood(c, key, plaintext) ==
    c[1].key = key /\ c[1].iv = HmacIv(plaintext, key, c[1].iv.random)

\* What SymmetricDecrypt may return; a ciphertext shorter than the IV is rejected.
SymmetricDecrypt(c, key, checkHmac) ==
    IF c = << >> THEN {}
    ELSE {p \in UNION {Pkcs7Unpad(d): d \in Plaintexts(c, key)}:
             checkHmac => HmacGood(c, key, p)}

-----------------------------------------------------------------------------
(* Properties.                                                             *)

\* Padding is undone by unpadding for every length of data, a full last block
\* included, and unpadding accepts nothing that padding did not make.
PaddingInverse(data) ==
    /\ Pkcs7Unpad(Pkcs7Pad(data)) = {data}
    /\ \A p \in Pkcs7Unpad(data): Pkcs7Pad(p) = data

\* What may become of a ciphertext on its way: it is cut after some block, two
\* of its blocks change places, or it gets blocks or the IV of another.
Altered(c, d) ==
    {SubSeq(c, 1, n): n \in 0 .. Len(c)}
      \cup {[c EXCEPT ![i] = c[j], ![j] = c[i]]: i \in 2 .. Len(c), j \in 2 .. Len(c)}
      \cup {<<d[1]>> \o Tail(c)} \cup {c \o Tail(d)}

\* A packet decrypts to what was encrypted; with another key, cut at a block or
\* put together from two packets it decrypts to the same or is rejected
\* (CBC itself would let a cut or spliced packet through).
Authentic(data, key, other) ==
    \A random, fresh \in Randoms:
        LET c == SymmetricEncryptWithHmacIv(data, key, random)
            d == SymmetricEncryptWithHmacIv(other, key, fresh)
        IN  /\ SymmetricDecrypt(c, key, TRUE) = {data}
            /\ \A k \in SessionKeys \ {key}: SymmetricDecrypt(c, k, TRUE) = {}
            /\ \A e \in Altered(c, d): SymmetricDecrypt(e, key, TRUE) \subseteq {data, other}
=============================================================================
