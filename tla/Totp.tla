-------------------------------- MODULE Totp --------------------------------
(***************************************************************************)
(* totp/authentication_code.go: the HMAC-SHA1 digest of a time step, which *)
(* is given here, becomes a code of five characters.  A character is its   *)
(* place in the character set, counted from 0.                             *)
(***************************************************************************)
EXTENDS Naturals, Sequences

DigestLength == 20
CharSet == 26
CodeLength == 5

\* The four low bits of the digest's last byte; mutant: five.
DynamicOffset_Five(digest) == digest[DigestLength] % 32
DynamicOffset(digest) == digest[DigestLength] % 16

\* Big-endian, without the highest bit.
BinaryCode(digest, o) ==
    (digest[o + 1] % 128) * 2 ^ 24 + digest[o + 2] * 2 ^ 16 + digest[o + 3] * 2 ^ 8 + digest[o + 4]

\* The characters, least significant first; << >> for an error.
CreateAuthenticationCode(digest) ==
    LET o == DynamicOffset(digest)
    IN  IF o + 4 > DigestLength THEN << >>
        ELSE [i \in 1 .. CodeLength |-> (BinaryCode(digest, o) \div CharSet ^ (i - 1)) % CharSet]

-----------------------------------------------------------------------------
(* Properties.                                                             *)

\* Whatever the digest, there is a code; it depends on the 31 bits at the offset
\* and on no other, and the digits are those of that number.
CodeOfDigest(digest, other) ==
    LET code == CreateAuthenticationCode(digest)
        o == DynamicOffset(digest)
        same == [i \in 1 .. DigestLength |->
                    IF i \in o + 1 .. o + 4 \/ i = DigestLength THEN digest[i] ELSE other[i]]
    IN  /\ Len(code) = CodeLength
        /\ CreateAuthenticationCode(same) = code
        /\ CreateAuthenticationCode([digest EXCEPT ![o + 1] = (@ + 128) % 256]) = code
        /\ code[1] + 26 * code[2] + 676 * code[3] + 17576 * code[4] + 456976 * code[5]
              = BinaryCode(digest, o) % (26 ^ 5)
=============================================================================
