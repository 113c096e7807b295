------------------------------ MODULE SteamID ------------------------------
(***************************************************************************)
(* steamid/: a SteamID is a number made of four fields of bits, printed    *)
(* and parsed in three notations and as JSON.  The widths are constants,   *)
(* so that the arithmetic of the fields can be checked for every number.   *)
(*                                                                         *)
(* A string is a record with what its pattern captures; a conversion that  *)
(* fails gives None.                                                       *)
(***************************************************************************)
EXTENDS Naturals

CONSTANTS
    accountIDBits,        \* 32
    accountInstanceBits,  \* 20
    accountTypeBits,      \* 4
    accountUniverseBits,  \* 4
    spareBits,            \* 4 bits above the fields
    Steam64Pattern        \* the numbers of 17 or 18 digits

ASSUME SteamIDAssumption ==
    /\ accountIDBits \in Nat \ {0} /\ accountInstanceBits \in Nat \ {0}
    /\ accountTypeBits \in Nat /\ accountTypeBits >= 4
    /\ accountUniverseBits \in Nat /\ accountUniverseBits >= 4
    /\ spareBits \in Nat /\ Steam64Pattern \subseteq Nat

Width == accountIDBits + accountInstanceBits + accountTypeBits + accountUniverseBits + spareBits

\* What a shift by n bits multiplies with.  (The prover has no laws for 2 ^ n.)
Pow2 ==
    LET pow[n \in 0 .. Width] == IF n = 0 THEN 1 ELSE 2 * pow[n - 1]
    IN  [n \in 0 .. Width |-> pow[n]]

accountIDOffset == 0
accountInstanceOffset == accountIDBits
accountTypeOffset == accountInstanceOffset + accountInstanceBits
accountUniverseOffset == accountTypeOffset + accountTypeBits
SteamIDs == 0 .. Pow2[Width] - 1
None == Pow2[Width]

\* The SteamIDs of the universes 1 to 5 have 17 or 18 digits: 10^16 <= 2^56, and
\* 6 * 2^56 <= 10^18.
ASSUME PatternAssumption ==
    Pow2[accountUniverseOffset] .. 6 * Pow2[accountUniverseOffset] - 1 \subseteq Steam64Pattern

AccountTypeInvalid == 0
AccountTypeIndividual == 1
AccountTypeAnonGameServer == 4
AccountTypeContentServer == 6
AccountTypeClan == 7
AccountTypeChat == 8
AccountUniverseInvalid == 0
AccountUniversePublic == 1
AccountUniverseMax == 5
AccountInstanceClanMask == Pow2[accountInstanceBits - 1]

-----------------------------------------------------------------------------
(* The fields.                                                             *)

getBits(sid, bits, offset) == (sid \div Pow2[offset]) % Pow2[bits]

\* Mutant: the new value is not cut to the width of its field.
setBits_Unmasked(sid, value, bits, offset) ==
    sid - getBits(sid, bits, offset) * Pow2[offset] + value * Pow2[offset]
setBits(sid, value, bits, offset) ==
    sid - getBits(sid, bits, offset) * Pow2[offset] + (value % Pow2[bits]) * Pow2[offset]

AccountID(sid) == getBits(sid, accountIDBits, accountIDOffset)
AccountInstance(sid) == getBits(sid, accountInstanceBits, accountInstanceOffset)
AccountType(sid) == getBits(sid, accountTypeBits, accountTypeOffset)
AccountUniverse(sid) == getBits(sid, accountUniverseBits, accountUniverseOffset)
Spare(sid) == getBits(sid, spareBits, accountUniverseOffset + accountUniverseBits)

WithAccountID(sid, v) == setBits(sid, v, accountIDBits, accountIDOffset)
WithAccountInstance(sid, v) == setBits(sid, v, accountInstanceBits, accountInstanceOffset)
WithAccountType(sid, v) == setBits(sid, v, accountTypeBits, accountTypeOffset)
WithAccountUniverse(sid, v) == setBits(sid, v, accountUniverseBits, accountUniverseOffset)

NewSteamID(accountID, accountInstance, accountType, accountUniverse) ==
    WithAccountUniverse(
        WithAccountType(
            WithAccountInstance(WithAccountID(0, accountID), accountInstance), accountType),
        accountUniverse)

IsValid(sid) ==
    /\ AccountUniverse(sid) # AccountUniverseInvalid
    /\ AccountType(sid) # AccountTypeInvalid
    /\ AccountID(sid) # 0

ConvertClanToChat(sid) ==
    IF AccountType(sid) = AccountTypeClan
    THEN WithAccountInstance(WithAccountType(sid, AccountTypeChat), AccountInstanceClanMask)
    ELSE sid

ConvertChatToClan(sid) ==
    IF /\ AccountType(sid) = AccountTypeChat
       /\ AccountInstance(sid) = AccountInstanceClanMask
    THEN WithAccountInstance(WithAccountType(sid, AccountTypeClan), 0)
    ELSE sid

-----------------------------------------------------------------------------
(* The notations.  FromSteam2 and FromSteam3 pass the universe where the   *)
(* constructor takes the type, and the type for the universe.              *)

ToSteam2(sid) ==
    [notation |-> "Steam2",
     universe |-> IF AccountUniverse(sid) = AccountUniverseInvalid
                  THEN AccountUniversePublic ELSE AccountUniverse(sid),
     server |-> AccountID(sid) % 2,
     number |-> AccountID(sid) \div 2]

\* The account of a number and a server: the number has 32 bits and loses the
\* highest.
Account2(number, server) == ((number * 2) % Pow2[accountIDBits]) + server

\* The pattern allows the universes 0 to 5; STEAM_0 is the public one.
FromSteam2(s) ==
    IF s.universe > 5 \/ s.number >= Pow2[accountIDBits] THEN None
    ELSE NewSteamID(Account2(s.number, s.server), 1,
                    IF s.universe = 0 THEN AccountUniversePublic ELSE s.universe,
                    AccountTypeIndividual)

MapAccountTypeToSteamID3Character(accountType) ==
    CASE accountType = AccountTypeClan -> "G"
      [] accountType = AccountTypeAnonGameServer -> "A"
      [] accountType = AccountTypeContentServer -> "C"
      [] accountType = AccountTypeChat -> "T"
      [] accountType = AccountTypeInvalid -> "I"
      [] OTHER -> "U"

MapSteamID3CharacterToAccountType(char) ==
    CASE char = "G" -> AccountTypeClan
      [] char = "A" -> AccountTypeAnonGameServer
      [] char = "C" -> AccountTypeContentServer
      [] char = "T" -> AccountTypeChat
      [] char = "I" -> AccountTypeInvalid
      [] OTHER -> AccountTypeIndividual

defaultInstanceForAccountType(accountType) == IF accountType = AccountTypeClan THEN 0 ELSE 1

ToSteam3(sid) ==
    [notation |-> "Steam3",
     char |-> MapAccountTypeToSteamID3Character(AccountType(sid)),
     universe |-> AccountUniverse(sid), id |-> AccountID(sid)]

\* The pattern has no T.
FromSteam3(s) ==
    LET accountType == MapSteamID3CharacterToAccountType(s.char)
    IN  IF \/ s.char \notin {"I", "U", "G", "C", "A"}
            \/ s.universe >= 256 \/ s.id >= Pow2[accountIDBits] THEN None
        ELSE NewSteamID(s.id, defaultInstanceForAccountType(accountType),
                        s.universe, accountType)

ToSteam64(sid) == [notation |-> "Steam64", value |-> sid]

FromSteam64(s) == IF s.value \in Steam64Pattern THEN s.value ELSE None

String(sid) ==
    IF AccountType(sid) = AccountTypeIndividual THEN ToSteam2(sid) ELSE ToSteam64(sid)

FromString(s) ==
    CASE s.notation = "Steam2" -> FromSteam2(s)
      [] s.notation = "Steam3" -> FromSteam3(s)
      [] s.notation = "Steam64" -> FromSteam64(s)

-----------------------------------------------------------------------------
(* JSON.                                                                   *)

MarshalJSON(sid) == String(sid)

\* The least number of a public desktop account.
Base == NewSteamID(0, 1, AccountTypeIndividual, AccountUniversePublic)

\* A JSON number above the base is a SteamID, any other an account.
AccountNumber(i) ==
    NewSteamID(i % Pow2[accountIDBits], 1, AccountTypeIndividual, AccountUniversePublic)
UnmarshalNumber(i) == IF i > Base THEN i ELSE AccountNumber(i)

UnmarshalString(s) == FromString(s)

-----------------------------------------------------------------------------
(* Properties, of one SteamID.                                             *)

\* Setting a field, to any value and also to one too wide for it, sets this field
\* and leaves the others and the bits above them alone.
SetsOneField(sid) ==
    \A v \in 0 .. Pow2[accountTypeBits + 1]:
        LET i == WithAccountID(sid, v)
            n == WithAccountInstance(sid, v)
            t == WithAccountType(sid, v)
            u == WithAccountUniverse(sid, v)
        IN  /\ AccountID(i) = v % Pow2[accountIDBits]
            /\ AccountInstance(n) = v % Pow2[accountInstanceBits]
            /\ AccountType(t) = v % Pow2[accountTypeBits]
            /\ AccountUniverse(u) = v % Pow2[accountUniverseBits]
            /\ \A s \in {n, t, u}: AccountID(s) = AccountID(sid)
            /\ \A s \in {i, t, u}: AccountInstance(s) = AccountInstance(sid)
            /\ \A s \in {i, n, u}: AccountType(s) = AccountType(sid)
            /\ \A s \in {i, n, t}: AccountUniverse(s) = AccountUniverse(sid)
            /\ \A s \in {i, n, t, u}: Spare(s) = Spare(sid)

\* A clan's chat room goes to the clan and back, a clan to its chat room and
\* back, and every other SteamID stays as it is: neither conversion mixes up two
\* accounts.
ClanAndChat(sid) ==
    LET type == AccountType(sid)
    IN  /\ type # AccountTypeClan => ConvertClanToChat(ConvertChatToClan(sid)) = sid
        /\ type = AccountTypeClan /\ AccountInstance(sid) = 0 =>
              ConvertChatToClan(ConvertClanToChat(sid)) = sid
        /\ type \notin {AccountTypeClan, AccountTypeChat} =>
              ConvertClanToChat(sid) = sid /\ ConvertChatToClan(sid) = sid

\* Whatever is lost or swapped on the way, a SteamID that is printed and parsed
\* again, in any of the notations, is of the same account or rejected.
AccountKept(sid) ==
    \A s \in {FromSteam2(ToSteam2(sid)), FromSteam3(ToSteam3(sid)), FromSteam64(ToSteam64(sid))}:
        s # None => AccountID(s) = AccountID(sid)

\* A public desktop account, or a valid SteamID of another type, survives JSON as
\* a string; as a number every SteamID from the least desktop account on does,
\* and a number below 2^32 is the account of that number.
SurvivesJSON(sid) ==
    LET desktop == AccountInstance(sid) = 1 /\ AccountUniverse(sid) = AccountUniversePublic
        printable == IF AccountType(sid) = AccountTypeIndividual
                     THEN desktop ELSE AccountUniverse(sid) <= AccountUniverseMax
    IN  /\ IsValid(sid) /\ Spare(sid) = 0 /\ printable =>
              UnmarshalString(MarshalJSON(sid)) = sid
        /\ sid >= Base => UnmarshalNumber(sid) = sid
        /\ sid < Pow2[accountIDBits] =>
              /\ AccountID(UnmarshalNumber(sid)) = sid
              /\ AccountType(UnmarshalNumber(sid)) = AccountTypeIndividual
=============================================================================
