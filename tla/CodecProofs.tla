---------------------------- MODULE CodecProofs ----------------------------
(***************************************************************************)
(* The codecs, for every input: SteamIDs of every width, messages, Multis  *)
(* and plaintexts of every length, and every digest.  What MCCodecs checks *)
(* on bounded inputs is then a property of it for every value of the       *)
(* bounds.                                                                 *)
(*                                                                         *)
(* The operators that recurse over their data are recursive functions,     *)
(* and what they give is proved by Induction, from the least number that   *)
(* would be a counterexample.                                              *)
(***************************************************************************)
EXTENDS MCCodecs, SequenceTheorems, WellFoundedInduction, TLAPS

-----------------------------------------------------------------------------
(* Numbers and sequences.                                                  *)

\* Every nonempty set of natural numbers has a least element.
LEMMA LeastNumber ==
    ASSUME NEW T \in SUBSET Nat, T # {}
    PROVE  \E x \in T: \A y \in T: x <= y
  <1> DEFINE R == OpToRel(<, Nat)
  <1>1. IsWellFoundedOn(R, Nat)
    BY NatLessThanWellFounded
  <1>2. \A x, y \in Nat: y < x => <<y, x>> \in R
    BY DEF OpToRel
  <1> HIDE DEF R
  <1>3. PICK x \in T: \A y \in T: ~(<<y, x>> \in R)
    BY <1>1, WFMin, Zenon
  <1>4. \A y \in T: ~(y < x)
    BY <1>2, <1>3, Zenon
  <1> QED BY <1>4

\* Induction over the natural numbers, for a set instead of a predicate: the provers
\* cannot instantiate a predicate.
LEMMA Induction ==
    ASSUME NEW T, 0 \in T, \A n \in Nat: n \in T => n + 1 \in T
    PROVE  Nat \subseteq T
  <1>1. SUFFICES ASSUME Nat \ T # {} PROVE FALSE
    OBVIOUS
  <1>2. PICK x \in Nat \ T: \A y \in Nat \ T: x <= y
    BY <1>1, LeastNumber
  <1>3. x # 0
    BY <1>2
  <1>4. x - 1 \in Nat /\ ~(x <= x - 1) /\ (x - 1) + 1 = x
    BY <1>3
  <1> QED BY <1>2, <1>4

\* A function on 1 .. n is a sequence of length n.
LEMMA FunctionIsSeq ==
    ASSUME NEW S, NEW n \in Nat, NEW f \in [1 .. n -> S]
    PROVE  f \in Seq(S) /\ Len(f) = n
  <1>1. f \in Seq(S)
    BY SeqDef
  <1>2. DOMAIN f = 1 .. Len(f) /\ Len(f) \in Nat
    BY <1>1, LenProperties
  <1>3. DOMAIN f = 1 .. n
    OBVIOUS
  <1> QED BY <1>1, <1>2, <1>3

-----------------------------------------------------------------------------
(* SteamIDs: a number in mixed radix, with the fields as its digits.       *)

\* The powers of two, which the shifts multiply with: Pow2 is defined by recursion,
\* and such a function exists for every width.
LEMMA Pow2Laws ==
    /\ Width \in Nat /\ Pow2[0] = 1
    /\ \A n \in 0 .. Width: Pow2[n] \in Nat \ {0}
    /\ \A n \in 0 .. Width - 1: Pow2[n + 1] = 2 * Pow2[n]
  <1> DEFINE F(g, n) == [i \in 0 .. n |-> IF i = 0 THEN 1 ELSE 2 * g[i - 1]]
             E == {n \in Nat: \E g: g = F(g, n)}
             pow == CHOOSE g: g = F(g, Width)
  <1>0. Width \in Nat
    BY SteamIDAssumption DEF Width
  <1>1. 0 \in E
    <2> DEFINE z == F(<< >>, 0)
    <2>1. F(z, 0) = z
      OBVIOUS
    <2> HIDE DEF z
    <2> QED BY <2>1
  <1>2. ASSUME NEW n \in Nat, n \in E PROVE n + 1 \in E
    <2>1. PICK g: g = F(g, n)
      BY <1>2
    <2> DEFINE h == F(g, n + 1)
    <2>2. \A i \in 0 .. n: h[i] = g[i]
      BY <2>1
    <2>3. F(h, n + 1) = h
      <3> SUFFICES ASSUME NEW i \in 0 .. n + 1 PROVE F(h, n + 1)[i] = F(g, n + 1)[i]
        OBVIOUS
      <3>1. CASE i = 0
        BY <3>1
      <3>2. CASE i # 0
        <4>1. i - 1 \in 0 .. n
          BY <3>2
        <4>2. h[i - 1] = g[i - 1]
          BY <2>2, <4>1
        <4> HIDE DEF h
        <4> QED BY <3>2, <4>2
      <3> QED BY <3>1, <3>2
    <2> HIDE DEF h
    <2>4. \E g2: g2 = F(g2, n + 1)
      BY <2>3, Zenon
    <2> HIDE DEF F
    <2> QED BY <2>4
  <1>3. Nat \subseteq E
    <2> HIDE DEF E
    <2> QED BY <1>1, <1>2, Induction
  <1>4. \E g: g = F(g, Width)
    <2>1. Width \in E
      BY <1>0, <1>3
    <2> QED BY <2>1
  <1>5. pow = F(pow, Width)
    BY <1>4, Zenon
  <1>6. Pow2 = [n \in 0 .. Width |-> pow[n]]
    BY DEF Pow2
  <1> HIDE DEF pow
  <1>7. \A n \in 0 .. Width: Pow2[n] = IF n = 0 THEN 1 ELSE 2 * Pow2[n - 1]
    <2> SUFFICES ASSUME NEW n \in 0 .. Width
                 PROVE  Pow2[n] = IF n = 0 THEN 1 ELSE 2 * Pow2[n - 1]
      OBVIOUS
    <2>1. Pow2[n] = pow[n] /\ pow[n] = IF n = 0 THEN 1 ELSE 2 * pow[n - 1]
      BY <1>5, <1>6
    <2>2. CASE n = 0
      BY <2>1, <2>2
    <2>3. CASE n # 0
      <3>1. n - 1 \in 0 .. Width
        BY <1>0, <2>3
      <3>2. Pow2[n - 1] = pow[n - 1]
        BY <1>6, <3>1
      <3> QED BY <2>1, <2>3, <3>2
    <2> QED BY <2>2, <2>3
  <1>8. Pow2[0] = 1
    BY <1>0, <1>7
  <1>9. \A n \in 0 .. Width - 1: Pow2[n + 1] = 2 * Pow2[n]
    <2> SUFFICES ASSUME NEW n \in 0 .. Width - 1 PROVE Pow2[n + 1] = 2 * Pow2[n]
      OBVIOUS
    <2>1. n + 1 \in 0 .. Width /\ n + 1 # 0 /\ (n + 1) - 1 = n
      BY <1>0
    <2>2. Pow2[n + 1] = 2 * Pow2[(n + 1) - 1]
      BY <1>7, <2>1
    <2> QED BY <2>1, <2>2
  <1>10. \A n \in 0 .. Width: Pow2[n] \in Nat \ {0}
    <2> DEFINE T == {n \in Nat: n \in 0 .. Width => Pow2[n] \in Nat \ {0}}
    <2>1. 0 \in T
      BY <1>8
    <2>2. ASSUME NEW n \in Nat, n \in T PROVE n + 1 \in T
      <3> SUFFICES ASSUME n + 1 \in 0 .. Width PROVE Pow2[n + 1] \in Nat \ {0}
        OBVIOUS
      <3>1. n \in 0 .. Width - 1 /\ n \in 0 .. Width
        BY <1>0
      <3>2. Pow2[n] \in Nat \ {0} /\ Pow2[n + 1] = 2 * Pow2[n]
        BY <1>9, <2>2, <3>1
      <3> QED BY <3>2
    <2>3. Nat \subseteq T
      <3> HIDE DEF T
      <3> QED BY <2>1, <2>2, Induction
    <2>4. ASSUME NEW n \in 0 .. Width PROVE Pow2[n] \in Nat \ {0}
      <3>1. n \in Nat
        BY <1>0
      <3>2. n \in T
        BY <2>3, <3>1
      <3> QED BY <3>2
    <2> QED BY <2>4
  <1> QED BY <1>0, <1>8, <1>9, <1>10

\* Shifting by a and by b bits is shifting by their sum.
LEMMA Pow2Sum ==
    ASSUME NEW a \in Nat, NEW b \in Nat, a + b <= Width
    PROVE  Pow2[a + b] = Pow2[a] * Pow2[b]
  <1> DEFINE T == {n \in Nat: a + n <= Width => Pow2[a + n] = Pow2[a] * Pow2[n]}
  <1>0. /\ Width \in Nat /\ Pow2[0] = 1
        /\ \A n \in 0 .. Width: Pow2[n] \in Nat \ {0}
        /\ \A n \in 0 .. Width - 1: Pow2[n + 1] = 2 * Pow2[n]
    BY Pow2Laws
  <1>1. 0 \in T
    <2>1. a \in 0 .. Width /\ a + 0 = a
      BY <1>0
    <2>2. Pow2[a] \in Nat
      BY <1>0, <2>1
    <2> QED BY <1>0, <2>1, <2>2
  <1>2. ASSUME NEW n \in Nat, n \in T PROVE n + 1 \in T
    <2> SUFFICES ASSUME a + (n + 1) <= Width PROVE Pow2[a + (n + 1)] = Pow2[a] * Pow2[n + 1]
      OBVIOUS
    <2>1. /\ a + n \in 0 .. Width - 1 /\ n \in 0 .. Width - 1 /\ (a + n) + 1 = a + (n + 1)
          /\ a \in 0 .. Width /\ n \in 0 .. Width /\ a + n <= Width
      BY <1>0
    <2>2. Pow2[a + n] = Pow2[a] * Pow2[n]
      BY <1>2, <2>1
    <2>3. Pow2[(a + n) + 1] = 2 * Pow2[a + n] /\ Pow2[n + 1] = 2 * Pow2[n]
      BY <1>0, <2>1
    <2>4. Pow2[a] \in Nat /\ Pow2[n] \in Nat
      BY <1>0, <2>1
    <2>5. 2 * (Pow2[a] * Pow2[n]) = Pow2[a] * (2 * Pow2[n])
      BY <2>4
    <2> QED BY <2>1, <2>2, <2>3, <2>5
  <1>3. Nat \subseteq T
    <2> HIDE DEF T
    <2> QED BY <1>1, <1>2, Induction
  <1>4. b \in T
    BY <1>3
  <1> QED BY <1>4

\* Shifting away the low part of a number leaves the high one, masking the low one.
LEMMA Quotient ==
    ASSUME NEW p \in Nat \ {0}, NEW lo \in 0 .. p - 1, NEW hi \in Nat
    PROVE  (lo + p * hi) \div p = hi /\ (lo + p * hi) % p = lo
  OBVIOUS

\* Two parts of a number stay below the product of what bounds them.
LEMMA Below ==
    ASSUME NEW p \in Nat \ {0}, NEW q \in Nat \ {0}, NEW lo \in 0 .. p - 1, NEW hi \in 0 .. q - 1
    PROVE  lo + p * hi \in 0 .. p * q - 1
  <1> DEFINE k == (q - 1) - hi
  <1>1. k \in Nat /\ q = hi + 1 + k
    OBVIOUS
  <1> HIDE DEF k
  <1>2. p * k \in Nat /\ p * hi \in Nat /\ p * q = p * hi + p + p * k
    BY <1>1
  <1> QED BY <1>2

\* A number in two parts: one below p, and one below q above it.
Splits(x, p, q) == \E lo \in 0 .. p - 1, hi \in 0 .. q - 1: x = lo + p * hi

\* Every number is made of two such parts.
LEMMA Divided ==
    ASSUME NEW p \in Nat \ {0}, NEW q \in Nat \ {0}, NEW x \in 0 .. p * q - 1
    PROVE  Splits(x, p, q)
  <1> DEFINE lo == x % p
             hi == x \div p
  <1>1. x \in Nat /\ x < p * q
    OBVIOUS
  <1>2. lo \in 0 .. p - 1 /\ hi \in Nat /\ x = lo + p * hi
    BY <1>1
  <1> HIDE DEF lo, hi
  <1>3. hi < q
    <2>1. SUFFICES ASSUME hi >= q PROVE FALSE
      BY <1>2
    <2> DEFINE k == hi - q
    <2>2. k \in Nat /\ hi = q + k
      BY <1>2, <2>1
    <2> HIDE DEF k
    <2>3. p * hi = p * q + p * k /\ p * k \in Nat
      BY <2>2
    <2> QED BY <1>1, <1>2, <2>3
  <1> QED BY <1>2, <1>3 DEF Splits

(***************************************************************************)
(* A SteamID as the number with these fields.                              *)
(***************************************************************************)
\* The values of a field, and the SteamID made of five: account number, instance,
\* type, universe and the bits above them.
Field(bits) == 0 .. Pow2[bits] - 1
Parts(a, n, t, u, s) ==
    a + Pow2[accountIDBits] *
        (n + Pow2[accountInstanceBits] *
             (t + Pow2[accountTypeBits] * (u + Pow2[accountUniverseBits] * s)))

\* What the widths come to.
LEMMA Places ==
    LET A == Pow2[accountIDBits]
        N == Pow2[accountInstanceBits]
        T == Pow2[accountTypeBits]
        U == Pow2[accountUniverseBits]
        S == Pow2[spareBits]
    IN  /\ A \in Nat \ {0} /\ N \in Nat \ {0} /\ T \in Nat \ {0}
        /\ U \in Nat \ {0} /\ S \in Nat \ {0}
        /\ Pow2[accountIDOffset] = 1 /\ Pow2[accountInstanceOffset] = A
        /\ Pow2[accountTypeOffset] = A * N /\ Pow2[accountUniverseOffset] = (A * N) * T
        /\ Pow2[accountUniverseOffset + accountUniverseBits] = ((A * N) * T) * U
        /\ Pow2[Width] = (((A * N) * T) * U) * S
        /\ A = 2 * Pow2[accountIDBits - 1] /\ Pow2[accountIDBits - 1] \in Nat \ {0}
        /\ N = 2 * AccountInstanceClanMask /\ AccountInstanceClanMask \in Nat \ {0}
        /\ T >= 16 /\ U >= 16
  <1> DEFINE i == accountIDBits
             n == accountInstanceBits
             t == accountTypeBits
             u == accountUniverseBits
             s == spareBits
  <1>0. /\ i \in Nat \ {0} /\ n \in Nat \ {0} /\ t \in Nat /\ t >= 4
        /\ u \in Nat /\ u >= 4 /\ s \in Nat
        /\ Width = i + n + t + u + s
    BY SteamIDAssumption DEF Width
  <1>1. /\ Width \in Nat /\ Pow2[0] = 1
        /\ \A k \in 0 .. Width: Pow2[k] \in Nat \ {0}
        /\ \A k \in 0 .. Width - 1: Pow2[k + 1] = 2 * Pow2[k]
    BY Pow2Laws
  <1>2. accountIDOffset = 0 /\ accountInstanceOffset = i /\ accountTypeOffset = i + n
        /\ accountUniverseOffset = (i + n) + t
    BY DEF accountIDOffset, accountInstanceOffset, accountTypeOffset, accountUniverseOffset
  <1> HIDE DEF i, n, t, u, s
  <1>3. /\ i \in 0 .. Width /\ n \in 0 .. Width /\ t \in 0 .. Width
        /\ u \in 0 .. Width /\ s \in 0 .. Width
        /\ i - 1 \in 0 .. Width - 1 /\ n - 1 \in 0 .. Width - 1
        /\ (i - 1) + 1 = i /\ (n - 1) + 1 = n
        /\ i - 1 \in 0 .. Width /\ n - 1 \in 0 .. Width
    BY <1>0
  <1>4. Pow2[i + n] = Pow2[i] * Pow2[n]
    BY <1>0, Pow2Sum
  <1>5. Pow2[(i + n) + t] = Pow2[i + n] * Pow2[t]
    BY <1>0, Pow2Sum
  <1>6. Pow2[((i + n) + t) + u] = Pow2[(i + n) + t] * Pow2[u]
    BY <1>0, Pow2Sum
  <1>7. Pow2[(((i + n) + t) + u) + s] = Pow2[((i + n) + t) + u] * Pow2[s]
    BY <1>0, Pow2Sum
  <1>8. \A k \in {t, u}: Pow2[k] >= 16
    <2> SUFFICES ASSUME NEW k \in {t, u} PROVE Pow2[k] >= 16
      OBVIOUS
    <2>1. k - 4 \in Nat /\ (k - 4) + 4 = k /\ k <= Width /\ k - 4 \in 0 .. Width
      BY <1>0
    <2>2. Pow2[4] = 16
      <3>1. /\ 0 \in 0 .. Width - 1 /\ 1 \in 0 .. Width - 1 /\ 2 \in 0 .. Width - 1
            /\ 3 \in 0 .. Width - 1
        BY <1>0
      <3>2. /\ Pow2[0 + 1] = 2 * Pow2[0] /\ Pow2[1 + 1] = 2 * Pow2[1]
            /\ Pow2[2 + 1] = 2 * Pow2[2] /\ Pow2[3 + 1] = 2 * Pow2[3]
        BY <1>1, <3>1
      <3>3. Pow2[1] = 2
        BY <1>1, <3>2
      <3>4. Pow2[2] = 4
        BY <3>2, <3>3
      <3>5. Pow2[3] = 8
        BY <3>2, <3>4
      <3> QED BY <3>2, <3>5
    <2>3. Pow2[(k - 4) + 4] = Pow2[k - 4] * Pow2[4]
      BY <2>1, Pow2Sum
    <2>4. Pow2[k - 4] \in Nat \ {0}
      BY <1>1, <2>1
    <2> QED BY <2>1, <2>2, <2>3, <2>4
  <1>9. /\ Pow2[i] = 2 * Pow2[i - 1] /\ Pow2[n] = 2 * Pow2[n - 1]
        /\ Pow2[i - 1] \in Nat \ {0} /\ Pow2[n - 1] \in Nat \ {0}
    <2>1. /\ Pow2[(i - 1) + 1] = 2 * Pow2[i - 1] /\ Pow2[(n - 1) + 1] = 2 * Pow2[n - 1]
      BY <1>1, <1>3
    <2> QED BY <1>1, <1>3, <2>1
  <1>10. /\ Pow2[i] \in Nat \ {0} /\ Pow2[n] \in Nat \ {0} /\ Pow2[t] \in Nat \ {0}
         /\ Pow2[u] \in Nat \ {0} /\ Pow2[s] \in Nat \ {0}
    BY <1>1, <1>3
  <1>11. AccountInstanceClanMask = Pow2[n - 1]
    BY DEF AccountInstanceClanMask, n
  <1>12. Width = (((i + n) + t) + u) + s
    BY <1>0
  <1>13. Pow2[Width] = (((Pow2[i] * Pow2[n]) * Pow2[t]) * Pow2[u]) * Pow2[s]
    BY <1>4, <1>5, <1>6, <1>7, <1>12
  <1>14. /\ Pow2[accountIDOffset] = 1 /\ Pow2[accountInstanceOffset] = Pow2[i]
         /\ Pow2[accountTypeOffset] = Pow2[i] * Pow2[n]
         /\ Pow2[accountUniverseOffset] = (Pow2[i] * Pow2[n]) * Pow2[t]
         /\ Pow2[accountUniverseOffset + u] = ((Pow2[i] * Pow2[n]) * Pow2[t]) * Pow2[u]
    BY <1>1, <1>2, <1>4, <1>5, <1>6
  <1>15. Pow2[t] >= 16 /\ Pow2[u] >= 16
    BY <1>8
  <1>16. AccountInstanceClanMask \in Nat \ {0} /\ Pow2[n] = 2 * AccountInstanceClanMask
    BY <1>9, <1>11
  <1> QED BY <1>9, <1>10, <1>13, <1>14, <1>15, <1>16 DEF i, n, t, u, s

\* A field of a number, with what is below and above it, is read and set.
FieldLaws(p, q, lo, f, hi, v) ==
    LET x == lo + p * (f + q * hi)
    IN  /\ (x \div p) % q = f
        /\ x - ((x \div p) % q) * p + (v % q) * p = lo + p * ((v % q) + q * hi)

\* getBits reads that field and setBits sets it, to a value cut to its width.
LEMMA OneField ==
    ASSUME NEW p \in Nat \ {0}, NEW q \in Nat \ {0}, NEW lo \in 0 .. p - 1,
           NEW f \in 0 .. q - 1, NEW hi \in Nat, NEW v \in Nat
    PROVE  FieldLaws(p, q, lo, f, hi, v)
  <1> DEFINE y == f + q * hi
             x == lo + p * y
             w == v % q
  <1>1. y \in Nat /\ w \in Nat
    OBVIOUS
  <1>2. y % q = f
    BY Quotient
  <1>y. y = f + q * hi
    OBVIOUS
  <1> HIDE DEF y, w
  <1>3. x \div p = y
    BY <1>1, Quotient
  <1>4. (x \div p) % q = f
    BY <1>2, <1>3
  <1>5. q * hi \in Nat /\ f \in Nat
    OBVIOUS
  <1>6. (lo + p * y) - f * p + w * p = lo + p * (w + q * hi)
    BY <1>1, <1>5, <1>y
  <1> QED BY <1>4, <1>6 DEF y, w, FieldLaws

\* The fields of a number made of them, and what setting one does.
PartsLaws(a, n, t, u, s, v) ==
    LET x == Parts(a, n, t, u, s)
    IN  /\ x \in Nat /\ AccountID(x) = a /\ AccountInstance(x) = n
        /\ AccountType(x) = t /\ AccountUniverse(x) = u /\ Spare(x) = s
        /\ WithAccountID(x, v) = Parts(v % Pow2[accountIDBits], n, t, u, s)
        /\ WithAccountInstance(x, v) = Parts(a, v % Pow2[accountInstanceBits], t, u, s)
        /\ WithAccountType(x, v) = Parts(a, n, v % Pow2[accountTypeBits], u, s)
        /\ WithAccountUniverse(x, v) = Parts(a, n, t, v % Pow2[accountUniverseBits], s)

\* The fields of a SteamID are read as they were put together, and each WithAccount
\* operation sets its own.
LEMMA FieldsOf ==
    ASSUME NEW a \in Field(accountIDBits), NEW n \in Field(accountInstanceBits),
           NEW t \in Field(accountTypeBits), NEW u \in Field(accountUniverseBits),
           NEW s \in Field(spareBits), NEW v \in Nat
    PROVE  PartsLaws(a, n, t, u, s, v)
  <1> DEFINE A == Pow2[accountIDBits]
             N == Pow2[accountInstanceBits]
             T == Pow2[accountTypeBits]
             U == Pow2[accountUniverseBits]
             S == Pow2[spareBits]
             x == Parts(a, n, t, u, s)
  <1>0. /\ A \in Nat \ {0} /\ N \in Nat \ {0} /\ T \in Nat \ {0}
        /\ U \in Nat \ {0} /\ S \in Nat \ {0}
        /\ Pow2[accountIDOffset] = 1 /\ Pow2[accountInstanceOffset] = A
        /\ Pow2[accountTypeOffset] = A * N /\ Pow2[accountUniverseOffset] = (A * N) * T
        /\ Pow2[accountUniverseOffset + accountUniverseBits] = ((A * N) * T) * U
    BY Places
  <1>1. /\ a \in 0 .. A - 1 /\ n \in 0 .. N - 1 /\ t \in 0 .. T - 1
        /\ u \in 0 .. U - 1 /\ s \in 0 .. S - 1
    BY DEF Field
  <1>2. \A a2, n2, t2, u2, s2:
          Parts(a2, n2, t2, u2, s2) = a2 + A * (n2 + N * (t2 + T * (u2 + U * s2)))
    BY DEF Parts
  <1>3. /\ AccountID(x) = (x \div 1) % A /\ AccountInstance(x) = (x \div A) % N
        /\ AccountType(x) = (x \div (A * N)) % T /\ AccountUniverse(x) = (x \div ((A * N) * T)) % U
        /\ Spare(x) = (x \div (((A * N) * T) * U)) % S
    BY <1>0 DEF AccountID, AccountInstance, AccountType, AccountUniverse, Spare, getBits
  <1>4. /\ WithAccountID(x, v) = x - AccountID(x) * 1 + (v % A) * 1
        /\ WithAccountInstance(x, v) = x - AccountInstance(x) * A + (v % N) * A
        /\ WithAccountType(x, v) = x - AccountType(x) * (A * N) + (v % T) * (A * N)
        /\ WithAccountUniverse(x, v)
             = x - AccountUniverse(x) * ((A * N) * T) + (v % U) * ((A * N) * T)
    BY <1>0 DEF WithAccountID, WithAccountInstance, WithAccountType, WithAccountUniverse, setBits,
                AccountID, AccountInstance, AccountType, AccountUniverse
  <1> HIDE DEF A, N, T, U, S, x
  <1> DEFINE h4 == u + U * s
             h3 == t + T * h4
             h2 == n + N * h3
             AN == A * N
             ANT == AN * T
             ANTU == ANT * U
  <1>5. AN \in Nat \ {0} /\ ANT \in Nat \ {0} /\ ANTU \in Nat \ {0}
    <2>1. AN \in Nat \ {0}
      BY <1>0
    <2> HIDE DEF AN
    <2>2. ANT \in Nat \ {0}
      BY <1>0, <2>1
    <2> HIDE DEF ANT
    <2>3. ANTU \in Nat \ {0}
      BY <1>0, <2>2
    <2> QED BY <2>1, <2>2, <2>3
  <1>6. h4 \in Nat /\ h3 \in Nat /\ h2 \in Nat
    <2>1. h4 \in Nat
      BY <1>0, <1>1
    <2> HIDE DEF h4
    <2>2. h3 \in Nat
      BY <1>0, <1>1, <2>1
    <2> HIDE DEF h3
    <2>3. h2 \in Nat
      BY <1>0, <1>1, <2>2
    <2> QED BY <2>1, <2>2, <2>3
  <1>7. x = a + A * h2
    BY <1>2 DEF x
  <1>8. a + A * n \in 0 .. AN - 1
    BY <1>0, <1>1, Below
  <1>9. (a + A * n) + AN * t \in 0 .. ANT - 1
    <2> DEFINE l == a + A * n
    <2> HIDE DEF AN, l
    <2> QED BY <1>0, <1>1, <1>5, <1>8, Below DEF l
  <1>10. ((a + A * n) + AN * t) + ANT * u \in 0 .. ANTU - 1
    <2> DEFINE l == (a + A * n) + AN * t
    <2> HIDE DEF ANT, l
    <2> QED BY <1>0, <1>1, <1>5, <1>9, Below DEF l
  <1>n. /\ a \in Nat /\ n \in Nat /\ t \in Nat /\ u \in Nat /\ s \in Nat
        /\ v % A \in Nat /\ v % N \in Nat /\ v % T \in Nat /\ v % U \in Nat
    BY <1>0, <1>1
  <1>11. \A n2 \in Nat: \A h \in Nat: A * (n2 + N * h) = A * n2 + AN * h
    BY <1>0
  <1>12. \A t2 \in Nat: \A h \in Nat: AN * (t2 + T * h) = AN * t2 + ANT * h
    <2> HIDE DEF AN
    <2> QED BY <1>0, <1>5
  <1>13. \A u2 \in Nat: \A h \in Nat: ANT * (u2 + U * h) = ANT * u2 + ANTU * h
    <2> HIDE DEF ANT
    <2> QED BY <1>0, <1>5
  <1>14. x \in Nat
    <2> HIDE DEF h2
    <2> QED BY <1>0, <1>6, <1>7, <1>n
  <1>15. AccountID(x) = a /\ WithAccountID(x, v) = Parts(v % A, n, t, u, s)
    <2>1. Parts(v % A, n, t, u, s) = (v % A) + A * h2
      BY <1>2
    <2> HIDE DEF h2
    <2>2. x \div 1 = x /\ x % A = a
      <3>1. A \in Nat \ {0} /\ a \in 0 .. A - 1 /\ h2 \in Nat
        BY <1>0, <1>1, <1>6
      <3>2. (a + A * h2) % A = a
        BY <3>1, Quotient, Zenon
      <3> QED BY <1>7, <1>14, <3>2
    <2>3. AccountID(x) = a
      BY <1>3, <2>2
    <2>4. A * h2 \in Nat
      BY <1>0, <1>6
    <2>5. x - a * 1 + (v % A) * 1 = (v % A) + A * h2
      BY <1>7, <1>n, <2>4
    <2> QED BY <1>4, <2>1, <2>3, <2>5
  <1>16. AccountInstance(x) = n /\ WithAccountInstance(x, v) = Parts(a, v % N, t, u, s)
    <2> DEFINE y == a + A * (n + N * h3)
    <2>1. Parts(a, v % N, t, u, s) = a + A * ((v % N) + N * h3) /\ x = y
      BY <1>2, <1>7
    <2> HIDE DEF h3
    <2>2. /\ (y \div A) % N = n
          /\ y - ((y \div A) % N) * A + (v % N) * A = a + A * ((v % N) + N * h3)
      <3>1. A \in Nat \ {0} /\ N \in Nat \ {0} /\ a \in 0 .. A - 1 /\ n \in 0 .. N - 1 /\ h3 \in Nat
        BY <1>0, <1>1, <1>6
      <3>2. FieldLaws(A, N, a, n, h3, v)
        BY <3>1, OneField
      <3> QED BY <3>2 DEF FieldLaws
    <2> HIDE DEF y
    <2> QED BY <1>3, <1>4, <2>1, <2>2
  <1>17. AccountType(x) = t /\ WithAccountType(x, v) = Parts(a, n, v % T, u, s)
    <2> DEFINE l == a + A * n
               y == l + AN * (t + T * h4)
               w == v % T
    <2>1. /\ Parts(a, n, w, u, s) = a + A * (n + N * (w + T * h4))
          /\ x = a + A * (n + N * (t + T * h4))
      BY <1>2, <1>7
    <2>w. w \in Nat /\ v % T = w
      BY <1>n
    <2> HIDE DEF h4, AN, w
    <2>2. A * (n + N * (w + T * h4)) = A * n + AN * (w + T * h4)
      <3>1. w + T * h4 \in Nat
        BY <1>0, <1>6, <2>w
      <3> QED BY <1>11, <1>n, <3>1
    <2>3. A * (n + N * (t + T * h4)) = A * n + AN * (t + T * h4)
      <3>1. t + T * h4 \in Nat
        BY <1>0, <1>6, <1>n
      <3> QED BY <1>11, <1>n, <3>1
    <2>4. /\ A * n \in Nat /\ AN * (t + T * h4) \in Nat /\ AN * (w + T * h4) \in Nat
      BY <1>0, <1>5, <1>6, <1>n, <2>w
    <2>5. Parts(a, n, w, u, s) = l + AN * (w + T * h4) /\ x = y
      BY <1>n, <2>1, <2>2, <2>3, <2>4
    <2>l. l \in 0 .. AN - 1
      BY <1>8
    <2> HIDE DEF l
    <2>6. /\ (y \div AN) % T = t
          /\ y - ((y \div AN) % T) * AN + w * AN = l + AN * (w + T * h4)
      <3>1. AN \in Nat \ {0} /\ T \in Nat \ {0} /\ t \in 0 .. T - 1 /\ h4 \in Nat
        BY <1>0, <1>1, <1>5, <1>6
      <3>2. FieldLaws(AN, T, l, t, h4, v)
        BY <2>l, <3>1, OneField
      <3> QED BY <3>2 DEF FieldLaws, w
    <2> HIDE DEF y
    <2>7. /\ AccountType(x) = (x \div AN) % T
          /\ WithAccountType(x, v) = x - AccountType(x) * AN + w * AN
      BY <1>3, <1>4 DEF AN, w
    <2> QED BY <2>5, <2>6, <2>7, <2>w
  <1>a. \A t2 \in Nat, h \in Nat:
           a + A * (n + N * (t2 + T * h)) = ((a + A * n) + AN * t2) + ANT * h
    <2> SUFFICES ASSUME NEW t2 \in Nat, NEW h \in Nat
                 PROVE  a + A * (n + N * (t2 + T * h)) = ((a + A * n) + AN * t2) + ANT * h
      OBVIOUS
    <2>1. t2 + T * h \in Nat
      BY <1>0
    <2> HIDE DEF AN, ANT
    <2>2. A * (n + N * (t2 + T * h)) = A * n + AN * (t2 + T * h)
      BY <1>11, <1>n, <2>1
    <2>3. AN * (t2 + T * h) = AN * t2 + ANT * h
      BY <1>12
    <2>4. A * n \in Nat /\ AN * t2 \in Nat /\ ANT * h \in Nat
      BY <1>0, <1>5, <1>n
    <2> QED BY <1>n, <2>2, <2>3, <2>4
  <1>18. AccountUniverse(x) = u /\ WithAccountUniverse(x, v) = Parts(a, n, t, v % U, s)
    <2> DEFINE l == (a + A * n) + AN * t
               y == l + ANT * (u + U * s)
               w == v % U
    <2>w. w \in Nat /\ v % U = w
      BY <1>n
    <2>1. Parts(a, n, t, w, s) = a + A * (n + N * (t + T * (w + U * s)))
          /\ x = a + A * (n + N * (t + T * (u + U * s)))
      BY <1>2, <1>7
    <2> HIDE DEF AN, ANT, w
    <2>2. w + U * s \in Nat /\ u + U * s \in Nat
      BY <1>0, <1>n, <2>w
    <2>5. Parts(a, n, t, w, s) = l + ANT * (w + U * s) /\ x = y
      BY <1>a, <1>n, <2>1, <2>2
    <2>l. l \in 0 .. ANT - 1
      BY <1>9
    <2> HIDE DEF l
    <2>6. /\ (y \div ANT) % U = u
          /\ y - ((y \div ANT) % U) * ANT + w * ANT = l + ANT * (w + U * s)
      <3>1. ANT \in Nat \ {0} /\ U \in Nat \ {0} /\ u \in 0 .. U - 1 /\ s \in Nat
        BY <1>0, <1>1, <1>5, <1>n
      <3>2. FieldLaws(ANT, U, l, u, s, v)
        BY <2>l, <3>1, OneField
      <3> QED BY <3>2 DEF FieldLaws, w
    <2> HIDE DEF y
    <2>7. /\ AccountUniverse(x) = (x \div ANT) % U
          /\ WithAccountUniverse(x, v) = x - AccountUniverse(x) * ANT + w * ANT
      BY <1>3, <1>4 DEF AN, ANT, w
    <2> QED BY <2>5, <2>6, <2>7, <2>w
  <1>19. Spare(x) = s
    <2> DEFINE l == ((a + A * n) + AN * t) + ANT * u
    <2>1. x = a + A * (n + N * (t + T * (u + U * s)))
      BY <1>7
    <2>2. Spare(x) = (x \div ANTU) % S
      BY <1>3
    <2> HIDE DEF AN, ANT, ANTU
    <2>3. u + U * s \in Nat
      BY <1>0, <1>n
    <2>4. x = ((a + A * n) + AN * t) + ANT * (u + U * s)
      BY <1>a, <1>n, <2>1, <2>3
    <2>5. ANT * (u + U * s) = ANT * u + ANTU * s
      BY <1>13, <1>n
    <2>6. A * n \in Nat /\ AN * t \in Nat /\ ANT * u \in Nat /\ ANTU * s \in Nat
      BY <1>0, <1>5, <1>n
    <2>7. x = l + ANTU * s
      BY <1>n, <2>4, <2>5, <2>6
    <2>l. l \in 0 .. ANTU - 1
      BY <1>10
    <2> HIDE DEF l
    <2>8. x \div ANTU = s
      BY <1>5, <1>n, <2>7, <2>l, Quotient
    <2>9. s % S = s
      BY <1>0, <1>1
    <2> QED BY <2>2, <2>8, <2>9
  <1> QED BY <1>14, <1>15, <1>16, <1>17, <1>18, <1>19 DEF x, A, N, T, U, PartsLaws

\* Every SteamID is made of its fields.
LEMMA MadeOfFields ==
    ASSUME NEW x \in SteamIDs
    PROVE  \E a \in Field(accountIDBits), n \in Field(accountInstanceBits),
              t \in Field(accountTypeBits), u \in Field(accountUniverseBits),
              s \in Field(spareBits): x = Parts(a, n, t, u, s)
  <1> DEFINE A == Pow2[accountIDBits]
             N == Pow2[accountInstanceBits]
             T == Pow2[accountTypeBits]
             U == Pow2[accountUniverseBits]
             S == Pow2[spareBits]
  <1>0. /\ A \in Nat \ {0} /\ N \in Nat \ {0} /\ T \in Nat \ {0}
        /\ U \in Nat \ {0} /\ S \in Nat \ {0}
        /\ Pow2[Width] = (((A * N) * T) * U) * S
    BY Places
  <1>1. x \in 0 .. Pow2[Width] - 1
    BY DEF SteamIDs
  <1>p. \A a, n, t, u, s: Parts(a, n, t, u, s) = a + A * (n + N * (t + T * (u + U * s)))
    BY DEF Parts
  <1>f. /\ Field(accountIDBits) = 0 .. A - 1 /\ Field(accountInstanceBits) = 0 .. N - 1
        /\ Field(accountTypeBits) = 0 .. T - 1 /\ Field(accountUniverseBits) = 0 .. U - 1
        /\ Field(spareBits) = 0 .. S - 1
    BY DEF Field
  <1> HIDE DEF A, N, T, U, S
  <1> DEFINE q4 == U * S
             q3 == T * q4
             q2 == N * q3
  <1>2. q4 \in Nat \ {0} /\ q3 \in Nat \ {0} /\ q2 \in Nat \ {0}
    <2>1. q4 \in Nat \ {0}
      BY <1>0
    <2> HIDE DEF q4
    <2>2. q3 \in Nat \ {0}
      BY <1>0, <2>1
    <2> HIDE DEF q3
    <2>3. q2 \in Nat \ {0}
      BY <1>0, <2>2
    <2> QED BY <2>1, <2>2, <2>3
  <1>3. Pow2[Width] = A * q2
    BY <1>0
  <1>4. PICK a \in 0 .. A - 1, h2 \in 0 .. q2 - 1: x = a + A * h2
    <2> HIDE DEF q2
    <2>1. x \in 0 .. A * q2 - 1
      BY <1>1, <1>3
    <2>2. Splits(x, A, q2)
      BY <1>0, <1>2, <2>1, Divided
    <2> QED BY <2>2 DEF Splits
  <1>5. PICK n \in 0 .. N - 1, h3 \in 0 .. q3 - 1: h2 = n + N * h3
    <2> HIDE DEF q3
    <2>1. Splits(h2, N, q3)
      BY <1>0, <1>2, Divided
    <2> QED BY <2>1 DEF Splits
  <1>6. PICK t \in 0 .. T - 1, h4 \in 0 .. q4 - 1: h3 = t + T * h4
    <2> HIDE DEF q4
    <2>1. Splits(h3, T, q4)
      BY <1>0, <1>2, Divided
    <2> QED BY <2>1 DEF Splits
  <1>7. PICK u \in 0 .. U - 1, s \in 0 .. S - 1: h4 = u + U * s
    <2>1. Splits(h4, U, S)
      BY <1>0, <1>2, Divided
    <2> QED BY <2>1 DEF Splits
  <1>8. x = Parts(a, n, t, u, s)
    BY <1>4, <1>5, <1>6, <1>7, <1>p
  <1> HIDE DEF q2, q3, q4
  <1> QED BY <1>4, <1>5, <1>6, <1>7, <1>8, <1>f, Zenon

\* The SteamID of four numbers.
LEMMA NewParts ==
    ASSUME NEW a \in Nat, NEW n \in Nat, NEW t \in Nat, NEW u \in Nat
    PROVE  NewSteamID(a, n, t, u)
             = Parts(a % Pow2[accountIDBits], n % Pow2[accountInstanceBits],
                     t % Pow2[accountTypeBits], u % Pow2[accountUniverseBits], 0)
  <1> DEFINE A == Pow2[accountIDBits]
             N == Pow2[accountInstanceBits]
             T == Pow2[accountTypeBits]
             U == Pow2[accountUniverseBits]
  <1>0. /\ A \in Nat \ {0} /\ N \in Nat \ {0} /\ T \in Nat \ {0} /\ U \in Nat \ {0}
        /\ Pow2[spareBits] \in Nat \ {0}
    BY Places
  <1>1. /\ a % A \in Field(accountIDBits) /\ n % N \in Field(accountInstanceBits)
        /\ t % T \in Field(accountTypeBits) /\ u % U \in Field(accountUniverseBits)
        /\ 0 \in Field(accountIDBits) /\ 0 \in Field(accountInstanceBits)
        /\ 0 \in Field(accountTypeBits) /\ 0 \in Field(accountUniverseBits)
        /\ 0 \in Field(spareBits)
    BY <1>0 DEF Field
  <1>2. 0 = Parts(0, 0, 0, 0, 0)
    BY <1>0 DEF Parts
  <1>3. WithAccountID(Parts(0, 0, 0, 0, 0), a) = Parts(a % A, 0, 0, 0, 0)
    <2>1. PartsLaws(0, 0, 0, 0, 0, a)
      BY <1>1, FieldsOf
    <2> QED BY <2>1 DEF PartsLaws
  <1>4. WithAccountInstance(Parts(a % A, 0, 0, 0, 0), n) = Parts(a % A, n % N, 0, 0, 0)
    <2>1. PartsLaws(a % A, 0, 0, 0, 0, n)
      BY <1>1, FieldsOf
    <2> QED BY <2>1 DEF PartsLaws
  <1>5. WithAccountType(Parts(a % A, n % N, 0, 0, 0), t) = Parts(a % A, n % N, t % T, 0, 0)
    <2>1. PartsLaws(a % A, n % N, 0, 0, 0, t)
      BY <1>1, FieldsOf
    <2> QED BY <2>1 DEF PartsLaws
  <1>6. WithAccountUniverse(Parts(a % A, n % N, t % T, 0, 0), u)
          = Parts(a % A, n % N, t % T, u % U, 0)
    <2>1. PartsLaws(a % A, n % N, t % T, 0, 0, u)
      BY <1>1, FieldsOf
    <2> QED BY <2>1 DEF PartsLaws
  <1> QED BY <1>2, <1>3, <1>4, <1>5, <1>6, Zenon DEF NewSteamID

\* setBits, for every SteamID and value: the other fields stay as they were.
LEMMA OneFieldSet ==
    ASSUME NEW sid \in SteamIDs
    PROVE  SetsOneField(sid)
  <1>1. PICK a \in Field(accountIDBits), n \in Field(accountInstanceBits),
             t \in Field(accountTypeBits), u \in Field(accountUniverseBits),
             s \in Field(spareBits): sid = Parts(a, n, t, u, s)
    BY MadeOfFields
  <1>2. Pow2[accountTypeBits + 1] \in Nat
    BY Pow2Laws, SteamIDAssumption DEF Width
  <1> DEFINE Good(v) ==
        LET i == WithAccountID(sid, v)
            m == WithAccountInstance(sid, v)
            y == WithAccountType(sid, v)
            w == WithAccountUniverse(sid, v)
        IN  /\ AccountID(i) = v % Pow2[accountIDBits]
            /\ AccountInstance(m) = v % Pow2[accountInstanceBits]
            /\ AccountType(y) = v % Pow2[accountTypeBits]
            /\ AccountUniverse(w) = v % Pow2[accountUniverseBits]
            /\ \A x \in {m, y, w}: AccountID(x) = AccountID(sid)
            /\ \A x \in {i, y, w}: AccountInstance(x) = AccountInstance(sid)
            /\ \A x \in {i, m, w}: AccountType(x) = AccountType(sid)
            /\ \A x \in {i, m, y}: AccountUniverse(x) = AccountUniverse(sid)
            /\ \A x \in {i, m, y, w}: Spare(x) = Spare(sid)
  <1>3. ASSUME NEW v \in Nat PROVE Good(v)
    <2>0. /\ v % Pow2[accountIDBits] \in Field(accountIDBits)
          /\ v % Pow2[accountInstanceBits] \in Field(accountInstanceBits)
          /\ v % Pow2[accountTypeBits] \in Field(accountTypeBits)
          /\ v % Pow2[accountUniverseBits] \in Field(accountUniverseBits)
      <3>1. /\ Pow2[accountIDBits] \in Nat \ {0} /\ Pow2[accountInstanceBits] \in Nat \ {0}
            /\ Pow2[accountTypeBits] \in Nat \ {0} /\ Pow2[accountUniverseBits] \in Nat \ {0}
        BY Places
      <3> QED BY <3>1 DEF Field
    <2>1. PartsLaws(a, n, t, u, s, v)
      BY FieldsOf
    <2>2. PartsLaws(v % Pow2[accountIDBits], n, t, u, s, v)
      BY <2>0, FieldsOf
    <2>3. PartsLaws(a, v % Pow2[accountInstanceBits], t, u, s, v)
      BY <2>0, FieldsOf
    <2>4. PartsLaws(a, n, v % Pow2[accountTypeBits], u, s, v)
      BY <2>0, FieldsOf
    <2>5. PartsLaws(a, n, t, v % Pow2[accountUniverseBits], s, v)
      BY <2>0, FieldsOf
    <2> QED BY <1>1, <2>1, <2>2, <2>3, <2>4, <2>5, Zenon DEF PartsLaws
  <1>4. \A v \in 0 .. Pow2[accountTypeBits + 1]: v \in Nat
    BY <1>2
  <1>5. \A v \in 0 .. Pow2[accountTypeBits + 1]: Good(v)
    <2> HIDE DEF Good
    <2> QED BY <1>3, <1>4
  <1> QED BY <1>5, Zenon DEF SetsOneField

\* ConvertClanToChat and ConvertChatToClan, for every SteamID.
LEMMA ClansAndChats ==
    ASSUME NEW sid \in SteamIDs
    PROVE  ClanAndChat(sid)
  <1>1. PICK a \in Field(accountIDBits), n \in Field(accountInstanceBits),
             t \in Field(accountTypeBits), u \in Field(accountUniverseBits),
             s \in Field(spareBits): sid = Parts(a, n, t, u, s)
    BY MadeOfFields
  <1> DEFINE M == AccountInstanceClanMask
             N == Pow2[accountInstanceBits]
             T == Pow2[accountTypeBits]
  <1>2. M \in Nat \ {0} /\ N = 2 * M /\ T \in Nat /\ T >= 16
    BY Places
  <1>3. M \in Field(accountInstanceBits) /\ 0 \in Field(accountInstanceBits)
        /\ 7 \in Field(accountTypeBits) /\ 8 \in Field(accountTypeBits)
        /\ M % N = M /\ 0 % N = 0 /\ 7 % T = 7 /\ 8 % T = 8
    BY <1>2 DEF Field
  <1> HIDE DEF M, N, T
  <1>m. AccountInstanceClanMask = M
    BY DEF M
  <1>4. AccountType(sid) = t /\ AccountInstance(sid) = n
    <2>1. PartsLaws(a, n, t, u, s, 0)
      BY FieldsOf
    <2> QED BY <1>1, <2>1, Zenon DEF PartsLaws
  <1>5. ASSUME NEW n2 \in Field(accountInstanceBits)
        PROVE  /\ WithAccountInstance(WithAccountType(Parts(a, n2, 7, u, s), 8), M)
                    = Parts(a, M, 8, u, s)
               /\ WithAccountInstance(WithAccountType(Parts(a, n2, 8, u, s), 7), 0)
                    = Parts(a, 0, 7, u, s)
    <2>1. PartsLaws(a, n2, 7, u, s, 8) /\ PartsLaws(a, n2, 8, u, s, 7)
      BY <1>3, FieldsOf
    <2>2. PartsLaws(a, n2, 8, u, s, M) /\ PartsLaws(a, n2, 7, u, s, 0)
      BY <1>2, <1>3, FieldsOf
    <2>3. /\ WithAccountType(Parts(a, n2, 7, u, s), 8) = Parts(a, n2, 8, u, s)
          /\ WithAccountType(Parts(a, n2, 8, u, s), 7) = Parts(a, n2, 7, u, s)
      BY <1>3, <2>1, Zenon DEF PartsLaws, T
    <2>4. /\ WithAccountInstance(Parts(a, n2, 8, u, s), M) = Parts(a, M, 8, u, s)
          /\ WithAccountInstance(Parts(a, n2, 7, u, s), 0) = Parts(a, 0, 7, u, s)
      BY <1>3, <2>2, Zenon DEF PartsLaws, N
    <2> QED BY <2>3, <2>4
  <1>6. /\ AccountType(Parts(a, M, 8, u, s)) = 8 /\ AccountInstance(Parts(a, M, 8, u, s)) = M
        /\ AccountType(Parts(a, 0, 7, u, s)) = 7
    <2>1. PartsLaws(a, M, 8, u, s, 0) /\ PartsLaws(a, 0, 7, u, s, 0)
      BY <1>3, FieldsOf
    <2> QED BY <2>1, Zenon DEF PartsLaws
  <1>c. /\ AccountTypeClan = 7 /\ AccountTypeChat = 8
    BY DEF AccountTypeClan, AccountTypeChat
  <1>7. ASSUME t # 7 PROVE ConvertClanToChat(ConvertChatToClan(sid)) = sid
    <2>1. CASE t = 8 /\ n = M
      <3>1. ConvertChatToClan(sid) = Parts(a, 0, 7, u, s)
        BY <1>1, <1>3, <1>4, <1>5, <1>c, <1>m, <2>1, Zenon DEF ConvertChatToClan
      <3>2. ConvertClanToChat(Parts(a, 0, 7, u, s)) = Parts(a, M, 8, u, s)
        BY <1>3, <1>5, <1>6, <1>c, <1>m, Zenon DEF ConvertClanToChat
      <3> QED BY <1>1, <2>1, <3>1, <3>2
    <2>2. CASE ~(t = 8 /\ n = M)
      <3>1. ConvertChatToClan(sid) = sid
        BY <1>4, <1>c, <1>m, <2>2, Zenon DEF ConvertChatToClan
      <3> QED BY <1>4, <1>7, <1>c, <3>1, Zenon DEF ConvertClanToChat
    <2> QED BY <2>1, <2>2
  <1>8. ASSUME t = 7, n = 0 PROVE ConvertChatToClan(ConvertClanToChat(sid)) = sid
    <2>1. ConvertClanToChat(sid) = Parts(a, M, 8, u, s)
      BY <1>1, <1>3, <1>4, <1>5, <1>8, <1>c, <1>m, Zenon DEF ConvertClanToChat
    <2>2. ConvertChatToClan(Parts(a, M, 8, u, s)) = Parts(a, 0, 7, u, s)
      BY <1>3, <1>5, <1>6, <1>c, <1>m, Zenon DEF ConvertChatToClan
    <2> QED BY <1>1, <1>8, <2>1, <2>2
  <1>9. ASSUME t \notin {7, 8} PROVE ConvertClanToChat(sid) = sid /\ ConvertChatToClan(sid) = sid
    BY <1>4, <1>9, <1>c, Zenon DEF ConvertClanToChat, ConvertChatToClan
  <1> QED BY <1>4, <1>7, <1>8, <1>9, <1>c DEF ClanAndChat

\* The notations: reading back what was printed.
LEMMA AccountRead ==
    ASSUME NEW sid \in SteamIDs
    PROVE  AccountKept(sid)
  <1>1. PICK a \in Field(accountIDBits), n \in Field(accountInstanceBits),
             t \in Field(accountTypeBits), u \in Field(accountUniverseBits),
             s \in Field(spareBits): sid = Parts(a, n, t, u, s)
    BY MadeOfFields
  <1> DEFINE A == Pow2[accountIDBits]
  <1>2. /\ A \in Nat \ {0} /\ Pow2[accountInstanceBits] \in Nat \ {0}
        /\ Pow2[accountTypeBits] \in Nat \ {0} /\ Pow2[accountUniverseBits] \in Nat \ {0}
        /\ Pow2[spareBits] \in Nat \ {0}
    BY Places
  <1>3. a \in 0 .. A - 1 /\ u \in Nat /\ t \in Nat
    BY <1>2 DEF Field
  <1>4. AccountID(sid) = a /\ AccountUniverse(sid) = u /\ AccountType(sid) = t
    <2>1. PartsLaws(a, n, t, u, s, 0)
      BY FieldsOf
    <2> QED BY <1>1, <2>1, Zenon DEF PartsLaws
  <1>5. ASSUME NEW i \in Nat, NEW y \in Nat, NEW w \in Nat
        PROVE  AccountID(NewSteamID(a, i, y, w)) = a
    <2>1. /\ a % A = a /\ a % A \in Field(accountIDBits)
          /\ i % Pow2[accountInstanceBits] \in Field(accountInstanceBits)
          /\ y % Pow2[accountTypeBits] \in Field(accountTypeBits)
          /\ w % Pow2[accountUniverseBits] \in Field(accountUniverseBits)
          /\ 0 \in Field(spareBits) /\ a \in Nat
      BY <1>2, <1>3 DEF Field
    <2>2. PartsLaws(a % A, i % Pow2[accountInstanceBits], y % Pow2[accountTypeBits],
                    w % Pow2[accountUniverseBits], 0, 0)
      BY <2>1, FieldsOf
    <2>3. AccountID(Parts(a % A, i % Pow2[accountInstanceBits], y % Pow2[accountTypeBits],
                          w % Pow2[accountUniverseBits], 0)) = a % A
      BY <2>2, Zenon DEF PartsLaws
    <2>4. NewSteamID(a, i, y, w)
            = Parts(a % A, i % Pow2[accountInstanceBits], y % Pow2[accountTypeBits],
                    w % Pow2[accountUniverseBits], 0)
      BY <2>1, NewParts
    <2> QED BY <2>1, <2>3, <2>4
  <1>6. FromSteam2(ToSteam2(sid)) # None => AccountID(FromSteam2(ToSteam2(sid))) = a
    <2> DEFINE p == ToSteam2(sid)
    <2>1. p.number = a \div 2 /\ p.server = a % 2 /\ p.universe \in Nat
      BY <1>3, <1>4 DEF ToSteam2, AccountUniversePublic
    <2> HIDE DEF p
    <2>2. Account2(p.number, p.server) = a
      <3>1. (a \div 2) * 2 + (a % 2) = a /\ (a \div 2) * 2 \in 0 .. A - 1
        BY <1>2, <1>3
      <3>2. ((a \div 2) * 2) % A = (a \div 2) * 2
        BY <1>2, <3>1
      <3> QED BY <2>1, <3>1, <3>2 DEF Account2
    <2> DEFINE y == IF p.universe = 0 THEN AccountUniversePublic ELSE p.universe
    <2>3. y \in Nat
      BY <2>1 DEF AccountUniversePublic
    <2>4. FromSteam2(p) = None \/ FromSteam2(p) = NewSteamID(a, 1, y, 1)
      BY <2>2 DEF FromSteam2, AccountTypeIndividual
    <2> HIDE DEF y
    <2>5. AccountID(NewSteamID(a, 1, y, 1)) = a
      BY <1>5, <2>3
    <2> QED BY <2>4, <2>5 DEF p
  <1>7. FromSteam3(ToSteam3(sid)) # None => AccountID(FromSteam3(ToSteam3(sid))) = a
    <2> DEFINE p == ToSteam3(sid)
               y == MapSteamID3CharacterToAccountType(p.char)
    <2>1. p.id = a /\ p.universe = u
      BY <1>4 DEF ToSteam3
    <2>2. y \in Nat
      <3> DEFINE c == p.char
      <3> HIDE DEF c
      <3>1. MapSteamID3CharacterToAccountType(c) \in {7, 4, 6, 8, 0, 1}
        BY Zenon DEF MapSteamID3CharacterToAccountType, AccountTypeClan, AccountTypeAnonGameServer,
              AccountTypeContentServer, AccountTypeChat, AccountTypeInvalid, AccountTypeIndividual
      <3> QED BY <3>1 DEF c
    <2> HIDE DEF p, y
    <2>3. defaultInstanceForAccountType(y) \in Nat
      BY DEF defaultInstanceForAccountType
    <2>4. FromSteam3(p) = None
            \/ FromSteam3(p) = NewSteamID(a, defaultInstanceForAccountType(y), u, y)
      BY <2>1 DEF FromSteam3, y
    <2>5. AccountID(NewSteamID(a, defaultInstanceForAccountType(y), u, y)) = a
      BY <1>3, <1>5, <2>2, <2>3
    <2> QED BY <2>4, <2>5 DEF p
  <1>8. FromSteam64(ToSteam64(sid)) # None => AccountID(FromSteam64(ToSteam64(sid))) = a
    BY <1>4 DEF FromSteam64, ToSteam64
  <1> QED BY <1>4, <1>6, <1>7, <1>8 DEF AccountKept

\* The universe is what is above the other fields.
LEMMA UniverseOnTop ==
    ASSUME NEW a \in Field(accountIDBits), NEW n \in Field(accountInstanceBits),
           NEW t \in Field(accountTypeBits), NEW u \in Field(accountUniverseBits)
    PROVE  \E lo \in 0 .. Pow2[accountUniverseOffset] - 1:
              Parts(a, n, t, u, 0) = lo + Pow2[accountUniverseOffset] * u
  <1> DEFINE A == Pow2[accountIDBits]
             N == Pow2[accountInstanceBits]
             T == Pow2[accountTypeBits]
             U == Pow2[accountUniverseBits]
  <1>0. /\ A \in Nat \ {0} /\ N \in Nat \ {0} /\ T \in Nat \ {0} /\ U \in Nat \ {0}
        /\ Pow2[accountUniverseOffset] = (A * N) * T
    BY Places
  <1>1. a \in 0 .. A - 1 /\ n \in 0 .. N - 1 /\ t \in 0 .. T - 1 /\ u \in 0 .. U - 1
    BY DEF Field
  <1>2. Parts(a, n, t, u, 0) = a + A * (n + N * (t + T * (u + U * 0)))
    BY DEF Parts
  <1> HIDE DEF A, N, T, U
  <1> DEFINE AN == A * N
             l == a + A * n
             lo == l + AN * t
  <1>3. AN \in Nat \ {0} /\ l \in 0 .. AN - 1
    BY <1>0, <1>1, Below
  <1> HIDE DEF AN, l
  <1>4. lo \in 0 .. AN * T - 1
    BY <1>0, <1>1, <1>3, Below
  <1>5. u + U * 0 = u /\ u \in Nat /\ t \in Nat /\ n \in Nat /\ a \in Nat
    BY <1>0, <1>1
  <1>6. A * (n + N * (t + T * u)) = A * n + (A * N) * t + ((A * N) * T) * u
    BY <1>0, <1>5
  <1>7. A * n \in Nat /\ (A * N) * t \in Nat /\ ((A * N) * T) * u \in Nat
    BY <1>0, <1>3, <1>5 DEF AN
  <1>8. a + A * (n + N * (t + T * u)) = lo + ((A * N) * T) * u
    BY <1>5, <1>6, <1>7 DEF l, AN
  <1>9. lo \in 0 .. Pow2[accountUniverseOffset] - 1
    BY <1>0, <1>4 DEF AN
  <1>10. Parts(a, n, t, u, 0) = lo + Pow2[accountUniverseOffset] * u
    BY <1>0, <1>2, <1>5, <1>8
  <1> HIDE DEF lo
  <1> QED BY <1>9, <1>10

\* The SteamIDs of public desktop accounts.
LEMMA DesktopAccount ==
    ASSUME NEW a \in Field(accountIDBits)
    PROVE  /\ NewSteamID(a, 1, 1, 1) = Parts(a, 1, 1, 1, 0)
           /\ 1 \in Field(accountInstanceBits) /\ 1 \in Field(accountTypeBits)
           /\ 1 \in Field(accountUniverseBits) /\ 0 \in Field(spareBits)
  <1> DEFINE A == Pow2[accountIDBits]
             N == Pow2[accountInstanceBits]
             T == Pow2[accountTypeBits]
             U == Pow2[accountUniverseBits]
             S == Pow2[spareBits]
  <1>0. /\ A \in Nat \ {0} /\ N \in Nat /\ N >= 2 /\ T \in Nat /\ T >= 2 /\ U \in Nat /\ U >= 2
        /\ S \in Nat \ {0}
    BY Places
  <1>1. a \in 0 .. A - 1
    BY DEF Field
  <1>2. NewSteamID(a, 1, 1, 1) = Parts(a % A, 1 % N, 1 % T, 1 % U, 0)
    BY <1>0, <1>1, NewParts
  <1>f. /\ Field(accountInstanceBits) = 0 .. N - 1 /\ Field(accountTypeBits) = 0 .. T - 1
        /\ Field(accountUniverseBits) = 0 .. U - 1 /\ Field(spareBits) = 0 .. S - 1
    BY DEF Field
  <1> HIDE DEF A, N, T, U, S
  <1>3. a % A = a /\ 1 % N = 1 /\ 1 % T = 1 /\ 1 % U = 1
    BY <1>0, <1>1
  <1>4. 1 \in 0 .. N - 1 /\ 1 \in 0 .. T - 1 /\ 1 \in 0 .. U - 1 /\ 0 \in 0 .. S - 1
    BY <1>0
  <1>5. NewSteamID(a, 1, 1, 1) = Parts(a, 1, 1, 1, 0)
    BY <1>2, <1>3
  <1> QED BY <1>4, <1>5, <1>f

\* MarshalJSON and UnmarshalJSON, for every SteamID.
LEMMA JSONRead ==
    ASSUME NEW sid \in SteamIDs
    PROVE  SurvivesJSON(sid)
  <1>1. PICK a \in Field(accountIDBits), n \in Field(accountInstanceBits),
             t \in Field(accountTypeBits), u \in Field(accountUniverseBits),
             s \in Field(spareBits): sid = Parts(a, n, t, u, s)
    BY MadeOfFields
  <1> DEFINE A == Pow2[accountIDBits]
  <1>2. /\ A \in Nat \ {0} /\ Pow2[accountInstanceBits] \in Nat \ {0}
        /\ Pow2[accountTypeBits] \in Nat \ {0} /\ Pow2[accountUniverseBits] \in Nat \ {0}
        /\ Pow2[accountIDOffset] = 1
    BY Places
  <1>3. a \in 0 .. A - 1 /\ u \in Nat /\ t \in Nat
    BY <1>2 DEF Field
  <1>4. /\ AccountID(sid) = a /\ AccountInstance(sid) = n /\ AccountUniverse(sid) = u
        /\ AccountType(sid) = t /\ Spare(sid) = s /\ sid \in Nat
    <2>1. PartsLaws(a, n, t, u, s, 0)
      BY FieldsOf
    <2> QED BY <1>1, <2>1, Zenon DEF PartsLaws
  <1>c. AccountTypeIndividual = 1 /\ AccountUniversePublic = 1 /\ AccountUniverseMax = 5
        /\ AccountUniverseInvalid = 0
    BY DEF AccountTypeIndividual, AccountUniversePublic, AccountUniverseMax, AccountUniverseInvalid
  <1>n. /\ AccountID(Parts(0, 1, 1, 1, 0)) = 0 /\ 0 \in Field(accountIDBits)
        /\ Base = Parts(0, 1, 1, 1, 0) /\ Base \in Nat
    <2>1. 0 \in Field(accountIDBits)
      BY <1>2 DEF Field
    <2>2. /\ NewSteamID(0, 1, 1, 1) = Parts(0, 1, 1, 1, 0)
          /\ 1 \in Field(accountInstanceBits) /\ 1 \in Field(accountTypeBits)
          /\ 1 \in Field(accountUniverseBits) /\ 0 \in Field(spareBits)
      BY <2>1, DesktopAccount
    <2>3. PartsLaws(0, 1, 1, 1, 0, 0)
      BY <2>1, <2>2, FieldsOf
    <2>4. AccountID(Parts(0, 1, 1, 1, 0)) = 0 /\ Parts(0, 1, 1, 1, 0) \in Nat
      BY <2>3, Zenon DEF PartsLaws
    <2> QED BY <1>c, <2>1, <2>2, <2>4 DEF Base
  <1>5. ASSUME t = 1, n = 1, u = 1, s = 0 PROVE UnmarshalString(MarshalJSON(sid)) = sid
    <2> DEFINE p == ToSteam2(sid)
    <2>1. MarshalJSON(sid) = p
      BY <1>4, <1>5, <1>c DEF MarshalJSON, String
    <2>2. p.notation = "Steam2" /\ p.universe = 1 /\ p.number = a \div 2 /\ p.server = a % 2
      BY <1>4, <1>5, <1>c DEF ToSteam2
    <2> HIDE DEF p
    <2>3. FromString(p) = FromSteam2(p)
      <3>1. p.notation # "Steam3" /\ p.notation # "Steam64"
        BY <2>2
      <3> QED BY <2>2, <3>1, Zenon DEF FromString
    <2>4. Account2(p.number, p.server) = a /\ ~(p.number >= A)
      <3>1. /\ (a \div 2) * 2 + (a % 2) = a /\ (a \div 2) * 2 \in 0 .. A - 1
            /\ a \div 2 < A /\ a \div 2 \in Nat
        BY <1>2, <1>3
      <3>2. ((a \div 2) * 2) % A = (a \div 2) * 2
        BY <1>2, <3>1
      <3>3. ~(a \div 2 >= A)
        BY <1>2, <3>1
      <3> QED BY <2>2, <3>1, <3>2, <3>3 DEF Account2
    <2>5. FromSteam2(p) = NewSteamID(a, 1, 1, 1)
      <3>1. ~(p.universe > 5) /\ p.universe # 0
        BY <2>2
      <3> QED BY <1>c, <2>2, <2>4, <3>1 DEF FromSteam2
    <2>6. FromSteam2(p) = sid
      BY <1>1, <1>5, <2>5, DesktopAccount
    <2> QED BY <2>1, <2>3, <2>6 DEF UnmarshalString
  <1>6. ASSUME t # 1, u # 0, u <= 5, s = 0 PROVE UnmarshalString(MarshalJSON(sid)) = sid
    <2> DEFINE p == ToSteam64(sid)
               O == Pow2[accountUniverseOffset]
    <2>1. MarshalJSON(sid) = p
      BY <1>4, <1>6, <1>c DEF MarshalJSON, String
    <2>2. p.notation = "Steam64" /\ p.value = sid
      BY DEF ToSteam64
    <2> HIDE DEF p
    <2>3. FromString(p) = FromSteam64(p)
      <3>1. p.notation # "Steam3" /\ p.notation # "Steam2"
        BY <2>2
      <3> QED BY <2>2, <3>1, Zenon DEF FromString
    <2>4. sid \in O .. 6 * O - 1
      <3>1. PICK lo \in 0 .. O - 1: sid = lo + O * u
        BY <1>1, <1>6, UniverseOnTop
      <3>2. O \in Nat \ {0}
        BY Places
      <3> HIDE DEF O
      <3>3. u \in {1, 2, 3, 4, 5}
        BY <1>3, <1>6
      <3> QED BY <3>1, <3>2, <3>3
    <2>5. sid \in Steam64Pattern
      BY <2>4, PatternAssumption
    <2> QED BY <2>1, <2>2, <2>3, <2>5 DEF UnmarshalString, FromSteam64
  <1>7. ASSUME sid >= Base PROVE UnmarshalNumber(sid) = sid
    <2>1. CASE sid > Base
      BY <2>1 DEF UnmarshalNumber
    <2>2. CASE sid = Base
      <3>1. Base % A = 0
        <4>1. AccountID(Base) = (Base \div 1) % A
          BY <1>2 DEF AccountID, getBits
        <4>2. Base \div 1 = Base
          BY <1>n
        <4> QED BY <1>n, <4>1, <4>2
      <3>2. ~(sid > Base)
        BY <1>n, <2>2
      <3>3. UnmarshalNumber(sid) = NewSteamID(sid % A, 1, 1, 1)
        BY <1>c, <3>2 DEF UnmarshalNumber, AccountNumber
      <3>4. Base = NewSteamID(0, 1, 1, 1)
        BY <1>c DEF Base
      <3> QED BY <2>2, <3>1, <3>3, <3>4
    <2>3. sid > Base \/ sid = Base
      BY <1>4, <1>7, <1>n
    <2> QED BY <2>1, <2>2, <2>3
  <1>8. ASSUME sid < A
        PROVE  AccountID(UnmarshalNumber(sid)) = sid /\ AccountType(UnmarshalNumber(sid)) = 1
    <2>1. ~(sid > Base)
      <3> DEFINE h == 1 + Pow2[accountInstanceBits]
                         * (1 + Pow2[accountTypeBits] * (1 + Pow2[accountUniverseBits] * 0))
      <3>1. Base = 0 + A * h
        BY <1>n DEF Parts
      <3>2. h \in Nat /\ h >= 1
        BY <1>2
      <3> HIDE DEF h, A
      <3>3. A * h >= A
        BY <1>2, <3>2
      <3> QED BY <1>2, <1>4, <1>8, <3>1, <3>2, <3>3
    <2>2. UnmarshalNumber(sid) = NewSteamID(sid % A, 1, 1, 1)
      BY <1>c, <2>1 DEF UnmarshalNumber, AccountNumber
    <2>3. sid % A = sid /\ sid \in Field(accountIDBits)
      BY <1>2, <1>4, <1>8 DEF Field
    <2>4. /\ UnmarshalNumber(sid) = Parts(sid, 1, 1, 1, 0)
          /\ 1 \in Field(accountInstanceBits) /\ 1 \in Field(accountTypeBits)
          /\ 1 \in Field(accountUniverseBits) /\ 0 \in Field(spareBits)
      BY <2>2, <2>3, DesktopAccount
    <2>5. PartsLaws(sid, 1, 1, 1, 0, 0)
      BY <2>3, <2>4, FieldsOf
    <2> QED BY <2>4, <2>5, Zenon DEF PartsLaws
  <1>9. IsValid(sid) => u # 0
    BY <1>4, <1>c DEF IsValid
  <1> QED BY <1>4, <1>5, <1>6, <1>7, <1>8, <1>9, <1>c DEF SurvivesJSON

\* Every SteamID, whatever the widths of its fields: a field is set without disturbing
\* the others, clans and chats are converted into one another, no notation turns an
\* account into another, and JSON gives back public desktop accounts, valid SteamIDs of
\* other types, and numbers on either side of the least SteamID (SurvivesJSON).
THEOREM SteamIDsSound ==
    ASSUME NEW sid \in SteamIDs
    PROVE  SetsOneField(sid) /\ ClanAndChat(sid) /\ AccountKept(sid) /\ SurvivesJSON(sid)
  BY OneFieldSet, ClansAndChats, AccountRead, JSONRead

-----------------------------------------------------------------------------
(* The headers of messages.                                                *)

\* A part of a sequence: where it is, and how long.
LEMMA Part ==
    ASSUME NEW S, NEW s \in Seq(S), NEW a \in Nat, NEW z \in Nat,
           1 <= a, a <= z + 1, z <= Len(s)
    PROVE  /\ SubSeq(s, a, z) \in Seq(S) /\ Len(SubSeq(s, a, z)) = z - a + 1
           /\ \A i \in 1 .. z - a + 1: SubSeq(s, a, z)[i] = s[a + i - 1]
  <1>0. a \in Int /\ z \in Int /\ Len(s) \in Nat
    OBVIOUS
  <1>1. \A i \in a .. z: s[i] \in S
    <2> SUFFICES ASSUME NEW i \in a .. z PROVE s[i] \in S
      OBVIOUS
    <2>1. i \in 1 .. Len(s)
      BY <1>0
    <2> QED BY <2>1, ElementOfSeq
  <1>2. /\ SubSeq(s, a, z) \in Seq(S)
        /\ Len(SubSeq(s, a, z)) = IF a <= z THEN z - a + 1 ELSE 0
        /\ \A i \in 1 .. z - a + 1: SubSeq(s, a, z)[i] = s[a + i - 1]
    BY <1>0, <1>1, SubSeqProperties
  <1>3. Len(SubSeq(s, a, z)) = z - a + 1
    BY <1>2
  <1> QED BY <1>2, <1>3

\* What a reader has left when n bytes are read.
LEMMA Dropped ==
    ASSUME NEW S, NEW s \in Seq(S), NEW n \in Nat, n <= Len(s)
    PROVE  /\ Drop(s, n) \in Seq(S) /\ Len(Drop(s, n)) = Len(s) - n
           /\ \A i \in 1 .. Len(s) - n: Drop(s, n)[i] = s[i + n]
  <1> DEFINE z == Len(s)
             a == n + 1
  <1>1. z \in Nat /\ a \in Nat /\ 1 <= a /\ a <= z + 1 /\ z <= Len(s)
    OBVIOUS
  <1> HIDE DEF a
  <1>2. /\ SubSeq(s, a, z) \in Seq(S) /\ Len(SubSeq(s, a, z)) = z - a + 1
        /\ \A i \in 1 .. z - a + 1: SubSeq(s, a, z)[i] = s[a + i - 1]
    BY <1>1, Part
  <1> HIDE DEF z
  <1>3. z - a + 1 = z - n
    BY <1>1 DEF a
  <1>4. \A i \in 1 .. z - n: a + i - 1 = i + n
    BY <1>1 DEF a
  <1>5. /\ SubSeq(s, a, z) \in Seq(S) /\ Len(SubSeq(s, a, z)) = z - n
        /\ \A i \in 1 .. z - n: SubSeq(s, a, z)[i] = s[i + n]
    BY <1>2, <1>3, <1>4
  <1> QED BY <1>5 DEF Drop, a, z

\* The fields of the headers and their bytes, each marked with its place in its field.
Fields == {"emsg", "length", "proto", "size", "version", "TargetJobID", "SourceJobID",
           "canary", "SteamID", "SessionID", "body"}
WireBytes == Fields \X Nat

\* The bytes of a field.
LEMMA FieldBytes ==
    ASSUME NEW field \in Fields, NEW w \in Nat
    PROVE  /\ Bytes(field, w) \in Seq(WireBytes) /\ Len(Bytes(field, w)) = w
           /\ \A i \in 1 .. w: Bytes(field, w)[i] = <<field, i>>
  <1>1. Bytes(field, w) \in [1 .. w -> WireBytes]
    <2>1. \A i \in 1 .. w: <<field, i>> \in WireBytes
      BY DEF WireBytes
    <2> HIDE DEF WireBytes
    <2> QED BY <2>1 DEF Bytes
  <1>2. \A i \in 1 .. w: Bytes(field, w)[i] = <<field, i>>
    BY DEF Bytes
  <1> HIDE DEF Bytes, WireBytes
  <1>3. Bytes(field, w) \in Seq(WireBytes) /\ Len(Bytes(field, w)) = w
    BY <1>1, FunctionIsSeq
  <1> QED BY <1>2, <1>3

\* A field written behind others: the others stay in their places.
LEMMA FieldAdded ==
    ASSUME NEW s \in Seq(WireBytes), NEW field \in Fields, NEW w \in Nat
    PROVE  /\ s \o Bytes(field, w) \in Seq(WireBytes)
           /\ Len(s) \in Nat /\ Len(s \o Bytes(field, w)) = Len(s) + w
           /\ \A i \in 1 .. Len(s): (s \o Bytes(field, w))[i] = s[i]
           /\ \A i \in 1 .. w: (s \o Bytes(field, w))[Len(s) + i] = <<field, i>>
  <1> DEFINE b == Bytes(field, w)
             n == Len(s)
  <1>1. b \in Seq(WireBytes) /\ Len(b) = w /\ \A i \in 1 .. w: b[i] = <<field, i>>
    BY FieldBytes
  <1> HIDE DEF b, WireBytes
  <1>2. n \in Nat
    OBVIOUS
  <1>3. /\ s \o b \in Seq(WireBytes) /\ Len(s \o b) = n + w
        /\ \A i \in 1 .. n + w: (s \o b)[i] = IF i <= n THEN s[i] ELSE b[i - n]
    BY <1>1, ConcatProperties
  <1> HIDE DEF n
  <1>4. \A i \in 1 .. n: (s \o b)[i] = s[i]
    BY <1>2, <1>3
  <1>5. \A i \in 1 .. w: (s \o b)[n + i] = <<field, i>>
    <2> SUFFICES ASSUME NEW i \in 1 .. w PROVE (s \o b)[n + i] = <<field, i>>
      OBVIOUS
    <2>1. n + i \in 1 .. n + w /\ ~(n + i <= n) /\ (n + i) - n = i
      BY <1>2
    <2> QED BY <1>1, <1>3, <2>1
  <1> QED BY <1>2, <1>3, <1>4, <1>5 DEF b, n

\* Messages with a header and a body of any size.
AllMessages ==
    [emsg: EMsgs, hasProto: BOOLEAN, proto: Nat, missing: Nat, body: Nat]

\* The three headers, which EncryptRequest and EncryptResponse, messages with a
\* protobuf header and all others have.
LEMMA StandardWritten ==
    /\ StandardHeader \in Seq(WireBytes) /\ Len(StandardHeader) = 20
    /\ \A i \in 1 .. 8: StandardHeader[4 + i] = <<"TargetJobID", i>>
    /\ \A i \in 1 .. 8: StandardHeader[12 + i] = <<"SourceJobID", i>>
  <1> DEFINE a == Bytes("emsg", 4)
             b == a \o Bytes("TargetJobID", 8)
             c == b \o Bytes("SourceJobID", 8)
  <1>1. a \in Seq(WireBytes) /\ Len(a) = 4
    <2>1. "emsg" \in Fields /\ 4 \in Nat
      BY DEF Fields
    <2> QED BY <2>1, FieldBytes, Zenon
  <1> HIDE DEF a
  <1>2. /\ b \in Seq(WireBytes) /\ Len(b) = Len(a) + 8
        /\ \A i \in 1 .. 8: b[Len(a) + i] = <<"TargetJobID", i>>
    <2>1. "TargetJobID" \in Fields /\ 8 \in Nat
      BY DEF Fields
    <2> QED BY <1>1, <2>1, FieldAdded, Zenon
  <1> HIDE DEF b
  <1>3. /\ c \in Seq(WireBytes) /\ Len(c) = Len(b) + 8
        /\ \A i \in 1 .. Len(b): c[i] = b[i]
        /\ \A i \in 1 .. 8: c[Len(b) + i] = <<"SourceJobID", i>>
    <2>1. "SourceJobID" \in Fields /\ 8 \in Nat
      BY DEF Fields
    <2> QED BY <1>2, <2>1, FieldAdded, ZenonT(40)
  <1>4. StandardHeader = c
    BY DEF StandardHeader, a, b
  <1> HIDE DEF c
  <1>5. \A i \in 1 .. 8: c[4 + i] = <<"TargetJobID", i>>
    <2> SUFFICES ASSUME NEW i \in 1 .. 8 PROVE c[4 + i] = <<"TargetJobID", i>>
      OBVIOUS
    <2>1. 4 + i \in 1 .. Len(b) /\ Len(a) + i = 4 + i
      BY <1>1, <1>2
    <2>2. c[4 + i] = b[4 + i] /\ b[Len(a) + i] = <<"TargetJobID", i>>
      BY <1>2, <1>3, <2>1
    <2> QED BY <2>1, <2>2
  <1> QED BY <1>1, <1>2, <1>3, <1>4, <1>5, SMTT(40)

\* A header of k protobuf bytes.
ProtobufHeader(k) == Bytes("emsg", 4) \o Bytes("length", 4) \o Bytes("proto", k)

\* What Write writes for a protobuf header.
LEMMA ProtobufWritten ==
    ASSUME NEW k \in Nat
    PROVE  /\ ProtobufHeader(k) \in Seq(WireBytes) /\ Len(ProtobufHeader(k)) = 8 + k
           /\ \A i \in 1 .. k: ProtobufHeader(k)[8 + i] = <<"proto", i>>
  <1> DEFINE a == Bytes("emsg", 4)
             b == a \o Bytes("length", 4)
             c == b \o Bytes("proto", k)
  <1>0. ProtobufHeader(k) = c
    BY DEF ProtobufHeader
  <1>1. a \in Seq(WireBytes) /\ Len(a) = 4
    <2>1. "emsg" \in Fields /\ 4 \in Nat
      BY DEF Fields
    <2> QED BY <2>1, FieldBytes, Zenon
  <1> HIDE DEF a
  <1>2. b \in Seq(WireBytes) /\ Len(b) = Len(a) + 4
    <2>1. "length" \in Fields /\ 4 \in Nat
      BY DEF Fields
    <2> QED BY <1>1, <2>1, FieldAdded, Zenon
  <1> HIDE DEF b
  <1>3. /\ c \in Seq(WireBytes) /\ Len(c) = Len(b) + k
        /\ \A i \in 1 .. k: c[Len(b) + i] = <<"proto", i>>
    <2>1. "proto" \in Fields
      BY DEF Fields
    <2> QED BY <1>2, <2>1, FieldAdded, ZenonT(40)
  <1> HIDE DEF c
  <1>4. Len(b) = 8
    BY <1>1, <1>2
  <1> QED BY <1>0, <1>3, <1>4

\* The header of a message without protobuf.
ExtendedHeader ==
    Bytes("emsg", 4) \o ExtendedSize \o Bytes("version", 2)
      \o Bytes("TargetJobID", 8) \o Bytes("SourceJobID", 8) \o Bytes("canary", 1)
      \o Bytes("SteamID", 8) \o Bytes("SessionID", 4)

\* Where its size is, and how long it is.
LEMMA ExtendedWritten ==
    /\ ExtendedHeader \in Seq(WireBytes) /\ Len(ExtendedHeader) = 39
    /\ ExtendedHeader[5] = <<"size", 1>>
  <1> DEFINE a == Bytes("emsg", 4)
             b == a \o Bytes("size", 4)
             c == b \o Bytes("version", 2)
             d == c \o Bytes("TargetJobID", 8)
             e == d \o Bytes("SourceJobID", 8)
             f == e \o Bytes("canary", 1)
             g == f \o Bytes("SteamID", 8)
             h == g \o Bytes("SessionID", 4)
  <1>1. a \in Seq(WireBytes) /\ Len(a) = 4
    <2>1. "emsg" \in Fields /\ 4 \in Nat
      BY DEF Fields
    <2> QED BY <2>1, FieldBytes, Zenon
  <1> HIDE DEF a
  <1>2. b \in Seq(WireBytes) /\ Len(b) = 8 /\ b[5] = <<"size", 1>>
    <2>1. "size" \in Fields /\ 4 \in Nat
      BY DEF Fields
    <2>2. /\ b \in Seq(WireBytes) /\ Len(b) = Len(a) + 4
          /\ \A i \in 1 .. 4: b[Len(a) + i] = <<"size", i>>
      BY <1>1, <2>1, FieldAdded, Zenon
    <2> HIDE DEF b
    <2>3. b[Len(a) + 1] = <<"size", 1>>
      BY <2>2
    <2> QED BY <1>1, <2>2, <2>3
  <1> HIDE DEF b
  <1>3. c \in Seq(WireBytes) /\ Len(c) = 10 /\ c[5] = <<"size", 1>>
    <2>1. "version" \in Fields /\ 2 \in Nat
      BY DEF Fields
    <2>2. /\ c \in Seq(WireBytes) /\ Len(c) = Len(b) + 2
          /\ \A i \in 1 .. Len(b): c[i] = b[i]
      <3>1. b \in Seq(WireBytes)
        BY <1>2
      <3> QED BY <2>1, <3>1, FieldAdded, Zenon
    <2> HIDE DEF c
    <2> QED BY <1>2, <2>2
  <1> HIDE DEF c
  <1>4. d \in Seq(WireBytes) /\ Len(d) = 18 /\ d[5] = <<"size", 1>>
    <2>1. "TargetJobID" \in Fields /\ 8 \in Nat
      BY DEF Fields
    <2>2. /\ d \in Seq(WireBytes) /\ Len(d) = Len(c) + 8
          /\ \A i \in 1 .. Len(c): d[i] = c[i]
      <3>1. c \in Seq(WireBytes)
        BY <1>3
      <3> QED BY <2>1, <3>1, FieldAdded, Zenon
    <2> HIDE DEF d
    <2> QED BY <1>3, <2>2
  <1> HIDE DEF d
  <1>5. e \in Seq(WireBytes) /\ Len(e) = 26 /\ e[5] = <<"size", 1>>
    <2>1. "SourceJobID" \in Fields /\ 8 \in Nat
      BY DEF Fields
    <2>2. /\ e \in Seq(WireBytes) /\ Len(e) = Len(d) + 8
          /\ \A i \in 1 .. Len(d): e[i] = d[i]
      <3>1. d \in Seq(WireBytes)
        BY <1>4
      <3> QED BY <2>1, <3>1, FieldAdded, Zenon
    <2> HIDE DEF e
    <2> QED BY <1>4, <2>2
  <1> HIDE DEF e
  <1>6. f \in Seq(WireBytes) /\ Len(f) = 27 /\ f[5] = <<"size", 1>>
    <2>1. "canary" \in Fields /\ 1 \in Nat
      BY DEF Fields
    <2>2. /\ f \in Seq(WireBytes) /\ Len(f) = Len(e) + 1
          /\ \A i \in 1 .. Len(e): f[i] = e[i]
      <3>1. e \in Seq(WireBytes)
        BY <1>5
      <3> QED BY <2>1, <3>1, FieldAdded, Zenon
    <2> HIDE DEF f
    <2> QED BY <1>5, <2>2
  <1> HIDE DEF f
  <1>7. g \in Seq(WireBytes) /\ Len(g) = 35 /\ g[5] = <<"size", 1>>
    <2>1. "SteamID" \in Fields /\ 8 \in Nat
      BY DEF Fields
    <2>2. /\ g \in Seq(WireBytes) /\ Len(g) = Len(f) + 8
          /\ \A i \in 1 .. Len(f): g[i] = f[i]
      <3>1. f \in Seq(WireBytes)
        BY <1>6
      <3> QED BY <2>1, <3>1, FieldAdded, Zenon
    <2> HIDE DEF g
    <2> QED BY <1>6, <2>2
  <1> HIDE DEF g
  <1>8. h \in Seq(WireBytes) /\ Len(h) = 39 /\ h[5] = <<"size", 1>>
    <2>1. "SessionID" \in Fields /\ 4 \in Nat
      BY DEF Fields
    <2>2. /\ h \in Seq(WireBytes) /\ Len(h) = Len(g) + 4
          /\ \A i \in 1 .. Len(g): h[i] = g[i]
      <3>1. g \in Seq(WireBytes)
        BY <1>7
      <3> QED BY <2>1, <3>1, FieldAdded, Zenon
    <2> HIDE DEF h
    <2> QED BY <1>7, <2>2
  <1>9. ExtendedHeader = h
    BY DEF ExtendedHeader, ExtendedSize, a, b, c, d, e, f, g
  <1> QED BY <1>8, <1>9

\* Dropping twice is dropping once.
LEMMA DroppedTwice ==
    ASSUME NEW S, NEW s \in Seq(S), NEW m \in Nat, NEW n \in Nat, m + n <= Len(s)
    PROVE  Drop(Drop(s, m), n) = Drop(s, m + n)
  <1> DEFINE d == Drop(s, m)
             e == Drop(d, n)
             f == Drop(s, m + n)
  <1>0. Len(s) \in Nat /\ m + n \in Nat /\ m <= Len(s)
    OBVIOUS
  <1>1. /\ d \in Seq(S) /\ Len(d) = Len(s) - m
        /\ \A i \in 1 .. Len(s) - m: d[i] = s[i + m]
    BY <1>0, Dropped
  <1> HIDE DEF d
  <1>2. n <= Len(d)
    BY <1>0, <1>1
  <1>3. /\ e \in Seq(S) /\ Len(e) = Len(d) - n
        /\ \A i \in 1 .. Len(d) - n: e[i] = d[i + n]
    BY <1>1, <1>2, Dropped
  <1>4. /\ f \in Seq(S) /\ Len(f) = Len(s) - (m + n)
        /\ \A i \in 1 .. Len(s) - (m + n): f[i] = s[i + (m + n)]
    <2> DEFINE k == m + n
    <2>1. k \in Nat /\ k <= Len(s)
      BY <1>0
    <2> HIDE DEF k
    <2>2. /\ Drop(s, k) \in Seq(S) /\ Len(Drop(s, k)) = Len(s) - k
          /\ \A i \in 1 .. Len(s) - k: Drop(s, k)[i] = s[i + k]
      BY <2>1, Dropped
    <2> QED BY <2>2 DEF k
  <1> HIDE DEF e, f
  <1>5. Len(e) = Len(f)
    BY <1>0, <1>1, <1>3, <1>4
  <1>6. \A i \in 1 .. Len(e): e[i] = f[i]
    <2> SUFFICES ASSUME NEW i \in 1 .. Len(e) PROVE e[i] = f[i]
      OBVIOUS
    <2>1. /\ i \in 1 .. Len(d) - n /\ i + n \in 1 .. Len(s) - m
          /\ i \in 1 .. Len(s) - (m + n) /\ (i + n) + m = i + (m + n)
      BY <1>0, <1>1, <1>3
    <2> QED BY <1>1, <1>3, <1>4, <2>1
  <1>7. e = f
    BY <1>3, <1>4, <1>5, <1>6, SeqEqual
  <1> QED BY <1>7 DEF d, e, f

\* A field is read where it was written.
LEMMA FieldRead ==
    ASSUME NEW s \in Seq(WireBytes), NEW field \in Fields, NEW w \in Nat,
           NEW a \in Nat, 1 <= a, a + w - 1 <= Len(s),
           \A i \in 1 .. w: s[a + i - 1] = <<field, i>>
    PROVE  SubSeq(s, a, a + w - 1) = Bytes(field, w)
  <1> HIDE DEF WireBytes
  <1> DEFINE z == a + w - 1
  <1>1. z - a + 1 = w /\ a <= z + 1 /\ z \in Nat /\ z <= Len(s)
    OBVIOUS
  <1> HIDE DEF z
  <1>2. /\ SubSeq(s, a, z) \in Seq(WireBytes) /\ Len(SubSeq(s, a, z)) = z - a + 1
        /\ \A i \in 1 .. z - a + 1: SubSeq(s, a, z)[i] = s[a + i - 1]
    BY <1>1, Part
  <1>3. /\ Bytes(field, w) \in Seq(WireBytes) /\ Len(Bytes(field, w)) = w
        /\ \A i \in 1 .. w: Bytes(field, w)[i] = <<field, i>>
    BY FieldBytes
  <1>4. \A i \in 1 .. w: SubSeq(s, a, z)[i] = Bytes(field, w)[i]
    BY <1>1, <1>2, <1>3
  <1>5. SubSeq(s, a, z) = Bytes(field, w)
    BY <1>1, <1>2, <1>3, <1>4, SeqEqual
  <1> QED BY <1>5 DEF z

\* The first cut bytes of a message with header h and a body of n bytes.
Cut(h, n, cut) == SubSeq(h \o Bytes("body", n), 1, cut)

\* What is there of a message with header h and a body of n bytes when it is cut:
\* so much of the header, and behind it so much of the body.
LEMMA CutMessage ==
    ASSUME NEW h \in Seq(WireBytes), NEW n \in Nat, NEW cut \in Nat,
           cut <= Len(h) + n
    PROVE  /\ Cut(h, n, cut) \in Seq(WireBytes) /\ Len(Cut(h, n, cut)) = cut
           /\ \A i \in 1 .. cut: i <= Len(h) => Cut(h, n, cut)[i] = h[i]
           /\ Len(h) <= cut =>
                 Drop(Cut(h, n, cut), Len(h)) = SubSeq(Bytes("body", n), 1, cut - Len(h))
  <1> DEFINE p == Cut(h, n, cut)
             b == Bytes("body", n)
             w == h \o b
             k == Len(h)
  <1>0. "body" \in Fields
    BY DEF Fields
  <1>1. /\ w \in Seq(WireBytes) /\ Len(h) \in Nat /\ Len(w) = Len(h) + n
        /\ \A i \in 1 .. Len(h): w[i] = h[i]
        /\ \A i \in 1 .. n: w[Len(h) + i] = <<"body", i>>
    BY <1>0, FieldAdded, Zenon
  <1>2. /\ b \in Seq(WireBytes) /\ Len(b) = n /\ \A i \in 1 .. n: b[i] = <<"body", i>>
    BY <1>0, FieldBytes, Zenon
  <1>3. p = SubSeq(w, 1, cut)
    BY DEF Cut
  <1> HIDE DEF b, w, p, WireBytes
  <1>4. /\ p \in Seq(WireBytes) /\ Len(p) = cut
        /\ \A i \in 1 .. cut: p[i] = w[i]
    <2>1. /\ SubSeq(w, 1, cut) \in Seq(WireBytes) /\ Len(SubSeq(w, 1, cut)) = cut - 1 + 1
          /\ \A i \in 1 .. cut - 1 + 1: SubSeq(w, 1, cut)[i] = w[1 + i - 1]
      <3>1. 1 \in Nat /\ 1 <= 1 /\ 1 <= cut + 1 /\ cut <= Len(w)
        BY <1>1
      <3> QED BY <1>1, <3>1, Part
    <2>2. cut - 1 + 1 = cut /\ \A i \in 1 .. cut: 1 + i - 1 = i
      OBVIOUS
    <2> QED BY <1>3, <2>1, <2>2
  <1>5. \A i \in 1 .. cut: i <= Len(h) => p[i] = h[i]
    BY <1>1, <1>4
  <1>6. ASSUME k <= cut PROVE Drop(p, k) = SubSeq(b, 1, cut - k)
    <2> DEFINE m == cut - k
    <2>0. k \in Nat /\ m \in Nat /\ m <= n /\ cut = k + m
      BY <1>1, <1>6
    <2>1. /\ Drop(p, k) \in Seq(WireBytes) /\ Len(Drop(p, k)) = m
          /\ \A i \in 1 .. m: Drop(p, k)[i] = p[i + k]
      <3> HIDE DEF k, m
      <3>1. k <= Len(p) /\ Len(p) - k = m
        BY <1>4, <2>0
      <3>2. /\ Drop(p, k) \in Seq(WireBytes) /\ Len(Drop(p, k)) = Len(p) - k
            /\ \A i \in 1 .. Len(p) - k: Drop(p, k)[i] = p[i + k]
        <4>1. p \in Seq(WireBytes) /\ k \in Nat /\ k <= Len(p)
          BY <1>4, <2>0, <3>1
        <4> QED BY <4>1, Dropped, Zenon
      <3> QED BY <3>1, <3>2
    <2> HIDE DEF m, k
    <2>2. /\ SubSeq(b, 1, m) \in Seq(WireBytes) /\ Len(SubSeq(b, 1, m)) = m - 1 + 1
          /\ \A i \in 1 .. m - 1 + 1: SubSeq(b, 1, m)[i] = b[1 + i - 1]
      <3>1. 1 \in Nat /\ 1 <= 1 /\ 1 <= m + 1 /\ m <= Len(b)
        BY <1>2, <2>0
      <3> QED BY <1>2, <2>0, <3>1, Part
    <2>3. \A i \in 1 .. m: Drop(p, k)[i] = SubSeq(b, 1, m)[i]
      <3> SUFFICES ASSUME NEW i \in 1 .. m PROVE Drop(p, k)[i] = SubSeq(b, 1, m)[i]
        OBVIOUS
      <3>1. /\ i + k \in 1 .. cut /\ i \in 1 .. n /\ i \in 1 .. m - 1 + 1
            /\ 1 + i - 1 = i /\ i + k = k + i
        BY <2>0
      <3>2. Drop(p, k)[i] = w[k + i]
        BY <1>4, <2>1, <3>1
      <3>3. w[k + i] = <<"body", i>>
        BY <1>1, <3>1 DEF k
      <3>4. SubSeq(b, 1, m)[i] = <<"body", i>>
        BY <1>2, <2>2, <3>1
      <3> QED BY <3>2, <3>3, <3>4
    <2>4. Len(SubSeq(b, 1, m)) = m
      BY <2>0, <2>2
    <2>5. Drop(p, k) = SubSeq(b, 1, m)
      BY <2>1, <2>2, <2>3, <2>4, SeqEqual
    <2> QED BY <2>5 DEF m
  <1> QED BY <1>4, <1>5, <1>6 DEF b, k, p

\* The EMsg and the flag are read first.
LEMMA EMsgDropped ==
    ASSUME NEW p \in Seq(WireBytes), NEW cut \in Nat, Len(p) = cut, cut >= 4
    PROVE  /\ Drop(p, 4) \in Seq(WireBytes) /\ Len(Drop(p, 4)) = cut - 4
           /\ \A i \in 1 .. cut - 4: Drop(p, 4)[i] = p[i + 4]
  <1>1. 4 \in Nat /\ 4 <= Len(p)
    OBVIOUS
  <1>2. /\ Drop(p, 4) \in Seq(WireBytes) /\ Len(Drop(p, 4)) = Len(p) - 4
        /\ \A i \in 1 .. Len(p) - 4: Drop(p, 4)[i] = p[i + 4]
    BY <1>1, Dropped, Zenon
  <1> QED BY <1>2

\* What readMessage gives for such a message, for each of the three headers.
ProtobufResult(k, n, cut) ==
    LET p == Cut(ProtobufHeader(k), n, cut)
    IN  IF Len(p) < 4 THEN << >> ELSE readProtobufHeader(Drop(p, 4), k)
StandardResult(n, cut) ==
    LET p == Cut(StandardHeader, n, cut)
    IN  IF Len(p) < 4 THEN << >> ELSE readStandardHeader(Drop(p, 4))
ExtendedResult(n, cut) ==
    LET p == Cut(ExtendedHeader, n, cut)
    IN  IF Len(p) < 4 THEN << >> ELSE readExtendedHeader(Drop(p, 4))

\* Reading a protobuf header back.
LEMMA ProtobufRead ==
    ASSUME NEW k \in Nat, NEW n \in Nat, NEW cut \in Nat, cut <= 8 + k + n
    PROVE  /\ cut < 8 + k => ProtobufResult(k, n, cut) = << >>
           /\ cut >= 8 + k /\ cut > 8 =>
                 ProtobufResult(k, n, cut)
                   = <<Bytes("proto", k), << >>, SubSeq(Bytes("body", n), 1, cut - (8 + k))>>
  <1> HIDE DEF WireBytes
  <1> DEFINE h == ProtobufHeader(k)
             r == ProtobufResult(k, n, cut)
             p == Cut(h, n, cut)
  <1>0. r = IF Len(p) < 4 THEN << >> ELSE readProtobufHeader(Drop(p, 4), k)
    BY DEF ProtobufResult
  <1> SUFFICES /\ cut < 8 + k => r = << >>
               /\ cut >= 8 + k /\ cut > 8 =>
                    r = <<Bytes("proto", k), << >>, SubSeq(Bytes("body", n), 1, cut - (8 + k))>>
    OBVIOUS
  <1> HIDE DEF r
  <1>1. /\ h \in Seq(WireBytes) /\ Len(h) = 8 + k
        /\ \A i \in 1 .. k: h[8 + i] = <<"proto", i>>
    BY ProtobufWritten
  <1> HIDE DEF h
  <1>2. /\ p \in Seq(WireBytes) /\ Len(p) = cut
        /\ \A i \in 1 .. cut: i <= 8 + k => p[i] = h[i]
        /\ 8 + k <= cut => Drop(p, 8 + k) = SubSeq(Bytes("body", n), 1, cut - (8 + k))
    <2>1. h \in Seq(WireBytes) /\ cut <= Len(h) + n
      BY <1>1
    <2>2. /\ p \in Seq(WireBytes) /\ Len(p) = cut
          /\ \A i \in 1 .. cut: i <= Len(h) => p[i] = h[i]
          /\ Len(h) <= cut => Drop(p, Len(h)) = SubSeq(Bytes("body", n), 1, cut - Len(h))
      BY <2>1, CutMessage, Zenon
    <2> HIDE DEF p
    <2> QED BY <1>1, <2>2
  <1> HIDE DEF p
  <1>3. CASE cut < 4
    BY <1>0, <1>2, <1>3
  <1>4. CASE cut >= 4
    <2> DEFINE q == Drop(p, 4)
    <2>1. /\ q \in Seq(WireBytes) /\ Len(q) = cut - 4
          /\ \A i \in 1 .. cut - 4: q[i] = p[i + 4]
      BY <1>2, <1>4, EMsgDropped
    <2>2. r = readProtobufHeader(q, k)
      BY <1>0, <1>2, <1>4
    <2>3. ASSUME cut < 8 + k PROVE r = << >>
      <3>1. Len(q) < 4 + k
        BY <2>1, <2>3
      <3> HIDE DEF q
      <3> QED BY <2>2, <3>1 DEF readProtobufHeader
    <2>4. ASSUME cut >= 8 + k, cut > 8
          PROVE r = <<Bytes("proto", k), << >>, SubSeq(Bytes("body", n), 1, cut - (8 + k))>>
      <3>1. ~(Len(q) < 4 \/ Len(q) = 4 \/ Len(q) < 4 + k)
        <4> HIDE DEF q
        <4> QED BY <2>1, <2>4
      <3>2. Drop(q, 4 + k) = SubSeq(Bytes("body", n), 1, cut - (8 + k))
        <4>1. 4 \in Nat /\ 4 + k \in Nat /\ 4 + (4 + k) <= Len(p) /\ 4 + (4 + k) = 8 + k
          BY <1>2, <2>4
        <4>2. Drop(q, 4 + k) = Drop(p, 4 + (4 + k))
          <5>1. p \in Seq(WireBytes)
            BY <1>2
          <5> QED BY <4>1, <5>1, DroppedTwice, Zenon
        <4> QED BY <1>2, <2>4, <4>1, <4>2
      <3> HIDE DEF q
      <3>3. SubSeq(q, 5, 4 + k) = Bytes("proto", k)
        <4>1. /\ 5 \in Nat /\ 1 <= 5 /\ 5 + k - 1 <= Len(q) /\ 4 + k = 5 + k - 1
          BY <2>1, <2>4
        <4>2. ASSUME NEW i \in 1 .. k PROVE q[5 + i - 1] = <<"proto", i>>
          <5>1. /\ 5 + i - 1 \in 1 .. cut - 4 /\ (5 + i - 1) + 4 = 8 + i
                /\ 8 + i \in 1 .. cut /\ 8 + i <= 8 + k
            BY <2>4
          <5> QED BY <1>1, <1>2, <2>1, <5>1
        <4>3. "proto" \in Fields
          BY DEF Fields
        <4>4. q \in Seq(WireBytes)
          BY <2>1
        <4>5. SubSeq(q, 5, 5 + k - 1) = Bytes("proto", k)
          BY <4>1, <4>2, <4>3, <4>4, FieldRead, Zenon
        <4> QED BY <4>1, <4>5
      <3>4. r = <<SubSeq(q, 5, 4 + k), << >>, Drop(q, 4 + k)>>
        BY <2>2, <3>1 DEF readProtobufHeader
      <3> QED BY <3>2, <3>3, <3>4
    <2> QED BY <2>3, <2>4
  <1> QED BY <1>3, <1>4

\* Reading a standard header back: both job IDs, and the body.
LEMMA StandardRead ==
    ASSUME NEW n \in Nat, NEW cut \in Nat, cut <= 20 + n
    PROVE  /\ cut < 20 => StandardResult(n, cut) = << >>
           /\ cut >= 20 =>
                 StandardResult(n, cut) = <<Bytes("TargetJobID", 8), Bytes("SourceJobID", 8),
                       SubSeq(Bytes("body", n), 1, cut - 20)>>
  <1> HIDE DEF WireBytes
  <1> DEFINE h == StandardHeader
             r == StandardResult(n, cut)
             p == Cut(h, n, cut)
  <1>0. r = IF Len(p) < 4 THEN << >> ELSE readStandardHeader(Drop(p, 4))
    BY DEF StandardResult
  <1> SUFFICES /\ cut < 20 => r = << >>
               /\ cut >= 20 => r = <<Bytes("TargetJobID", 8), Bytes("SourceJobID", 8),
                                    SubSeq(Bytes("body", n), 1, cut - 20)>>
    OBVIOUS
  <1> HIDE DEF r
  <1>1. /\ h \in Seq(WireBytes) /\ Len(h) = 20
        /\ \A i \in 1 .. 8: h[4 + i] = <<"TargetJobID", i>>
        /\ \A i \in 1 .. 8: h[12 + i] = <<"SourceJobID", i>>
    BY StandardWritten
  <1> HIDE DEF h
  <1>2. /\ p \in Seq(WireBytes) /\ Len(p) = cut
        /\ \A i \in 1 .. cut: i <= 20 => p[i] = h[i]
        /\ 20 <= cut => Drop(p, 20) = SubSeq(Bytes("body", n), 1, cut - 20)
    <2>1. h \in Seq(WireBytes) /\ cut <= Len(h) + n
      BY <1>1
    <2>2. /\ p \in Seq(WireBytes) /\ Len(p) = cut
          /\ \A i \in 1 .. cut: i <= Len(h) => p[i] = h[i]
          /\ Len(h) <= cut => Drop(p, Len(h)) = SubSeq(Bytes("body", n), 1, cut - Len(h))
      BY <2>1, CutMessage, Zenon
    <2> HIDE DEF p
    <2> QED BY <1>1, <2>2
  <1> HIDE DEF p
  <1>3. CASE cut < 4
    BY <1>0, <1>2, <1>3
  <1>4. CASE cut >= 4
    <2> DEFINE q == Drop(p, 4)
    <2>1. /\ q \in Seq(WireBytes) /\ Len(q) = cut - 4
          /\ \A i \in 1 .. cut - 4: q[i] = p[i + 4]
      BY <1>2, <1>4, EMsgDropped
    <2>2. r = readStandardHeader(q)
      BY <1>0, <1>2, <1>4
    <2>3. ASSUME cut < 20 PROVE r = << >>
      <3>1. Len(q) < 16
        BY <2>1, <2>3
      <3> HIDE DEF q
      <3> QED BY <2>2, <3>1 DEF readStandardHeader
    <2>4. ASSUME cut >= 20
          PROVE r = <<Bytes("TargetJobID", 8), Bytes("SourceJobID", 8),
                      SubSeq(Bytes("body", n), 1, cut - 20)>>
      <3>1. ~(Len(q) < 16)
        BY <2>1, <2>4
      <3>2. Drop(q, 16) = SubSeq(Bytes("body", n), 1, cut - 20)
        <4>1. 4 \in Nat /\ 16 \in Nat /\ 4 + 16 <= Len(p) /\ 4 + 16 = 20
          BY <1>2, <2>4
        <4>2. Drop(q, 16) = Drop(p, 4 + 16)
          <5>1. p \in Seq(WireBytes)
            BY <1>2
          <5> QED BY <4>1, <5>1, DroppedTwice, Zenon
        <4> QED BY <1>2, <2>4, <4>1, <4>2
      <3> HIDE DEF q
      <3>3. \A i \in 1 .. 16: q[i] = h[4 + i]
        <4> SUFFICES ASSUME NEW i \in 1 .. 16 PROVE q[i] = h[4 + i]
          OBVIOUS
        <4>1. i \in 1 .. cut - 4 /\ i + 4 \in 1 .. cut /\ i + 4 <= 20 /\ i + 4 = 4 + i
          BY <2>4
        <4> QED BY <1>2, <2>1, <4>1
      <3>4. SubSeq(q, 1, 8) = Bytes("TargetJobID", 8)
        <4>1. 1 \in Nat /\ 8 \in Nat /\ 1 <= 1 /\ 1 + 8 - 1 <= Len(q) /\ 8 = 1 + 8 - 1
          BY <2>1, <2>4
        <4>2. ASSUME NEW i \in 1 .. 8 PROVE q[1 + i - 1] = <<"TargetJobID", i>>
          <5>1. 1 + i - 1 = i /\ i \in 1 .. 16
            OBVIOUS
          <5> QED BY <1>1, <3>3, <5>1
        <4>3. "TargetJobID" \in Fields
          BY DEF Fields
        <4>4. q \in Seq(WireBytes)
          BY <2>1
        <4>5. SubSeq(q, 1, 1 + 8 - 1) = Bytes("TargetJobID", 8)
          BY <4>1, <4>2, <4>3, <4>4, FieldRead, Zenon
        <4> QED BY <4>1, <4>5
      <3>5. SubSeq(q, 9, 16) = Bytes("SourceJobID", 8)
        <4>1. 9 \in Nat /\ 8 \in Nat /\ 1 <= 9 /\ 9 + 8 - 1 <= Len(q) /\ 16 = 9 + 8 - 1
          BY <2>1, <2>4
        <4>2. ASSUME NEW i \in 1 .. 8 PROVE q[9 + i - 1] = <<"SourceJobID", i>>
          <5>1. 9 + i - 1 \in 1 .. 16 /\ 4 + (9 + i - 1) = 12 + i
            OBVIOUS
          <5> QED BY <1>1, <3>3, <5>1
        <4>3. "SourceJobID" \in Fields
          BY DEF Fields
        <4>4. q \in Seq(WireBytes)
          BY <2>1
        <4>5. SubSeq(q, 9, 9 + 8 - 1) = Bytes("SourceJobID", 8)
          BY <4>1, <4>2, <4>3, <4>4, FieldRead, Zenon
        <4> QED BY <4>1, <4>5
      <3>6. r = <<SubSeq(q, 1, 8), SubSeq(q, 9, 16), Drop(q, 16)>>
        BY <2>2, <3>1 DEF readStandardHeader
      <3> QED BY <3>2, <3>4, <3>5, <3>6
    <2> QED BY <2>3, <2>4
  <1> QED BY <1>3, <1>4

\* The reader takes one byte for the size where four were written, and finds
\* the body all the same.
LEMMA ExtendedRead ==
    ASSUME NEW n \in Nat, NEW cut \in Nat, cut <= 39 + n
    PROVE  /\ cut < 39 => ExtendedResult(n, cut) = << >>
           /\ cut >= 39 => \E a, b:
                 ExtendedResult(n, cut) = <<a, b, SubSeq(Bytes("body", n), 1, cut - 39)>>
  <1> HIDE DEF WireBytes
  <1> DEFINE h == ExtendedHeader
             r == ExtendedResult(n, cut)
             p == Cut(h, n, cut)
  <1>0. r = IF Len(p) < 4 THEN << >> ELSE readExtendedHeader(Drop(p, 4))
    BY DEF ExtendedResult
  <1> SUFFICES /\ cut < 39 => r = << >>
               /\ cut >= 39 => \E a, b: r = <<a, b, SubSeq(Bytes("body", n), 1, cut - 39)>>
    OBVIOUS
  <1> HIDE DEF r
  <1>1. h \in Seq(WireBytes) /\ Len(h) = 39 /\ h[5] = <<"size", 1>>
    BY ExtendedWritten
  <1> HIDE DEF h
  <1>2. /\ p \in Seq(WireBytes) /\ Len(p) = cut
        /\ \A i \in 1 .. cut: i <= 39 => p[i] = h[i]
        /\ 39 <= cut => Drop(p, 39) = SubSeq(Bytes("body", n), 1, cut - 39)
    <2>1. h \in Seq(WireBytes) /\ cut <= Len(h) + n
      BY <1>1
    <2>2. /\ p \in Seq(WireBytes) /\ Len(p) = cut
          /\ \A i \in 1 .. cut: i <= Len(h) => p[i] = h[i]
          /\ Len(h) <= cut => Drop(p, Len(h)) = SubSeq(Bytes("body", n), 1, cut - Len(h))
      BY <2>1, CutMessage, Zenon
    <2> HIDE DEF p
    <2> QED BY <1>1, <2>2
  <1> HIDE DEF p
  <1>3. CASE cut < 4
    BY <1>0, <1>2, <1>3
  <1>4. CASE cut >= 4
    <2> DEFINE q == Drop(p, 4)
    <2>1. /\ q \in Seq(WireBytes) /\ Len(q) = cut - 4
          /\ \A i \in 1 .. cut - 4: q[i] = p[i + 4]
      BY <1>2, <1>4, EMsgDropped
    <2>2. r = readExtendedHeader(q)
      BY <1>0, <1>2, <1>4
    <2>3. CASE cut < 7
      <3>1. Len(q) < 3
        BY <2>1, <2>3
      <3>2. r = << >>
        <4> HIDE DEF q
        <4> QED BY <2>2, <3>1 DEF readExtendedHeader
      <3> QED BY <2>3, <3>2
    <2>4. CASE cut >= 7
      <3>1. ~(Len(q) < 3) /\ 1 \in 1 .. cut - 4 /\ 5 \in 1 .. cut
        BY <2>1, <2>4
      <3>2. q[1] = <<"size", 1>>
        <4>1. q[1] = p[1 + 4] /\ 1 + 4 = 5
          BY <2>1, <3>1
        <4>2. p[5] = h[5]
          BY <1>2, <3>1
        <4> QED BY <1>1, <4>1, <4>2
      <3>s. 3 + 8 + 8 + 1 + 8 + 4 + 3 = 35 /\ SizeValue(q[1]) = 36
        BY <3>2 DEF SizeValue
      <3>d. 4 \in Nat /\ 35 \in Nat /\ 4 + 35 = 39
        OBVIOUS
      <3>3. ASSUME cut < 39 PROVE r = << >>
        <4>1. ~(Len(q) >= 35)
          BY <2>1, <3>3
        <4> HIDE DEF q
        <4>2. ~(SizeValue(q[1]) = 0) /\ ~(SizeValue(q[1]) = 20)
              /\ ~(Len(q) >= 3 + 8 + 8 + 1 + 8 + 4 + 3)
          BY <3>s, <4>1
        <4> QED BY <2>2, <3>1, <4>2, Zenon DEF readExtendedHeader
      <3>4. ASSUME cut >= 39 PROVE \E a, b: r = <<a, b, SubSeq(Bytes("body", n), 1, cut - 39)>>
        <4>1. Len(q) >= 35 /\ 4 + 35 <= Len(p)
          BY <1>2, <2>1, <3>4
        <4>2. Drop(q, 35) = SubSeq(Bytes("body", n), 1, cut - 39)
          <5>1. Drop(q, 35) = Drop(p, 4 + 35)
            <6>1. p \in Seq(WireBytes)
              BY <1>2
            <6> QED BY <3>d, <4>1, <6>1, DroppedTwice, ZenonT(40)
          <5> QED BY <1>2, <3>4, <3>d, <5>1
        <4> HIDE DEF q
        <4>3. /\ ~(SizeValue(q[1]) = 0) /\ ~(SizeValue(q[1]) = 20) /\ SizeValue(q[1]) = 36
              /\ Len(q) >= 3 + 8 + 8 + 1 + 8 + 4 + 3
          BY <3>s, <4>1
        <4>4. r = <<SubSeq(q, 4, 11), SubSeq(q, 12, 19), Drop(q, 3 + 8 + 8 + 1 + 8 + 4 + 3)>>
          BY <2>2, <3>1, <4>3, Zenon DEF readExtendedHeader
        <4>5. Drop(q, 3 + 8 + 8 + 1 + 8 + 4 + 3) = Drop(q, 35)
          BY <3>s
        <4> QED BY <4>2, <4>4, <4>5, Zenon
      <3> QED BY <3>3, <3>4
    <2> QED BY <2>3, <2>4
  <1> QED BY <1>3, <1>4

\* Every message, whatever its EMsg, the size of its header and its body, and
\* wherever it is cut, is read back as it was written or rejected
\* (Write and readMessage).
THEOREM HeadersReadBack ==
    ASSUME NEW m \in AllMessages, NEW cut \in 0 .. Len(Write(m))
    PROVE  ReadAsWritten(m, cut)
  <1> HIDE DEF WireBytes
  <1>1. SUFFICES ASSUME m.emsg # "EncryptResponse" PROVE ReadAsWritten(m, cut)
    BY DEF ReadAsWritten
  <1>2. /\ m.emsg \in {"EncryptRequest", "Hello", "Other"} /\ m.hasProto \in BOOLEAN
        /\ m.proto \in Nat /\ m.missing \in Nat /\ m.body \in Nat /\ cut \in Nat
    BY <1>1 DEF AllMessages, EMsgs
  <1> DEFINE n == m.body
             k == ProtoBytes(m)
             h == Header(m)
             p == SubSeq(Write(m), 1, cut)
             r == readMessage(m, p)
  <1>3. k \in Nat /\ n \in Nat
    BY <1>2 DEF ProtoBytes
  <1>4. Write(m) = h \o Bytes("body", n)
    BY DEF Write
  <1>c. ASSUME h \in Seq(WireBytes) PROVE Len(h) \in Nat /\ cut <= Len(h) + n
    <2>0. "body" \in Fields
      BY DEF Fields
    <2>1. Len(h) \in Nat /\ Len(h \o Bytes("body", n)) = Len(h) + n
      <3> HIDE DEF h, n
      <3> QED BY <1>3, <1>c, <2>0, FieldAdded, Zenon
    <2>2. cut <= Len(Write(m))
      OBVIOUS
    <2> HIDE DEF h, n
    <2> QED BY <1>3, <1>4, <2>1, <2>2
  <1>5. CASE Flagged(m)
    <2>1. h = ProtobufHeader(k)
      <3>1. /\ m.emsg \in {"Hello", "Other"} /\ m.hasProto
            /\ ~(m.emsg \in {"EncryptRequest", "EncryptResponse"})
        BY <1>5 DEF Flagged
      <3> QED BY <3>1, Zenon DEF Header, ProtobufHeader
    <2>2. h \in Seq(WireBytes) /\ Len(h) = 8 + k
      <3> HIDE DEF h, k
      <3> QED BY <1>3, <2>1, ProtobufWritten
    <2>3. r = IF Len(p) < 4 THEN << >> ELSE readProtobufHeader(Drop(p, 4), k)
      BY <1>5, Zenon DEF readMessage, readHeader
    <2>4. p = Cut(ProtobufHeader(k), n, cut)
      BY <1>4, <2>1, Zenon DEF Cut
    <2>5. cut <= 8 + k + n
      BY <1>c, <2>2
    <2>6. m.emsg # "EncryptRequest"
      BY <1>5 DEF Flagged
    <2> HIDE DEF h, k, n, p, r
    <2>r. r = ProtobufResult(k, n, cut)
      BY <2>3, <2>4, Zenon DEF ProtobufResult
    <2>7. /\ cut < 8 + k => r = << >>
          /\ cut >= 8 + k /\ cut > 8 =>
                r = <<Bytes("proto", k), << >>, SubSeq(Bytes("body", n), 1, cut - (8 + k))>>
      <3>1. cut \in Nat /\ k \in Nat /\ n \in Nat /\ cut <= 8 + k + n
        BY <1>2, <1>3, <2>5
      <3> QED BY <2>r, <3>1, ProtobufRead, Zenon
    <2>8. cut >= 8 + k /\ (cut > 8 + k \/ k > 0) => cut > 8
      BY <1>2, <1>3
    <2>9. /\ cut < Len(h) => r = << >>
          /\ cut >= Len(h) /\ (cut > Len(h) \/ ~Flagged(m) \/ k > 0) =>
                /\ r # << >> /\ r[3] = SubSeq(Bytes("body", n), 1, cut - Len(h))
                /\ Flagged(m) => r[1] = Bytes("proto", k)
      BY <1>5, <2>2, <2>7, <2>8
    <2> QED BY <2>6, <2>9 DEF ReadAsWritten, h, k, n, p, r
  <1>6. CASE m.emsg = "EncryptRequest"
    <2>1. h = StandardHeader
      <3>1. m.emsg \in {"EncryptRequest", "EncryptResponse"} /\ ~(m.emsg \in {"Hello", "Other"})
        BY <1>6
      <3> QED BY <3>1, Zenon DEF Header
    <2>2. h \in Seq(WireBytes) /\ Len(h) = 20
      BY <2>1, StandardWritten
    <2>3. ~Flagged(m)
      BY <1>6 DEF Flagged
    <2>4. r = IF Len(p) < 4 THEN << >> ELSE readStandardHeader(Drop(p, 4))
      BY <1>6, <2>3, Zenon DEF readMessage, readHeader
    <2>5. p = Cut(StandardHeader, n, cut)
      BY <1>4, <2>1, Zenon DEF Cut
    <2>6. cut <= 20 + n
      BY <1>c, <2>2
    <2> HIDE DEF h, k, n, p, r
    <2>r. r = StandardResult(n, cut)
      BY <2>4, <2>5, Zenon DEF StandardResult
    <2>7. /\ cut < 20 => r = << >>
          /\ cut >= 20 => r = <<Bytes("TargetJobID", 8), Bytes("SourceJobID", 8),
                                SubSeq(Bytes("body", n), 1, cut - 20)>>
      <3>1. cut \in Nat /\ n \in Nat /\ cut <= 20 + n
        BY <1>2, <1>3, <2>6
      <3> QED BY <2>r, <3>1, StandardRead, Zenon
    <2>8. /\ cut < Len(h) => r = << >>
          /\ cut >= Len(h) =>
                /\ r # << >> /\ r[3] = SubSeq(Bytes("body", n), 1, cut - Len(h))
                /\ r[1] = Bytes("TargetJobID", 8) /\ r[2] = Bytes("SourceJobID", 8)
      BY <2>2, <2>7
    <2> QED BY <2>3, <2>8 DEF ReadAsWritten, h, k, n, p, r
  <1>7. CASE ~Flagged(m) /\ m.emsg # "EncryptRequest"
    <2>1. h = ExtendedHeader
      <3>1. /\ ~(m.emsg \in {"EncryptRequest", "EncryptResponse"})
            /\ ~(m.emsg \in {"Hello", "Other"} /\ m.hasProto)
        BY <1>2, <1>7 DEF Flagged
      <3> QED BY <3>1, Zenon DEF Header, ExtendedHeader
    <2>2. h \in Seq(WireBytes) /\ Len(h) = 39
      BY <2>1, ExtendedWritten
    <2>4. r = IF Len(p) < 4 THEN << >> ELSE readExtendedHeader(Drop(p, 4))
      BY <1>7, Zenon DEF readMessage, readHeader
    <2>5. p = Cut(ExtendedHeader, n, cut)
      BY <1>4, <2>1, Zenon DEF Cut
    <2>6. cut <= 39 + n
      BY <1>c, <2>2
    <2> HIDE DEF h, k, n, p, r
    <2>r. r = ExtendedResult(n, cut)
      BY <2>4, <2>5, Zenon DEF ExtendedResult
    <2>7. /\ cut < 39 => r = << >>
          /\ cut >= 39 => \E a, b: r = <<a, b, SubSeq(Bytes("body", n), 1, cut - 39)>>
      <3>1. cut \in Nat /\ n \in Nat /\ cut <= 39 + n
        BY <1>2, <1>3, <2>6
      <3> QED BY <2>r, <3>1, ExtendedRead, Zenon
    <2>8. /\ cut < Len(h) => r = << >>
          /\ cut >= Len(h) => r # << >> /\ r[3] = SubSeq(Bytes("body", n), 1, cut - Len(h))
      BY <2>2, <2>7
    <2> QED BY <1>7, <2>8 DEF ReadAsWritten, h, k, n, p, r
  <1> QED BY <1>5, <1>6, <1>7

-----------------------------------------------------------------------------
(* Multis.                                                                 *)

\* Where the messages of a Multi begin: Position satisfies its recursion.
LEMMA PositionOf ==
    ASSUME NEW sizes \in Seq(Nat)
    PROVE  Position(sizes) = [k \in 1 .. Len(sizes) + 1 |->
               IF k = 1 THEN 0 ELSE Position(sizes)[k - 1] + SizeBytes + sizes[k - 1]]
  <1> DEFINE F(g, n) == [k \in 1 .. n |->
                            IF k = 1 THEN 0 ELSE g[k - 1] + SizeBytes + sizes[k - 1]]
             T == {n \in Nat: \E g: g = F(g, n)}
  <1>1. 0 \in T
    <2>1. F(<< >>, 0) = F(F(<< >>, 0), 0)
      OBVIOUS
    <2> QED BY <2>1
  <1>2. ASSUME NEW n \in Nat, n \in T PROVE n + 1 \in T
    <2>1. PICK g: g = F(g, n)
      BY <1>2
    <2> DEFINE h == F(g, n + 1)
    <2>2. \A k \in 1 .. n: h[k] = g[k]
      BY <2>1
    <2>3. F(h, n + 1) = h
      <3> SUFFICES ASSUME NEW k \in 1 .. n + 1 PROVE F(h, n + 1)[k] = F(g, n + 1)[k]
        OBVIOUS
      <3>1. CASE k = 1
        BY <3>1
      <3>2. CASE k # 1
        <4>1. k - 1 \in 1 .. n
          BY <3>2
        <4>2. h[k - 1] = g[k - 1]
          BY <2>2, <4>1
        <4> HIDE DEF h
        <4> QED BY <3>2, <4>2
      <3> QED BY <3>1, <3>2
    <2> HIDE DEF h
    <2> QED BY <2>3
  <1>3. Len(sizes) + 1 \in T
    <2> HIDE DEF T
    <2>1. Nat \subseteq T
      BY <1>1, <1>2, Induction
    <2>2. Len(sizes) + 1 \in Nat
      OBVIOUS
    <2> QED BY <2>1, <2>2
  <1>4. \E g: g = F(g, Len(sizes) + 1)
    BY <1>3
  <1>5. Position(sizes) = CHOOSE g: g = F(g, Len(sizes) + 1)
    BY DEF Position
  <1>6. Position(sizes) = F(Position(sizes), Len(sizes) + 1)
    BY <1>4, <1>5, Zenon
  <1> QED BY <1>6

\* The first message begins at 0, each other where the one before it ends.
LEMMA Positions ==
    ASSUME NEW sizes \in Seq(Nat)
    PROVE  /\ Position(sizes)[1] = 0
           /\ \A k \in 1 .. Len(sizes) + 1: Position(sizes)[k] \in Nat
           /\ \A k \in 1 .. Len(sizes):
                 Position(sizes)[k + 1] = Position(sizes)[k] + SizeBytes + sizes[k]
  <1> DEFINE at == Position(sizes)
             N == Len(sizes)
  <1>0. N \in Nat /\ \A k \in 1 .. N: sizes[k] \in Nat
    OBVIOUS
  <1>1. at = [k \in 1 .. N + 1 |-> IF k = 1 THEN 0 ELSE at[k - 1] + SizeBytes + sizes[k - 1]]
    BY PositionOf
  <1> HIDE DEF at, N
  <1>2. at[1] = 0
    BY <1>0, <1>1
  <1>3. \A k \in 1 .. N: at[k + 1] = at[k] + SizeBytes + sizes[k]
    <2> SUFFICES ASSUME NEW k \in 1 .. N PROVE at[k + 1] = at[k] + SizeBytes + sizes[k]
      OBVIOUS
    <2>1. k + 1 \in 1 .. N + 1 /\ k + 1 # 1 /\ (k + 1) - 1 = k
      BY <1>0
    <2>2. at[k + 1] = at[(k + 1) - 1] + SizeBytes + sizes[(k + 1) - 1]
      BY <1>1, <2>1
    <2> QED BY <2>1, <2>2
  <1>4. \A k \in 1 .. N + 1: at[k] \in Nat
    <2> DEFINE T == {n \in Nat: n + 1 \in 1 .. N + 1 => at[n + 1] \in Nat}
    <2>1. 0 \in T
      BY <1>2
    <2>2. ASSUME NEW n \in Nat, n \in T PROVE n + 1 \in T
      <3> SUFFICES ASSUME (n + 1) + 1 \in 1 .. N + 1 PROVE at[(n + 1) + 1] \in Nat
        OBVIOUS
      <3>1. n + 1 \in 1 .. N
        BY <1>0
      <3>2. at[n + 1] \in Nat
        BY <1>0, <2>2, <3>1
      <3>3. sizes[n + 1] \in Nat
        BY <1>0, <3>1
      <3> QED BY <1>3, <3>1, <3>2, <3>3 DEF SizeBytes
    <2>3. Nat \subseteq T
      <3> HIDE DEF T
      <3> QED BY <2>1, <2>2, Induction
    <2> SUFFICES ASSUME NEW k \in 1 .. N + 1 PROVE at[k] \in Nat
      OBVIOUS
    <2>4. k - 1 \in Nat /\ (k - 1) + 1 = k
      BY <1>0
    <2>5. k - 1 \in T
      BY <2>3, <2>4
    <2> QED BY <2>4, <2>5
  <1> QED BY <1>2, <1>3, <1>4 DEF at, N

\* Later messages begin later.
LEMMA PositionsGrow ==
    ASSUME NEW sizes \in Seq(Nat), NEW j \in 1 .. Len(sizes) + 1,
           NEW k \in j .. Len(sizes) + 1
    PROVE  Position(sizes)[j] <= Position(sizes)[k]
  <1> DEFINE at == Position(sizes)
             N == Len(sizes)
             T == {n \in Nat: j + n \in 1 .. N + 1 => at[j] <= at[j + n]}
  <1>0. N \in Nat /\ \A i \in 1 .. N: sizes[i] \in Nat
    OBVIOUS
  <1>1. /\ \A i \in 1 .. N + 1: at[i] \in Nat
        /\ \A i \in 1 .. N: at[i + 1] = at[i] + SizeBytes + sizes[i]
    BY Positions
  <1>j. j \in 1 .. N + 1 /\ k \in j .. N + 1
    OBVIOUS
  <1> HIDE DEF at, N
  <1>2. 0 \in T
    BY <1>0, <1>1, <1>j
  <1>3. ASSUME NEW n \in Nat, n \in T PROVE n + 1 \in T
    <2> SUFFICES ASSUME j + (n + 1) \in 1 .. N + 1 PROVE at[j] <= at[j + (n + 1)]
      OBVIOUS
    <2>1. j + n \in 1 .. N /\ (j + n) + 1 = j + (n + 1) /\ j + n \in 1 .. N + 1
      BY <1>0, <1>j
    <2>2. at[j] <= at[j + n] /\ at[j] \in Nat /\ at[j + n] \in Nat
      BY <1>1, <1>3, <1>j, <2>1
    <2>3. at[(j + n) + 1] = at[j + n] + SizeBytes + sizes[j + n] /\ sizes[j + n] \in Nat
      BY <1>0, <1>1, <2>1
    <2>4. at[j] <= at[j + n] + SizeBytes + sizes[j + n]
      <3>1. \A x, y, z \in Nat: x <= y => x <= y + 4 + z
        OBVIOUS
      <3>2. at[j] <= at[j + n] + 4 + sizes[j + n]
        BY <2>2, <2>3, <3>1
      <3> QED BY <3>2 DEF SizeBytes
    <2> QED BY <2>1, <2>3, <2>4
  <1>4. Nat \subseteq T
    <2> HIDE DEF T
    <2> QED BY <1>2, <1>3, Induction
  <1>5. k - j \in Nat /\ j + (k - j) = k /\ k \in 1 .. N + 1
    BY <1>0, <1>j
  <1>6. k - j \in T
    BY <1>4, <1>5
  <1>7. at[j] <= at[k]
    BY <1>5, <1>6
  <1> QED BY <1>7 DEF at

\* The messages that handleMulti does not take: at the end, and those that are
\* cut or too short.
Stops(sizes, cut, k) ==
    LET left == cut - Position(sizes)[k]
    IN  left = 0 \/ left < SizeBytes \/ ~SubMessageFits(sizes[k], left - SizeBytes)

\* handleMulti ends at the first of them.
LEMMA MultiStops ==
    ASSUME NEW sizes \in Seq(Nat), NEW cut \in Nat, cut # 0,
           NEW stop \in 1 .. Len(sizes) + 1, Stops(sizes, cut, stop),
           \A k \in 1 .. stop - 1: ~Stops(sizes, cut, k),
           Stops(sizes, cut, Len(sizes) + 1)
    PROVE  handleMulti(sizes, cut)
             = [handled |-> stop - 1, ok |-> cut - Position(sizes)[stop] = 0]
  <1> DEFINE N == Len(sizes)
             left(k) == cut - Position(sizes)[k]
             F(g) == [k \in 1 .. N + 1 |->
                        IF left(k) = 0 THEN [handled |-> k - 1, ok |-> TRUE]
                        ELSE IF left(k) < SizeBytes \/ ~SubMessageFits(sizes[k], left(k) - SizeBytes)
                        THEN [handled |-> k - 1, ok |-> FALSE]
                        ELSE g[k + 1]]
             end(k) == [handled |-> k - 1, ok |-> left(k) = 0]
             stops(k) == Stops(sizes, cut, k)
  <1>0. N \in Nat /\ stops(N + 1)
    OBVIOUS
  <1>1. \A g: F(g) = [k \in 1 .. N + 1 |-> IF stops(k) THEN end(k) ELSE g[k + 1]]
    BY DEF Stops
  <1>s. stop \in 1 .. N + 1 /\ stops(stop) /\ \A k \in 1 .. stop - 1: ~stops(k)
    OBVIOUS
  <1>2. handleMulti(sizes, cut) = (CHOOSE g: g = F(g))[1]
    BY DEF handleMulti
  <1> HIDE DEF N, F, end, stops
  <1>3. \E g: g = F(g)
    <2> DEFINE next(k) == CHOOSE i \in k .. N + 1: stops(i) /\ \A j \in k .. i - 1: ~stops(j)
               g == [k \in 1 .. N + 1 |-> end(next(k))]
    <2>1. ASSUME NEW k \in 1 .. N + 1
          PROVE  /\ next(k) \in k .. N + 1 /\ stops(next(k))
                 /\ \A j \in k .. next(k) - 1: ~stops(j)
      <3> DEFINE U == {i \in k .. N + 1: stops(i)}
      <3>1. U \in SUBSET Nat /\ U # {}
        BY <1>0, SMTT(40)
      <3>2. PICK i \in U: \A j \in U: i <= j
        <4> HIDE DEF U
        <4> QED BY <3>1, LeastNumber
      <3>3. i \in k .. N + 1 /\ stops(i) /\ \A j \in k .. i - 1: ~stops(j)
        BY <1>0, <3>2
      <3> QED BY <3>3, Zenon
    <2>2. ASSUME NEW k \in 1 .. N + 1, stops(k) PROVE next(k) = k
      <3> HIDE DEF next
      <3> QED BY <1>0, <2>1, <2>2
    <2>3. ASSUME NEW k \in 1 .. N + 1, ~stops(k) PROVE k + 1 \in 1 .. N + 1 /\ next(k) = next(k + 1)
      <3>1. k + 1 \in 1 .. N + 1
        BY <1>0, <2>3
      <3> HIDE DEF next
      <3>2. /\ next(k) # k /\ next(k) \in k .. N + 1 /\ stops(next(k))
            /\ \A j \in k .. next(k) - 1: ~stops(j)
        BY <2>1, <2>3
      <3>3. /\ next(k + 1) \in k + 1 .. N + 1 /\ stops(next(k + 1))
            /\ \A j \in k + 1 .. next(k + 1) - 1: ~stops(j)
        BY <2>1, <3>1
      <3>4. ~(next(k) < next(k + 1))
        BY <1>0, <3>2, <3>3
      <3>5. ~(next(k + 1) < next(k))
        BY <1>0, <3>2, <3>3
      <3> QED BY <1>0, <3>1, <3>2, <3>3, <3>4, <3>5
    <2> HIDE DEF next
    <2>4. ASSUME NEW k \in 1 .. N + 1
          PROVE  (IF stops(k) THEN end(k) ELSE g[k + 1]) = g[k]
      <3>1. CASE stops(k)
        BY <2>2, <3>1
      <3>2. CASE ~stops(k)
        BY <2>3, <3>2
      <3> QED BY <3>1, <3>2
    <2>5. F(g) = g
      BY <1>1, <2>4
    <2> QED BY <2>5
  <1> DEFINE turn == CHOOSE g: g = F(g)
  <1>4. turn = F(turn)
    BY <1>3, Zenon
  <1> HIDE DEF turn
  <1>5. \A k \in 1 .. N + 1: turn[k] = IF stops(k) THEN end(k) ELSE turn[k + 1]
    <2>1. turn = [k \in 1 .. N + 1 |-> IF stops(k) THEN end(k) ELSE turn[k + 1]]
      BY <1>1, <1>4
    <2> QED BY <2>1
  <1> DEFINE T == {n \in Nat: stop - n \in 1 .. N + 1 => turn[stop - n] = end(stop)}
  <1>6. 0 \in T
    BY <1>0, <1>5, <1>s
  <1>7. ASSUME NEW n \in Nat, n \in T PROVE n + 1 \in T
    <2> SUFFICES ASSUME stop - (n + 1) \in 1 .. N + 1 PROVE turn[stop - (n + 1)] = end(stop)
      OBVIOUS
    <2>1. /\ stop - (n + 1) \in 1 .. stop - 1 /\ stop - n \in 1 .. N + 1
          /\ (stop - (n + 1)) + 1 = stop - n
      BY <1>0, <1>s
    <2>2. ~stops(stop - (n + 1))
      BY <1>s, <2>1
    <2>3. turn[stop - (n + 1)] = turn[(stop - (n + 1)) + 1]
      BY <1>5, <2>2
    <2>4. turn[stop - n] = end(stop)
      BY <1>7, <2>1
    <2> QED BY <2>1, <2>3, <2>4
  <1>8. Nat \subseteq T
    <2> HIDE DEF T
    <2> QED BY <1>6, <1>7, Induction
  <1>9. stop - 1 \in Nat /\ stop - (stop - 1) = 1 /\ 1 \in 1 .. N + 1
    BY <1>0, <1>s
  <1>10. stop - 1 \in T
    BY <1>8, <1>9
  <1>11. turn[1] = end(stop)
    BY <1>9, <1>10
  <1> QED BY <1>2, <1>11 DEF turn, end

\* The bytes left behind a message that is there in full.
LEMMA BytesLeft ==
    ASSUME NEW cut \in Nat, NEW from \in Nat, NEW size \in Nat, from + 4 + size <= cut
    PROVE  /\ ~(cut - from = 0) /\ ~(cut - from < 4) /\ (cut - from) - 4 >= size
  OBVIOUS

\* A Multi of any number of messages, of any sizes and cut anywhere, is split
\* exactly as MultiExact says (handleMulti).
THEOREM MultisSplit ==
    ASSUME NEW sizes \in Seq(Nat), NEW cut \in 0 .. Position(sizes)[Len(sizes) + 1]
    PROVE  MultiExact(sizes, cut)
  <1> DEFINE at == Position(sizes)
             N == Len(sizes)
             stops(k) == Stops(sizes, cut, k)
             good == {k \in 0 .. N: at[k + 1] <= cut /\ \A i \in 1 .. k: sizes[i] >= 4}
             r == handleMulti(sizes, cut)
  <1>0. N \in Nat /\ \A i \in 1 .. N: sizes[i] \in Nat
    OBVIOUS
  <1>1. /\ at[1] = 0 /\ \A i \in 1 .. N + 1: at[i] \in Nat
        /\ \A i \in 1 .. N: at[i + 1] = at[i] + SizeBytes + sizes[i]
    BY Positions
  <1>2. \A j \in 1 .. N + 1: \A k \in j .. N + 1: at[j] <= at[k]
    BY PositionsGrow
  <1>3. cut \in Nat /\ cut <= at[N + 1]
    BY <1>0, <1>1
  <1>4. \A k \in 1 .. N + 1:
          stops(k) <=> \/ cut - at[k] = 0 \/ cut - at[k] < 4
                       \/ ~(sizes[k] >= 4 /\ (cut - at[k]) - 4 >= sizes[k])
    BY DEF Stops, SizeBytes, SubMessageFits
  <1>5. stops(N + 1)
    <2>1. N + 1 \in 1 .. N + 1 /\ at[N + 1] \in Nat
      BY <1>0, <1>1
    <2>2. cut - at[N + 1] < 4
      BY <1>3, <2>1
    <2> QED BY <1>4, <2>1, <2>2
  <1>6. SUFFICES /\ r.handled \in good /\ \A k \in good: k <= r.handled
                 /\ r.ok <=> cut > 0 /\ at[r.handled + 1] = cut
    BY DEF MultiExact
  <1>r. r = handleMulti(sizes, cut)
    OBVIOUS
  <1> HIDE DEF r
  <1>7. CASE cut = 0
    <2>1. r = [handled |-> 0, ok |-> FALSE]
      BY <1>7, <1>r DEF handleMulti
    <2>2. 0 \in good
      BY <1>0, <1>1, <1>7
    <2>3. ASSUME NEW k \in good PROVE k <= 0
      <3>1. k \in 0 .. N /\ at[k + 1] <= 0
        BY <1>7
      <3>2. CASE k # 0
        <4>1. k \in 1 .. N /\ k \in 1 .. N + 1
          BY <1>0, <3>1, <3>2
        <4>2. at[k] \in Nat /\ sizes[k] \in Nat /\ at[k + 1] = at[k] + 4 + sizes[k]
          BY <1>0, <1>1, <4>1 DEF SizeBytes
        <4> HIDE DEF at, good
        <4> QED BY <3>1, <4>2
      <3> QED BY <1>0, <3>1, <3>2
    <2> HIDE DEF good
    <2>4. r.handled = 0 /\ r.ok = FALSE
      BY <2>1
    <2> QED BY <1>7, <2>2, <2>3, <2>4
  <1>8. CASE cut # 0
    <2> DEFINE U == {k \in 1 .. N + 1: stops(k)}
    <2>1. U \in SUBSET Nat /\ U # {}
      BY <1>0, <1>5
    <2>2. PICK stop \in U: \A k \in U: stop <= k
      <3> HIDE DEF U
      <3> QED BY <2>1, LeastNumber
    <2>3. stop \in 1 .. N + 1 /\ stops(stop) /\ \A k \in 1 .. stop - 1: ~stops(k)
      BY <1>0, <2>2
    <2>4. r = [handled |-> stop - 1, ok |-> cut - at[stop] = 0]
      BY <1>3, <1>5, <1>8, <1>r, <2>3, MultiStops
    <2> HIDE DEF stops, at, N
    <2>5. r.handled = stop - 1 /\ (r.ok <=> cut - at[stop] = 0)
      BY <2>4
    <2>6. \A i \in 1 .. stop - 1: sizes[i] >= 4 /\ at[i + 1] <= cut
      <3> SUFFICES ASSUME NEW i \in 1 .. stop - 1 PROVE sizes[i] >= 4 /\ at[i + 1] <= cut
        OBVIOUS
      <3>1. i \in 1 .. N /\ i \in 1 .. N + 1 /\ ~stops(i)
        BY <1>0, <2>3
      <3>2. /\ at[i] \in Nat /\ sizes[i] \in Nat /\ at[i + 1] = at[i] + 4 + sizes[i]
            /\ sizes[i] >= 4 /\ (cut - at[i]) - 4 >= sizes[i]
        BY <1>0, <1>1, <1>4, <3>1 DEF SizeBytes
      <3> QED BY <1>3, <3>2, SMTT(40)
    <2>7. at[stop] <= cut
      <3>1. CASE stop = 1
        BY <1>1, <1>3, <3>1
      <3>2. CASE stop # 1
        <4>1. stop - 1 \in 1 .. stop - 1 /\ (stop - 1) + 1 = stop
          BY <1>0, <2>3, <3>2
        <4> QED BY <2>6, <4>1
      <3> QED BY <3>1, <3>2
    <2>8. (stop - 1) + 1 = stop /\ stop - 1 \in 0 .. N
      BY <1>0, <2>3
    <2>9. stop - 1 \in good
      BY <2>6, <2>7, <2>8
    <2>10. ASSUME NEW k \in good PROVE k <= stop - 1
      <3>1. k \in 0 .. N /\ at[k + 1] <= cut /\ \A i \in 1 .. k: sizes[i] >= 4
        OBVIOUS
      <3>2. SUFFICES ASSUME stop <= k PROVE FALSE
        BY <1>0, <2>3, <3>1
      <3>3. /\ stop \in 1 .. k /\ stop \in 1 .. N /\ stop + 1 \in 1 .. N + 1
            /\ k + 1 \in stop + 1 .. N + 1 /\ k + 1 \in 1 .. N + 1
        BY <1>0, <2>3, <3>1, <3>2
      <3>4. /\ at[stop] \in Nat /\ at[k + 1] \in Nat /\ sizes[stop] \in Nat /\ sizes[stop] >= 4
            /\ at[stop + 1] = at[stop] + 4 + sizes[stop] /\ at[stop + 1] <= at[k + 1]
            /\ at[k + 1] <= cut
        BY <1>0, <1>1, <1>2, <2>3, <3>1, <3>3 DEF SizeBytes
      <3>5. /\ ~(cut - at[stop] = 0) /\ ~(cut - at[stop] < 4)
            /\ (cut - at[stop]) - 4 >= sizes[stop]
        <4>1. at[stop] + 4 + sizes[stop] <= cut /\ cut \in Nat
          BY <1>3, <3>4, SMTT(40)
        <4> QED BY <3>4, <4>1, BytesLeft
      <3> QED BY <1>4, <2>3, <3>4, <3>5
    <2>11. cut - at[stop] = 0 <=> cut > 0 /\ at[stop] = cut
      BY <1>1, <1>3, <1>8, <2>3
    <2> HIDE DEF good
    <2> QED BY <2>5, <2>8, <2>9, <2>10, <2>11
  <1> QED BY <1>7, <1>8

-----------------------------------------------------------------------------
(* Padding.                                                                *)

\* Division with remainder.
LEMMA Remainder ==
    ASSUME NEW n \in Nat, NEW b \in Nat \ {0}
    PROVE  /\ n \div b \in Nat /\ n % b \in 0 .. b - 1
           /\ n = b * (n \div b) + (n % b)
  OBVIOUS

\* What completes n to a multiple of b does, and a multiple is completed by what
\* was taken from it.
LEMMA Completed ==
    ASSUME NEW n \in Nat, NEW b \in Nat \ {0}
    PROVE  /\ b - (n % b) \in 1 .. b /\ (n + (b - (n % b))) % b = 0
           /\ \A p \in 1 .. b: n % b = 0 /\ n > 0 => n >= p /\ b - ((n - p) % b) = p
  <1>1. b - (n % b) \in 1 .. b
    BY Remainder
  <1>2. (n + (b - (n % b))) % b = 0
    OBVIOUS
  <1>3. ASSUME NEW p \in 1 .. b, n % b = 0, n > 0 PROVE n >= p /\ b - ((n - p) % b) = p
    <2> DEFINE q == n \div b
    <2>1. q \in Nat /\ n = b * q
      BY <1>3, Remainder
    <2> HIDE DEF q
    <2>2. q >= 1
      BY <1>3, <2>1
    <2>3. n >= b
      BY <2>1, <2>2
    <2> DEFINE m == n - p
               r == m % b
               t == m \div b
    <2>4. m \in Nat /\ n >= p
      BY <2>3
    <2>5. t \in Nat /\ r \in 0 .. b - 1 /\ m = b * t + r
      BY <2>4, Remainder
    <2>6. b * (q - t) = r + p
      <3> HIDE DEF m, r, t
      <3>1. m = n - p
        BY DEF m
      <3> QED BY <2>1, <2>5, <3>1
    <2>7. r + p \in 1 .. 2 * b - 1
      BY <2>5
    <2> HIDE DEF m, r, t
    <2>8. q - t = 1
      <3> DEFINE k == q - t
      <3>0. k \in Int /\ b * k = r + p
        BY <2>1, <2>5, <2>6
      <3> HIDE DEF k
      <3>1. k > 0
        BY <3>0, <2>7
      <3>2. k < 2
        BY <3>0, <2>7
      <3>3. k = 1
        BY <3>0, <3>1, <3>2
      <3> QED BY <3>3 DEF k
    <2>9. r + p = b
      BY <2>6, <2>8
    <2>10. r = (n - p) % b
      BY DEF r, m
    <2> QED BY <2>4, <2>5, <2>9, <2>10
  <1> QED BY <1>1, <1>2, <1>3

\* Data that is padded: its length, and every byte.
LEMMA Padded ==
    ASSUME NEW data \in Seq(Byte)
    PROVE  /\ PadLength(data) \in 1 .. BlockSize
           /\ Pkcs7Pad(data) \in Seq(Byte)
           /\ Len(Pkcs7Pad(data)) = Len(data) + PadLength(data)
           /\ \A i \in 1 .. Len(data): Pkcs7Pad(data)[i] = data[i]
           /\ \A i \in Len(data) + 1 .. Len(data) + PadLength(data):
                 Pkcs7Pad(data)[i] = PadLength(data)
  <1> DEFINE n == Len(data)
             pad == PadLength(data)
             pads == [i \in 1 .. pad |-> pad]
  <1> USE CryptoAssumption
  <1>1. n \in Nat /\ BlockSize \in Nat \ {0}
    OBVIOUS
  <1>2. pad \in 1 .. BlockSize
    BY <1>1, Completed DEF PadLength
  <1>3. pad \in Byte /\ pad \in Nat
    BY <1>2
  <1>4. Pkcs7Pad(data) = data \o pads
    BY DEF Pkcs7Pad
  <1> HIDE DEF pad
  <1>5. pads \in [1 .. pad -> Byte]
    BY <1>3
  <1>6. pads \in Seq(Byte) /\ Len(pads) = pad
    BY <1>3, <1>5, FunctionIsSeq
  <1>7. \A i \in 1 .. pad: pads[i] = pad
    OBVIOUS
  <1> HIDE DEF pads
  <1>8. /\ data \o pads \in Seq(Byte) /\ Len(data \o pads) = n + pad
        /\ \A i \in 1 .. n + pad: (data \o pads)[i] = IF i <= n THEN data[i] ELSE pads[i - n]
    BY <1>6, ConcatProperties
  <1> HIDE DEF n
  <1>9. \A i \in 1 .. n: (data \o pads)[i] = data[i]
    BY <1>1, <1>3, <1>8
  <1>10. \A i \in n + 1 .. n + pad: (data \o pads)[i] = pad
    <2> SUFFICES ASSUME NEW i \in n + 1 .. n + pad PROVE (data \o pads)[i] = pad
      OBVIOUS
    <2>1. i \in 1 .. n + pad /\ ~(i <= n) /\ i - n \in 1 .. pad
      BY <1>1, <1>3
    <2> QED BY <1>7, <1>8, <2>1
  <1> QED BY <1>2, <1>4, <1>8, <1>9, <1>10 DEF pad, n

\* Data of any length, with any block size: unpadding gives back what was padded, and
\* accepts nothing that padding did not make (pkcs7Pad and pkcs7Unpad).
THEOREM UnpaddingInvertsPadding ==
    ASSUME NEW data \in Seq(Byte)
    PROVE  PaddingInverse(data)
  <1> DEFINE n == Len(data)
             b == BlockSize
  <1>0. n \in Nat /\ b \in Nat \ {0} /\ Byte \subseteq Nat
    BY CryptoAssumption
  <1>1. Pkcs7Unpad(Pkcs7Pad(data)) = {data}
    <2> DEFINE d == Pkcs7Pad(data)
               pad == PadLength(data)
    <2>1. /\ pad \in 1 .. b /\ d \in Seq(Byte) /\ Len(d) = n + pad
          /\ \A i \in 1 .. n: d[i] = data[i]
          /\ \A i \in n + 1 .. n + pad: d[i] = pad
      BY Padded
    <2>2. (n + pad) % b = 0
      BY <1>0, Completed DEF PadLength
    <2> HIDE DEF d, pad, n, b
    <2>3. n + pad \in n + 1 .. n + pad /\ n + pad # 0
      BY <1>0, <2>1
    <2>4. d[Len(d)] = pad
      BY <2>1, <2>3
    <2>5. PaddingGood(d, pad)
      <3>1. (n + pad) - pad = n
        BY <1>0, <2>1
      <3> QED BY <2>1, <3>1 DEF PaddingGood
    <2>6. SubSeq(d, 1, Len(d) - pad) = data
      <3>1. Len(d) - pad = n /\ n \in Int /\ 1 \in Int
        BY <1>0, <2>1
      <3>2. \A i \in 1 .. n: d[i] \in Byte
        BY <2>1, ElementOfSeq DEF n
      <3>3. /\ SubSeq(d, 1, n) \in Seq(Byte)
            /\ Len(SubSeq(d, 1, n)) = IF 1 <= n THEN n - 1 + 1 ELSE 0
            /\ \A i \in 1 .. n - 1 + 1: SubSeq(d, 1, n)[i] = d[1 + i - 1]
        BY <3>1, <3>2, SubSeqProperties
      <3>4. Len(SubSeq(d, 1, n)) = n
        BY <1>0, <3>3
      <3>5. \A i \in 1 .. n: SubSeq(d, 1, n)[i] = data[i]
        BY <1>0, <2>1, <3>3
      <3>6. SubSeq(d, 1, n) = data
        BY <3>3, <3>4, <3>5, SeqEqual DEF n
      <3> QED BY <3>1, <3>6
    <2>7. ~(pad = 0 \/ pad > b)
      BY <1>0, <2>1
    <2>8. Pkcs7Unpad(d) = {SubSeq(d, 1, Len(d) - pad)}
      BY <2>1, <2>2, <2>3, <2>4, <2>5, <2>7 DEF Pkcs7Unpad, b
    <2> QED BY <2>6, <2>8 DEF d
  <1>2. ASSUME NEW p \in Pkcs7Unpad(data) PROVE Pkcs7Pad(p) = data
    <2> DEFINE q == data[n]
    <2>1. /\ n # 0 /\ n % b = 0
          /\ q # 0 /\ ~(q > b) /\ PaddingGood(data, q) /\ p = SubSeq(data, 1, n - q)
      BY <1>2 DEF Pkcs7Unpad
    <2>2. q \in 1 .. b
      <3>1. n \in 1 .. Len(data)
        BY <1>0, <2>1
      <3>2. q \in Nat
        BY <1>0, <3>1, ElementOfSeq
      <3> HIDE DEF q
      <3> QED BY <1>0, <2>1, <3>2
    <2>3. n >= q /\ b - ((n - q) % b) = q
      BY <1>0, <2>1, <2>2, Completed
    <2>g. \A i \in n - q + 1 .. n: data[i] = q
      BY <2>1 DEF PaddingGood
    <2> HIDE DEF q, b
    <2>4. /\ p \in Seq(Byte) /\ Len(p) = n - q
          /\ \A i \in 1 .. n - q: p[i] = data[i]
      <3>1. n - q \in Int /\ n - q \in 0 .. n
        BY <1>0, <2>2, <2>3
      <3>2. \A i \in 1 .. n - q: data[i] \in Byte
        <4> SUFFICES ASSUME NEW i \in 1 .. n - q PROVE data[i] \in Byte
          OBVIOUS
        <4>1. i \in 1 .. n
          BY <1>0, <3>1
        <4> QED BY <4>1, ElementOfSeq
      <3> DEFINE m == n - q
      <3>3. m \in Int /\ m >= 0
        BY <3>1
      <3> HIDE DEF m
      <3>4. /\ SubSeq(data, 1, m) \in Seq(Byte)
            /\ Len(SubSeq(data, 1, m)) = IF 1 <= m THEN m - 1 + 1 ELSE 0
            /\ \A i \in 1 .. m - 1 + 1: SubSeq(data, 1, m)[i] = data[1 + i - 1]
        BY <3>2, <3>3, SubSeqProperties DEF m
      <3>5. Len(SubSeq(data, 1, m)) = m
        BY <3>3, <3>4
      <3>6. \A i \in 1 .. m: SubSeq(data, 1, m)[i] = data[i]
        BY <3>3, <3>4
      <3> QED BY <2>1, <3>4, <3>5, <3>6 DEF m
    <2>5. PadLength(p) = q
      BY <2>3, <2>4 DEF PadLength, b
    <2>6. /\ Pkcs7Pad(p) \in Seq(Byte) /\ Len(Pkcs7Pad(p)) = (n - q) + q
          /\ \A i \in 1 .. n - q: Pkcs7Pad(p)[i] = p[i]
          /\ \A i \in (n - q) + 1 .. (n - q) + q: Pkcs7Pad(p)[i] = q
      BY <2>4, <2>5, Padded
    <2>7. (n - q) + q = n
      BY <1>0, <2>2
    <2>8. \A i \in 1 .. n: Pkcs7Pad(p)[i] = data[i]
      <3> SUFFICES ASSUME NEW i \in 1 .. n PROVE Pkcs7Pad(p)[i] = data[i]
        OBVIOUS
      <3>1. CASE i \in 1 .. n - q
        BY <2>4, <2>6, <3>1
      <3>2. CASE i \in (n - q) + 1 .. n
        BY <2>6, <2>7, <2>g, <3>2
      <3> HIDE DEF n
      <3> QED BY <1>0, <2>2, <2>3, <3>1, <3>2
    <2> QED BY <2>6, <2>7, <2>8, SeqEqual
  <1> QED BY <1>1, <1>2 DEF PaddingInverse

-----------------------------------------------------------------------------
(* Encrypted packets.                                                      *)

\* The blocks of a ciphertext, each chained to the one before.
Chain(g, first, key, p, m) ==
    [i \in 0 .. m |-> IF i = 0 THEN first
                     ELSE [key |-> key, prev |-> g[i - 1], plain |-> BlockOf(p, i)]]

\* Such a chain exists for every number of blocks.
LEMMA ChainExists ==
    ASSUME NEW first, NEW key, NEW p, NEW m \in Nat
    PROVE  \E g: g = Chain(g, first, key, p, m)
  <1> DEFINE F(g, n) == [i \in 0 .. n |->
                           IF i = 0 THEN first
                           ELSE [key |-> key, prev |-> g[i - 1], plain |-> BlockOf(p, i)]]
             T == {n \in Nat: \E g: g = F(g, n)}
  <1>1. 0 \in T
    <2> DEFINE z == F(<< >>, 0)
    <2>1. F(z, 0) = z
      OBVIOUS
    <2> HIDE DEF z
    <2> QED BY <2>1
  <1>2. ASSUME NEW n \in Nat, n \in T PROVE n + 1 \in T
    <2>1. PICK g: g = F(g, n)
      BY <1>2
    <2> DEFINE h == F(g, n + 1)
    <2>2. \A i \in 0 .. n: h[i] = g[i]
      BY <2>1
    <2>3. F(h, n + 1) = h
      <3> SUFFICES ASSUME NEW i \in 0 .. n + 1 PROVE F(h, n + 1)[i] = F(g, n + 1)[i]
        OBVIOUS
      <3>1. CASE i = 0
        BY <3>1
      <3>2. CASE i # 0
        <4>1. i - 1 \in 0 .. n
          BY <3>2
        <4>2. h[i - 1] = g[i - 1]
          BY <2>2, <4>1
        <4> HIDE DEF h
        <4> QED BY <3>2, <4>2
      <3> QED BY <3>1, <3>2
    <2> HIDE DEF h
    <2> QED BY <2>3
  <1>3. Nat \subseteq T
    <2> HIDE DEF T
    <2> QED BY <1>1, <1>2, Induction
  <1>4. m \in T
    BY <1>3
  <1> QED BY <1>4 DEF Chain

\* A ciphertext c: the blocks of the padded plaintext, chained, behind the IV.
Chained(c, data, key, iv) ==
    LET padded == Pkcs7Pad(data)
        m == Len(padded) \div BlockSize
    IN  /\ \E S: c \in Seq(S)
        /\ Len(c) = m + 1 /\ c[1] = [key |-> key, iv |-> iv]
        /\ \A i \in 2 .. m + 1:
              c[i] = [key |-> key, prev |-> c[i - 1], plain |-> BlockOf(padded, i - 1)]

\* SymmetricEncrypt makes such a ciphertext.
LEMMA EncryptedChain ==
    ASSUME NEW data \in Seq(Byte), data # << >>, NEW key, NEW iv
    PROVE  Chained(SymmetricEncrypt(data, key, iv), data, key, iv)
  <1> DEFINE padded == Pkcs7Pad(data)
             m == Len(padded) \div BlockSize
             first == [key |-> key, iv |-> iv]
             F(g) == Chain(g, first, key, padded, m)
             cipher == CHOOSE g: g = F(g)
             S == {cipher[i]: i \in 0 .. m}
             blocks == [i \in 1 .. m |-> cipher[i]]
             c == SymmetricEncrypt(data, key, iv)
  <1>1. m \in Nat
    <2>1. Len(padded) \in Nat
      BY Padded, LenProperties
    <2> HIDE DEF padded
    <2> QED BY <2>1, Remainder, CryptoAssumption
  <1>2. c = <<cipher[0]>> \o blocks
    BY DEF SymmetricEncrypt, Chain
  <1>3. cipher = F(cipher)
    <2>1. \E g: g = F(g)
      <3> HIDE DEF m, padded, first
      <3> QED BY <1>1, ChainExists, Zenon
    <2> QED BY <2>1, Zenon
  <1> HIDE DEF padded, m, first, cipher, c
  <1>4. /\ cipher[0] = first
        /\ \A i \in 1 .. m:
              cipher[i] = [key |-> key, prev |-> cipher[i - 1], plain |-> BlockOf(padded, i)]
    <2> DEFINE link(i) == [key |-> key, prev |-> cipher[i - 1], plain |-> BlockOf(padded, i)]
    <2>1. cipher = [i \in 0 .. m |-> IF i = 0 THEN first ELSE link(i)]
      BY <1>3 DEF Chain
    <2> HIDE DEF link
    <2>2. cipher[0] = first /\ \A i \in 1 .. m: cipher[i] = link(i)
      BY <1>1, <2>1
    <2> QED BY <2>2 DEF link
  <1>5. blocks \in Seq(S) /\ Len(blocks) = m
    <2>1. blocks \in [1 .. m -> S]
      BY <1>1
    <2> HIDE DEF blocks, S
    <2> QED BY <1>1, <2>1, FunctionIsSeq
  <1>6. <<cipher[0]>> \in Seq(S) /\ Len(<<cipher[0]>>) = 1
    BY <1>1
  <1>7. /\ c \in Seq(S) /\ Len(c) = m + 1
        /\ \A i \in 1 .. m + 1: c[i] = IF i <= 1 THEN <<cipher[0]>>[i] ELSE blocks[i - 1]
    <2> DEFINE a == <<cipher[0]>>
    <2>1. a \in Seq(S) /\ Len(a) = 1 /\ blocks \in Seq(S) /\ Len(blocks) = m
      BY <1>5, <1>6
    <2> HIDE DEF a, blocks, S
    <2>2. /\ a \o blocks \in Seq(S) /\ Len(a \o blocks) = Len(a) + Len(blocks)
          /\ \A i \in 1 .. Len(a) + Len(blocks):
                (a \o blocks)[i] = IF i <= Len(a) THEN a[i] ELSE blocks[i - Len(a)]
      BY <2>1, ConcatProperties
    <2>3. Len(a) + Len(blocks) = m + 1
      BY <1>1, <2>1
    <2>4. c = a \o blocks
      BY <1>2 DEF a
    <2> QED BY <2>1, <2>2, <2>3, <2>4 DEF a
  <1>8. \A i \in 1 .. m + 1: c[i] = cipher[i - 1]
    <2> SUFFICES ASSUME NEW i \in 1 .. m + 1 PROVE c[i] = cipher[i - 1]
      OBVIOUS
    <2>1. CASE i = 1
      <3>1. i <= 1 /\ i - 1 = 0 /\ <<cipher[0]>>[i] = cipher[0]
        BY <2>1
      <3> QED BY <1>7, <3>1
    <2>2. CASE i # 1
      <3>1. i - 1 \in 1 .. m /\ ~(i <= 1)
        BY <1>1, <2>2
      <3>2. c[i] = blocks[i - 1]
        BY <1>7, <3>1
      <3> QED BY <3>1, <3>2
    <2> QED BY <2>1, <2>2
  <1>9. c[1] = first
    BY <1>1, <1>4, <1>8
  <1>10. \A i \in 2 .. m + 1:
            c[i] = [key |-> key, prev |-> c[i - 1], plain |-> BlockOf(padded, i - 1)]
    <2> SUFFICES ASSUME NEW i \in 2 .. m + 1
                 PROVE  c[i] = [key |-> key, prev |-> c[i - 1], plain |-> BlockOf(padded, i - 1)]
      OBVIOUS
    <2>1. i \in 1 .. m + 1 /\ i - 1 \in 1 .. m + 1 /\ i - 1 \in 1 .. m
      BY <1>1
    <2> QED BY <1>4, <1>8, <2>1
  <1> HIDE DEF S
  <1> QED BY <1>7, <1>9, <1>10 DEF Chained, padded, m, first, c

\* The plaintexts of the first blocks, which Plaintexts collects.
Joined(q, blocks) == {p \o b: p \in q, b \in blocks}
Collect(g, c, key, n) ==
    [i \in 1 .. n |-> IF i = 1 THEN {<< >>} ELSE Joined(g[i - 1], DecryptBlock(c, i, key))]

\* Plaintexts is defined for ciphertexts of every length.
LEMMA CollectExists ==
    ASSUME NEW c, NEW key, NEW n \in Nat
    PROVE  \E g: g = Collect(g, c, key, n)
  <1> DEFINE more(q, i) == Joined(q, DecryptBlock(c, i, key))
             none == {<< >>}
             F(g, k) == [i \in 1 .. k |-> IF i = 1 THEN none ELSE more(g[i - 1], i)]
             T == {k \in Nat: \E g: g = F(g, k)}
  <1>0. \A g: Collect(g, c, key, n) = F(g, n)
    BY DEF Collect
  <1> HIDE DEF more, none
  <1>1. 0 \in T
    <2> DEFINE z == F(<< >>, 0)
    <2>1. F(z, 0) = z
      OBVIOUS
    <2> HIDE DEF z
    <2> QED BY <2>1
  <1>2. ASSUME NEW k \in Nat, k \in T PROVE k + 1 \in T
    <2>1. PICK g: g = F(g, k)
      BY <1>2
    <2> DEFINE h == F(g, k + 1)
    <2>2. \A i \in 1 .. k: h[i] = g[i]
      BY <2>1
    <2>3. F(h, k + 1) = h
      <3> SUFFICES ASSUME NEW i \in 1 .. k + 1 PROVE F(h, k + 1)[i] = F(g, k + 1)[i]
        OBVIOUS
      <3>1. CASE i = 1
        BY <3>1
      <3>2. CASE i # 1
        <4>1. i - 1 \in 1 .. k
          BY <3>2
        <4>2. h[i - 1] = g[i - 1]
          BY <2>2, <4>1
        <4> HIDE DEF h
        <4> QED BY <3>2, <4>2
      <3> QED BY <3>1, <3>2
    <2> HIDE DEF h
    <2> QED BY <2>3
  <1>3. Nat \subseteq T
    <2> HIDE DEF T
    <2> QED BY <1>1, <1>2, Induction
  <1>4. n \in T
    BY <1>3
  <1>5. \E g: g = F(g, n)
    BY <1>4
  <1> HIDE DEF F
  <1> QED BY <1>0, <1>5

\* One plaintext and one block make one longer plaintext.
LEMMA JoinedOnes ==
    ASSUME NEW p, NEW b
    PROVE  Joined({p}, {b}) = {p \o b}
  BY DEF Joined

\* A prefix and the bytes behind it are a longer prefix.
LEMMA PrefixGrows ==
    ASSUME NEW p \in Seq(Byte), NEW a \in Nat, NEW b \in Nat, a <= b, b <= Len(p)
    PROVE  SubSeq(p, 1, a) \o SubSeq(p, a + 1, b) = SubSeq(p, 1, b)
  <1> DEFINE x == SubSeq(p, 1, a)
             y == SubSeq(p, a + 1, b)
             z == SubSeq(p, 1, b)
  <1>0. Len(p) \in Nat /\ \A i \in 1 .. Len(p): p[i] \in Byte
    BY LenProperties, ElementOfSeq
  <1>1. x \in Seq(Byte) /\ Len(x) = a /\ \A i \in 1 .. a: x[i] = p[i]
    <2>1. \A i \in 1 .. a: p[i] \in Byte
      BY <1>0
    <2>2. /\ x \in Seq(Byte) /\ Len(x) = IF 1 <= a THEN a - 1 + 1 ELSE 0
          /\ \A i \in 1 .. a - 1 + 1: x[i] = p[1 + i - 1]
      BY <2>1, SubSeqProperties
    <2> HIDE DEF x
    <2>3. Len(x) = a
      BY <2>2
    <2>4. \A i \in 1 .. a: x[i] = p[i]
      BY <2>2
    <2> QED BY <2>2, <2>3, <2>4
  <1>2. z \in Seq(Byte) /\ Len(z) = b /\ \A i \in 1 .. b: z[i] = p[i]
    <2>1. \A i \in 1 .. b: p[i] \in Byte
      BY <1>0
    <2>2. /\ z \in Seq(Byte) /\ Len(z) = IF 1 <= b THEN b - 1 + 1 ELSE 0
          /\ \A i \in 1 .. b - 1 + 1: z[i] = p[1 + i - 1]
      BY <2>1, SubSeqProperties
    <2> HIDE DEF z
    <2>3. Len(z) = b
      BY <2>2
    <2>4. \A i \in 1 .. b: z[i] = p[i]
      BY <2>2
    <2> QED BY <2>2, <2>3, <2>4
  <1>3. y \in Seq(Byte) /\ Len(y) = b - a /\ \A i \in 1 .. b - a: y[i] = p[a + i]
    <2>1. \A i \in a + 1 .. b: p[i] \in Byte
      BY <1>0
    <2>2. a + 1 \in Int /\ b \in Int
      OBVIOUS
    <2>3. /\ y \in Seq(Byte) /\ Len(y) = IF a + 1 <= b THEN b - (a + 1) + 1 ELSE 0
          /\ \A i \in 1 .. b - (a + 1) + 1: y[i] = p[(a + 1) + i - 1]
      BY <2>1, <2>2, SubSeqProperties
    <2> HIDE DEF y
    <2>4. Len(y) = b - a
      BY <2>3
    <2>5. ASSUME NEW i \in 1 .. b - a PROVE y[i] = p[a + i]
      <3>1. i \in 1 .. b - (a + 1) + 1 /\ (a + 1) + i - 1 = a + i
        OBVIOUS
      <3> QED BY <2>3, <3>1
    <2> QED BY <2>3, <2>4, <2>5
  <1> HIDE DEF x, y, z
  <1>4. /\ x \o y \in Seq(Byte) /\ Len(x \o y) = Len(x) + Len(y)
        /\ \A i \in 1 .. Len(x) + Len(y): (x \o y)[i] = IF i <= Len(x) THEN x[i] ELSE y[i - Len(x)]
    BY <1>1, <1>3, ConcatProperties
  <1>5. Len(x) + Len(y) = b
    BY <1>1, <1>3
  <1>6. \A i \in 1 .. b: (x \o y)[i] = z[i]
    <2> SUFFICES ASSUME NEW i \in 1 .. b PROVE (x \o y)[i] = z[i]
      OBVIOUS
    <2>1. CASE i <= a
      <3>1. i \in 1 .. a
        BY <2>1
      <3>2. (x \o y)[i] = x[i]
        BY <1>1, <1>4, <1>5, <2>1
      <3> QED BY <1>1, <1>2, <3>1, <3>2
    <2>2. CASE ~(i <= a)
      <3>1. i - a \in 1 .. b - a /\ a + (i - a) = i
        BY <2>2
      <3>2. (x \o y)[i] = y[i - a]
        BY <1>1, <1>4, <1>5, <2>2
      <3> QED BY <1>2, <1>3, <3>1, <3>2
    <2> QED BY <2>1, <2>2
  <1>7. x \o y = z
    BY <1>2, <1>4, <1>5, <1>6, SeqEqual
  <1> QED BY <1>7 DEF x, y, z

\* A ciphertext decrypts, under its key, to the padded plaintext alone.
LEMMA ChainDecrypts ==
    ASSUME NEW data \in Seq(Byte), NEW c, NEW key, NEW iv, Chained(c, data, key, iv)
    PROVE  Plaintexts(c, key) = {Pkcs7Pad(data)}
  <1> DEFINE P == Pkcs7Pad(data)
             m == Len(P) \div BlockSize
             upto == CHOOSE g: g = Collect(g, c, key, Len(c))
  <1>0. BlockSize \in Nat \ {0}
    BY CryptoAssumption
  <1>1. P \in Seq(Byte) /\ Len(P) \in Nat /\ m \in Nat /\ Len(P) = m * BlockSize
    <2>1. P \in Seq(Byte) /\ Len(P) = Len(data) + PadLength(data) /\ Len(data) \in Nat
      BY Padded, LenProperties
    <2>2. Len(P) % BlockSize = 0
      BY <1>0, <2>1, Completed DEF PadLength
    <2>3. Len(P) \in Nat
      BY <2>1, LenProperties
    <2> HIDE DEF P
    <2>4. m \in Nat /\ Len(P) = BlockSize * m + (Len(P) % BlockSize)
      BY <1>0, <2>3, Remainder
    <2>5. Len(P) = m * BlockSize
      BY <1>0, <2>2, <2>4
    <2> QED BY <2>1, <2>3, <2>4, <2>5
  <1>2. /\ Len(c) = m + 1
        /\ \A i \in 2 .. m + 1:
              c[i] = [key |-> key, prev |-> c[i - 1], plain |-> BlockOf(P, i - 1)]
    BY DEF Chained
  <1>3. Plaintexts(c, key) = upto[Len(c)]
    BY DEF Plaintexts, Collect, Joined
  <1>4. upto = Collect(upto, c, key, Len(c))
    <2>1. Len(c) \in Nat
      <3> HIDE DEF m
      <3> QED BY <1>1, <1>2
    <2>2. \E g: g = Collect(g, c, key, Len(c))
      BY <2>1, CollectExists, Zenon
    <2> QED BY <2>2, Zenon
  <1> HIDE DEF P, m, upto
  <1>5. upto[1] = {<< >>}
    <2>1. upto[1] = Collect(upto, c, key, Len(c))[1] /\ 1 \in 1 .. Len(c)
      BY <1>1, <1>2, <1>4
    <2> QED BY <2>1 DEF Collect
  <1>6. \A i \in 2 .. m + 1: upto[i] = Joined(upto[i - 1], {BlockOf(P, i - 1)})
    <2> SUFFICES ASSUME NEW i \in 2 .. m + 1
                 PROVE  upto[i] = Joined(upto[i - 1], {BlockOf(P, i - 1)})
      OBVIOUS
    <2>1. i \in 1 .. Len(c) /\ i # 1
      BY <1>1, <1>2
    <2>2. DecryptBlock(c, i, key) = {BlockOf(P, i - 1)}
      <3>1. c[i] = [key |-> key, prev |-> c[i - 1], plain |-> BlockOf(P, i - 1)]
        BY <1>2
      <3>2. c[i].key = key /\ c[i].prev = c[i - 1] /\ c[i].plain = BlockOf(P, i - 1)
        BY <3>1
      <3> QED BY <3>2 DEF DecryptBlock
    <2>3. upto[i] = Collect(upto, c, key, Len(c))[i]
      BY <1>4
    <2>4. upto[i] = Joined(upto[i - 1], DecryptBlock(c, i, key))
      BY <2>1, <2>3 DEF Collect
    <2> QED BY <2>2, <2>4
  <1> DEFINE T == {n \in Nat: n + 1 \in 1 .. m + 1 => upto[n + 1] = {SubSeq(P, 1, n * BlockSize)}}
  <1>7. 0 \in T
    <2>1. SubSeq(P, 1, 0) = << >>
      <3>1. /\ SubSeq(P, 1, 0) \in Seq(Byte)
            /\ Len(SubSeq(P, 1, 0)) = IF 1 <= 0 THEN 0 - 1 + 1 ELSE 0
        BY SubSeqProperties
      <3> QED BY <3>1, EmptySeq
    <2>2. 0 * BlockSize = 0 /\ 0 + 1 = 1
      BY <1>0
    <2>3. upto[0 + 1] = {SubSeq(P, 1, 0 * BlockSize)}
      BY <1>5, <2>1, <2>2
    <2> QED BY <2>3
  <1>8. ASSUME NEW n \in Nat, n \in T PROVE n + 1 \in T
    <2> SUFFICES ASSUME (n + 1) + 1 \in 1 .. m + 1
                 PROVE  upto[(n + 1) + 1] = {SubSeq(P, 1, (n + 1) * BlockSize)}
      OBVIOUS
    <2> DEFINE a == n * BlockSize
               b == (n + 1) * BlockSize
               i == (n + 1) + 1
    <2>1. i \in 2 .. m + 1 /\ i - 1 = n + 1 /\ n + 1 \in 1 .. m + 1 /\ (n + 1) - 1 = n /\ n + 1 <= m
      BY <1>1
    <2>2. a \in Nat /\ b \in Nat /\ b = a + BlockSize /\ a <= b /\ b <= Len(P)
      <3>1. a \in Nat /\ b = a + BlockSize
        BY <1>0
      <3>2. (n + 1) * BlockSize <= m * BlockSize
        BY <1>0, <1>1, <2>1
      <3> QED BY <1>0, <1>1, <3>1, <3>2
    <2>3. upto[n + 1] = {SubSeq(P, 1, a)}
      BY <1>8, <2>1
    <2>4. BlockOf(P, n + 1) = SubSeq(P, a + 1, b)
      BY <2>1 DEF BlockOf
    <2>5. upto[i] = Joined(upto[i - 1], {BlockOf(P, i - 1)})
      BY <1>6, <2>1
    <2> HIDE DEF a, b, i
    <2>6. upto[i] = {SubSeq(P, 1, a) \o SubSeq(P, a + 1, b)}
      BY <2>1, <2>3, <2>4, <2>5, JoinedOnes
    <2>7. upto[i] = {SubSeq(P, 1, b)}
      BY <1>1, <2>2, <2>6, PrefixGrows
    <2> QED BY <2>7 DEF b, i
  <1>9. Nat \subseteq T
    <2> HIDE DEF T
    <2> QED BY <1>7, <1>8, Induction
  <1>10. m \in T /\ m + 1 \in 1 .. m + 1
    BY <1>1, <1>9
  <1>11. upto[m + 1] = {SubSeq(P, 1, Len(P))}
    BY <1>1, <1>10
  <1>12. SubSeq(P, 1, Len(P)) = P
    <2>0. \A i \in 1 .. Len(P): P[i] \in Byte
      BY <1>1, ElementOfSeq
    <2>1. /\ SubSeq(P, 1, Len(P)) \in Seq(Byte)
          /\ Len(SubSeq(P, 1, Len(P))) = IF 1 <= Len(P) THEN Len(P) - 1 + 1 ELSE 0
          /\ \A i \in 1 .. Len(P) - 1 + 1: SubSeq(P, 1, Len(P))[i] = P[1 + i - 1]
      BY <1>1, <2>0, SubSeqProperties
    <2> DEFINE s == SubSeq(P, 1, Len(P))
    <2> HIDE DEF s
    <2>2. s \in Seq(Byte) /\ Len(s) = Len(P) /\ \A i \in 1 .. Len(P): s[i] = P[i]
      BY <1>1, <2>1 DEF s
    <2> QED BY <1>1, <2>2, SeqEqual DEF s
  <1> QED BY <1>2, <1>3, <1>11, <1>12 DEF P

\* The digest in the IV is of one plaintext only.
LEMMA OnePlaintext ==
    ASSUME NEW data, NEW key, NEW random, NEW e, NEW p,
           e[1] = [key |-> key, iv |-> HmacIv(data, key, random)], HmacGood(e, key, p)
    PROVE  p = data
  <1>1. e[1].iv = [mac |-> <<key, random, data>>, random |-> random]
    BY DEF HmacIv
  <1>2. e[1].iv.random = random /\ e[1].iv.mac = <<key, random, data>>
    BY <1>1
  <1>3. e[1].iv = [mac |-> <<key, random, p>>, random |-> random]
    BY <1>2 DEF HmacGood, HmacIv
  <1>4. <<key, random, data>> = <<key, random, p>>
    <2>1. e[1].iv.mac = <<key, random, p>>
      BY <1>3
    <2> QED BY <1>2, <2>1
  <1> QED BY <1>4

\* What a packet becomes by being cut, reordered or spliced has the IV of one of
\* the two it was made from, or none.
LEMMA AlteredIV ==
    ASSUME NEW S, NEW c \in Seq(S), NEW d \in Seq(S), Len(c) >= 1, Len(d) >= 1,
           NEW e \in Altered(c, d), e # << >>
    PROVE  e[1] = c[1] \/ e[1] = d[1]
  <1>0. Len(c) \in Nat /\ c = [i \in 1 .. Len(c) |-> c[i]]
    OBVIOUS
  <1>t. Tail(c) \in Seq(S) /\ Tail(d) \in Seq(S)
    <2>1. c # << >> /\ d # << >>
      OBVIOUS
    <2> QED BY <2>1, HeadTailProperties
  <1>1. CASE e \in {SubSeq(c, 1, n): n \in 0 .. Len(c)}
    <2>1. PICK n \in 0 .. Len(c): e = SubSeq(c, 1, n)
      BY <1>1
    <2>2. \A i \in 1 .. n: c[i] \in S
      BY <1>0, ElementOfSeq
    <2>3. /\ e \in Seq(S) /\ Len(e) = IF 1 <= n THEN n - 1 + 1 ELSE 0
          /\ \A i \in 1 .. n - 1 + 1: e[i] = c[1 + i - 1]
      BY <1>0, <2>1, <2>2, SubSeqProperties
    <2>4. n # 0
      <3>1. CASE n = 0
        <4>1. Len(e) = 0
          BY <2>3, <3>1
        <4> QED BY <2>3, <4>1, EmptySeq
      <3> QED BY <3>1
    <2>5. 1 \in 1 .. n - 1 + 1 /\ 1 + 1 - 1 = 1
      BY <1>0, <2>4
    <2> QED BY <2>3, <2>5
  <1>2. CASE e \in {[c EXCEPT ![i] = c[j], ![j] = c[i]]: i \in 2 .. Len(c), j \in 2 .. Len(c)}
    <2>1. PICK i \in 2 .. Len(c), j \in 2 .. Len(c): e = [c EXCEPT ![i] = c[j], ![j] = c[i]]
      BY <1>2
    <2>2. i # 1 /\ j # 1 /\ 1 \in 1 .. Len(c)
      BY <1>0
    <2> QED BY <1>0, <2>1, <2>2
  <1>3. CASE e = <<d[1]>> \o Tail(c)
    <2> DEFINE a == <<d[1]>>
    <2>1. d[1] \in S
      BY ElementOfSeq, LenProperties
    <2>2. a \in Seq(S) /\ Len(a) = 1 /\ a[1] = d[1]
      BY <2>1
    <2> HIDE DEF a
    <2>3. (a \o Tail(c))[1] = a[1]
      <3>1. Len(Tail(c)) \in Nat
        BY <1>t, LenProperties
      <3>2. 1 \in 1 .. Len(a) + Len(Tail(c)) /\ 1 <= Len(a)
        BY <2>2, <3>1
      <3>3. \A i \in 1 .. Len(a) + Len(Tail(c)):
               (a \o Tail(c))[i] = IF i <= Len(a) THEN a[i] ELSE Tail(c)[i - Len(a)]
        BY <1>t, <2>2, ConcatProperties
      <3> QED BY <3>2, <3>3
    <2> QED BY <1>3, <2>2, <2>3 DEF a
  <1>4. CASE e = c \o Tail(d)
    <2>1. Len(Tail(d)) \in Nat
      BY <1>t, LenProperties
    <2>2. 1 \in 1 .. Len(c) + Len(Tail(d)) /\ 1 <= Len(c)
      BY <1>0, <2>1
    <2>3. \A i \in 1 .. Len(c) + Len(Tail(d)):
             (c \o Tail(d))[i] = IF i <= Len(c) THEN c[i] ELSE Tail(d)[i - Len(c)]
      BY <1>t, ConcatProperties
    <2> QED BY <1>4, <2>2, <2>3
  <1> QED BY <1>1, <1>2, <1>3, <1>4 DEF Altered

\* Packets of any length, under any key and random bytes: a packet decrypts to what was
\* encrypted, not at all under another key, and whatever it is cut to, reordered or
\* spliced with, to nothing that was not encrypted (SymmetricDecrypt checks the HMAC).
THEOREM PacketsSealed ==
    ASSUME NEW data \in Seq(Byte) \ {<< >>}, NEW other \in Seq(Byte) \ {<< >>}, NEW key
    PROVE  Authentic(data, key, other)
  <1> SUFFICES ASSUME NEW random \in Randoms, NEW fresh \in Randoms
               PROVE  LET c == SymmetricEncryptWithHmacIv(data, key, random)
                          d == SymmetricEncryptWithHmacIv(other, key, fresh)
                      IN  /\ SymmetricDecrypt(c, key, TRUE) = {data}
                          /\ \A k \in SessionKeys \ {key}: SymmetricDecrypt(c, k, TRUE) = {}
                          /\ \A e \in Altered(c, d):
                                SymmetricDecrypt(e, key, TRUE) \subseteq {data, other}
    BY DEF Authentic
  <1> DEFINE iv == HmacIv(data, key, random)
             div == HmacIv(other, key, fresh)
             c == SymmetricEncryptWithHmacIv(data, key, random)
             d == SymmetricEncryptWithHmacIv(other, key, fresh)
  <1>1. Chained(c, data, key, iv) /\ Chained(d, other, key, div)
    BY EncryptedChain DEF SymmetricEncryptWithHmacIv
  <1> HIDE DEF c, d
  <1>2. c[1] = [key |-> key, iv |-> iv] /\ d[1] = [key |-> key, iv |-> div]
    BY <1>1 DEF Chained
  <1>3. \E S: c \in Seq(S) /\ d \in Seq(S) /\ Len(c) >= 1 /\ Len(d) >= 1
    <2>1. PICK S1: c \in Seq(S1)
      BY <1>1 DEF Chained
    <2>2. PICK S2: d \in Seq(S2)
      BY <1>1 DEF Chained
    <2>3. Len(Pkcs7Pad(data)) \div BlockSize \in Nat /\ Len(Pkcs7Pad(other)) \div BlockSize \in Nat
      BY Padded, LenProperties, Remainder, CryptoAssumption
    <2>4. Len(c) >= 1 /\ Len(d) >= 1
      BY <1>1, <2>3 DEF Chained
    <2>5. c \in Seq(S1 \cup S2) /\ d \in Seq(S1 \cup S2)
      BY <2>1, <2>2
    <2> QED BY <2>4, <2>5
  <1>4. c # << >>
    BY <1>3
  <1>5. SymmetricDecrypt(c, key, TRUE) = {data}
    <2>1. Plaintexts(c, key) = {Pkcs7Pad(data)}
      BY <1>1, ChainDecrypts
    <2>2. Pkcs7Unpad(Pkcs7Pad(data)) = {data}
      BY UnpaddingInvertsPadding DEF PaddingInverse
    <2>3. HmacGood(c, key, data)
      <3>1. c[1].key = key /\ c[1].iv = iv
        BY <1>2
      <3>2. iv.random = random
        BY DEF HmacIv
      <3> QED BY <3>1, <3>2 DEF HmacGood
    <2>4. SymmetricDecrypt(c, key, TRUE)
            = {p \in UNION {Pkcs7Unpad(q): q \in Plaintexts(c, key)}: HmacGood(c, key, p)}
      BY <1>4, Zenon DEF SymmetricDecrypt
    <2>5. UNION {Pkcs7Unpad(q): q \in Plaintexts(c, key)} = {data}
      BY <2>1, <2>2, Zenon
    <2> QED BY <2>3, <2>4, <2>5, Zenon
  <1>6. ASSUME NEW k \in SessionKeys \ {key} PROVE SymmetricDecrypt(c, k, TRUE) = {}
    <2>1. c[1].key # k
      BY <1>2
    <2>2. \A p: ~HmacGood(c, k, p)
      BY <2>1 DEF HmacGood
    <2> QED BY <2>2, Zenon DEF SymmetricDecrypt
  <1>7. ASSUME NEW e \in Altered(c, d)
        PROVE  SymmetricDecrypt(e, key, TRUE) \subseteq {data, other}
    <2>1. CASE e = << >>
      BY <2>1, Zenon DEF SymmetricDecrypt
    <2>2. CASE e # << >>
      <3>1. e[1] = c[1] \/ e[1] = d[1]
        BY <1>3, <2>2, AlteredIV
      <3>2. ASSUME NEW p, HmacGood(e, key, p) PROVE p \in {data, other}
        <4>1. CASE e[1] = c[1]
          BY <1>2, <3>2, <4>1, OnePlaintext
        <4>2. CASE e[1] = d[1]
          BY <1>2, <3>2, <4>2, OnePlaintext
        <4> QED BY <3>1, <4>1, <4>2
      <3>3. \A p \in SymmetricDecrypt(e, key, TRUE): HmacGood(e, key, p)
        BY <2>2, Zenon DEF SymmetricDecrypt
      <3> QED BY <3>2, <3>3, Zenon
    <2> QED BY <2>1, <2>2
  <1> QED BY <1>5, <1>6, <1>7 DEF c, d

-----------------------------------------------------------------------------
(* Authentication codes.                                                   *)

\* Every HMAC-SHA1 digest.
Octets == 0 .. 255
AllDigests == [1 .. DigestLength -> Octets]

\* The bytes of a digest.
LEMMA BytesOfDigest ==
    ASSUME NEW digest \in AllDigests
    PROVE  /\ digest \in [1 .. 20 -> Octets]
           /\ \A i \in 1 .. 20: digest[i] \in 0 .. 255
  <1>1. digest \in [1 .. 20 -> Octets]
    BY SMT DEF AllDigests, DigestLength
  <1>2. \A i \in 1 .. 20: digest[i] \in Octets
    BY <1>1, Zenon
  <1> QED BY <1>1, <1>2, Zenon DEF Octets

\* The digits of a number in base 26.
LEMMA Digits ==
    ASSUME NEW n \in Nat
    PROVE  (n % 26) + 26 * ((n \div 26) % 26) + 676 * ((n \div 676) % 26)
             + 17576 * ((n \div 17576) % 26) + 456976 * ((n \div 456976) % 26)
           = n % 11881376
  <1> DEFINE a == n \div 26
             b == n \div 676
             c == n \div 17576
             d == n \div 456976
             e == n \div 11881376
  <1>1. /\ a \in Nat /\ b \in Nat /\ c \in Nat /\ d \in Nat /\ e \in Nat
    BY SMT
  <1>2. n = 26 * a + (n % 26)
    BY SMT
  <1>3. n = 11881376 * e + (n % 11881376)
    BY SMT
  <1>4. b = a \div 26
    BY SMT
  <1>5. c = b \div 26
    BY SMT
  <1>6. d = c \div 26
    BY SMT
  <1>7. e = d \div 26
    BY SMT
  <1>8. n % 26 \in Nat /\ n % 11881376 \in Nat
    BY SMT
  <1> HIDE DEF a, b, c, d, e
  <1>9. /\ a = 26 * b + (a % 26) /\ b = 26 * c + (b % 26)
        /\ c = 26 * d + (c % 26) /\ d = 26 * e + (d % 26)
    BY <1>1, <1>4, <1>5, <1>6, <1>7, SMT
  <1>10. (n % 26) + 26 * (a % 26) + 676 * (b % 26) + 17576 * (c % 26) + 456976 * (d % 26)
           = n % 11881376
    BY <1>1, <1>2, <1>3, <1>8, <1>9, SMT
  <1> QED BY <1>10, SMT DEF a, b, c, d, e

\* The offset never points beyond the digest, so that there always is a code.
LEMMA OffsetInDigest ==
    ASSUME NEW digest \in AllDigests
    PROVE  DynamicOffset(digest) \in 0 .. 15
  <1>1. 20 \in 1 .. 20
    BY SMT
  <1>2. digest[20] \in 0 .. 255
    <2>1. \A i \in 1 .. 20: digest[i] \in 0 .. 255
      BY BytesOfDigest, Zenon
    <2> QED BY <1>1, <2>1, SMT
  <1> QED BY <1>2, SMT DEF DynamicOffset, DigestLength

\* The code, when the offset is known.
LEMMA CodeOfOffset ==
    ASSUME NEW digest \in AllDigests, NEW o, o = DynamicOffset(digest)
    PROVE  CreateAuthenticationCode(digest)
             = [i \in 1 .. CodeLength |-> (BinaryCode(digest, o) \div CharSet ^ (i - 1)) % CharSet]
  <1>1. o \in 0 .. 15
    BY OffsetInDigest, SMT
  <1>2. ~(o + 4 > DigestLength)
    BY <1>1, SMT DEF DigestLength
  <1> QED BY <1>2, Zenon DEF CreateAuthenticationCode

\* Two digests that agree in the 31 bits at the offset, and in the offset, have
\* one code.
LEMMA CodeOfBits ==
    ASSUME NEW digest \in AllDigests, NEW other \in AllDigests,
           NEW o, o = DynamicOffset(digest), o = DynamicOffset(other),
           digest[o + 1] % 128 = other[o + 1] % 128, digest[o + 2] = other[o + 2],
           digest[o + 3] = other[o + 3], digest[o + 4] = other[o + 4]
    PROVE  CreateAuthenticationCode(digest) = CreateAuthenticationCode(other)
  <1>1. BinaryCode(digest, o) = BinaryCode(other, o)
    BY SMT DEF BinaryCode
  <1>2. CreateAuthenticationCode(digest)
          = [i \in 1 .. CodeLength |-> (BinaryCode(digest, o) \div CharSet ^ (i - 1)) % CharSet]
    BY CodeOfOffset
  <1>3. CreateAuthenticationCode(other)
          = [i \in 1 .. CodeLength |-> (BinaryCode(other, o) \div CharSet ^ (i - 1)) % CharSet]
    BY CodeOfOffset
  <1> QED BY <1>1, <1>2, <1>3, Zenon

\* Every digest gives a code of five letters, the digits of the 31 bits at its offset,
\* whatever its other bytes and the highest bit are (createAuthenticationCode).
THEOREM EveryDigestHasItsCode ==
    ASSUME NEW digest \in AllDigests, NEW other \in AllDigests
    PROVE  CodeOfDigest(digest, other)
  <1> DEFINE o == DynamicOffset(digest)
             n == BinaryCode(digest, o)
             code == CreateAuthenticationCode(digest)
             same == [i \in 1 .. DigestLength |->
                        IF i \in o + 1 .. o + 4 \/ i = DigestLength THEN digest[i] ELSE other[i]]
             high == [digest EXCEPT ![o + 1] = (@ + 128) % 256]
  <1>1. o \in 0 .. 15
    BY OffsetInDigest, SMT
  <1>2. \A i \in 1 .. 20: digest[i] \in 0 .. 255 /\ other[i] \in 0 .. 255
    BY BytesOfDigest, Zenon
  <1>3. code = [i \in 1 .. 5 |-> (n \div 26 ^ (i - 1)) % 26]
    BY CodeOfOffset, SMT DEF CodeLength, CharSet
  <1>o. DynamicOffset(digest) = o
    BY SMT
  <1>n. BinaryCode(digest, o) = n
    BY SMT
  <1>c. CreateAuthenticationCode(digest) = code
    BY SMT
  <1> HIDE DEF o, code
  <1>4. n \in Nat
    <2>1. /\ digest[o + 1] \in Nat /\ digest[o + 2] \in Nat
          /\ digest[o + 3] \in Nat /\ digest[o + 4] \in Nat
      <3>1. o + 1 \in 1 .. 20 /\ o + 2 \in 1 .. 20 /\ o + 3 \in 1 .. 20 /\ o + 4 \in 1 .. 20
        BY <1>1, SMT
      <3>2. /\ digest[o + 1] \in 0 .. 255 /\ digest[o + 2] \in 0 .. 255
            /\ digest[o + 3] \in 0 .. 255 /\ digest[o + 4] \in 0 .. 255
        BY <1>2, <3>1, Zenon
      <3>3. 0 .. 255 \subseteq Nat
        BY SMT
      <3> QED BY <3>2, <3>3, Zenon
    <2>2. 2 ^ 24 = 16777216 /\ 2 ^ 16 = 65536 /\ 2 ^ 8 = 256
      BY SMT
    <2>3. digest[o + 1] % 128 \in Nat
      BY <2>1, SMT
    <2>4. n = (digest[o + 1] % 128) * 16777216 + digest[o + 2] * 65536
                + digest[o + 3] * 256 + digest[o + 4]
      BY <2>2, SMT DEF BinaryCode
    <2> HIDE DEF n
    <2> QED BY <2>1, <2>3, <2>4, SMT
  <1> HIDE DEF n
  <1>5. Len(code) = 5
    <2> DEFINE S == {code[i]: i \in 1 .. 5}
    <2>1. code \in [1 .. 5 -> S]
      BY <1>3, SMT
    <2> HIDE DEF S
    <2> QED BY <2>1, FunctionIsSeq, SMT
  <1>6. code[1] + 26 * code[2] + 676 * code[3] + 17576 * code[4] + 456976 * code[5]
          = n % (26 ^ 5)
    <2>1. /\ 26 ^ (1 - 1) = 1 /\ 26 ^ (2 - 1) = 26 /\ 26 ^ (3 - 1) = 676
          /\ 26 ^ (4 - 1) = 17576 /\ 26 ^ (5 - 1) = 456976 /\ 26 ^ 5 = 11881376
      BY SMT
    <2>2. n \div 1 = n
      BY <1>4, SMT
    <2>3. /\ code[1] = (n \div 26 ^ (1 - 1)) % 26 /\ code[2] = (n \div 26 ^ (2 - 1)) % 26
          /\ code[3] = (n \div 26 ^ (3 - 1)) % 26 /\ code[4] = (n \div 26 ^ (4 - 1)) % 26
          /\ code[5] = (n \div 26 ^ (5 - 1)) % 26
      BY <1>3, SMT
    <2>4. /\ code[1] = n % 26 /\ code[2] = (n \div 26) % 26 /\ code[3] = (n \div 676) % 26
          /\ code[4] = (n \div 17576) % 26 /\ code[5] = (n \div 456976) % 26
      BY <2>1, <2>2, <2>3, SMT
    <2> QED BY <1>4, <2>1, <2>4, Digits, SMT
  <1>7. CreateAuthenticationCode(same) = code
    <2>1. /\ \A i \in o + 1 .. o + 4: same[i] = digest[i]
          /\ same[20] = digest[20]
      BY <1>1, SMT DEF DigestLength
    <2>2. same \in AllDigests
      <3>1. digest \in [1 .. 20 -> Octets] /\ other \in [1 .. 20 -> Octets]
        BY BytesOfDigest, Zenon
      <3>2. DigestLength = 20 /\ AllDigests = [1 .. 20 -> Octets]
        BY SMT DEF DigestLength, AllDigests
      <3> QED BY <3>1, <3>2, SMT
    <2> HIDE DEF same
    <2>3. DynamicOffset(same) = o
      BY <1>o, <2>1, SMT DEF DynamicOffset, DigestLength
    <2>4. /\ same[o + 1] = digest[o + 1] /\ same[o + 2] = digest[o + 2]
          /\ same[o + 3] = digest[o + 3] /\ same[o + 4] = digest[o + 4]
      BY <1>1, <2>1, SMT
    <2> QED BY <1>o, <1>c, <2>2, <2>3, <2>4, CodeOfBits, SMT
  <1>8. CreateAuthenticationCode(high) = code
    <2> DEFINE x == (digest[o + 1] + 128) % 256
    <2>1. /\ digest[o + 1] \in 0 .. 255 /\ o + 1 \in 1 .. 20
          /\ 20 # o + 1 /\ o + 2 # o + 1 /\ o + 3 # o + 1 /\ o + 4 # o + 1
          /\ o + 2 \in 1 .. 20 /\ o + 3 \in 1 .. 20 /\ o + 4 \in 1 .. 20
      <3>1. /\ o + 1 \in 1 .. 20 /\ 20 # o + 1 /\ o + 2 # o + 1 /\ o + 3 # o + 1 /\ o + 4 # o + 1
            /\ o + 2 \in 1 .. 20 /\ o + 3 \in 1 .. 20 /\ o + 4 \in 1 .. 20
        BY <1>1, SMT
      <3> QED BY <1>2, <3>1, Zenon
    <2>2. x \in 0 .. 255 /\ x % 128 = digest[o + 1] % 128
      BY <2>1, SMT
    <2>h. high = [digest EXCEPT ![o + 1] = x]
      BY SMT
    <2> HIDE DEF x, high
    <2>3. high \in AllDigests
      <3>1. digest \in [1 .. 20 -> Octets] /\ x \in Octets
        BY <2>2, BytesOfDigest, Zenon DEF Octets
      <3>2. high \in [1 .. 20 -> Octets]
        <4> DEFINE places == 1 .. 20
                   place == o + 1
        <4>1. digest \in [places -> Octets] /\ high = [digest EXCEPT ![place] = x]
          BY <2>h, <3>1, Zenon
        <4> HIDE DEF places, place
        <4>2. high \in [places -> Octets]
          BY <3>1, <4>1
        <4> QED BY <4>2, Zenon DEF places
      <3> QED BY <3>2, SMT DEF AllDigests, DigestLength
    <2>4. /\ high[o + 1] = x /\ high[o + 2] = digest[o + 2] /\ high[o + 3] = digest[o + 3]
          /\ high[o + 4] = digest[o + 4] /\ high[20] = digest[20]
      <3>1. digest \in [1 .. 20 -> Octets]
        BY BytesOfDigest, Zenon
      <3>2. /\ \A j \in 1 .. 20: j # o + 1 => high[j] = digest[j]
            /\ high[o + 1] = x /\ 20 \in 1 .. 20
        BY <2>1, <2>h, <3>1, SMT
      <3> QED BY <2>1, <3>2, Zenon
    <2>5. DynamicOffset(high) = o
      BY <1>o, <2>4, SMT DEF DynamicOffset, DigestLength
    <2> QED BY <1>o, <1>c, <2>2, <2>3, <2>4, <2>5, CodeOfBits, SMT
  <1> HIDE DEF same, high
  <1> QED BY <1>5, <1>6, <1>7, <1>8, <1>n, SMT DEF CodeOfDigest, code, o, CodeLength, same, high

-----------------------------------------------------------------------------
(* The inputs that are picked.                                             *)

\* What a step may have picked.
Picked ==
    \/ input = [kind |-> "none"]
    \/ \E sid \in SteamIDs: input = [kind |-> "sid", sid |-> sid]
    \/ \E m \in AllMessages: \E cut \in 0 .. Len(Write(m)):
          input = [kind |-> "message", m |-> m, cut |-> cut]
    \/ \E sizes \in Seq(Nat): \E cut \in 0 .. Position(sizes)[Len(sizes) + 1]:
          input = [kind |-> "multi", sizes |-> sizes, cut |-> cut]
    \/ \E data \in Seq(Byte): input = [kind |-> "padding", data |-> data]
    \/ \E data, other \in Seq(Byte) \ {<< >>}, key \in SessionKeys:
          input = [kind |-> "plain", data |-> data, other |-> other, key |-> key]
    \/ \E digest, other \in AllDigests:
          input = [kind |-> "digest", digest |-> digest, other |-> other]

\* The inputs within the bounds are among those the theorems above are about.
LEMMA BoundedInputs ==
    /\ Messages \subseteq AllMessages
    /\ \A n \in Nat: Data(n) \subseteq Seq(Byte)
    /\ UNION {[1 .. k -> 3 .. MaxSize]: k \in 1 .. 3} \subseteq Seq(Nat)
    /\ Digests \subseteq AllDigests
    /\ \A b \in DigestBytes: [i \in 1 .. DigestLength |-> b] \in AllDigests
  <1>1. Messages \subseteq AllMessages
    BY BoundsAssumption DEF Messages, AllMessages
  <1>2. \A n \in Nat: Data(n) \subseteq Seq(Byte)
    <2> SUFFICES ASSUME NEW n \in Nat, NEW k \in 0 .. n, NEW f \in [1 .. k -> Byte]
                 PROVE  f \in Seq(Byte)
      BY DEF Data
    <2> QED BY FunctionIsSeq
  <1>3. UNION {[1 .. k -> 3 .. MaxSize]: k \in 1 .. 3} \subseteq Seq(Nat)
    <2> SUFFICES ASSUME NEW k \in 1 .. 3, NEW f \in [1 .. k -> 3 .. MaxSize]
                 PROVE  f \in Seq(Nat)
      OBVIOUS
    <2>1. f \in [1 .. k -> Nat]
      BY BoundsAssumption
    <2> QED BY <2>1, FunctionIsSeq
  <1>4. Digests \subseteq AllDigests
    <2> SUFFICES ASSUME NEW digest \in Digests PROVE digest \in AllDigests
      BY Zenon
    <2>2. PICK a \in DigestBytes, b \in DigestBytes, l \in 0 .. 255:
             digest = [i \in 1 .. DigestLength |->
                         IF i = DigestLength THEN l ELSE IF i % 2 = 0 THEN a ELSE b]
      BY SMT DEF Digests
    <2>3. l \in Octets
      BY Zenon DEF Octets
    <2>1. DigestBytes \subseteq Octets
      BY BoundsAssumption, Zenon DEF Octets
    <2> QED BY <2>1, <2>2, <2>3, SMT DEF AllDigests
  <1>5. \A b \in DigestBytes: [i \in 1 .. DigestLength |-> b] \in AllDigests
    <2>1. DigestBytes \subseteq Octets
      BY BoundsAssumption, Zenon DEF Octets
    <2> QED BY <2>1, SMT DEF AllDigests
  <1> QED BY <1>1, <1>2, <1>3, <1>4, <1>5

\* Init and every step pick one of these inputs.
LEMMA InputPicked == Spec => []Picked
  <1>1. Init => Picked
    BY DEF Init, Picked
  <1>2. Picked /\ [Next]_vars => Picked'
    <2> SUFFICES ASSUME Picked, [Next]_vars PROVE Picked'
      OBVIOUS
    <2>1. CASE UNCHANGED vars
      BY <2>1 DEF Picked, vars
    <2>2. CASE PickSteamID
      BY <2>2 DEF PickSteamID, Picked
    <2>3. CASE PickMessage
      BY <2>3, BoundedInputs DEF PickMessage, Picked
    <2>4. CASE PickMulti
      BY <2>4, BoundedInputs DEF PickMulti, Picked
    <2>5. CASE PickPadding
      BY <2>5, BoundedInputs, BoundsAssumption DEF PickPadding, Picked
    <2>6. CASE PickPlain
      BY <2>6, BoundedInputs, BoundsAssumption DEF PickPlain, Picked
    <2>7. CASE PickDigest
      BY <2>7, BoundedInputs DEF PickDigest, Picked
    <2> QED BY <2>1, <2>2, <2>3, <2>4, <2>5, <2>6, <2>7 DEF Next
  <1> QED BY <1>1, <1>2, PTL DEF Spec

\* The kind of what was picked tells what it is.
LEMMA KindOfInput ==
    ASSUME Picked
    PROVE  /\ input.kind = "sid" => input.sid \in SteamIDs
           /\ input.kind = "message" => /\ input.m \in AllMessages
                                        /\ input.cut \in 0 .. Len(Write(input.m))
           /\ input.kind = "multi" =>
                 /\ input.sizes \in Seq(Nat)
                 /\ input.cut \in 0 .. Position(input.sizes)[Len(input.sizes) + 1]
           /\ input.kind = "padding" => input.data \in Seq(Byte)
           /\ input.kind = "plain" => /\ input.data \in Seq(Byte) \ {<< >>}
                                      /\ input.other \in Seq(Byte) \ {<< >>}
           /\ input.kind = "digest" => input.digest \in AllDigests /\ input.other \in AllDigests
  BY DEF Picked

\* SteamIDs of every width: SteamIDsKept is what SteamIDsSound says of the one picked.
THEOREM SteamIDsStayKept == Spec => []SteamIDsKept
  <1>1. Picked => SteamIDsKept
    BY KindOfInput, SteamIDsSound DEF SteamIDsKept
  <1> QED BY <1>1, InputPicked, PTL

\* Messages and Multis, whatever the bounds: readMessage reads what Write wrote, and
\* handleMulti splits a Multi exactly.
THEOREM PacketsStayRead == Spec => []PacketsRead
  <1>1. Picked => PacketsRead
    BY KindOfInput, HeadersReadBack, MultisSplit DEF PacketsRead
  <1> QED BY <1>1, InputPicked, PTL

\* Padded and encrypted data, whatever the bounds, bytes, keys and block size.
THEOREM PacketsStayAuthentic == Spec => []PacketsAuthentic
  <1>1. Picked => PacketsAuthentic
    BY KindOfInput, UnpaddingInvertsPadding, PacketsSealed DEF PacketsAuthentic
  <1> QED BY <1>1, InputPicked, PTL

\* Digests of any bytes: each has its code.
THEOREM DigestsHaveCodes == Spec => []CodesOfDigests
  <1>1. Picked => CodesOfDigests
    BY KindOfInput, EveryDigestHasItsCode DEF CodesOfDigests
  <1> QED BY <1>1, InputPicked, PTL
=============================================================================
