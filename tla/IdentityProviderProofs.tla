----------------------- MODULE IdentityProviderProofs -----------------------
(***************************************************************************)
(* Proofs about IdentityProvider, for any callers, offers and bound.       *)
(*                                                                         *)
(* The inductive invariant adds to the properties what an operation knows  *)
(* at each of its steps: which session it is about, and that Steam issued  *)
(* tokens for good reason.                                                 *)
(***************************************************************************)
EXTENDS IdentityProvider, TLAPS

\* A caller past the opening of a session has one, and did not come from
\* BeginAuthSession; a caller that is to submit or wait was given one.
HasSession ==
    \A c \in Callers:
        /\ pc[c] \in {"update", "poll", "sleep"} => op[c] # "begin" /\ sess[c] # 0
        /\ op[c] \in {"submit", "wait"} => sess[c] # 0

\* Every token was issued for an accepted code or a confirmation.
TokensEarned ==
    \A s \in approved: s \in coded \/ pickConfirmationType(s) # << >>

IInv == TypeOK /\ HasSession /\ NoNeedlessLogin /\ TokensEarned /\ IdentityEarned

-----------------------------------------------------------------------------
\* A provider without sessions satisfies the invariant.
LEMMA IInvInit == Init => IInv
  <1> SUFFICES ASSUME Init PROVE IInv
    OBVIOUS
  <1> USE ProviderAssumption
  <1>1. TypeOK
    <2>1. fresh \in BOOLEAN
      BY Zenon DEF Init
    <2> QED BY <2>1 DEF Init, TypeOK, Sessions, Ops
  <1>2. HasSession /\ NoNeedlessLogin
    BY DEF Init, HasSession, NoNeedlessLogin, Login
  <1>3. TokensEarned /\ IdentityEarned
    BY DEF Init, TokensEarned, IdentityEarned
  <1> QED BY <1>1, <1>2, <1>3 DEF IInv

\* Updating a function to 0 .. n, and letting n grow.
LEMMA UpdateBounded ==
    ASSUME NEW n \in Nat, NEW m \in Nat, n <= m, NEW S, NEW g \in [S -> 0 .. n],
           NEW x \in S, NEW v \in 0 .. m
    PROVE  g \in [S -> 0 .. m] /\ [g EXCEPT ![x] = v] \in [S -> 0 .. m]
  OBVIOUS

\* A call changes nothing but the caller's own variables.
LEMMA CallStep ==
    ASSUME IInv, NEW c \in Callers, NEW o \in Ops, NEW s \in {0} \cup Sessions, Call(c, o, s)
    PROVE  IInv'
  <1> USE ProviderAssumption DEF IInv
  <1>1. TypeOK'
    <2>1. fresh' \in BOOLEAN
      BY Zenon DEF Call, TypeOK
    <2>2. /\ op' \in [Callers -> Ops \cup {"none"}]
          /\ pc' \in [Callers -> {"idle", "lock"} \cup Login]
      BY DEF Call, TypeOK
    <2>3. /\ sess' \in [Callers -> 0 .. Len(allowed)]
          /\ ret' \in [Callers -> 0 .. Len(allowed)]
      <3>1. Len(allowed) \in Nat /\ s \in 0 .. Len(allowed) /\ 0 \in 0 .. Len(allowed)
        BY DEF TypeOK, Sessions
      <3>2. /\ sess \in [Callers -> 0 .. Len(allowed)]
            /\ ret \in [Callers -> 0 .. Len(allowed)]
        BY DEF TypeOK
      <3>3. /\ [sess EXCEPT ![c] = s] \in [Callers -> 0 .. Len(allowed)]
            /\ [ret EXCEPT ![c] = 0] \in [Callers -> 0 .. Len(allowed)]
        BY <3>1, <3>2
      <3> QED BY <3>2, <3>3 DEF Call
    <2> QED BY <2>1, <2>2, <2>3 DEF Call, TypeOK, Sessions, steamVars
  <1>2. HasSession'
    BY DEF Call, HasSession, TypeOK, Sessions, Ops
  <1>3. NoNeedlessLogin'
    BY DEF Call, NoNeedlessLogin, Cached, TypeOK, Login
  <1>4. TokensEarned' /\ IdentityEarned'
    BY DEF Call, TokensEarned, IdentityEarned, pickConfirmationType, steamVars
  <1> QED BY <1>1, <1>2, <1>3, <1>4

\* Taking the mutex: the cache is looked at under it.
LEMMA LockStep ==
    ASSUME IInv, NEW c \in Callers, Lock(c)
    PROVE  IInv'
  <1> USE ProviderAssumption DEF IInv
  <1>0. FirstStep(op[c]) \in Login
    BY DEF FirstStep, Login
  <1>1. TypeOK'
    <2>1. fresh' \in BOOLEAN
      BY Zenon DEF Lock, TypeOK
    <2>2. /\ op' \in [Callers -> Ops \cup {"none"}]
          /\ pc' \in [Callers -> {"idle", "lock"} \cup Login]
          /\ mutex' \in Callers \cup {Nobody} /\ cancelled' \subseteq Callers
      BY <1>0 DEF Lock, Return, TypeOK
    <2>3. /\ sess' \in [Callers -> 0 .. Len(allowed)]
          /\ ret' \in [Callers -> 0 .. Len(allowed)]
      <3>1. Len(allowed) \in Nat /\ identity \in 0 .. Len(allowed) /\ 0 \in 0 .. Len(allowed)
        BY DEF TypeOK
      <3>2. /\ sess \in [Callers -> 0 .. Len(allowed)]
            /\ ret \in [Callers -> 0 .. Len(allowed)]
        BY DEF TypeOK
      <3>3. /\ [sess EXCEPT ![c] = 0] \in [Callers -> 0 .. Len(allowed)]
            /\ [ret EXCEPT ![c] = identity] \in [Callers -> 0 .. Len(allowed)]
        BY <3>1, <3>2
      <3> QED BY <3>2, <3>3 DEF Lock, Return
    <2> QED BY <2>1, <2>2, <2>3 DEF Lock, TypeOK, Sessions, steamVars
  <1>2. HasSession'
    BY DEF Lock, Return, HasSession, TypeOK, FirstStep
  <1>3. NoNeedlessLogin'
    BY <1>0 DEF Lock, Return, NoNeedlessLogin, Cached, TypeOK, Login
  <1>4. TokensEarned' /\ IdentityEarned'
    BY DEF Lock, TokensEarned, IdentityEarned, pickConfirmationType, steamVars
  <1> QED BY <1>1, <1>2, <1>3, <1>4

\* An operation that fails while it holds the mutex.
LEMMA ErrorStep ==
    ASSUME IInv, NEW c \in Callers, pc[c] \in Login, ReturnError(c)
    PROVE  IInv'
  <1> USE ProviderAssumption DEF IInv
  <1>1. TypeOK'
    <2>1. fresh' \in BOOLEAN
      BY Zenon DEF ReturnError, TypeOK
    <2> QED BY <2>1 DEF ReturnError, Return, TypeOK, Sessions, Ops, steamVars
  <1>2. HasSession'
    BY DEF ReturnError, Return, HasSession, TypeOK
  <1>3. NoNeedlessLogin'
    BY DEF ReturnError, Return, NoNeedlessLogin, Cached, TypeOK, Login
  <1>4. TokensEarned' /\ IdentityEarned'
    BY DEF ReturnError, TokensEarned, IdentityEarned, pickConfirmationType, steamVars
  <1> QED BY <1>1, <1>2, <1>3, <1>4

\* A new session comes after the others, which stay what they were.
LEMMA OpenStep ==
    ASSUME IInv, NEW c \in Callers, Open(c)
    PROVE  IInv'
  <1> USE ProviderAssumption DEF IInv
  <1>1. CASE ReturnError(c)
    BY <1>1, ErrorStep DEF Open, Login
  <1>2. CASE /\ OpenSession(c)
             /\ IF op[c] = "identity" /\ HasSecret
                THEN Goto(c, "update") /\ sess' = [sess EXCEPT ![c] = Len(allowed) + 1]
                ELSE /\ Return(c, IF op[c] = "begin" THEN Len(allowed) + 1 ELSE 0)
                     /\ UNCHANGED <<identity, fresh>>
    <2>1. /\ allowed' \in Seq(SUBSET GuardTypes) /\ Len(allowed') = Len(allowed) + 1
          /\ \A s \in Sessions: allowed'[s] = allowed[s]
          /\ Len(allowed') <= MaxSessions /\ Len(allowed) \in Nat
          /\ UNCHANGED <<coded, approved>>
      <3>1. PICK types \in Offers: allowed' = Append(allowed, types)
        BY <1>2 DEF OpenSession
      <3>2. types \in SUBSET GuardTypes
        BY <3>1
      <3> QED BY <1>2, <3>1, <3>2 DEF OpenSession, TypeOK, Sessions
    <2>2. pc[c] = "open"
      BY DEF Open
    <2>3. TypeOK'
      <3>1. fresh' \in BOOLEAN
        BY <1>2, Zenon DEF Goto, TypeOK
      <3>2. /\ op' \in [Callers -> Ops \cup {"none"}]
            /\ pc' \in [Callers -> {"idle", "lock"} \cup Login]
            /\ mutex' \in Callers \cup {Nobody} /\ cancelled' \subseteq Callers
        BY <1>2 DEF Goto, Return, TypeOK, Login
      <3>3. /\ sess' \in [Callers -> 0 .. Len(allowed')]
            /\ ret' \in [Callers -> 0 .. Len(allowed')]
        <4>1. /\ Len(allowed) \in Nat /\ Len(allowed') \in Nat
              /\ Len(allowed) <= Len(allowed')
              /\ 0 \in 0 .. Len(allowed') /\ Len(allowed) + 1 \in 0 .. Len(allowed')
          BY <2>1
        <4>2. /\ sess \in [Callers -> 0 .. Len(allowed)]
              /\ ret \in [Callers -> 0 .. Len(allowed)]
          BY DEF TypeOK
        <4>3. /\ ret \in [Callers -> 0 .. Len(allowed')]
              /\ \A v \in 0 .. Len(allowed'):
                    /\ [sess EXCEPT ![c] = v] \in [Callers -> 0 .. Len(allowed')]
                    /\ [ret EXCEPT ![c] = v] \in [Callers -> 0 .. Len(allowed')]
          BY <4>1, <4>2, UpdateBounded
        <4> QED BY <1>2, <4>1, <4>3 DEF Goto, Return
      <3>4. identity' \in 0 .. Len(allowed') /\ coded' \subseteq Sessions' /\ approved' \subseteq Sessions'
        BY <1>2, <2>1 DEF Goto, TypeOK, Sessions
      <3> QED BY <2>1, <3>1, <3>2, <3>3, <3>4 DEF TypeOK
    <2>4. HasSession'
      BY <1>2, <2>1, <2>2 DEF Goto, Return, HasSession, TypeOK
    <2>5. NoNeedlessLogin'
      BY <1>2, <2>2 DEF Goto, Return, NoNeedlessLogin, Cached, TypeOK, Login
    <2>6. UNCHANGED identity
      BY <1>2 DEF Goto
    <2>7. TokensEarned' /\ IdentityEarned'
      BY <2>1, <2>6 DEF TokensEarned, IdentityEarned, pickConfirmationType, TypeOK
    <2> QED BY <2>3, <2>4, <2>5, <2>7
  <1> QED BY <1>1, <1>2 DEF Open

\* Submitting a code, which Steam may accept.
LEMMA UpdateStep ==
    ASSUME IInv, NEW c \in Callers, Update(c)
    PROVE  IInv'
  <1> USE ProviderAssumption DEF IInv
  <1>1. CASE ReturnError(c)
    BY <1>1, ErrorStep DEF Update, Login
  <1>2. CASE ~ReturnError(c)
    <2>1. /\ coded' = coded \cup {sess[c]} /\ Goto(c, "poll") /\ pc[c] = "update"
          /\ UNCHANGED <<sess, allowed, approved>>
      BY <1>2 DEF Update
    <2>2. sess[c] \in Sessions
      BY <2>1 DEF HasSession, TypeOK, Sessions
    <2>3. TypeOK'
      <3>1. fresh' \in BOOLEAN
        BY <2>1, Zenon DEF Goto, TypeOK
      <3> QED BY <2>1, <2>2, <3>1 DEF Goto, TypeOK, Sessions, Login
    <2>4. HasSession' /\ NoNeedlessLogin'
      BY <2>1 DEF Goto, HasSession, NoNeedlessLogin, Cached, TypeOK, Login
    <2>5. TokensEarned' /\ IdentityEarned'
      BY <2>1 DEF Goto, TokensEarned, IdentityEarned, pickConfirmationType
    <2> QED BY <2>3, <2>4, <2>5
  <1> QED BY <1>1, <1>2

\* A poll, and the identity that is stored when there is a token.
LEMMA PollStep ==
    ASSUME IInv, NEW c \in Callers, Poll(c)
    PROVE  IInv'
  <1> USE ProviderAssumption DEF IInv
  <1>0. pc[c] = "poll"
    BY DEF Poll
  <1>1. CASE ReturnError(c)
    BY <1>0, <1>1, ErrorStep DEF Login
  <1>2. CASE sess[c] \in approved /\ Obtain(c)
    <2>1. TypeOK'
      <3>1. fresh' \in BOOLEAN
        BY <1>2, Zenon DEF Obtain
      <3> QED BY <1>2, <3>1 DEF Obtain, Return, TypeOK, Sessions, Ops, steamVars
    <2>2. HasSession'
      BY <1>2 DEF Obtain, Return, HasSession, TypeOK
    <2>3. NoNeedlessLogin'
      BY <1>0, <1>2 DEF Obtain, Return, NoNeedlessLogin, TypeOK, Login
    <2>4. TokensEarned' /\ IdentityEarned'
      BY <1>2 DEF Obtain, TokensEarned, IdentityEarned, pickConfirmationType, steamVars
    <2> QED BY <2>1, <2>2, <2>3, <2>4
  <1>3. CASE Goto(c, "sleep") /\ UNCHANGED <<sess, steamVars>>
    <2>1. TypeOK'
      <3>1. fresh' \in BOOLEAN
        BY <1>3, Zenon DEF Goto, TypeOK
      <3> QED BY <1>3, <3>1 DEF Goto, TypeOK, Sessions, Login, steamVars
    <2>2. HasSession' /\ NoNeedlessLogin'
      BY <1>0, <1>3 DEF Goto, HasSession, NoNeedlessLogin, Cached, TypeOK, Login
    <2>3. TokensEarned' /\ IdentityEarned'
      BY <1>3 DEF Goto, TokensEarned, IdentityEarned, pickConfirmationType, steamVars
    <2> QED BY <2>1, <2>2, <2>3
  <1> QED BY <1>1, <1>2, <1>3 DEF Poll

\* Waiting for the next poll, or giving up.
LEMMA SleepStep ==
    ASSUME IInv, NEW c \in Callers, Sleep(c)
    PROVE  IInv'
  <1> USE ProviderAssumption DEF IInv
  <1>0. pc[c] = "sleep"
    BY DEF Sleep
  <1>1. CASE ReturnError(c)
    BY <1>0, <1>1, ErrorStep DEF Login
  <1>2. CASE Goto(c, "poll") /\ UNCHANGED <<sess, steamVars>>
    <2>1. TypeOK'
      <3>1. fresh' \in BOOLEAN
        BY <1>2, Zenon DEF Goto, TypeOK
      <3> QED BY <1>2, <3>1 DEF Goto, TypeOK, Sessions, Login, steamVars
    <2>2. HasSession' /\ NoNeedlessLogin'
      BY <1>0, <1>2 DEF Goto, HasSession, NoNeedlessLogin, Cached, TypeOK, Login
    <2>3. TokensEarned' /\ IdentityEarned'
      BY <1>2 DEF Goto, TokensEarned, IdentityEarned, pickConfirmationType, steamVars
    <2> QED BY <2>1, <2>2, <2>3
  <1> QED BY <1>1, <1>2 DEF Sleep

\* What Steam, the user and time do.
LEMMA WorldStep ==
    ASSUME IInv, World
    PROVE  IInv'
  <1> USE ProviderAssumption DEF IInv
  <1>1. CASE Expire
    <2>1. TypeOK'
      <3>1. fresh' \in BOOLEAN
        BY <1>1, Zenon DEF Expire
      <3> QED BY <1>1, <3>1 DEF Expire, TypeOK, Sessions, steamVars
    <2>2. HasSession' /\ NoNeedlessLogin'
      BY <1>1 DEF Expire, HasSession, NoNeedlessLogin, Cached
    <2>3. TokensEarned' /\ IdentityEarned'
      BY <1>1 DEF Expire, TokensEarned, IdentityEarned, pickConfirmationType, steamVars
    <2> QED BY <2>1, <2>2, <2>3
  <1>2. ASSUME NEW s \in Sessions, Approve(s) PROVE IInv'
    <2>1. TypeOK'
      <3>1. fresh' \in BOOLEAN
        BY <1>2, Zenon DEF Approve, TypeOK
      <3> QED BY <1>2, <3>1 DEF Approve, TypeOK, Sessions
    <2>2. HasSession' /\ NoNeedlessLogin'
      BY <1>2 DEF Approve, HasSession, NoNeedlessLogin, Cached
    <2>3. TokensEarned' /\ IdentityEarned'
      BY <1>2 DEF Approve, TokensEarned, IdentityEarned, pickConfirmationType
    <2> QED BY <2>1, <2>2, <2>3
  <1>3. ASSUME NEW c \in Callers, Cancel(c) PROVE IInv'
    <2>1. TypeOK'
      <3>1. fresh' \in BOOLEAN
        BY <1>3, Zenon DEF Cancel, TypeOK
      <3> QED BY <1>3, <3>1 DEF Cancel, TypeOK, Sessions, steamVars
    <2>2. HasSession' /\ NoNeedlessLogin'
      BY <1>3 DEF Cancel, HasSession, NoNeedlessLogin, Cached
    <2>3. TokensEarned' /\ IdentityEarned'
      BY <1>3 DEF Cancel, TokensEarned, IdentityEarned, pickConfirmationType, steamVars
    <2> QED BY <2>1, <2>2, <2>3
  <1> QED BY <1>1, <1>2, <1>3 DEF World

\* Every step keeps the invariant.
LEMMA IInvStep == IInv /\ [Next]_vars => IInv'
  <1> SUFFICES ASSUME IInv, [Next]_vars PROVE IInv'
    OBVIOUS
  <1>1. CASE UNCHANGED vars
    <2>1. TypeOK'
      <3>1. fresh' \in BOOLEAN
        BY <1>1, Zenon DEF IInv, TypeOK, vars
      <3> QED BY <1>1, <3>1 DEF IInv, TypeOK, Sessions, vars
    <2> QED BY <1>1, <2>1 DEF IInv, HasSession, NoNeedlessLogin, Cached, TokensEarned,
                              IdentityEarned, pickConfirmationType, vars
  <1>2. ASSUME NEW c \in Callers,
               \/ \E o \in Ops, s \in {0} \cup Sessions: Call(c, o, s)
               \/ Lock(c) \/ LoginStep(c)
        PROVE  IInv'
    BY <1>2, CallStep, LockStep, OpenStep, UpdateStep, PollStep, SleepStep DEF LoginStep
  <1> QED BY <1>1, <1>2, WorldStep DEF Next

-----------------------------------------------------------------------------
\* Hence it always holds.
LEMMA AlwaysIInv == Spec => []IInv
  BY IInvInit, IInvStep, PTL DEF Spec

\* Type correctness of the provider.
THEOREM ProviderTypeCorrect == Spec => []TypeOK
  <1>1. IInv => TypeOK
    BY DEF IInv
  <1> QED BY <1>1, AlwaysIInv, PTL

\* However many goroutines ask for an identity, one logs in at a time and none
\* does so needlessly (the mutex and the check of the cache after it is taken).
THEOREM OneLoginAtATime == Spec => []NoNeedlessLogin
  <1>1. IInv => NoNeedlessLogin
    BY DEF IInv
  <1> QED BY <1>1, AlwaysIInv, PTL

\* What is in the cache was earned.
THEOREM IdentitiesEarned == Spec => []IdentityEarned
  <1>1. IInv => IdentityEarned
    BY DEF IInv
  <1> QED BY <1>1, AlwaysIInv, PTL

\* Only Poll stores an identity, for a caller that found no good one when it
\* took the mutex and has held it since.
THEOREM FreshNeverReplaced == Spec => FreshIdentityKept
  <1>1. ASSUME IInv, Cached, [Next]_vars PROVE identity' = identity
    <2> USE <1>1 DEF IInv
    <2>1. CASE UNCHANGED vars \/ World
      BY <2>1 DEF vars, World, Expire, Approve, Cancel
    <2>2. ASSUME NEW c \in Callers,
                 \/ \E o \in Ops, s \in {0} \cup Sessions: Call(c, o, s)
                 \/ Lock(c) \/ Open(c) \/ Update(c) \/ Sleep(c)
          PROVE  identity' = identity
      BY <2>2 DEF Call, Lock, Open, Update, Sleep, Goto, ReturnError
    <2>3. ASSUME NEW c \in Callers, Poll(c) PROVE identity' = identity
      <3>1. ~Obtain(c)
        BY <2>3 DEF Poll, HasSession, NoNeedlessLogin, Login
      <3> QED BY <2>3, <3>1 DEF Poll, Goto, ReturnError
    <2> QED BY <2>1, <2>2, <2>3 DEF Next, LoginStep
  <1> QED BY <1>1, AlwaysIInv, PTL DEF Spec, FreshIdentityKept
=============================================================================
