-------------------------- MODULE AuthClientProofs --------------------------
(***************************************************************************)
(* Proofs about AuthClient, for any callers, offers and bound.             *)
(*                                                                         *)
(* The provider's invariant is kept, since every step of the client is a   *)
(* call of the provider or leaves the provider alone but for contexts.  To *)
(* it the client's own invariant adds that only the holder of authMu is in *)
(* the provider, and where the two cached identities may differ meanwhile. *)
(***************************************************************************)
EXTENDS AuthClient, IdentityProviderProofs

\* The types of the client's variables.
ClientTypes ==
    /\ authMu \in Callers \cup {Nobody} /\ authIDP \in BOOLEAN
    /\ authIdentity \in 0 .. Installed /\ stale \in 0 .. MaxSessions
    /\ method \in [Callers -> Methods \cup {"none"}]
    /\ begun \in 0 .. Len(allowed) /\ arg \in [Callers -> 0 .. begun]
    /\ cpc \in [Callers -> {"idle", "lock", "call"}]
    /\ atLock \in [Callers -> 0 .. Installed]

\* The holder of authMu is the one caller in a call of the provider, and the
\* provider does for it what its method asked.
HolderCalls ==
    /\ \A c \in Callers:
          /\ cpc[c] = "call" <=> authMu = c
          /\ cpc[c] = "call" => method[c] \in {"begin", "submit", "wait"}
          /\ pc[c] # "idle" => cpc[c] = "call" /\ op[c] = method[c]
          /\ pc[c] = "open" => op[c] \in {"begin", "identity"}

\* The provider's mutex is held by a caller that is talking to Steam.
MutexInUse == mutex # Nobody => mutex \in Callers /\ pc[mutex] \in Login

\* What c's call of the provider has returned and Finish will keep: a new identity.
Obtained(c) == pc[c] = "idle" /\ method[c] # "begin" /\ ret[c] # 0

\* The client's identity is the provider's, if it came from there.
Agree == authIdentity \notin {0, Installed} => authIdentity = identity

\* During a call the two agree until the provider has a new identity, and that
\* is the one it returns; a session it returns is the newest.
CallResult ==
    \A c \in Callers: cpc[c] = "call" =>
        /\ IF Obtained(c) THEN ret[c] = identity ELSE Agree
        /\ pc[c] = "idle" /\ method[c] = "begin" /\ ret[c] # 0 => begun <= ret[c]

\* The inductive invariant.
Inv ==
    /\ IInv /\ ClientTypes /\ HolderCalls /\ MutexInUse
    /\ CallResult /\ NoLostUpdate /\ CachesAgree

-----------------------------------------------------------------------------
\* A client that has done nothing satisfies the invariant.
LEMMA InvInit == ClientInit => Inv
  <1> SUFFICES ASSUME ClientInit PROVE Inv
    OBVIOUS
  <1> USE ProviderAssumption
  <1>1. IInv
    BY IInvInit DEF ClientInit
  <1>2. ClientTypes
    <2>1. authIDP \in BOOLEAN
      BY Zenon DEF ClientInit
    <2> QED BY <2>1 DEF ClientInit, ClientTypes, Init, Installed
  <1>3. HolderCalls /\ MutexInUse /\ CallResult
    BY DEF ClientInit, Init, HolderCalls, MutexInUse, CallResult
  <1>4. NoLostUpdate /\ CachesAgree
    BY DEF ClientInit, NoLostUpdate, CachesAgree
  <1> QED BY <1>1, <1>2, <1>3, <1>4 DEF Inv

\* The provider does not depend on contexts for its invariant.
LEMMA ContextsFree ==
    ASSUME IInv, cancelled' \subseteq Callers,
           UNCHANGED <<mutex, identity, fresh, steamVars, op, sess, pc, ret>>
    PROVE  IInv'
  <1> USE DEF IInv
  <1>1. TypeOK'
    <2>1. fresh' \in BOOLEAN
      BY Zenon DEF TypeOK
    <2> QED BY <2>1 DEF TypeOK, Sessions, steamVars
  <1>2. HasSession' /\ NoNeedlessLogin'
    BY DEF HasSession, NoNeedlessLogin, Cached
  <1>3. TokensEarned' /\ IdentityEarned'
    BY DEF TokensEarned, IdentityEarned, pickConfirmationType, steamVars
  <1> QED BY <1>1, <1>2, <1>3

\* Forgetting a context leaves what the client's invariant says of the provider.
LEMMA Forgotten ==
    ASSUME IInv, NEW c \in Callers, ForgetContext(c)
    PROVE  /\ IInv' /\ Len(allowed') = Len(allowed)
           /\ UNCHANGED <<mutex, identity, op, pc, ret, allowed>>
  <1>1. cancelled' \subseteq Callers
    BY DEF IInv, TypeOK, ForgetContext
  <1> QED BY <1>1, ContextsFree DEF ForgetContext, steamVars

\* What a step of c in the provider may do: go on, fail, return the cached
\* identity, or, for BeginAuthSession, return a new session.
LEMMA ProviderEffect ==
    ASSUME IInv, NEW c \in Callers, Lock(c) \/ LoginStep(c)
    PROVE  /\ IInv' /\ pc[c] # "idle" /\ Len(allowed) <= Len(allowed')
           /\ \A d \in Callers \ {c}: pc'[d] = pc[d] /\ op'[d] = op[d] /\ ret'[d] = ret[d]
           /\ \/ /\ pc'[c] \in Login /\ op'[c] = op[c] /\ mutex' = c /\ identity' = identity
                 /\ pc'[c] = "open" => op[c] \in {"begin", "identity", "none"}
              \/ /\ pc'[c] = "idle" /\ mutex' = Nobody
                 /\ \/ identity' = identity /\ ret'[c] = 0
                    \/ ret'[c] = identity' /\ ret'[c] # 0 /\ op[c] # "begin"
                    \/ /\ identity' = identity /\ ret'[c] = Len(allowed')
                       /\ op[c] = "begin"
  <1> USE ProviderAssumption DEF IInv
  <1>0. /\ pc \in [Callers -> {"idle", "lock"} \cup Login]
        /\ op \in [Callers -> Ops \cup {"none"}]
        /\ ret \in [Callers -> 0 .. Len(allowed)]
        /\ Len(allowed) \in Nat
    BY DEF TypeOK
  <1>1. IInv'
    BY LockStep, OpenStep, UpdateStep, PollStep, SleepStep DEF LoginStep
  <1>2. CASE Lock(c)
    <2>1. /\ FirstStep(op[c]) \in Login
          /\ FirstStep(op[c]) = "open" => op[c] \in {"begin", "identity", "none"}
      BY <1>0 DEF FirstStep, Login, Ops
    <2> QED BY <1>0, <1>1, <1>2, <2>1 DEF Lock, Return, Cached, steamVars
  <1>3. CASE LoginStep(c) /\ ReturnError(c)
    BY <1>0, <1>1, <1>3
       DEF LoginStep, Open, Update, Poll, Sleep, ReturnError, Return, steamVars
  <1>4. CASE Open(c) /\ ~ReturnError(c)
    <2>1. Len(allowed') = Len(allowed) + 1
      BY <1>4 DEF Open, OpenSession, TypeOK
    <2>2. pc[c] = "open" /\ mutex = c
      BY <1>4 DEF Open, NoNeedlessLogin, Login
    <2> QED BY <1>0, <1>1, <1>4, <2>1, <2>2 DEF Open, Goto, Return, Login
  <1>5. CASE Update(c) /\ ~ReturnError(c)
    BY <1>0, <1>1, <1>5 DEF Update, Goto, NoNeedlessLogin, Login
  <1>6. CASE Poll(c) /\ ~ReturnError(c)
    <2>1. pc[c] = "poll" /\ mutex = c /\ op[c] # "begin" /\ sess[c] # 0
      BY <1>6 DEF Poll, NoNeedlessLogin, HasSession, Login
    <2> QED BY <1>0, <1>1, <1>6, <2>1 DEF Poll, Goto, Obtain, Return, Login, steamVars
  <1>7. CASE Sleep(c) /\ ~ReturnError(c)
    BY <1>0, <1>1, <1>7 DEF Sleep, Goto, NoNeedlessLogin, Login, steamVars
  <1> QED BY <1>2, <1>3, <1>4, <1>5, <1>6, <1>7 DEF LoginStep

-----------------------------------------------------------------------------
\* Entering a method keeps the invariant: nothing is locked yet.
LEMMA EnterStep ==
    ASSUME Inv, NEW c \in Callers, NEW m \in Methods, NEW a \in 0 .. MaxSessions, Enter(c, m, a)
    PROVE  Inv'
  <1> USE ProviderAssumption DEF Inv
  <1>1. UNCHANGED <<mutex, identity, fresh, steamVars, op, sess, pc, ret, cancelled, allowed>>
    BY DEF Enter, vars, steamVars
  <1>2. IInv'
    BY <1>1, ContextsFree DEF IInv, TypeOK
  <1>3. ClientTypes'
    <2>1. authIDP' \in BOOLEAN
      BY Zenon DEF Enter, ClientTypes
    <2>2. a \in 0 .. begun
      BY DEF Enter, ClientTypes, IInv, TypeOK
    <2> QED BY <1>1, <2>1, <2>2 DEF Enter, ClientTypes
  <1>4. HolderCalls' /\ MutexInUse'
    BY <1>1 DEF Enter, HolderCalls, MutexInUse, ClientTypes
  <1>5. CallResult' /\ NoLostUpdate' /\ CachesAgree'
    BY <1>1 DEF Enter, CallResult, Obtained, Agree, NoLostUpdate, CachesAgree, ClientTypes
  <1> QED BY <1>2, <1>3, <1>4, <1>5

\* A step of the provider's that changes nothing the client's invariant mentions.
LEMMA ClientUnmoved ==
    ASSUME Inv, IInv', UNCHANGED clientVars, UNCHANGED <<mutex, identity, op, pc, ret>>,
           Len(allowed') = Len(allowed)
    PROVE  Inv'
  <1> USE DEF Inv
  <1>1. ClientTypes'
    <2>1. authIDP' \in BOOLEAN
      BY Zenon DEF clientVars, ClientTypes
    <2> QED BY <2>1 DEF clientVars, ClientTypes
  <1>2. HolderCalls' /\ MutexInUse'
    BY DEF clientVars, HolderCalls, MutexInUse
  <1>3. CallResult' /\ NoLostUpdate' /\ CachesAgree'
    BY DEF clientVars, CallResult, Obtained, Agree, NoLostUpdate, CachesAgree
  <1> QED BY <1>1, <1>2, <1>3

\* A context that ends meanwhile keeps it: the provider looks at it later.
LEMMA EndContextStep ==
    ASSUME Inv, NEW c \in Callers, EndContext(c)
    PROVE  Inv'
  <1>1. cancelled' \subseteq Callers
    BY DEF EndContext, Inv, IInv, TypeOK
  <1>2. IInv'
    BY <1>1, ContextsFree DEF EndContext, Inv
  <1> QED BY <1>2, ClientUnmoved DEF EndContext, steamVars

\* The world's steps: time, Steam's tokens, the ends of contexts.
LEMMA WorldClientStep ==
    ASSUME Inv, World, UNCHANGED clientVars
    PROVE  Inv'
  <1>1. IInv'
    BY WorldStep DEF Inv
  <1>2. UNCHANGED <<mutex, identity, op, pc, ret, allowed>>
    BY DEF World, Expire, Approve, Cancel, steamVars
  <1> QED BY <1>1, <1>2, ClientUnmoved

\* authMu is taken and the provider called: nobody else is in the provider.
LEMMA TakeStep ==
    ASSUME Inv, NEW c \in Callers, Begin(c) \/ SubmitOrWait(c)
    PROVE  Inv'
  <1> USE ProviderAssumption DEF Inv
  <1>1. /\ cpc[c] = "lock" /\ authMu = Nobody /\ authMu' = c
        /\ method[c] \in {"begin", "submit", "wait"}
        /\ cpc' = [cpc EXCEPT ![c] = "call"] /\ atLock' = [atLock EXCEPT ![c] = authIdentity]
        /\ UNCHANGED <<authIdentity, method, arg, begun, stale>>
    BY DEF Begin, SubmitOrWait, TakeAuthMu, callVars
  <1>2. PICK s \in {0} \cup Sessions: Call(c, method[c], s)
    <2>1. arg[c] \in {0} \cup Sessions
      BY SMTT(40) DEF ClientTypes, IInv, TypeOK, Sessions
    <2> QED BY <1>1, <2>1 DEF Begin, SubmitOrWait
  <1>3. IInv'
    BY <1>1, <1>2, CallStep DEF Ops
  <1>4. /\ UNCHANGED <<mutex, identity, allowed>>
        /\ ret' = [ret EXCEPT ![c] = 0] /\ pc[c] = "idle"
        /\ \/ UNCHANGED <<op, pc>>
           \/ pc' = [pc EXCEPT ![c] = "lock"] /\ op' = [op EXCEPT ![c] = method[c]]
    BY <1>2 DEF Call, steamVars
  <1>5. ClientTypes'
    <2>1. authIDP' \in BOOLEAN
      BY Zenon DEF Begin, SubmitOrWait, ClientTypes
    <2> QED BY <1>1, <1>4, <2>1 DEF ClientTypes
  <1>6. /\ pc \in [Callers -> {"idle", "lock"} \cup Login]
        /\ op \in [Callers -> Ops \cup {"none"}]
        /\ ret \in [Callers -> 0 .. Len(allowed)]
    BY DEF IInv, TypeOK
  <1>7. HolderCalls'
    BY <1>1, <1>4, <1>6 DEF HolderCalls, ClientTypes
  <1>8. MutexInUse'
    BY <1>4, <1>6 DEF MutexInUse, Login
  <1>9. CallResult'
    <2>1. Agree'
      BY <1>1, <1>4 DEF CachesAgree, Agree
    <2>2. \A d \in Callers: cpc'[d] = "call" => d = c
      BY <1>1 DEF HolderCalls, ClientTypes
    <2>3. ret'[c] = 0
      BY <1>4, <1>6
    <2> QED BY <2>1, <2>2, <2>3 DEF CallResult, Obtained
  <1>10. NoLostUpdate' /\ CachesAgree'
    BY <1>1 DEF NoLostUpdate, CachesAgree, HolderCalls, ClientTypes
  <1> QED BY <1>3, <1>5, <1>7, <1>8, <1>9, <1>10

\* A method that returns with authMu free, keeping the cached identity or
\* installing another.
LEMMA ReturnStep ==
    ASSUME Inv, NEW c \in Callers, Identity(c) \/ SetIdentity(c)
    PROVE  Inv'
  <1> USE ProviderAssumption DEF Inv
  <1>1. /\ cpc[c] = "lock" /\ authMu = Nobody /\ UNCHANGED <<authMu, authIDP, begun>>
        /\ Leave(c) /\ ForgetContext(c)
        /\ \/ UNCHANGED <<authIdentity, stale>>
           \/ authIdentity' = Installed /\ stale' = identity
    BY DEF Identity, SetIdentity, SetReady
  <1>2. IInv' /\ UNCHANGED <<mutex, identity, op, pc, ret, allowed>>
    BY <1>1, Forgotten
  <1>3. ClientTypes'
    <2>1. authIDP' \in BOOLEAN
      BY <1>1, Zenon DEF ClientTypes
    <2>2. identity \in 0 .. MaxSessions /\ Installed \in 0 .. Installed
      BY DEF IInv, TypeOK, Installed
    <2> QED BY <1>1, <1>2, <2>1, <2>2 DEF ClientTypes, Leave, Installed
  <1>4. HolderCalls' /\ MutexInUse'
    BY <1>1, <1>2 DEF HolderCalls, MutexInUse, ClientTypes, Leave
  <1>5. CallResult' /\ NoLostUpdate' /\ CachesAgree'
    BY <1>1, <1>2 DEF CallResult, NoLostUpdate, CachesAgree, HolderCalls, ClientTypes, Leave
  <1> QED BY <1>2, <1>3, <1>4, <1>5

\* The call of the provider is over: what it returned is kept.
LEMMA FinishStep ==
    ASSUME Inv, NEW c \in Callers, Finish(c)
    PROVE  Inv'
  <1> USE ProviderAssumption DEF Inv
  <1>1. /\ cpc[c] = "call" /\ pc[c] = "idle" /\ authMu = c /\ authMu' = Nobody
        /\ cpc' = [cpc EXCEPT ![c] = "idle"] /\ UNCHANGED <<authIDP, stale>>
        /\ Leave(c) /\ ForgetContext(c)
    BY DEF Finish, Leave, HolderCalls
  <1>2. IInv' /\ UNCHANGED <<mutex, identity, op, pc, ret, allowed>>
    BY <1>1, Forgotten
  <1>3. ret[c] \in 0 .. Len(allowed) /\ Len(allowed) \in Nat /\ Len(allowed) <= MaxSessions
    BY DEF IInv, TypeOK
  <1>4. begun \in Nat /\ begun' \in 0 .. Len(allowed) /\ begun <= begun'
    BY <1>1, <1>3 DEF Finish, CallResult, ClientTypes
  <1>5. ClientTypes'
    <2>1. authIDP' \in BOOLEAN
      BY <1>1, Zenon DEF ClientTypes
    <2>2. authIdentity' \in 0 .. Installed
      BY <1>3 DEF Finish, LoggedIn, ClientTypes, Installed
    <2>3. arg' \in [Callers -> 0 .. begun']
      <3>1. begun \in Nat /\ begun' \in Nat /\ arg \in [Callers -> 0 .. begun] /\ 0 \in 0 .. begun'
        BY <1>3, <1>4 DEF ClientTypes
      <3>2. [arg EXCEPT ![c] = 0] \in [Callers -> 0 .. begun']
        BY <1>4, <3>1, UpdateBounded
      <3> QED BY <1>1, <3>2 DEF Leave
    <2> QED BY <1>1, <1>2, <1>4, <2>1, <2>2, <2>3 DEF ClientTypes, Leave, Installed
  <1>6. HolderCalls' /\ MutexInUse'
    BY <1>1, <1>2 DEF HolderCalls, MutexInUse, ClientTypes, Leave
  <1>7. \A d \in Callers: cpc'[d] # "call"
    BY <1>1 DEF HolderCalls, ClientTypes
  <1>8. CallResult' /\ NoLostUpdate'
    BY <1>7 DEF CallResult, NoLostUpdate
  <1>9. CachesAgree'
    BY <1>1, <1>2 DEF Finish, LoggedIn, CallResult, Obtained, Agree, CachesAgree
  <1> QED BY <1>2, <1>5, <1>6, <1>8, <1>9

\* A step of the provider on behalf of the holder of authMu.
LEMMA ProviderClientStep ==
    ASSUME Inv, NEW c \in Callers, ProviderStep(c)
    PROVE  Inv'
  <1> USE ProviderAssumption DEF Inv
  <1>1. (Lock(c) \/ LoginStep(c)) /\ UNCHANGED clientVars
    BY DEF ProviderStep
  <1>2. /\ IInv' /\ pc[c] # "idle" /\ Len(allowed) <= Len(allowed')
        /\ \A d \in Callers \ {c}: pc'[d] = pc[d] /\ op'[d] = op[d] /\ ret'[d] = ret[d]
    BY <1>1, ProviderEffect
  <1>3. /\ cpc[c] = "call" /\ authMu = c /\ op[c] = method[c]
        /\ method[c] \in {"begin", "submit", "wait"}
        /\ \A d \in Callers \ {c}: pc[d] = "idle" /\ cpc[d] # "call"
    BY <1>2 DEF HolderCalls
  <1>4. ClientTypes'
    <2>1. authIDP' \in BOOLEAN
      BY <1>1, Zenon DEF clientVars, ClientTypes
    <2>2. begun' \in 0 .. Len(allowed')
      BY <1>1, <1>2 DEF clientVars, ClientTypes, IInv, TypeOK
    <2> QED BY <1>1, <2>1, <2>2 DEF clientVars, ClientTypes
  <1>5. NoLostUpdate' /\ CachesAgree'
    BY <1>1, <1>3 DEF clientVars, NoLostUpdate, CachesAgree
  <1>6. CASE /\ pc'[c] \in Login /\ op'[c] = op[c] /\ mutex' = c /\ identity' = identity
             /\ pc'[c] = "open" => op[c] \in {"begin", "identity", "none"}
    <2>1. HolderCalls' /\ MutexInUse'
      BY <1>1, <1>2, <1>3, <1>6 DEF clientVars, HolderCalls, MutexInUse
    <2>2. CallResult'
      BY <1>1, <1>2, <1>3, <1>6 DEF clientVars, CallResult, Obtained, Agree, Login
    <2> QED BY <1>2, <1>4, <1>5, <2>1, <2>2
  <1>7. CASE /\ pc'[c] = "idle" /\ mutex' = Nobody
             /\ \/ identity' = identity /\ ret'[c] = 0
                \/ ret'[c] = identity' /\ ret'[c] # 0 /\ op[c] # "begin"
                \/ /\ identity' = identity /\ ret'[c] = Len(allowed')
                   /\ op[c] = "begin"
    <2>1. HolderCalls' /\ MutexInUse'
      BY <1>1, <1>2, <1>3, <1>7 DEF clientVars, HolderCalls, MutexInUse
    <2>2. ~Obtained(c) /\ Agree
      BY <1>2, <1>3 DEF CallResult, Obtained
    <2>3. begun <= Len(allowed')
      BY <1>2 DEF ClientTypes, IInv, TypeOK
    <2>4. CallResult'
      <3>1. \A d \in Callers: cpc'[d] = "call" => d = c
        BY <1>1, <1>3 DEF clientVars
      <3>2. IF Obtained(c)' THEN ret'[c] = identity' ELSE Agree'
        BY <1>1, <1>3, <1>7, <2>2 DEF clientVars, Obtained, Agree
      <3>3. method'[c] = "begin" /\ ret'[c] # 0 => begun' <= ret'[c]
        BY <1>1, <1>3, <1>7, <2>3 DEF clientVars
      <3> QED BY <3>1, <3>2, <3>3 DEF CallResult
    <2> QED BY <1>2, <1>4, <1>5, <2>1, <2>4
  <1> QED BY <1>1, <1>6, <1>7, ProviderEffect

\* Every step of a caller, of Steam and of the contexts keeps the invariant.
LEMMA InvStep == Inv /\ [ClientNext]_allVars => Inv'
  <1> SUFFICES ASSUME Inv, [ClientNext]_allVars PROVE Inv'
    OBVIOUS
  <1>1. CASE UNCHANGED allVars
    <2>1. /\ UNCHANGED <<mutex, identity, fresh, steamVars, op, sess, pc, ret, cancelled, allowed>>
          /\ UNCHANGED clientVars
      BY <1>1 DEF allVars, vars, steamVars
    <2>2. IInv'
      BY <2>1, ContextsFree DEF Inv, IInv, TypeOK
    <2> QED BY <2>1, <2>2, ClientUnmoved
  <1>2. ASSUME NEW c \in Callers,
               \/ \E m \in Methods, a \in 0 .. MaxSessions: Enter(c, m, a)
               \/ EndContext(c) \/ ClientStep(c) \/ Finish(c) \/ ProviderStep(c)
        PROVE  Inv'
    BY <1>2, EnterStep, EndContextStep, TakeStep, ReturnStep, FinishStep, ProviderClientStep
       DEF ClientStep
  <1> QED BY <1>1, <1>2, WorldClientStep DEF ClientNext

\* Hence it always holds.
LEMMA AlwaysInv == ClientSpec => []Inv
  BY InvInit, InvStep, PTL DEF ClientSpec

-----------------------------------------------------------------------------
\* Type correctness of the client and the provider under it.
THEOREM ClientTypeCorrect == ClientSpec => []ClientTypeOK
  <1>1. Inv => ClientTypeOK
    BY DEF Inv, IInv, ClientTypes, ClientTypeOK
  <1> QED BY <1>1, AlwaysInv, PTL

\* No method of the client ever waits for the provider's mutex: authMu, taken
\* first, already keeps every other caller out of the provider.
THEOREM InnerLockFree == ClientSpec => []ProviderUncontended
  <1>1. Inv => ProviderUncontended
    <2> SUFFICES ASSUME Inv, NEW c \in Callers, pc[c] = "lock", mutex # Nobody PROVE FALSE
      BY DEF ProviderUncontended
    <2>1. mutex \in Callers /\ pc[mutex] \in Login
      BY DEF Inv, MutexInUse
    <2>2. authMu = c /\ authMu = mutex
      BY <2>1 DEF Inv, HolderCalls, Login
    <2> QED BY <2>1, <2>2 DEF Login
  <1> QED BY <1>1, AlwaysInv, PTL

\* A login that ends finds the client's identity as it was when it began, though
\* SetIdentity may be called meanwhile by any number of others.
THEOREM UpdatesKept == ClientSpec => []NoLostUpdate
  <1>1. Inv => NoLostUpdate
    BY DEF Inv
  <1> QED BY <1>1, AlwaysInv, PTL

\* Outside a call, an identity of the client's that came from the provider is the
\* one the provider has cached.
THEOREM CachesInStep == ClientSpec => []CachesAgree
  <1>1. Inv => CachesAgree
    BY DEF Inv
  <1> QED BY <1>1, AlwaysInv, PTL
=============================================================================
