----------------------------- MODULE AuthClient -----------------------------
(***************************************************************************)
(* The authentication methods of client/client.go.  They share authIDP,    *)
(* made by the first BeginAuthSession and kept, and authIdentity, and hold *)
(* authMu from beginning to end, over the whole call into the provider.    *)
(*                                                                         *)
(* The provider is that of module IdentityProvider: every call into it is  *)
(* made here, and its own steps are taken beside the client's.  (The event *)
(* BeginAuthSession emits is dropped or kept without waiting and is left   *)
(* out.)                                                                   *)
(***************************************************************************)
EXTENDS IdentityProvider

\* An identity installed by SetIdentity; the others are numbered by session.
Installed == MaxSessions + 1

VARIABLES
    authMu,        \* its holder
    authIDP,       \* there is a provider
    authIdentity,  \* the identity, 0 for nil
    method, arg,   \* of each caller: the method it is in, its session
    cpc,           \* and its step: "idle", "lock" or "call"
    begun,         \* sessions BeginAuthSession has returned
    atLock,        \* history: authIdentity when the caller took authMu
    stale          \* history: the provider's identity at the last SetIdentity

clientVars == <<authMu, authIDP, authIdentity, method, arg, cpc, begun, atLock, stale>>
allVars == <<vars, clientVars>>
callVars == <<method, arg>>

Methods == {"begin", "submit", "wait", "get", "set"}

ClientInit ==
    /\ Init
    /\ authMu = Nobody /\ authIDP = FALSE /\ authIdentity = 0
    /\ method = [c \in Callers |-> "none"] /\ arg = [c \in Callers |-> 0]
    /\ cpc = [c \in Callers |-> "idle"]
    /\ begun = 0
    /\ atLock = [c \in Callers |-> 0] /\ stale = 0

-----------------------------------------------------------------------------
\* c calls method m with session a, one the client has returned (0 for nil), and
\* a new context.
Enter(c, m, a) ==
    /\ cpc[c] = "idle"
    /\ a \in IF m \in {"submit", "wait"} THEN 0 .. begun ELSE {0}
    /\ cpc' = [cpc EXCEPT ![c] = "lock"]
    /\ method' = [method EXCEPT ![c] = m] /\ arg' = [arg EXCEPT ![c] = a]
    /\ UNCHANGED <<vars, authMu, authIDP, authIdentity, begun, atLock, stale>>

\* c's method returns.
Leave(c) ==
    /\ cpc' = [cpc EXCEPT ![c] = "idle"]
    /\ method' = [method EXCEPT ![c] = "none"] /\ arg' = [arg EXCEPT ![c] = 0]
    /\ atLock' = [atLock EXCEPT ![c] = 0]

\* The context goes with it.
ForgetContext(c) ==
    /\ cancelled' = cancelled \ {c}
    /\ UNCHANGED <<mutex, identity, fresh, steamVars, op, sess, pc, ret>>

\* The context of c's method ends while c waits for authMu: nobody looks.
EndContext(c) ==
    /\ cpc[c] = "lock" /\ method[c] # "set"
    /\ c \notin cancelled /\ cancelled' = cancelled \cup {c}
    /\ UNCHANGED <<mutex, identity, fresh, steamVars, op, sess, pc, ret, clientVars>>

\* Mutant: the method does not take authMu.
TakeAuthMu_Not(c) == UNCHANGED authMu
TakeAuthMu(c) == authMu = Nobody /\ authMu' = c

\* BeginAuthSession makes a provider from its credentials when there is none; the
\* credentials of a later call are ignored.
Begin(c) ==
    /\ cpc[c] = "lock" /\ method[c] = "begin" /\ TakeAuthMu(c)
    /\ authIDP' = TRUE
    /\ Call(c, "begin", 0)
    /\ cpc' = [cpc EXCEPT ![c] = "call"] /\ atLock' = [atLock EXCEPT ![c] = authIdentity]
    /\ UNCHANGED <<authIdentity, callVars, begun, stale>>

SubmitOrWait(c) ==
    /\ cpc[c] = "lock" /\ method[c] \in {"submit", "wait"} /\ authIDP
    /\ TakeAuthMu(c)
    /\ Call(c, method[c], arg[c])
    /\ cpc' = [cpc EXCEPT ![c] = "call"] /\ atLock' = [atLock EXCEPT ![c] = authIdentity]
    /\ UNCHANGED <<authIDP, authIdentity, callVars, begun, stale>>

\* The identity after a login that returned id.  Mutant: only the first is kept.
LoggedIn_First(id) == IF authIdentity = 0 THEN id ELSE authIdentity
LoggedIn(id) == id

\* The provider has returned: the client keeps the identity or the session, and
\* releases authMu.
Finish(c) ==
    /\ cpc[c] = "call" /\ pc[c] = "idle"
    /\ authMu' = Nobody /\ Leave(c) /\ ForgetContext(c)
    /\ begun' = IF method[c] = "begin" /\ ret[c] # 0 THEN ret[c] ELSE begun
    /\ authIdentity' = IF method[c] # "begin" /\ ret[c] # 0 THEN LoggedIn(ret[c]) ELSE authIdentity
    /\ UNCHANGED <<authIDP, stale>>

\* Identity and SetIdentity hold authMu for a moment, and look at no context.
\* Mutant: SetIdentity does not wait for authMu.
SetReady_NoLock == TRUE
SetReady == authMu = Nobody

\* Identity; and a login without a provider, or a BeginAuthSession that fails to
\* make one, which return an error as quickly.
Identity(c) ==
    /\ cpc[c] = "lock" /\ authMu = Nobody
    /\ method[c] = "get" \/ (method[c] \in {"begin", "submit", "wait"} /\ ~authIDP)
    /\ Leave(c) /\ ForgetContext(c)
    /\ UNCHANGED <<authMu, authIDP, authIdentity, begun, stale>>

SetIdentity(c) ==
    /\ cpc[c] = "lock" /\ method[c] = "set" /\ SetReady
    /\ authIdentity' = Installed /\ stale' = identity
    /\ Leave(c) /\ ForgetContext(c)
    /\ UNCHANGED <<authMu, authIDP, begun>>

-----------------------------------------------------------------------------
ClientStep(c) == Begin(c) \/ SubmitOrWait(c) \/ Identity(c) \/ SetIdentity(c)

ProviderStep(c) == (Lock(c) \/ LoginStep(c)) /\ UNCHANGED clientVars

ClientNext ==
    \/ \E c \in Callers:
          \/ \E m \in Methods, a \in 0 .. MaxSessions: Enter(c, m, a)
          \/ EndContext(c) \/ ClientStep(c) \/ Finish(c) \/ ProviderStep(c)
    \/ World /\ UNCHANGED clientVars

ClientSpec == ClientInit /\ [][ClientNext]_allVars

-----------------------------------------------------------------------------
(* Properties.                                                             *)

\* Every variable has its type.
ClientTypeOK ==
    /\ TypeOK
    /\ authMu \in Callers \cup {Nobody} /\ authIDP \in BOOLEAN
    /\ authIdentity \in 0 .. Installed /\ stale \in 0 .. MaxSessions
    /\ method \in [Callers -> Methods \cup {"none"}]
    /\ arg \in [Callers -> 0 .. begun] /\ begun \in 0 .. Len(allowed)
    /\ cpc \in [Callers -> {"idle", "lock", "call"}]
    /\ atLock \in [Callers -> 0 .. Installed]

\* The two locks are always taken in the same order and the inner one is never
\* fought over: a method that reaches the provider finds its mutex free.
ProviderUncontended == \A c \in Callers: pc[c] = "lock" => mutex = Nobody

\* While a login is under way nobody else changes the client's identity, so a
\* login never overwrites an identity it has not seen, however long it polls.
NoLostUpdate == \A c \in Callers: cpc[c] = "call" => authIdentity = atLock[c]

\* Whenever authMu is free, the client's identity is the provider's, unless it
\* was installed by SetIdentity: the two caches do not drift apart over expiry,
\* failed and repeated logins.
CachesAgree ==
    authMu = Nobody /\ authIdentity \notin {0, Installed} => authIdentity = identity

\* client.go:223: "Calling SetIdentity invalidates any identity previously cached
\* by SubmitSteamGuardCode or WaitForConfirmation on this client."  A later login
\* with another session does not return it.
SetInvalidates ==
    \A c \in Callers:
        cpc[c] = "call" /\ pc[c] = "idle" /\ method[c] \in {"submit", "wait"} /\ ret[c] # arg[c]
            => ret[c] = 0 \/ ret[c] # stale
=============================================================================
