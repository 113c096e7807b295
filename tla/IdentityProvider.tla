-------------------------- MODULE IdentityProvider --------------------------
(***************************************************************************)
(* identity/credentials.go: CredentialsIdentityProvider.  Its operations   *)
(* hold idp.mutex from beginning to end, over all their requests to Steam  *)
(* and the polling between them, and share the cached identity.            *)
(*                                                                         *)
(* A session is the number of the request that opened it, in order; the    *)
(* cached identity is the number of the session it came from, 0 for nil.   *)
(***************************************************************************)
EXTENDS Naturals, Sequences

CONSTANTS
    Callers,      \* goroutines that use the provider
    Offers,       \* the sets of guard types Steam may allow for a session
    HasSecret,    \* the credentials hold a shared secret
    MaxSessions,  \* bound: sessions Steam opens
    Nobody        \* the mutex is free

CodeTypes == <<"DeviceCode", "EmailCode", "MachineToken">>
ConfirmationTypes == <<"DeviceConfirmation", "EmailConfirmation">>
GuardTypes == {"DeviceCode", "EmailCode", "MachineToken",
               "DeviceConfirmation", "EmailConfirmation", "None"}

ASSUME ProviderAssumption ==
    /\ Nobody \notin Callers /\ Offers \subseteq SUBSET GuardTypes
    /\ HasSecret \in BOOLEAN /\ MaxSessions \in Nat

VARIABLES
    mutex,            \* idp.mutex: its holder
    identity, fresh,  \* the cached identity; it has not expired
    allowed,          \* AllowedConfirmations of every session opened, in order
    coded, approved,  \* Steam: sessions with an accepted code, with a token
    op, sess, pc,     \* of each caller: its operation, session and step
    ret,              \* what its last operation returned: the number of an
                      \* identity or a session, 0 for an error
    cancelled         \* callers whose context is done

vars == <<mutex, identity, fresh, allowed, coded, approved, op, sess, pc, ret, cancelled>>
steamVars == <<allowed, coded, approved>>

Sessions == 1 .. Len(allowed)
Ops == {"begin", "submit", "wait", "identity"}

\* The steps at which a caller holds the mutex and talks to Steam.
Login == {"open", "update", "poll", "sleep"}

Init ==
    /\ mutex = Nobody /\ identity = 0 /\ fresh = FALSE
    /\ allowed = << >> /\ coded = {} /\ approved = {}
    /\ op = [c \in Callers |-> "none"] /\ sess = [c \in Callers |-> 0]
    /\ pc = [c \in Callers |-> "idle"] /\ ret = [c \in Callers |-> 0]
    /\ cancelled = {}

-----------------------------------------------------------------------------
(* pickCodeType and pickConfirmationType: the first type of the priority   *)
(* list that is allowed, << >> if there is none.                           *)

pick(priority, types) == SelectSeq(priority, LAMBDA t: t \in types)
pickCodeType(s) == pick(CodeTypes, allowed[s])
pickConfirmationType(s) == pick(ConfirmationTypes, allowed[s])

-----------------------------------------------------------------------------
\* c goes to step p, holding the mutex.
Goto(c, p) ==
    /\ pc' = [pc EXCEPT ![c] = p]
    /\ UNCHANGED <<mutex, identity, fresh, op, ret, cancelled>>

\* c's operation returns r, releasing the mutex.
Return(c, r) ==
    /\ pc' = [pc EXCEPT ![c] = "idle"] /\ ret' = [ret EXCEPT ![c] = r]
    /\ op' = [op EXCEPT ![c] = "none"] /\ sess' = [sess EXCEPT ![c] = 0]
    /\ mutex' = Nobody /\ cancelled' = cancelled \ {c}

ReturnError(c) == Return(c, 0) /\ UNCHANGED <<identity, fresh, steamVars>>

\* A call, with a new context.  One that has no session, or a session of the
\* wrong kind, returns before it takes the mutex.
Call(c, o, s) ==
    /\ pc[c] = "idle"
    /\ o \in {"begin", "identity"} => s = 0
    /\ ret' = [ret EXCEPT ![c] = 0]
    /\ IF \/ o \in {"begin", "identity"}
          \/ o = "submit" /\ s # 0 /\ pickCodeType(s) # << >>
          \/ o = "wait" /\ s # 0 /\ pickConfirmationType(s) # << >>
       THEN /\ op' = [op EXCEPT ![c] = o] /\ sess' = [sess EXCEPT ![c] = s]
            /\ pc' = [pc EXCEPT ![c] = "lock"]
       ELSE UNCHANGED <<op, sess, pc>>
    /\ UNCHANGED <<mutex, identity, fresh, steamVars, cancelled>>

\* The cached identity is good.
Cached == identity # 0 /\ fresh

\* The first request of each operation.
FirstStep(o) == CASE o = "submit" -> "update" [] o = "wait" -> "poll" [] OTHER -> "open"

\* The mutex is taken, and unless a new session was asked for a good identity
\* in the cache is returned at once.  Mutant: the cache was looked at before the
\* mutex was taken, and by now another caller may have filled it.
Lock_Unchecked(c) ==
    /\ pc[c] = "lock" /\ mutex = Nobody
    /\ mutex' = c /\ pc' = [pc EXCEPT ![c] = FirstStep(op[c])]
    /\ UNCHANGED <<ret, identity, fresh, op, sess, cancelled, steamVars>>
Lock(c) ==
    /\ pc[c] = "lock" /\ mutex = Nobody
    /\ IF op[c] # "begin" /\ Cached
       THEN Return(c, identity)
       ELSE /\ mutex' = c /\ pc' = [pc EXCEPT ![c] = FirstStep(op[c])]
            /\ UNCHANGED <<ret, op, sess, cancelled>>
    /\ UNCHANGED <<identity, fresh, steamVars>>

\* Steam opens a session.  Mutant: the answer to a request that failed is used.
OpenSession_Failed(c) == UNCHANGED steamVars
OpenSession(c) ==
    /\ c \notin cancelled /\ Len(allowed) < MaxSessions
    /\ \E types \in Offers: allowed' = Append(allowed, types)
    /\ UNCHANGED <<coded, approved>>

\* The password is encrypted with Steam's key and sent, to open a session.
\* BeginAuthSession returns it; Identity goes on to submit a code, if it can
\* make one (the request for Steam's time counted in).
Open(c) ==
    /\ pc[c] = "open"
    /\ \/ ReturnError(c)
       \/ /\ OpenSession(c)
          /\ IF op[c] = "identity" /\ HasSecret
             THEN Goto(c, "update") /\ sess' = [sess EXCEPT ![c] = Len(allowed) + 1]
             ELSE /\ Return(c, IF op[c] = "begin" THEN Len(allowed) + 1 ELSE 0)
                  /\ UNCHANGED <<identity, fresh>>

\* The type of the code that is sent: Identity always sends a device code.
CodeType(c) ==
    IF op[c] = "identity" THEN "DeviceCode" ELSE Head(pickCodeType(sess[c]))

\* UpdateAuthSessionWithSteamGuardCode.  Steam takes a good code of a type the
\* session allows.
Update(c) ==
    /\ pc[c] = "update"
    /\ \/ ReturnError(c)
       \/ /\ c \notin cancelled /\ CodeType(c) \in allowed[sess[c]]
          /\ coded' = coded \cup {sess[c]}
          /\ Goto(c, "poll")
          /\ UNCHANGED <<sess, allowed, approved>>

\* Steam has a token for c's session: the identity is cached and returned.
Obtain(c) ==
    /\ Return(c, sess[c])
    /\ identity' = sess[c] /\ fresh' = TRUE
    /\ UNCHANGED steamVars

\* One turn of the polling loop: the context is looked at, then Steam asked.
\* Mutants: the loop goes on until there is a token; an answer without a token
\* is taken for one with.
Poll_Stubborn(c) ==
    /\ pc[c] = "poll"
    /\ IF c \notin cancelled /\ sess[c] \in approved
       THEN Obtain(c)
       ELSE Goto(c, "sleep") /\ UNCHANGED <<sess, steamVars>>
Poll_AnyAnswer(c) ==
    /\ pc[c] = "poll"
    /\ ReturnError(c) \/ (c \notin cancelled /\ Obtain(c))
Poll(c) ==
    /\ pc[c] = "poll"
    /\ \/ ReturnError(c)
       \/ c \notin cancelled /\ sess[c] \in approved /\ Obtain(c)
       \/ /\ c \notin cancelled /\ sess[c] \notin approved
          /\ Goto(c, "sleep") /\ UNCHANGED <<sess, steamVars>>

\* The interval between two polls ends, or the context does.
Sleep(c) ==
    /\ pc[c] = "sleep"
    /\ \/ Goto(c, "poll") /\ UNCHANGED <<sess, steamVars>>
       \/ c \in cancelled /\ ReturnError(c)

-----------------------------------------------------------------------------
(* The rest of the world: Steam issues a token once a code was accepted or *)
(* the user has confirmed; time passes; a caller's context ends.           *)

Approve(s) ==
    /\ s \notin approved /\ approved' = approved \cup {s}
    /\ s \in coded \/ pickConfirmationType(s) # << >>
    /\ UNCHANGED <<mutex, identity, fresh, allowed, coded, op, sess, pc, ret, cancelled>>

Expire ==
    /\ fresh /\ fresh' = FALSE
    /\ UNCHANGED <<mutex, identity, steamVars, op, sess, pc, ret, cancelled>>

Cancel(c) ==
    /\ pc[c] # "idle" /\ c \notin cancelled /\ cancelled' = cancelled \cup {c}
    /\ UNCHANGED <<mutex, identity, fresh, steamVars, op, sess, pc, ret>>

-----------------------------------------------------------------------------
LoginStep(c) == Open(c) \/ Update(c) \/ Poll(c) \/ Sleep(c)

World == Expire \/ (\E s \in Sessions: Approve(s)) \/ (\E c \in Callers: Cancel(c))

Next ==
    \/ \E c \in Callers:
          \/ \E o \in Ops, s \in {0} \cup Sessions: Call(c, o, s)
          \/ Lock(c) \/ LoginStep(c)
    \/ World

Spec == Init /\ [][Next]_vars

(***************************************************************************)
(* Fairness: a goroutine that can go on does, requests are answered or     *)
(* fail, and a goroutine that waits for the mutex is not passed over for   *)
(* ever (sync.Mutex hands over to a waiter that has starved).  Steam and   *)
(* the user owe nothing.                                                   *)
(***************************************************************************)
Fairness == \A c \in Callers: SF_vars(Lock(c)) /\ WF_vars(LoginStep(c))

FairSpec == Spec /\ Fairness

-----------------------------------------------------------------------------
(* Properties.                                                             *)

\* Every variable has its type.
TypeOK ==
    /\ mutex \in Callers \cup {Nobody}
    /\ identity \in 0 .. Len(allowed) /\ fresh \in BOOLEAN
    /\ allowed \in Seq(SUBSET GuardTypes) /\ Len(allowed) <= MaxSessions
    /\ coded \subseteq Sessions /\ approved \subseteq Sessions
    /\ op \in [Callers -> Ops \cup {"none"}] /\ sess \in [Callers -> 0 .. Len(allowed)]
    /\ pc \in [Callers -> {"idle", "lock"} \cup Login]
    /\ ret \in [Callers -> 0 .. Len(allowed)] /\ cancelled \subseteq Callers

\* Of any number of concurrent callers at most one is logging in, and none but
\* a BeginAuthSession does so while a good identity is cached: a caller that had
\* to wait for the mutex uses the identity the caller before it obtained.
NoNeedlessLogin ==
    \A c \in Callers: pc[c] \in Login =>
        /\ mutex = c
        /\ op[c] # "begin" => ~Cached

\* A good identity stays in the cache until it expires: no login that was under
\* way replaces it.
FreshIdentityKept == [][Cached => identity' = identity]_vars

\* An identity in the cache comes from a session to which Steam issued a token
\* after taking a code of a type the session allows, or after a confirmation:
\* no other session of a caller is mistaken for it.
IdentityEarned ==
    identity # 0 =>
        /\ identity \in approved
        /\ identity \in coded \/ pickConfirmationType(identity) # << >>

\* A login whose context is done, or whose session has its token, returns: the
\* mutex is not held for ever.
LoginEnds ==
    \A c \in Callers:
        (pc[c] \in Login /\ (c \in cancelled \/ sess[c] \in approved)) ~> pc[c] = "idle"
=============================================================================
