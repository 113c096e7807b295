---------------------------- MODULE ClientProofs ----------------------------
(***************************************************************************)
(* Proofs about Client, for any servers, loads and goroutines that call    *)
(* Disconnect.                                                             *)
(*                                                                         *)
(* What the properties need beyond themselves: at the head of the dial     *)
(* loop there is an error, or a good connection, or a server still to be   *)
(* tried; and once an attempt was begun against the flag, the flag stays   *)
(* clear and the loop is past the place where it could begin another.      *)
(***************************************************************************)
EXTENDS Client, FiniteSetTheorems, TLAPS

Reached == reached \subseteq Servers \ Unsupported

DialLoop == pc = "dial" => err \/ conn \in reached \/ todo # << >>

Running == pc = "run" => protocol \in reached

LastAttempt == extra > 0 => ~reconnect /\ pc \notin {"idle", "report"}

IInv == TypeOK /\ Reached /\ DialLoop /\ Running /\ LastAttempt /\ AtMostOneMore

-----------------------------------------------------------------------------
\* The sorted list has every server of a non-empty answer: it is not empty.
LEMMA SortedNotEmpty ==
    ASSUME NEW S \in (SUBSET Servers) \ {{}}, NEW q \in SortedByLoad(S)
    PROVE  q \in Seq(Servers) /\ q # << >>
  <1>1. IsFiniteSet(S) /\ S # {}
    BY ClientAssumption, FS_Subset
  <1>2. Cardinality(S) \in Nat /\ Cardinality(S) # 0
    BY <1>1, FS_CardinalityType, FS_EmptySet
  <1>3. q \in [1 .. Cardinality(S) -> S]
    BY DEF SortedByLoad
  <1> QED BY <1>2, <1>3

\* A client that has not connected satisfies the invariant.
LEMMA IInvInit == Init => IInv
  <1> SUFFICES ASSUME Init PROVE IInv
    OBVIOUS
  <1>1. reconnect \in BOOLEAN /\ err \in BOOLEAN /\ open \in BOOLEAN /\ ctxDone \in BOOLEAN
    BY ClientAssumption, Zenon DEF Init
  <1>2. TypeOK
    BY <1>1, ClientAssumption DEF Init, TypeOK
  <1> QED BY <1>2 DEF Init, IInv, Reached, DialLoop, Running, LastAttempt, AtMostOneMore

\* Booleans stay Booleans.
LEMMA BooleanStep ==
    ASSUME TypeOK, [Next]_vars
    PROVE  reconnect' \in BOOLEAN /\ err' \in BOOLEAN /\ open' \in BOOLEAN /\ ctxDone' \in BOOLEAN
  <1> USE DEF TypeOK
  <1>1. CASE UNCHANGED vars
    BY <1>1, Zenon DEF vars
  <1>2. CASE ConnectCall \/ GetIdentity \/ GetList \/ Check \/ Report
    <2>1. UNCHANGED <<reconnect, open, ctxDone>>
      BY <1>2 DEF ConnectCall, GetIdentity, GetList, Check, Report, sockVars, restVars
    <2>2. err' = FALSE \/ err' = TRUE \/ err' = err
      BY <1>2 DEF ConnectCall, GetIdentity, GetList, Check, Report, Attempt, Fail
    <2> QED BY <2>1, <2>2, Zenon
  <1>3. CASE Dial \/ DialDone \/ RunReturns
    <2>1. UNCHANGED <<reconnect, ctxDone>>
      BY <1>3 DEF Dial, DialDone, RunReturns, restVars
    <2>2. open' = TRUE \/ open' = open
      BY <1>3 DEF Dial, DialDone, RunReturns, sockVars
    <2>3. CASE Dial
      <3>1. err' = FALSE \/ err' = TRUE
        BY <2>3, Zenon DEF Dial, DialError
      <3> QED BY <2>1, <2>2, <3>1, Zenon
    <2>4. CASE DialDone
      <3>1. err' = err
        BY <2>4 DEF DialDone
      <3> QED BY <2>1, <2>2, <3>1, Zenon
    <2>5. CASE RunReturns
      <3>1. err' \in BOOLEAN
        BY <2>5 DEF RunReturns
      <3> QED BY <2>1, <2>2, <3>1, Zenon
    <2> QED BY <1>3, <2>3, <2>4, <2>5
  <1>4. CASE Forward \/ Consume \/ CtxCancel \/ \E d \in Disconnectors: DisconnectCall(d) \/ DisconnectStep(d)
    <2>1. reconnect' = FALSE \/ reconnect' = reconnect
      BY <1>4 DEF Forward, Consume, CtxCancel, DisconnectCall, DisconnectStep, DisconnectFlag,
                  DisconnectClose, FlagAfter
    <2>2. UNCHANGED err
      BY <1>4 DEF Forward, Consume, CtxCancel, DisconnectCall, DisconnectStep, DisconnectFlag, DisconnectClose
    <2>3. open' = FALSE \/ open' = open
      BY <1>4 DEF Forward, Consume, CtxCancel, DisconnectCall, DisconnectStep, DisconnectFlag,
                  DisconnectClose, sockVars
    <2>4. ctxDone' = TRUE \/ ctxDone' = ctxDone
      BY <1>4 DEF Forward, Consume, CtxCancel, DisconnectCall, DisconnectStep, DisconnectFlag, DisconnectClose
    <2> QED BY <2>1, <2>2, <2>3, <2>4, Zenon
  <1> QED BY <1>1, <1>2, <1>3, <1>4 DEF Next, ConnectStep

\* The next attempt begins, from the top of Connect or from its loop.
LEMMA AttemptStep ==
    ASSUME IInv, [Next]_vars, Attempt, pc # "idle" => pc = "report" \/ reconnect,
           UNCHANGED <<reconnect, dialVars, sockVars, dpc, ctxDone>>, events' \in 0 .. EventCap
    PROVE  IInv'
  <1> USE DEF IInv
  <1>1. TypeOK'
    BY BooleanStep DEF TypeOK, Attempt, dialVars, sockVars
  <1>2. Reached' /\ DialLoop' /\ Running'
    BY DEF Reached, DialLoop, Running, Attempt, dialVars
  <1>3. LastAttempt' /\ AtMostOneMore'
    BY DEF LastAttempt, AtMostOneMore, Attempt, TypeOK
  <1> QED BY <1>1, <1>2, <1>3

\* Every step of Connect and Disconnect keeps it.
LEMMA IInvStep == IInv /\ [Next]_vars => IInv'
  <1> SUFFICES ASSUME IInv, [Next]_vars PROVE IInv'
    OBVIOUS
  <1> USE DEF IInv
  <1>1. CASE UNCHANGED vars
    BY <1>1, BooleanStep DEF vars, TypeOK, Reached, DialLoop, Running, LastAttempt, AtMostOneMore
  <1>2. CASE ConnectCall
    BY <1>2, AttemptStep DEF ConnectCall, restVars, TypeOK
  <1>3. CASE GetIdentity
    <2>1. TypeOK'
      BY <1>3, BooleanStep DEF GetIdentity, Fail, TypeOK, dialVars, sockVars, restVars
    <2> QED BY <1>3, <2>1 DEF GetIdentity, Fail, Reached, DialLoop, Running, LastAttempt,
                              AtMostOneMore, dialVars
  <1>4. CASE GetList
    <2>1. CASE Fail /\ UNCHANGED dialVars
      <3>1. TypeOK'
        BY <1>4, <2>1, BooleanStep DEF GetList, Fail, TypeOK, dialVars, sockVars, restVars
      <3> QED BY <1>4, <2>1, <3>1 DEF GetList, Fail, Reached, DialLoop, Running, LastAttempt,
                                      AtMostOneMore, dialVars
    <2>2. CASE /\ \E S \in (SUBSET Servers) \ {{}}: todo' \in SortedByLoad(S)
               /\ reached' = {} /\ conn' = None
               /\ pc' = "dial" /\ UNCHANGED err
      <3>1. todo' \in Seq(Servers) /\ todo' # << >>
        BY <2>2, SortedNotEmpty
      <3>2. TypeOK'
        BY <1>4, <2>2, <3>1, BooleanStep DEF GetList, TypeOK, sockVars, restVars
      <3> QED BY <1>4, <2>2, <3>1, <3>2 DEF GetList, Reached, DialLoop, Running, LastAttempt, AtMostOneMore
    <2> QED BY <1>4, <2>1, <2>2 DEF GetList
  <1>5. CASE Dial
    <2>1. Head(todo) \in Servers /\ Tail(todo) \in Seq(Servers)
      BY <1>5 DEF Dial, TypeOK
    <2>2. TypeOK'
      BY <1>5, <2>1, BooleanStep DEF Dial, Remaining, TypeOK, sockVars, restVars
    <2>3. Reached' /\ DialLoop' /\ Running'
      BY <1>5, <2>1 DEF Dial, DialError, Reached, DialLoop, Running
    <2>4. LastAttempt' /\ AtMostOneMore'
      BY <1>5 DEF Dial, LastAttempt, AtMostOneMore
    <2> QED BY <2>2, <2>3, <2>4
  <1>6. CASE DialDone
    <2>1. TypeOK'
      BY <1>6, BooleanStep DEF DialDone, TypeOK, dialVars, sockVars, restVars
    <2>2. Reached' /\ DialLoop' /\ Running'
      BY <1>6 DEF DialDone, Reached, DialLoop, Running, dialVars
    <2>3. LastAttempt' /\ AtMostOneMore'
      BY <1>6 DEF DialDone, LastAttempt, AtMostOneMore
    <2> QED BY <2>1, <2>2, <2>3
  <1>7. CASE RunReturns
    <2>1. TypeOK'
      BY <1>7, BooleanStep DEF RunReturns, TypeOK, dialVars, sockVars, restVars
    <2> QED BY <1>7, <2>1 DEF RunReturns, Reached, DialLoop, Running, LastAttempt,
                              AtMostOneMore, dialVars
  <1>8. CASE Check
    <2>1. CASE reconnect /\ ~err /\ Attempt
      BY <1>8, <2>1, AttemptStep DEF Check, restVars, TypeOK
    <2>2. CASE /\ pc' = "returned" \/ (reconnect /\ pc' = "report")
               /\ UNCHANGED <<err, extra>>
      <3>1. TypeOK'
        BY <1>8, <2>2, BooleanStep DEF Check, TypeOK, dialVars, sockVars, restVars
      <3>2. LastAttempt' /\ AtMostOneMore'
        BY <1>8, <2>2 DEF Check, LastAttempt, AtMostOneMore
      <3> QED BY <1>8, <2>2, <3>1, <3>2 DEF Check, Reached, DialLoop, Running, dialVars
    <2> QED BY <1>8, <2>1, <2>2 DEF Check
  <1>9. CASE Report
    BY <1>9, AttemptStep, ClientAssumption DEF Report, EmitError, TypeOK
  <1>10. ASSUME NEW d \in Disconnectors, DisconnectCall(d) \/ DisconnectStep(d) PROVE IInv'
    <2>1. TypeOK'
      BY <1>10, BooleanStep DEF DisconnectCall, DisconnectStep, DisconnectFlag, DisconnectClose,
                                TypeOK, dialVars, sockVars
    <2>2. UNCHANGED <<pc, err, todo, reached, conn, protocol, extra>>
      BY <1>10 DEF DisconnectCall, DisconnectStep, DisconnectFlag, DisconnectClose, dialVars, sockVars
    <2>3. reconnect' = FALSE \/ UNCHANGED reconnect
      BY <1>10 DEF DisconnectCall, DisconnectStep, DisconnectFlag, DisconnectClose, FlagAfter
    <2> QED BY <2>1, <2>2, <2>3 DEF Reached, DialLoop, Running, LastAttempt, AtMostOneMore
  <1>11. CASE Forward \/ Consume \/ CtxCancel
    <2>1. TypeOK'
      BY <1>11, BooleanStep, ClientAssumption DEF Forward, Consume, CtxCancel, TypeOK, dialVars, sockVars
    <2> QED BY <1>11, <2>1 DEF Forward, Consume, CtxCancel, Reached, DialLoop, Running, LastAttempt,
                               AtMostOneMore, dialVars, sockVars
  <1> QED BY <1>1, <1>2, <1>3, <1>4, <1>5, <1>6, <1>7, <1>8, <1>9, <1>10, <1>11
          DEF Next, ConnectStep

-----------------------------------------------------------------------------
\* Hence it always holds.
LEMMA AlwaysIInv == Spec => []IInv
  BY IInvInit, IInvStep, PTL DEF Spec

\* Type correctness of the connect loop.
THEOREM ClientTypeCorrect == Spec => []TypeOK
  <1>1. IInv => TypeOK
    BY DEF IInv
  <1> QED BY <1>1, AlwaysIInv, PTL

\* Whatever servers answer and fail, and in which order, the protocol runs on a
\* connection of this attempt to a server of a supported type.
THEOREM RunsOnGoodConnection == Spec => []RunsOnDialled
  <1>1. IInv => RunsOnDialled
    BY DEF IInv, Reached, Running, RunsOnDialled
  <1> QED BY <1>1, AlwaysIInv, PTL

\* However many goroutines call Disconnect, at most one attempt begins after the
\* flag was cleared.
THEOREM OneMoreAttempt == Spec => []AtMostOneMore
  <1>1. IInv => AtMostOneMore
    BY DEF IInv
  <1> QED BY <1>1, AlwaysIInv, PTL
=============================================================================
