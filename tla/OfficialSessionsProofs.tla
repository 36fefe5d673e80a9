----------------------- MODULE OfficialSessionsProofs -----------------------
(***************************************************************************)
(* Proofs about OfficialSessions, for every set of sessions and requests:  *)
(* type correctness, each cached entry has exactly the goroutine that      *)
(* removes it, and a call belongs to the session its handshake announced.  *)
(***************************************************************************)
EXTENDS OfficialSessions, TLAPS

\* What Store and DropEntry make of the cache.
LEMMA StoreFacts ==
    ASSUME NEW k, NEW entry, Store(k, entry)
    PROVE  /\ DOMAIN sessions' = DOMAIN sessions \cup {k}
           /\ sessions'[k] = entry
           /\ \A j \in DOMAIN sessions : j # k => sessions'[j] = sessions[j]
  BY DEF Store

LEMMA DropFacts ==
    ASSUME NEW k, NEW s, DropEntry(k, s)
    PROVE  /\ DOMAIN sessions' =
                  {j \in DOMAIN sessions : j # k \/ sessions[j].session # s}
           /\ \A j \in DOMAIN sessions' : sessions'[j] = sessions[j]
  BY DEF DropEntry

-----------------------------------------------------------------------------
(* Types *)

\* A request resolves to an identifier or to none.
LEMMA LadderType ==
    ASSUME TypeOK, NEW q \in Request
    PROVE  /\ AnalyticsSessionID(q) \in Ident \cup {None}
           /\ Remembered(q) \in Ident \cup {None}
           /\ CapturedClient(q) \in Client \cup {None}
           /\ SessionKey(q) \in Key
  <1>1. Form[q] \in Shape
    BY SessionsAssumption
  <1>2. Remembered(q) \in Ident \cup {None}
    BY DEF Remembered, TypeOK, Entry
  <1>3. /\ Carried(q) \in Ident \cup {None}
        /\ LastResort(q) \in Ident \cup {None}
    BY <1>1, SessionsAssumption DEF Carried, SeedRung, LastResort, Or, Shape
  <1>4. SidOf(q) \in Ident \cup {None}
    BY <1>1, SessionsAssumption DEF SidOf, Shape
  <1>5. AnalyticsSessionID(q) \in Ident \cup {None}
    BY <1>2, <1>3, <1>4 DEF AnalyticsSessionID, Or
  <1>6. CapturedClient(q) \in Client \cup {None}
    BY <1>1 DEF CapturedClient, Or, Shape, TypeOK, Entry
  <1>7. SessionKey(q) \in Key
    BY <1>1, SessionsAssumption DEF SessionKey, Or, Shape, Key
  <1> QED BY <1>2, <1>5, <1>6, <1>7

\* Remembering keeps the types of the cache.
LEMMA RememberType ==
    ASSUME TypeOK, NEW q \in Request, NEW k \in Key, RememberSession(q, k)
    PROVE  /\ DOMAIN sessions' \subseteq Key
           /\ \A j \in DOMAIN sessions' : sessions'[j] \in Entry
           /\ watching' \subseteq Key \X Session
           /\ offered' \subseteq Request
  <1>1. CASE Form[q].session = NoSession \/ ~MayRemember(k)
    BY <1>1 DEF RememberSession, TypeOK, cacheVars
  <1>2. CASE Form[q].session # NoSession /\ MayRemember(k)
    <2> DEFINE s == Form[q].session
               e == [client |-> Form[q].client, id |-> ident[q], session |-> s]
    <2>1. s \in Session /\ e \in Entry
      BY <1>2, SessionsAssumption DEF Shape, Entry, TypeOK
    <2>2. /\ Store(k, e)
          /\ watching' = watching \cup Watch(k, s)
          /\ offered' = offered \cup {q}
      BY <1>2 DEF RememberSession
    <2>3. /\ DOMAIN sessions' = DOMAIN sessions \cup {k}
          /\ sessions'[k] = e
          /\ \A j \in DOMAIN sessions : j # k => sessions'[j] = sessions[j]
      <3> HIDE DEF e
      <3> QED BY <2>2, StoreFacts
    <2>4. Watch(k, s) \subseteq Key \X Session
      BY <2>1 DEF Watch
    <2> HIDE DEF e, s
    <2> QED BY <2>1, <2>2, <2>3, <2>4 DEF TypeOK
  <1> QED BY <1>1, <1>2

LEMMA InitType == Init => TypeOK
  BY DEF Init, TypeOK, Place, Key

LEMMA StepType == TypeOK /\ [Next]_vars => TypeOK'
  <1> SUFFICES ASSUME TypeOK, [Next]_vars PROVE TypeOK'
    OBVIOUS
  <1>1. ASSUME NEW q \in Request, Enter(q) PROVE TypeOK'
    BY <1>1, LadderType DEF Enter, TypeOK, Goto, Place, cacheVars
  <1>2. ASSUME NEW q \in Request,
               \/ ResolveModern(q) \/ ResolveInitialize(q) \/ RecordToolCall(q)
        PROVE  TypeOK'
    <2>1. CASE ResolveModern(q)
      <3>1. ident' = [ident EXCEPT ![q] = AnalyticsSessionID(q)]
        BY <2>1 DEF ResolveModern
      <3>2. /\ ident' \in [Request -> Ident \cup {None}]
            /\ ident'[q] # None => ident'[q] \in Ident
        BY <3>1, LadderType DEF TypeOK
      <3>3. \A p \in Request \ {q} : ident'[p] = ident[p] /\ at'[p] = at[p]
        BY <2>1, <3>1 DEF ResolveModern, Goto, TypeOK
      <3>4. /\ at' \in [Request -> Place]
            /\ at'[q] = "remember modern" => ident'[q] # None
        BY <2>1 DEF ResolveModern, Goto, TypeOK, Place
      <3>5. UNCHANGED <<cacheVars, over, client, offered, recorded, known>>
        BY <2>1 DEF ResolveModern
      <3>6. \A p \in Request : at'[p] = "remember modern" => ident'[p] \in Ident
        BY <3>2, <3>3, <3>4 DEF TypeOK
      <3> QED BY <3>2, <3>4, <3>5, <3>6 DEF TypeOK, cacheVars
    <2>2. CASE ResolveInitialize(q)
      BY <2>2, LadderType DEF ResolveInitialize, TypeOK, Goto, Place, cacheVars
    <2>3. CASE RecordToolCall(q)
      BY <2>3, LadderType DEF RecordToolCall, TypeOK, Goto, Place, cacheVars
    <2> QED BY <1>2, <2>1, <2>2, <2>3
  <1>3. ASSUME NEW q \in Request, HandlerReturns(q) PROVE TypeOK'
    BY <1>3 DEF HandlerReturns, TypeOK, Goto, Place, cacheVars
  <1>4. ASSUME NEW q \in Request, RememberModern(q) PROVE TypeOK'
    <2>1. ident[q] \in Key
      BY <1>4 DEF RememberModern, TypeOK, Key
    <2> QED BY <1>4, <2>1, RememberType DEF RememberModern, TypeOK, Goto, Place
  <1>5. ASSUME NEW q \in Request, RememberInitialize(q) PROVE TypeOK'
    BY <1>5, LadderType, RememberType
       DEF RememberInitialize, TypeOK, Goto, Place
  <1>6. ASSUME NEW s \in Session, CloseSession(s) PROVE TypeOK'
    BY <1>6 DEF CloseSession, TypeOK, cacheVars
  <1>7. ASSUME NEW k, NEW s, ForgetSession(k, s) PROVE TypeOK'
    BY <1>7, DropFacts DEF ForgetSession, TypeOK
  <1>8. CASE UNCHANGED vars
    BY <1>8 DEF TypeOK, vars, cacheVars
  <1>9. CASE ForgetStep
    BY <1>7, <1>9 DEF ForgetStep
  <1> QED BY <1>1, <1>2, <1>3, <1>4, <1>5, <1>6, <1>8, <1>9
          DEF Next, MiddlewareStep

\* The type invariant, for every set of sessions and requests.
THEOREM SessionsTypeCorrect == Spec => []TypeOK
  BY InitType, StepType, PTL DEF Spec

-----------------------------------------------------------------------------
(* Every entry has its goroutine. *)

\* A new entry brings its goroutine.
LEMMA RememberWatches ==
    ASSUME WatchersMatch, NEW q, NEW k, RememberSession(q, k)
    PROVE  WatchersMatch'
  <1>1. CASE UNCHANGED cacheVars
    BY <1>1 DEF WatchersMatch, cacheVars
  <1>2. CASE ~UNCHANGED cacheVars
    <2> DEFINE s == Form[q].session
               e == [client |-> Form[q].client, id |-> ident[q], session |-> s]
    <2>1. /\ k \notin DOMAIN sessions
          /\ Store(k, e)
          /\ watching' = watching \cup {<<k, s>>}
      BY <1>2 DEF RememberSession, MayRemember, Watch
    <2>2. /\ DOMAIN sessions' = DOMAIN sessions \cup {k}
          /\ sessions'[k] = e
          /\ \A j \in DOMAIN sessions : sessions'[j] = sessions[j]
      <3> HIDE DEF e
      <3> QED BY <2>1, StoreFacts
    <2>3. e.session = s
      OBVIOUS
    <2> HIDE DEF e, s
    <2> QED BY <2>1, <2>2, <2>3 DEF WatchersMatch
  <1> QED BY <1>1, <1>2

\* The goroutine that goes removes its entry and no other.
LEMMA ForgetWatches ==
    ASSUME WatchersMatch, NEW k, NEW s, ForgetSession(k, s)
    PROVE  WatchersMatch'
  <1>1. k \in DOMAIN sessions /\ sessions[k].session = s
    BY DEF WatchersMatch, ForgetSession
  <1>2. /\ DOMAIN sessions' = DOMAIN sessions \ {k}
        /\ \A j \in DOMAIN sessions' : sessions'[j] = sessions[j]
    BY <1>1, DropFacts DEF ForgetSession
  <1>3. watching' = watching \ {<<k, s>>}
    BY DEF ForgetSession
  <1> QED BY <1>1, <1>2, <1>3 DEF WatchersMatch

LEMMA StepWatches == WatchersMatch /\ [Next]_vars => WatchersMatch'
  <1> SUFFICES ASSUME WatchersMatch, [Next]_vars PROVE WatchersMatch'
    OBVIOUS
  <1>1. CASE UNCHANGED cacheVars
    BY <1>1 DEF WatchersMatch, cacheVars
  <1>2. ASSUME NEW q \in Request, RememberModern(q) \/ RememberInitialize(q)
        PROVE  WatchersMatch'
    BY <1>2, RememberWatches DEF RememberModern, RememberInitialize
  <1>3. CASE ForgetStep
    BY <1>3, ForgetWatches DEF ForgetStep
  <1>4. ASSUME NEW q \in Request,
               \/ Enter(q) \/ ResolveModern(q) \/ HandlerReturns(q)
               \/ ResolveInitialize(q) \/ RecordToolCall(q)
        PROVE  UNCHANGED cacheVars
    BY <1>4 DEF Enter, ResolveModern, HandlerReturns, ResolveInitialize,
                RecordToolCall
  <1>5. CASE (\E s \in Session : CloseSession(s)) \/ UNCHANGED vars
    BY <1>1, <1>5 DEF CloseSession, vars
  <1> QED BY <1>1, <1>2, <1>3, <1>4, <1>5 DEF Next, MiddlewareStep

\* Every entry of the cache has exactly one goroutine that will remove it, and
\* that one waits for the entry's own session.
THEOREM EntriesAreWatched == Spec => []WatchersMatch
  <1>1. Init => WatchersMatch
    BY DEF Init, WatchersMatch
  <1> QED BY <1>1, StepWatches, PTL DEF Spec

-----------------------------------------------------------------------------
(* Calls belong to the session their handshake announced. *)

\* Under a session as key there is only its own entry.
OwnKeys == \A s \in Session : s \in DOMAIN sessions => sessions[s].session = s

\* Until its call is recorded, what it knew on entry is still remembered,
\* unless the connection closed.
Kept ==
    \A q \in Request :
        Follows(q) /\ at[q] # "done" /\ Form[q].session \notin over
            => /\ Form[q].session \in DOMAIN sessions
               /\ sessions[Form[q].session].id = known[q]

\* A request that has not begun knows nothing, a recorded one is through.
Phases ==
    \A q \in Request : /\ at[q] = "idle" => known[q] = None
                       /\ q \in recorded => at[q] = "done"

JoinInv == TypeOK /\ WatchersMatch /\ OwnKeys /\ Kept /\ Phases /\ CallsJoinTheirSession

\* The key of a handshake is its session only if that has no id.
LEMMA KeyFacts ==
    ASSUME NEW q \in Request, Form[q].session # NoSession
    PROVE  /\ Form[q].session \in Session
           /\ SessionKey(q) \in Session => SessionKey(q) = Form[q].session
           /\ Sid[Form[q].session] = None => SessionKey(q) = Form[q].session
  BY SessionsAssumption DEF SessionKey, Or, Shape

\* Remembering leaves the entries of sessions that are known alone.
LEMMA RememberKeeps ==
    ASSUME OwnKeys, NEW q \in Request, NEW k, RememberSession(q, k),
           k \in Session => k = Form[q].session
    PROVE  /\ OwnKeys'
           /\ \A s \in DOMAIN sessions :
                  s \in DOMAIN sessions' /\ sessions'[s] = sessions[s]
  <1>1. CASE UNCHANGED cacheVars
    BY <1>1 DEF OwnKeys, cacheVars
  <1>2. CASE ~UNCHANGED cacheVars
    <2> DEFINE s == Form[q].session
               e == [client |-> Form[q].client, id |-> ident[q], session |-> s]
    <2>1. k \notin DOMAIN sessions /\ Store(k, e)
      BY <1>2 DEF RememberSession, MayRemember
    <2>2. /\ DOMAIN sessions' = DOMAIN sessions \cup {k}
          /\ sessions'[k] = e
          /\ \A j \in DOMAIN sessions : sessions'[j] = sessions[j]
      <3> HIDE DEF e
      <3> QED BY <2>1, StoreFacts
    <2>3. e.session = s
      OBVIOUS
    <2> HIDE DEF e
    <2> QED BY <2>1, <2>2, <2>3 DEF OwnKeys
  <1> QED BY <1>1, <1>2

LEMMA InitJoin == Init => JoinInv
  <1> SUFFICES ASSUME Init PROVE JoinInv
    OBVIOUS
  <1>1. TypeOK /\ WatchersMatch
    BY InitType DEF Init, WatchersMatch
  <1>2. OwnKeys /\ Phases /\ CallsJoinTheirSession
    BY DEF Init, OwnKeys, Phases, CallsJoinTheirSession
  <1>3. Kept
    BY DEF Init, Kept, Follows
  <1> QED BY <1>1, <1>2, <1>3 DEF JoinInv

LEMMA StepJoin == JoinInv /\ [Next]_vars => JoinInv'
  <1> SUFFICES ASSUME JoinInv, [Next]_vars PROVE JoinInv'
    OBVIOUS
  <1> USE DEF JoinInv
  <1>1. TypeOK' /\ WatchersMatch'
    BY StepType, StepWatches
  <1>2. ASSUME NEW q \in Request, Enter(q) PROVE JoinInv'
    <2>1. /\ UNCHANGED <<cacheVars, over, ident, recorded>>
          /\ at[q] = "idle" /\ at'[q] # "idle" /\ at'[q] # "done"
          /\ known'[q] = Remembered(q)
          /\ \A p \in Request \ {q} : at'[p] = at[p] /\ known'[p] = known[p]
      BY <1>2 DEF Enter, Goto, TypeOK
    <2>2. OwnKeys' /\ Phases'
      BY <2>1 DEF OwnKeys, Phases, cacheVars
    <2>3. \A p \in Request \ {q} : Follows(p)' <=> Follows(p)
      BY <2>1 DEF Follows, Carried, SeedRung
    <2>4. q \notin recorded'
      BY <2>1 DEF Phases
    <2>5. CallsJoinTheirSession'
      BY <2>1, <2>3, <2>4 DEF CallsJoinTheirSession, TypeOK
    <2>6. Follows(q)' => /\ Form[q].session \in DOMAIN sessions
                         /\ sessions[Form[q].session].id = known'[q]
      BY <2>1, KeyFacts DEF Follows, Remembered
    <2>7. Kept'
      BY <2>1, <2>3, <2>6 DEF Kept, cacheVars
    <2> QED BY <1>1, <2>2, <2>5, <2>7
  <1>3. ASSUME NEW q \in Request,
               \/ ResolveModern(q) \/ HandlerReturns(q) \/ ResolveInitialize(q)
        PROVE  JoinInv'
    <2>1. /\ UNCHANGED <<cacheVars, over, known, recorded>>
          /\ at[q] \notin {"idle", "done"} /\ at'[q] # "idle"
          /\ \A p \in Request \ {q} : at'[p] = at[p] /\ ident'[p] = ident[p]
      BY <1>3 DEF ResolveModern, HandlerReturns, ResolveInitialize, Goto, TypeOK
    <2>2. OwnKeys' /\ Phases'
      BY <2>1 DEF OwnKeys, Phases, cacheVars
    <2>3. \A p \in Request : Follows(p)' <=> Follows(p)
      BY <2>1 DEF Follows, Carried, SeedRung
    <2>4. CallsJoinTheirSession'
      BY <2>1, <2>3 DEF CallsJoinTheirSession, Phases, TypeOK
    <2>5. Kept'
      BY <2>1, <2>3 DEF Kept, cacheVars
    <2> QED BY <1>1, <2>2, <2>4, <2>5
  <1>4. ASSUME NEW q \in Request, RecordToolCall(q) PROVE JoinInv'
    <2>1. /\ UNCHANGED <<cacheVars, over, known>>
          /\ at[q] = "record" /\ at'[q] = "done"
          /\ recorded' = recorded \cup {q}
          /\ ident'[q] = AnalyticsSessionID(q)
          /\ \A p \in Request \ {q} : at'[p] = at[p] /\ ident'[p] = ident[p]
      BY <1>4 DEF RecordToolCall, Goto, TypeOK
    <2>2. OwnKeys' /\ Phases'
      BY <2>1 DEF OwnKeys, Phases, cacheVars
    <2>3. \A p \in Request : Follows(p)' <=> Follows(p)
      BY <2>1 DEF Follows, Carried, SeedRung
    <2>4. Follows(q) /\ Form[q].session \notin over => ident'[q] = known[q]
      <3> SUFFICES ASSUME Follows(q), Form[q].session \notin over
                   PROVE  ident'[q] = known[q]
        OBVIOUS
      <3>1. Remembered(q) = known[q]
        BY <2>1, KeyFacts DEF Kept, Follows, Remembered
      <3> QED BY <2>1, <3>1 DEF Follows, AnalyticsSessionID, SidOf, Or
    <2>5. CallsJoinTheirSession'
      BY <2>1, <2>3, <2>4 DEF CallsJoinTheirSession, TypeOK
    <2>6. Kept'
      BY <2>1, <2>3 DEF Kept, cacheVars
    <2> QED BY <1>1, <2>2, <2>5, <2>6
  <1>5. ASSUME NEW q \in Request, RememberModern(q) \/ RememberInitialize(q)
        PROVE  JoinInv'
    <2>1. PICK k : /\ RememberSession(q, k)
                   /\ k \in Session => k = Form[q].session
      <3>1. CASE RememberModern(q)
        <4>1. ident[q] \in Ident
          BY <3>1 DEF RememberModern, TypeOK
        <4> QED BY <3>1, <4>1, SessionsAssumption DEF RememberModern
      <3>2. CASE RememberInitialize(q)
        <4>1. CASE Form[q].session # NoSession
          BY <3>2, <4>1, KeyFacts DEF RememberInitialize
        <4>2. CASE Form[q].session = NoSession
          <5>1. SessionKey(q) \notin Session
            BY <4>2, SessionsAssumption DEF SessionKey, Or, Shape
          <5> QED BY <3>2, <5>1 DEF RememberInitialize
        <4> QED BY <4>1, <4>2
      <3> QED BY <1>5, <3>1, <3>2
    <2>2. /\ OwnKeys'
          /\ \A s \in DOMAIN sessions :
                 s \in DOMAIN sessions' /\ sessions'[s] = sessions[s]
      BY <2>1, RememberKeeps
    <2>3. /\ UNCHANGED <<over, ident, known, recorded>>
          /\ at[q] \notin {"idle", "done"} /\ at'[q] # "idle"
          /\ \A p \in Request \ {q} : at'[p] = at[p]
      BY <1>5 DEF RememberModern, RememberInitialize, Goto, TypeOK
    <2>4. Phases'
      BY <2>3 DEF Phases
    <2>5. \A p \in Request : Follows(p)' <=> Follows(p)
      BY <2>3 DEF Follows, Carried, SeedRung
    <2>6. CallsJoinTheirSession'
      BY <2>3, <2>5 DEF CallsJoinTheirSession, TypeOK
    <2>7. Kept'
      BY <2>2, <2>3, <2>5 DEF Kept
    <2> QED BY <1>1, <2>2, <2>4, <2>6, <2>7
  <1>6. ASSUME NEW s \in Session, CloseSession(s) PROVE JoinInv'
    <2>1. /\ UNCHANGED <<cacheVars, at, ident, known, recorded>>
          /\ over' = over \cup {s}
      BY <1>6 DEF CloseSession
    <2>2. OwnKeys' /\ Phases'
      BY <2>1 DEF OwnKeys, Phases, cacheVars
    <2>3. \A p \in Request : Follows(p)' <=> Follows(p)
      BY <2>1 DEF Follows, Carried, SeedRung
    <2>4. CallsJoinTheirSession' /\ Kept'
      BY <2>1, <2>3 DEF CallsJoinTheirSession, TypeOK, Kept, cacheVars
    <2> QED BY <1>1, <2>2, <2>4
  <1>7. ASSUME NEW k, NEW s, ForgetSession(k, s) PROVE JoinInv'
    <2>1. /\ UNCHANGED <<over, at, ident, known, recorded>>
          /\ s \in over
          /\ k \in DOMAIN sessions /\ sessions[k].session = s
      BY <1>7 DEF ForgetSession, WatchersMatch
    <2>2. /\ DOMAIN sessions' = DOMAIN sessions \ {k}
          /\ \A j \in DOMAIN sessions' : sessions'[j] = sessions[j]
      BY <1>7, <2>1, DropFacts DEF ForgetSession
    <2>3. OwnKeys' /\ Phases'
      BY <2>1, <2>2 DEF OwnKeys, Phases
    <2>4. \A p \in Request : Follows(p)' <=> Follows(p)
      BY <2>1 DEF Follows, Carried, SeedRung
    <2>5. CallsJoinTheirSession'
      BY <2>1, <2>4 DEF CallsJoinTheirSession, TypeOK
    <2>6. ASSUME NEW q \in Request, Follows(q), Form[q].session \notin over
          PROVE  Form[q].session # k
      <3>1. Form[q].session \in Session
        BY <2>6, KeyFacts DEF Follows
      <3> QED BY <2>1, <2>6, <3>1 DEF OwnKeys
    <2>7. Kept'
      BY <2>1, <2>2, <2>4, <2>6 DEF Kept
    <2> QED BY <1>1, <2>3, <2>5, <2>7
  <1>8. CASE UNCHANGED vars
    <2>1. \A p \in Request : Follows(p)' <=> Follows(p)
      BY <1>8 DEF vars, Follows, Carried, SeedRung
    <2>2. OwnKeys' /\ Phases' /\ CallsJoinTheirSession' /\ Kept'
      BY <1>8, <2>1 DEF vars, TypeOK, cacheVars, OwnKeys, Phases, CallsJoinTheirSession, Kept
    <2> QED BY <1>1, <2>2
  <1> QED BY <1>2, <1>3, <1>4, <1>5, <1>6, <1>7, <1>8
          DEF Next, MiddlewareStep, ForgetStep

\* A call that names no session itself belongs to the session that its
\* connection's handshake announced, for every set of sessions and requests.
THEOREM CallsStayTogether == Spec => []CallsJoinTheirSession
  <1>1. JoinInv => CallsJoinTheirSession
    BY DEF JoinInv
  <1> QED BY <1>1, InitJoin, StepJoin, PTL DEF Spec
=============================================================================
