-------------------------- MODULE OfficialSessions --------------------------
(***************************************************************************)
(* The session cache of the official-SDK adapter                           *)
(* (src/armatureanalytics/official/official.go, modern_protocol.go): which *)
(* session a request belongs to, what is remembered of its initialize      *)
(* handshake, when a session_init is offered, and how the cache is emptied *)
(* as sessions close.                                                      *)
(*                                                                         *)
(* Every request runs the middleware on its own goroutine; every entry of  *)
(* the cache has a goroutine that waits for its session to close.  They    *)
(* meet only under sessionsMu, so each critical section is one step.  A    *)
(* session may close at any moment, also while a request is served.        *)
(* Identifiers and client infos are opaque; None is the empty string or a  *)
(* nil pointer.                                                            *)
(***************************************************************************)
CONSTANTS
    Session,    \* *mcp.ServerSession values
    Sid,        \* session.ID() of each session, None for ""
    Request,    \* MCP requests
    Form,       \* what each request carries, see Shape
    Minted,     \* pairs of a session id and the seed it was minted from
    ProcessID,  \* ProcessScopedSessionID()
    NoSession,  \* a request without a ServerSession
    None,
    Ident,      \* identifiers in use
    Client      \* client infos in use

\* conversation is the baggage member gen_ai.conversation.id; repair, seed and
\* echo are the headers X-Armature-Stateless-Session-Id, X-Armature-Session-Seed
\* and Mcp-Session-Id; client is what perRequestClientInfo makes of the request.
Shape == [method : {"initialize", "tools/call", "other"},
          session : Session \cup {NoSession}, modern : BOOLEAN,
          headers : BOOLEAN, client : Client \cup {None},
          conversation : Ident \cup {None}, repair : Ident \cup {None},
          seed : Ident \cup {None}, echo : Ident \cup {None}]

ASSUME SessionsAssumption ==
    /\ Form \in [Request -> Shape]
    /\ Sid \in [Session -> Ident \cup {None}]
    /\ None \notin Ident \cup Client \cup Session
    /\ ProcessID \in Ident
    /\ NoSession \notin Session
    /\ Session \cap (Ident \cup Request) = {}   \* keys of different Go types
    /\ \A q \in Request :
           Form[q].headers \/ {Form[q].repair, Form[q].seed, Form[q].echo} = {None}

VARIABLES
    sessions,  \* r.sessions: client info, analyticsSessionID and session by key
    watching,  \* keys and sessions of the forgetSessionWhenClosed goroutines
    over,      \* sessions that are closed
    at,        \* where the middleware of each request is
    client,    \* clientInfo captured for a tools/call
    ident,     \* analyticsSessionID as the request last resolved it
    offered,   \* requests that offered a session_init
    recorded,  \* tools/call requests whose event was recorded
    known      \* the identifier remembered for a request's session on entry

cacheVars == <<sessions, watching>>
vars == <<cacheVars, over, at, client, ident, offered, recorded, known>>

Key == Session \cup Ident \cup Request
Entry == [client : Client \cup {None}, id : Ident \cup {None}, session : Session]
Place == {"idle", "modern", "remember modern", "handler", "initialize",
          "remember", "record", "done"}

Goto(q, label) == at' = [at EXCEPT ![q] = label]

-----------------------------------------------------------------------------
(* Slips: wrong versions of the building blocks below, used by no          *)
(* specification; they confirm that the properties notice such a slip.     *)
Overwrites(k)     == TRUE
Unwatched(k, s)   == {}

-----------------------------------------------------------------------------
(* Building blocks *)

\* The first of two identifiers that is given.
Or(id, other) == IF id # None THEN id ELSE other

\* sessionKey
SessionKey(q) ==
    IF Form[q].session = NoSession
    THEN Or(Form[q].echo, q)
    ELSE Or(Sid[Form[q].session], Form[q].session)

\* r.sessions[key].analyticsSessionID
Remembered(q) ==
    IF Form[q].session # NoSession /\ SessionKey(q) \in DOMAIN sessions
    THEN sessions[SessionKey(q)].id ELSE None

\* The X-Armature-Session-Seed header, or the session id that was minted of it.
SeedRung(q) ==
    IF Form[q].seed # None /\ <<Form[q].echo, Form[q].seed>> \in Minted
    THEN Form[q].echo ELSE Form[q].seed

\* What the request itself says of its session, the first three rungs.
Carried(q) == Or(Form[q].conversation, Or(Form[q].repair, SeedRung(q)))

SidOf(q) == IF Form[q].session = NoSession THEN None ELSE Sid[Form[q].session]

LastResort(q) == Or(Form[q].echo, IF Form[q].headers THEN None ELSE ProcessID)

\* Rung 4 without its cache.
MemoryIgnored(q) == Or(Carried(q), Or(SidOf(q), LastResort(q)))

\* analyticsSessionID, the whole ladder
AnalyticsSessionID(q) ==
    Or(Carried(q), Or(SidOf(q), Or(Remembered(q), LastResort(q))))

\* !(ok && existing.emitted); every entry is stored as emitted
MayRemember(k) == k \notin DOMAIN sessions

\* go r.forgetSessionWhenClosed(key, session)
Watch(k, s) == {<<k, s>>}

\* delete(r.sessions, key) if the entry is of this session
DropEntry(k, s) ==
    sessions' = [j \in {j \in DOMAIN sessions : j # k \/ sessions[j].session # s}
                    |-> sessions[j]]

Store(k, entry) ==
    sessions' = [j \in DOMAIN sessions \cup {k} |->
                    IF j = k THEN entry ELSE sessions[j]]

Init ==
    /\ sessions = [k \in {} |-> None]
    /\ watching = {}
    /\ over = {}
    /\ at = [q \in Request |-> "idle"]
    /\ client = [q \in Request |-> None]
    /\ ident = [q \in Request |-> None]
    /\ offered = {}
    /\ recorded = {}
    /\ known = [q \in Request |-> None]

-----------------------------------------------------------------------------
(* The middleware *)

\* clientInfo: for a tools/call, taken before the handler is entered.
CapturedClient(q) ==
    Or(Form[q].client, IF SessionKey(q) \in DOMAIN sessions
                       THEN sessions[SessionKey(q)].client ELSE None)

Enter(q) ==
    /\ at[q] = "idle"
    /\ Form[q].session \notin over
    /\ client' = [client EXCEPT ![q] =
           IF Form[q].method = "tools/call" THEN CapturedClient(q) ELSE None]
    /\ known' = [known EXCEPT ![q] = Remembered(q)]
    /\ Goto(q, IF Form[q].modern THEN "modern" ELSE "handler")
    /\ UNCHANGED <<cacheVars, over, ident, offered, recorded>>

\* recordModernSessionInit resolves the session; without one it is through.
ResolveModern(q) ==
    /\ at[q] = "modern"
    /\ ident' = [ident EXCEPT ![q] = AnalyticsSessionID(q)]
    /\ Goto(q, IF ident'[q] = None THEN "handler" ELSE "remember modern")
    /\ UNCHANGED <<cacheVars, over, client, offered, recorded, known>>

\* rememberSession, and RecordSessionInit if it says that this is new: a
\* request without a ServerSession is not remembered and always offers.
RememberSession(q, k) ==
    LET s == Form[q].session IN
    \/ /\ s = NoSession
       /\ offered' = offered \cup {q}
       /\ UNCHANGED cacheVars
    \/ /\ s # NoSession
       /\ ~MayRemember(k)
       /\ UNCHANGED <<cacheVars, offered>>
    \/ /\ s # NoSession
       /\ MayRemember(k)
       /\ Store(k, [client |-> Form[q].client, id |-> ident[q], session |-> s])
       /\ watching' = watching \cup Watch(k, s)
       /\ offered' = offered \cup {q}

RememberModern(q) ==
    /\ at[q] = "remember modern"
    /\ RememberSession(q, ident[q])
    /\ Goto(q, "handler")
    /\ UNCHANGED <<over, client, ident, recorded, known>>

\* next returns; a handshake that failed is not recorded.
HandlerReturns(q) ==
    /\ at[q] = "handler"
    /\ \/ Form[q].method = "initialize" /\ Goto(q, "initialize")
       \/ Form[q].method = "tools/call" /\ Goto(q, "record")
       \/ Form[q].method # "tools/call" /\ Goto(q, "done")
    /\ UNCHANGED <<cacheVars, over, client, ident, offered, recorded, known>>

\* recordInitialize resolves the session, whatever comes of it ...
ResolveInitialize(q) ==
    /\ at[q] = "initialize"
    /\ ident' = [ident EXCEPT ![q] = AnalyticsSessionID(q)]
    /\ Goto(q, "remember")
    /\ UNCHANGED <<cacheVars, over, client, offered, recorded, known>>

\* ... and remembers it under the key of its session.
RememberInitialize(q) ==
    /\ at[q] = "remember"
    /\ RememberSession(q, SessionKey(q))
    /\ Goto(q, "done")
    /\ UNCHANGED <<over, client, ident, recorded, known>>

\* recordToolCall resolves the session after the handler and records the event.
RecordToolCall(q) ==
    /\ at[q] = "record"
    /\ ident' = [ident EXCEPT ![q] = AnalyticsSessionID(q)]
    /\ recorded' = recorded \cup {q}
    /\ Goto(q, "done")
    /\ UNCHANGED <<cacheVars, over, client, offered, known>>

-----------------------------------------------------------------------------
(* The end of sessions *)

CloseSession(s) ==
    /\ s \notin over
    /\ over' = over \cup {s}
    /\ UNCHANGED <<cacheVars, at, client, ident, offered, recorded, known>>

\* forgetSessionWhenClosed, when session.Wait has returned
ForgetSession(k, s) ==
    /\ <<k, s>> \in watching
    /\ s \in over
    /\ watching' = watching \ {<<k, s>>}
    /\ DropEntry(k, s)
    /\ UNCHANGED <<over, at, client, ident, offered, recorded, known>>

-----------------------------------------------------------------------------
MiddlewareStep(q) ==
    \/ ResolveModern(q) \/ RememberModern(q) \/ HandlerReturns(q)
    \/ ResolveInitialize(q) \/ RememberInitialize(q) \/ RecordToolCall(q)

ForgetStep == \E k \in Key, s \in Session : ForgetSession(k, s)

Next ==
    \/ \E q \in Request : Enter(q) \/ MiddlewareStep(q)
    \/ \E s \in Session : CloseSession(s)
    \/ ForgetStep

Spec == Init /\ [][Next]_vars

\* Goroutines whose session.Wait has returned go on; requests may hang.
Fairness == WF_vars(ForgetStep)

FairSpec == Spec /\ Fairness

-----------------------------------------------------------------------------
(* Properties *)

TypeOK ==
    /\ DOMAIN sessions \subseteq Key
    /\ \A k \in DOMAIN sessions : sessions[k] \in Entry
    /\ watching \subseteq Key \X Session
    /\ over \subseteq Session
    /\ at \in [Request -> Place]
    /\ client \in [Request -> Client \cup {None}]
    /\ ident \in [Request -> Ident \cup {None}]
    /\ known \in [Request -> Ident \cup {None}]
    /\ \A q \in Request : at[q] = "remember modern" => ident[q] \in Ident
    /\ {offered, recorded} \subseteq SUBSET Request

\* official.go:411-413, metadata is retained "for every live session without
\* relying on an arbitrary capacity limit": every entry has exactly one
\* goroutine that will remove it, the one that waits for the entry's own
\* session, so nothing is kept for ever and nobody removes another's entry.
WatchersMatch ==
    watching = {<<k, sessions[k].session>> : k \in DOMAIN sessions}

\* A tool call that names no session itself, on a session without an id whose
\* handshake was remembered before the call came in.
Follows(q) ==
    /\ Carried(q) = None
    /\ Form[q].session # NoSession
    /\ Sid[Form[q].session] = None
    /\ known[q] # None

\* Such a call belongs to the session its initialize announced as long as the
\* connection lives, however the call, requests that share a conversation and
\* the cleanups of other sessions interleave.  The code resolves the session
\* after the handler, so a call whose connection closes meanwhile may lose it.
CallsJoinTheirSession ==
    \A q \in recorded :
        Follows(q) => ident[q] = known[q] \/ Form[q].session \in over

\* A closed session is forgotten for good, even if its handshake is recorded
\* only after it closed.
ClosedIsForgotten ==
    \A s \in Session :
        [](s \in over =>
               <>[](\A k \in DOMAIN sessions : sessions[k].session # s))
=============================================================================
