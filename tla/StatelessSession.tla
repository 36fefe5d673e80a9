-------------------------- MODULE StatelessSession --------------------------
(***************************************************************************)
(* Session identity of clients of the protocol before 2026-07-28 on        *)
(* stateless HTTP servers (stateless_http.go, stateless_http_handler.go,   *)
(* stateless_http_mark3labs.go): an initialize mints an id, the answer     *)
(* carries it in Mcp-Session-Id, the client echoes it.  The server may be  *)
(*   "repair"   the official adapter behind WrapStatelessHTTPHandler,      *)
(*   "context"  mark3labs behind it, StatelessHTTPSessionFromRequest,      *)
(*   "resolve"  mark3labs with ResolveStatelessHTTPSession alone,          *)
(*   "again"    the same behind the wrapper, which resolves as well.       *)
(* Answers may be lost, a client may repeat its handshake, and a proxy may *)
(* add X-Armature-Session-Seed to all requests of a conversation.          *)
(*                                                                         *)
(* Recorded events are taken in the order of the queue (PrivacyQueue is    *)
(* first in, first out); one actor, so lazySessions is keyed by session.   *)
(* Requests that are no POST with a JSON body resolve to no session and    *)
(* record nothing; they are left out.                                      *)
(***************************************************************************)
EXTENDS FiniteSets

CONSTANTS
    Conversation,  \* clients, each of which speaks for itself
    Handshake,     \* initialize requests
    ToolCall,      \* tools/call requests
    Of,            \* the conversation of each request
    Client,        \* name and version each conversation sends, as slugs
    SeedHeader,    \* seeds a proxy may add to the requests of a conversation
    UUIDSeeds,     \* those that have the form of a UUID
    Hinted,        \* requests answered by an informational status first
    Deployments,   \* the servers considered
    Forged,        \* a repair header from outside
    None

Request == Handshake \cup ToolCall
Minted  == {Client[c] : c \in Conversation} \X
           (UUIDSeeds \cup Request \X {"wrapper", "server"})

ASSUME StatelessAssumption ==
    /\ Handshake \cap ToolCall = {}
    /\ Of \in [Request -> Conversation]
    /\ UUIDSeeds \subseteq SeedHeader
    /\ None \notin Minted \cup SeedHeader \cup {Forged}
    /\ Minted \cap SeedHeader = {}
    /\ Hinted \subseteq Request
    /\ Deployments \subseteq {"repair", "context", "resolve", "again"}

VARIABLES
    deployment, \* the server
    seed,       \* X-Armature-Session-Seed of each conversation, or None
    given,      \* the id each client echoes, None before the first answer
    at,         \* where the handling of each request is
    echo,       \* Mcp-Session-Id of each request
    repair,     \* X-Armature-Stateless-Session-Id of each request
    session,    \* what the wrapper resolved, None for pass-through
    own,        \* the id the server used
    served,     \* requests the server answered with a result
    status,     \* sessionHeaderResponseWriter.status, "none" before
    header,     \* Mcp-Session-Id of each answer
    answer,     \* "none", or what became of the answer
    named,      \* ids under which events of each request were recorded
    announced   \* lazySessions, and whether a handshake or a call was first

handling == <<at, echo, repair, session, own, served>>
vars == <<deployment, seed, given, handling, status, header, answer, named,
          announced>>

Wrapped     == deployment # "resolve"
Mark3labs   == deployment # "repair"
Seeded(c)   == seed[c] \in UUIDSeeds
Ambiguous(r) == deployment = "again" /\ ~Seeded(Of[r])

Init ==
    /\ deployment \in Deployments
    /\ seed \in [Conversation -> SeedHeader \cup {None}]
    /\ given = [c \in Conversation |-> None]
    /\ at = [r \in Request |-> "idle"]
    /\ echo = [r \in Request |-> None]
    /\ repair = [r \in Request |-> None]
    /\ session = [r \in Request |-> None]
    /\ own = [r \in Request |-> None]
    /\ served = {}
    /\ status = [r \in Request |-> "none"]
    /\ header = [r \in Request |-> None]
    /\ answer = [r \in Request |-> "none"]
    /\ named = [r \in Request |-> {}]
    /\ announced = {}

-----------------------------------------------------------------------------
(* Slips: wrong versions of the building blocks below, used by no          *)
(* specification; they confirm that the properties notice such a slip.     *)
TrustInbound(r)      == repair[r]
AlwaysRandom(c, r, by) == <<r, by>>
AlwaysSucceeded(r)   == TRUE

-----------------------------------------------------------------------------
(* Building blocks *)

\* The last part of a minted id: the seed if it is a UUID, else random.
SessionUUID(c, r, by) == IF Seeded(c) THEN seed[c] ELSE <<r, by>>

\* ResolveStatelessHTTPSession
Resolve(r, by) ==
    IF r \in Handshake
    THEN <<Client[Of[r]], SessionUUID(Of[r], r, by)>>
    ELSE echo[r]

\* req.Header.Del(StatelessSessionHeader)
Inbound(r) == None

\* analyticsSessionID behind the wrapper, which has put an echoed id into the
\* repair header: that header, else the seed, else nothing.
AnalyticsSessionID(r) == IF repair[r] # None THEN repair[r] ELSE seed[Of[r]]

\* The session the per-request server gives the events of the request.
ServerSession(r) ==
    CASE deployment = "repair"  -> AnalyticsSessionID(r)
      [] deployment = "context" -> session[r]
      [] OTHER                  -> Resolve(r, "server")

\* Mark3labsSessionIDManager.Generate: the transport names it to the client.
Generated(r) == IF Mark3labs /\ r \in Handshake THEN own[r] ELSE None

\* The header of a 2xx status that is the first to be written.
Attach(r) ==
    IF Generated(r) = None /\ status[r] = "none" THEN session[r]
                                               ELSE Generated(r)

\* sessionHeaderResponseWriter.succeeded
Succeeded(r) == status[r] \in {"none", "2xx"}

\* lazySessions.Add, by a session_init or by a call that comes first
Announce(id, by) ==
    announced' = IF id = None \/ \E how \in {"handshake", "call"} :
                                     <<id, how>> \in announced
                 THEN announced ELSE announced \cup {<<id, by>>}

Record(r, id, by) ==
    /\ named' = [named EXCEPT ![r] = @ \cup {id}]
    /\ Announce(id, by)

Goto(r, label) == at' = [at EXCEPT ![r] = label]

-----------------------------------------------------------------------------
(* A request *)

\* A conforming client echoes the id it was given, if it has one; some drop
\* it.  Nobody stops a client from sending the repair header itself.
Send(r) ==
    /\ at[r] = "idle"
    /\ Goto(r, "wrapper")
    /\ \E id \in IF r \in ToolCall THEN {given[Of[r]], None} ELSE {None} :
           echo' = [echo EXCEPT ![r] = id]
    /\ \E id \in {None, Forged} : repair' = [repair EXCEPT ![r] = id]
    /\ UNCHANGED <<deployment, seed, given, session, own, served, status,
                   header, answer, named, announced>>

\* WrapStatelessHTTPHandler up to next.ServeHTTP
Enter(r) ==
    /\ at[r] = "wrapper"
    /\ Goto(r, "server")
    /\ IF Wrapped
       THEN LET id == Resolve(r, "wrapper") IN
            /\ session' = [session EXCEPT ![r] = id]
            /\ repair' = [repair EXCEPT ![r] =
                              IF id = None THEN Inbound(r) ELSE id]
       ELSE UNCHANGED <<session, repair>>
    /\ UNCHANGED <<deployment, seed, given, echo, own, served, status, header,
                   answer, named, announced>>

\* HTTP middleware of the customer refuses the request before the server.
Refuse(r) ==
    /\ at[r] = "server"
    /\ Goto(r, "return")
    /\ status' = [status EXCEPT ![r] = "error"]
    /\ answer' = [answer EXCEPT ![r] = "sent"]
    /\ UNCHANGED <<deployment, seed, given, echo, repair, session, own, served,
                   header, named, announced>>

\* The instrumented server handles the message and records its event; an
\* initialize that fails is answered, and not recorded here.
Serve(r) ==
    /\ at[r] = "server"
    /\ Goto(r, "write")
    /\ own' = [own EXCEPT ![r] = ServerSession(r)]
    /\ \/ /\ served' = served \cup {r}
          /\ Record(r, ServerSession(r),
                    IF r \in Handshake THEN "handshake" ELSE "call")
       \/ r \in Handshake /\ UNCHANGED <<served, named, announced>>
    /\ UNCHANGED <<deployment, seed, given, echo, repair, session, status,
                   header, answer>>

\* WriteHeader with a 1xx status: the first status the wrapper remembers.
WriteHint(r) ==
    /\ at[r] = "write"
    /\ r \in Hinted /\ status[r] = "none"
    /\ status' = [status EXCEPT ![r] = "1xx"]
    /\ UNCHANGED <<deployment, seed, given, handling, header, answer, named,
                   announced>>

\* WriteHeader(2xx), Write or Flush: the answer is on its way.
WriteAnswer(r) ==
    /\ at[r] = "write"
    /\ header' = [header EXCEPT ![r] = Attach(r)]
    /\ status' = [status EXCEPT ![r] = IF @ = "none" THEN "2xx" ELSE @]
    /\ answer' = [answer EXCEPT ![r] = "sent"]
    /\ Goto(r, "return")
    /\ UNCHANGED <<deployment, seed, given, echo, repair, session, own, served,
                   named, announced>>

\* The handler returns without writing: the headers are still open.
WriteNothing(r) ==
    /\ at[r] = "write"
    /\ header' = [header EXCEPT ![r] = Attach(r)]
    /\ Goto(r, "return")
    /\ UNCHANGED <<deployment, seed, given, echo, repair, session, own, served,
                   status, answer, named, announced>>

\* After next.ServeHTTP: the session_init of a handshake that succeeded; an
\* answer that was not written yet is committed with an implicit 200.
Return(r) ==
    /\ at[r] = "return"
    /\ Goto(r, "end")
    /\ IF session[r] # None /\ r \in Handshake /\ Succeeded(r)
       THEN Record(r, session[r], "handshake")
       ELSE UNCHANGED <<named, announced>>
    /\ answer' = [answer EXCEPT ![r] = IF @ = "none" THEN "sent" ELSE @]
    /\ UNCHANGED <<deployment, seed, given, echo, repair, session, own, served,
                   status, header>>

\* The answer reaches the client, which remembers the id of its handshake.  A
\* lost answer is one that is never received.
Receive(r) ==
    /\ answer[r] = "sent"
    /\ answer' = [answer EXCEPT ![r] = "received"]
    /\ given' = [given EXCEPT ![Of[r]] =
                    IF r \in Handshake \cap served /\ header[r] # None
                    THEN header[r] ELSE @]
    /\ UNCHANGED <<deployment, seed, handling, status, header, named,
                   announced>>

RequestStep(r) ==
    \/ Send(r) \/ Enter(r) \/ Refuse(r) \/ Serve(r) \/ WriteHint(r)
    \/ WriteAnswer(r) \/ WriteNothing(r) \/ Return(r)

Next == \E r \in Request : RequestStep(r) \/ Receive(r)

Spec == Init /\ [][Next]_vars

-----------------------------------------------------------------------------
(* Properties *)

Identifier == Minted \cup SeedHeader \cup {Forged, None}

TypeOK ==
    /\ deployment \in Deployments
    /\ seed \in [Conversation -> SeedHeader \cup {None}]
    /\ given \in [Conversation -> Minted \cup {None}]
    /\ at \in [Request -> {"idle", "wrapper", "server", "write", "return", "end"}]
    /\ echo \in [Request -> Minted \cup {None}]
    /\ repair \in [Request -> Identifier]
    /\ session \in [Request -> Minted \cup {None}]
    /\ own \in [Request -> Minted \cup SeedHeader \cup {None}]
    /\ served \subseteq Request
    /\ status \in [Request -> {"none", "1xx", "2xx", "error"}]
    /\ header \in [Request -> Minted \cup {None}]
    /\ answer \in [Request -> {"none", "sent", "received"}]
    /\ named \in [Request -> SUBSET Identifier]
    /\ announced \subseteq Identifier \X {"handshake", "call"}

\* The events of a handshake, whether the server or the wrapper records them,
\* bear the very id that the answer names to the client, and a refused one
\* leaves no event and no id.  Not so where wrapper and server both resolve
\* without a seed, nor after an informational status, which can cost the
\* answer its id but never changes it.
HandshakeNamesItsSession ==
    \A r \in Handshake : at[r] \in {"return", "end"} =>
        /\ status[r] = "error" => named[r] = {} /\ header[r] = None
        /\ status[r] # "error" /\ ~Ambiguous(r) =>
               \/ named[r] \subseteq {header[r]}
               \/ r \in Hinted /\ header[r] = None

\* A call that echoes an id is recorded under it, and its session has been
\* announced by a handshake with the client's full identity, however early
\* the answer is written; other calls never get an id from outside.
CallsJoinTheirHandshake ==
    \A r \in ToolCall : \A id \in named[r] :
        \/ echo[r] = None /\ id \in {None, seed[Of[r]]}
        \/ echo[r] # None /\ id = echo[r] /\ <<id, "handshake">> \in announced

\* A seeded conversation stays one session through lost answers, repeated
\* handshakes and servers that resolve twice.
SeedKeepsOneSession ==
    \A r \in Request : Seeded(Of[r]) /\ (r \in Handshake \/ echo[r] # None) =>
        named[r] \subseteq {<<Client[Of[r]], seed[Of[r]]>>}
=============================================================================
