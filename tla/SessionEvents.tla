---------------------------- MODULE SessionEvents ---------------------------
(***************************************************************************)
(* Which events go out for a session: session_init and actor_identity,     *)
(* with their deduplication, beside the tool calls                         *)
(* (src/armatureanalytics/recorder.go, bounded_keys.go).                   *)
(*                                                                         *)
(* A candidate becomes events in buildToolCallEvents or in the closure of  *)
(* RecordSessionInit.  The worker of the queue builds the candidates in    *)
(* its hand one after the other and ships their events together; a         *)
(* reserved send_feedback call builds and ships its own on its goroutine,  *)
(* at the same time.  Both use lazySessions and actorIdentifiers, whose    *)
(* mutexes make each look-up one step, but nothing makes the steps of one  *)
(* candidate atomic.  The queue is DeliveryPipe; closing is Recorder's.    *)
(***************************************************************************)
EXTENDS Integers, Sequences, FiniteSets, Functions

CONSTANTS
    Queued,       \* candidates that go through the queue
    Direct,       \* reserved send_feedback calls
    Inits,        \* the queued candidates of initialize handshakes
    ConnOf,       \* the connection of each of Inits
    KeyOf,        \* actor and session of each candidate, NoKey without session
    ActorOf,      \* identified actor of each candidate, NoActor without
    NoKey, NoActor,
    MaxKeys,      \* bound of lazySessions and emittedSession
    MaxActors,    \* bound of actorIdentifiers
    Capacity,     \* of the queue
    Handful,      \* most candidates the worker takes at once
    Panics,       \* customer code may panic while a candidate is built
    Lossy         \* a POST may fail for good

Candidate == Queued \cup Direct
Conn  == {ConnOf[c] : c \in Inits}
Key   == {KeyOf[c] : c \in Candidate} \ {NoKey}
Actor == {ActorOf[c] : c \in Candidate} \ {NoActor}

ASSUME SessionAssumption ==
    /\ Queued \cap Direct = {}
    /\ Inits \subseteq Queued
    /\ DOMAIN ConnOf = Inits
    /\ DOMAIN KeyOf = Candidate
    /\ DOMAIN ActorOf = Candidate
    /\ {MaxKeys, MaxActors, Capacity, Handful} \subseteq Nat \ {0}
    /\ {Panics, Lossy} \subseteq BOOLEAN

VARIABLES
    emittedSession,   \* connections whose handshake was seen
    lazySessions,     \* keys whose session_init was built
    actorIdentifiers, \* actors whose identity was built
    at,               \* where each candidate is
    parts,            \* events built for a candidate so far
    received,         \* events that reached ingest
    mishap,           \* whether a candidate panicked or a POST failed
    announced,        \* how often a session_init was built for a key
    evicted,          \* how often a key was evicted from lazySessions
    identified,       \* how often an identity was built for an actor
    forgotten,        \* how often an actor was evicted from actorIdentifiers
    handshakes,       \* how often a connection passed emittedSession
    released          \* how often it was evicted from it or unregistered

VARIABLES line, hand, shipped, wire, settled, lost, number, open

Pipe == INSTANCE DeliveryPipe WITH Item <- Queued, Lossless <- FALSE
Set  == INSTANCE BoundedKeySet

queueVars == <<line, hand, shipped, wire, settled, lost, number, open>>
dedupVars == <<lazySessions, actorIdentifiers, announced, evicted, identified,
               forgotten>>
connVars  == <<emittedSession, handshakes, released>>
arrivalVars == <<received, mishap>>
vars == <<at, parts, arrivalVars, dedupVars, connVars, queueVars>>

Place == {"idle", "offer", "queued", "seed", "identity", "session", "finalize",
          "built", "done"}

\* An event is its kind and what it is about.
Identity(a)    == <<"actor_identity", a>>
SessionInit(k) == <<"session_init", k>>
ToolCall(c)    == <<"tool_call", c>>
Event == {Identity(a) : a \in Actor} \cup {ToolCall(c) : c \in Candidate}
            \cup {SessionInit(k) : k \in Key \cup {NoKey}}

Goto(c, label) == at' = [at EXCEPT ![c] = label]
Build(c, new)  == parts' = [parts EXCEPT ![c] = @ \cup new]
Count(f, S)    == [x \in DOMAIN f |-> IF x \in S THEN f[x] + 1 ELSE f[x]]

Init ==
    /\ emittedSession = Set!Empty
    /\ lazySessions = Set!Empty
    /\ actorIdentifiers = {}
    /\ at = [c \in Candidate |-> IF c \in Direct THEN "seed" ELSE "idle"]
    /\ parts = [c \in Candidate |-> {}]
    /\ received = {}
    /\ mishap = FALSE
    /\ announced = [k \in Key |-> 0]
    /\ evicted = [k \in Key |-> 0]
    /\ identified = [a \in Actor |-> 0]
    /\ forgotten = [a \in Actor |-> 0]
    /\ handshakes = [s \in Conn |-> 0]
    /\ released = [s \in Conn |-> 0]
    /\ Pipe!PipeInit

-----------------------------------------------------------------------------
(* Slips: wrong versions of the building blocks below, used by no          *)
(* specification; they confirm that the properties notice such a slip.     *)
KeysOnly(set, s)   == [set EXCEPT !.keys = @ \ {s}]
NotLookedUp(k)     == k # NoKey
MarkedOnly(c)      == {}

-----------------------------------------------------------------------------
(* Building blocks *)

\* r.actorIdentifiers[actorID] == identifier (an identified actor's ID is the
\* hash of its identifier, so the identifier cannot differ)
UnknownActor(a) == a # NoActor /\ a \notin actorIdentifiers

\* len(r.actorIdentifiers) >= 10_000
ActorsFull == Cardinality(actorIdentifiers) >= MaxActors

\* in.SessionID != "" && r.lazySessions.Add(...)
NewSession(k) == k # NoKey /\ k \notin lazySessions.keys

\* !r.emittedSession.Add(sessionKey)
NewHandshake(s) == s \notin emittedSession.keys

\* r.emittedSession.Delete(key)
Forget(set, s) == Set!Delete(set, s)

\* The session_init of a candidate whose Add reported a new key.
InitOf(c) == {SessionInit(KeyOf[c])}

-----------------------------------------------------------------------------
(* Hooks: what is offered to the queue *)

\* onAfterInitialize: a connection that initializes again offers nothing.
AfterInitialize(c) ==
    /\ at[c] = "idle"
    /\ LET s == ConnOf[c] IN
       \/ /\ ~NewHandshake(s)
          /\ Goto(c, "done")
          /\ UNCHANGED connVars
       \/ /\ NewHandshake(s)
          /\ emittedSession' = Set!Add(emittedSession, s, MaxKeys)
          /\ handshakes' = Count(handshakes, {s})
          /\ released' = Count(released, emittedSession.keys \ emittedSession'.keys)
          /\ Goto(c, "offer")
    /\ UNCHANGED <<parts, arrivalVars, dedupVars, queueVars>>

\* onUnregisterSession
UnregisterSession(s) ==
    /\ s \in emittedSession.keys
    /\ emittedSession' = Forget(emittedSession, s)
    /\ released' = Count(released, {s})
    /\ UNCHANGED <<at, parts, arrivalVars, dedupVars, handshakes, queueVars>>

\* r.queue.enqueue by RecordSessionInit or RecordToolCall; a full queue
\* throws out its oldest candidate, of which nothing is built.
Enqueue(c) ==
    /\ at[c] = IF c \in Inits THEN "offer" ELSE "idle"
    /\ Pipe!Admit(c) \/ Pipe!AdmitOverOldest(c)
    /\ at' = [d \in Candidate |->
                 CASE d = c             -> "queued"
                   [] d \in lost' \ lost -> "done"
                   [] OTHER             -> at[d]]
    /\ UNCHANGED <<parts, arrivalVars, dedupVars, connVars>>

-----------------------------------------------------------------------------
(* Building a candidate *)

TakeBatch ==
    /\ \E n \in 1..Handful : Pipe!TakeInHand(n)
    /\ UNCHANGED <<at, parts, arrivalVars, dedupVars, connVars>>

\* The worker turns to a candidate when it is through with those before.
BeginCandidate(c) ==
    /\ at[c] = "queued"
    /\ \E i \in 1..Len(hand) :
           /\ hand[i] = c
           /\ \A j \in 1..i - 1 : at[hand[j]] = "built"
    /\ Goto(c, "seed")
    /\ UNCHANGED <<parts, arrivalVars, dedupVars, connVars, queueVars>>

\* A panic drops the candidate with everything built for it: safelyFinalize
\* recovers on the worker, the deferred Done runs in a reserved call.
Panicked(c) ==
    /\ Panics
    /\ parts' = [parts EXCEPT ![c] = {}]
    /\ mishap' = TRUE
    /\ Goto(c, "built")

\* ResolveActorSeed calls Config.ActorSeed.
ResolveSeed(c) ==
    /\ at[c] = "seed"
    /\ \/ Goto(c, "identity") /\ UNCHANGED <<parts, mishap>>
       \/ Panicked(c)
    /\ UNCHANGED <<received, dedupVars, connVars, queueVars>>

\* identityEventFor under identityMu: at the limit an arbitrary actor goes.
IdentityEvent(c) ==
    /\ at[c] = "identity"
    /\ Goto(c, "session")
    /\ LET a == ActorOf[c] IN
       \/ ~UnknownActor(a) /\ UNCHANGED <<parts, actorIdentifiers, identified,
                                          forgotten>>
       \/ /\ UnknownActor(a)
          /\ Build(c, {Identity(a)})
          /\ identified' = Count(identified, {a})
          /\ \/ ~ActorsFull /\ actorIdentifiers' = actorIdentifiers \cup {a}
             \/ ActorsFull /\ \E oldest \in actorIdentifiers :
                    actorIdentifiers' = (actorIdentifiers \ {oldest}) \cup {a}
          /\ forgotten' = Count(forgotten, actorIdentifiers \ actorIdentifiers')
    /\ UNCHANGED <<arrivalVars, lazySessions, announced, evicted, connVars,
                   queueVars>>

\* lazySessions.Add under its mutex.  A handshake without a session is always
\* announced, a tool call without one never.
SessionEvent(c) ==
    /\ at[c] = "session"
    /\ Goto(c, IF c \in Inits THEN "built" ELSE "finalize")
    /\ LET k == KeyOf[c] IN
       \/ /\ NewSession(k)
          /\ lazySessions' = Set!Add(lazySessions, k, MaxKeys)
          /\ evicted' = Count(evicted, lazySessions.keys \ lazySessions'.keys)
          /\ announced' = Count(announced, {k})
          /\ Build(c, InitOf(c))
       \/ /\ ~NewSession(k)
          /\ Build(c, IF k = NoKey /\ c \in Inits THEN InitOf(c) ELSE {})
          /\ UNCHANGED <<lazySessions, evicted, announced>>
    /\ UNCHANGED <<arrivalVars, actorIdentifiers, identified, forgotten, connVars,
                   queueVars>>

\* FinalizeToolCallEvent: an event, or none if RedactEvent drops it.  A panic
\* of a hook is recovered inside; the customer's error and result are asked
\* for their text without such a guard.
FinalizeToolCall(c) ==
    /\ at[c] = "finalize"
    /\ \/ Build(c, {ToolCall(c)}) /\ Goto(c, "built") /\ UNCHANGED mishap
       \/ Goto(c, "built") /\ UNCHANGED <<parts, mishap>>
       \/ Panicked(c)
    /\ UNCHANGED <<received, dedupVars, connVars, queueVars>>

-----------------------------------------------------------------------------
(* Sending *)

Arrive(new) ==
    \/ received' = received \cup new /\ UNCHANGED mishap
    \/ Lossy /\ mishap' = TRUE /\ UNCHANGED received

HasEvents(c) == parts[c] # {}

\* One POST carries the events of the whole batch.
ShipBatch ==
    /\ \A c \in Range(hand) : at[c] = "built"
    /\ Pipe!Ship
    /\ wire' = wire \o SelectSeq(hand, HasEvents)
    /\ Arrive(UNION {parts[c] : c \in Range(hand)})
    /\ UNCHANGED <<at, parts, dedupVars, connVars>>

SettleCandidate ==
    /\ Pipe!Settle
    /\ Goto(Head(hand), "done")
    /\ UNCHANGED <<parts, arrivalVars, dedupVars, connVars>>

\* emitReserved
ShipReserved(c) ==
    /\ at[c] = "built"
    /\ Arrive(parts[c])
    /\ Goto(c, "done")
    /\ UNCHANGED <<parts, dedupVars, connVars, queueVars>>

-----------------------------------------------------------------------------
BuildStep(c) ==
    \/ ResolveSeed(c) \/ IdentityEvent(c) \/ SessionEvent(c)
    \/ FinalizeToolCall(c)

WorkerStep ==
    \/ TakeBatch \/ ShipBatch \/ SettleCandidate
    \/ \E c \in Queued : BeginCandidate(c) \/ BuildStep(c)

DirectStep(c) == BuildStep(c) \/ ShipReserved(c)

Rest == (\A c \in Candidate : at[c] = "done") /\ UNCHANGED vars

Next ==
    \/ \E c \in Inits : AfterInitialize(c)
    \/ \E s \in Conn : UnregisterSession(s)
    \/ \E c \in Queued : Enqueue(c)
    \/ WorkerStep
    \/ \E c \in Direct : DirectStep(c)
    \/ Rest

Spec == Init /\ [][Next]_vars

\* The worker and the goroutines of reserved calls keep running.
Fairness == WF_vars(WorkerStep) /\ \A c \in Direct : WF_vars(DirectStep(c))

FairSpec == Spec /\ Fairness

-----------------------------------------------------------------------------
(* Properties *)

TypeOK ==
    /\ emittedSession.keys \subseteq Conn
    /\ lazySessions.keys \subseteq Key
    /\ actorIdentifiers \subseteq Actor
    /\ Cardinality(actorIdentifiers) <= MaxActors
    /\ at \in [Candidate -> Place]
    /\ parts \in [Candidate -> SUBSET Event]
    /\ received \subseteq Event
    /\ mishap \in BOOLEAN
    /\ {announced, evicted} \subseteq [Key -> Nat]
    /\ {identified, forgotten} \subseteq [Actor -> Nat]
    /\ {handshakes, released} \subseteq [Conn -> Nat]

\* Both bounded sets keep map and order in step through Add, eviction and
\* Delete; otherwise an eviction could remove a key that was added again.
KeysAgree ==
    /\ Set!WellFormed(emittedSession, MaxKeys)
    /\ Set!WellFormed(lazySessions, MaxKeys)

\* README.md:602, "Each session emits one deduplicated session_init event":
\* the worker and reserved calls together build one per key, and one more for
\* each time the key was evicted.
AnnouncedOnce ==
    \A k \in Key :
        announced[k] = evicted[k] + (IF k \in lazySessions.keys THEN 1 ELSE 0)

\* README.md:584, an actor_identity event "only when it changes": once per
\* identified actor and eviction.
IdentifiedOnce ==
    \A a \in Actor :
        identified[a] = forgotten[a] + (IF a \in actorIdentifiers THEN 1 ELSE 0)

\* A connection that initializes again is offered again only after it was
\* unregistered or evicted.
HandshakeOnce ==
    \A s \in Conn : handshakes[s]
        = released[s] + (IF s \in emittedSession.keys THEN 1 ELSE 0)

\* All three together: exact deduplication.
DedupExact == AnnouncedOnce /\ IdentifiedOnce /\ HandshakeOnce

\* README.md:602, "Each session emits one deduplicated session_init event":
\* the session of a tool call that reached ingest is announced to it, whoever
\* ships first, the worker or the reserved call, and although candidates are
\* thrown out of a full queue and keys evicted; likewise the identity of its
\* actor (README.md:584).  Only a panic while the candidate that holds the
\* event is built, or a POST that fails, may break this.
EachCallIntroduced ==
    \A c \in Candidate :
        ToolCall(c) \in received
            ~> \/ mishap
               \/ /\ KeyOf[c] # NoKey => SessionInit(KeyOf[c]) \in received
                  /\ ActorOf[c] # NoActor => Identity(ActorOf[c]) \in received
=============================================================================
