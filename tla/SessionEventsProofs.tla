------------------------- MODULE SessionEventsProofs ------------------------
(***************************************************************************)
(* The deduplication of SessionEvents is exact for any number of sessions, *)
(* connections, actors and candidates, and any bounds: first that Add and  *)
(* Delete of a boundedKeySet keep its map and its order in step, then that *)
(* what was announced is what was evicted and what is remembered.          *)
(***************************************************************************)
EXTENDS SessionEvents, TLAPS

Sets(S) == [keys : SUBSET S, order : Seq(S)]

\* An empty set is well-formed.
LEMMA EmptyWellFormed ==
    ASSUME NEW S, NEW max \in Nat \ {0}
    PROVE  Set!Empty \in Sets(S) /\ Set!WellFormed(Set!Empty, max)
  BY DEF Sets, Set!Empty, Set!WellFormed

\* What it takes for a set to be well-formed, of its two parts.
LEMMA WellFormedOf ==
    ASSUME NEW S, NEW max \in Nat \ {0}, NEW K \in SUBSET S, NEW t \in Seq(S),
           \A x \in K : \E i \in 1..Len(t) : t[i] = x,
           \A i \in 1..Len(t) : t[i] \in K,
           \A i, j \in 1..Len(t) : t[i] = t[j] => i = j,
           Len(t) <= max
    PROVE  /\ [keys |-> K, order |-> t] \in Sets(S)
           /\ Set!WellFormed([keys |-> K, order |-> t], max)
  <1>1. K = {t[i] : i \in 1..Len(t)}
    OBVIOUS
  <1>2. [keys |-> K, order |-> t] \in Sets(S)
    BY DEF Sets
  <1>3. Set!WellFormed([keys |-> K, order |-> t], max)
    BY <1>1 DEF Set!WellFormed
  <1> QED BY <1>2, <1>3

\* The key at the head is the only one at the head, and eviction removes it
\* from map and order alike.
LEMMA AddWellFormed ==
    ASSUME NEW S, NEW max \in Nat \ {0}, NEW s \in Sets(S), NEW k \in S,
           Set!WellFormed(s, max), k \notin s.keys
    PROVE  /\ Set!Add(s, k, max) \in Sets(S)
           /\ Set!WellFormed(Set!Add(s, k, max), max)
           /\ Set!Add(s, k, max).keys =
                  (s.keys \ Set!Oldest(s, max)) \cup {k}
           /\ Set!Oldest(s, max) \subseteq s.keys
  <1> DEFINE q == s.order
             new == Set!Add(s, k, max)
  <1>0. /\ q \in Seq(S) /\ Len(q) \in Nat /\ s.keys \subseteq S
        /\ s.keys = {q[i] : i \in 1..Len(q)}
        /\ \A i, j \in 1..Len(q) : q[i] = q[j] => i = j
        /\ Len(q) <= max
        /\ \A i \in 1..Len(q) : q[i] \in S
    BY DEF Sets, Set!WellFormed
  <1>1. CASE ~Set!Full(s, max)
    <2>1. new = [keys |-> s.keys \cup {k}, order |-> Append(q, k)]
      BY <1>1 DEF Set!Add, Set!Insert, Set!Oldest
    <2>2. /\ Append(q, k) \in Seq(S) /\ Len(Append(q, k)) = Len(q) + 1
          /\ \A i \in 1..Len(q) : Append(q, k)[i] = q[i]
          /\ Append(q, k)[Len(q) + 1] = k
      BY <1>0
    <2>3. Len(q) + 1 <= max
      BY <1>0, <1>1 DEF Set!Full
    <2>4. s.keys \cup {k} = {Append(q, k)[i] : i \in 1..Len(Append(q, k))}
      BY <1>0, <2>2
    <2>5. \A i, j \in 1..Len(q) + 1 : Append(q, k)[i] = Append(q, k)[j] => i = j
      BY <1>0, <2>2
    <2>6. Set!Oldest(s, max) = {}
      BY <1>1 DEF Set!Oldest
    <2> QED BY <1>0, <2>1, <2>2, <2>3, <2>4, <2>5, <2>6 DEF Sets, Set!WellFormed
  <1>2. CASE Set!Full(s, max)
    <2> DEFINE t == Append(Tail(q), k)
    <2>1. Len(q) = max /\ q # <<>> /\ max >= 1
      BY <1>0, <1>2 DEF Set!Full
    <2>2. /\ t \in Seq(S) /\ Len(t) = Len(q)
          /\ \A i \in 1..Len(q) - 1 : t[i] = q[i + 1]
          /\ t[Len(q)] = k
          /\ Head(q) = q[1]
      BY <1>0, <2>1
    <2>3. new = [keys |-> (s.keys \ {q[1]}) \cup {k}, order |-> t]
      BY <1>2, <2>2 DEF Set!Add, Set!Insert, Set!Oldest
    <2> HIDE DEF t
    <2>4. /\ \A x \in (s.keys \ {q[1]}) \cup {k} : \E i \in 1..Len(t) : t[i] = x
          /\ \A i \in 1..Len(t) : t[i] \in (s.keys \ {q[1]}) \cup {k}
      <3>1. ASSUME NEW x \in (s.keys \ {q[1]}) \cup {k}
            PROVE  \E i \in 1..Len(t) : t[i] = x
        <4>1. CASE x = k
          BY <4>1, <1>0, <2>1, <2>2
        <4>2. CASE x # k
          <5>1. PICK j \in 1..Len(q) : q[j] = x /\ j # 1
            BY <3>1, <4>2, <1>0
          <5>2. j - 1 \in 1..Len(q) - 1 /\ t[j - 1] = x
            BY <5>1, <1>0, <2>2
          <5> QED BY <5>2, <1>0, <2>2
        <4> QED BY <4>1, <4>2
      <3>2. ASSUME NEW i \in 1..Len(t)
            PROVE  t[i] \in (s.keys \ {q[1]}) \cup {k}
        <4>1. CASE i = Len(q)
          BY <4>1, <2>2
        <4>2. CASE i # Len(q)
          <5>1. i \in 1..Len(q) - 1 /\ i + 1 \in 1..Len(q) /\ t[i] = q[i + 1]
            BY <4>2, <3>2, <1>0, <2>2
          <5>2. 1 \in 1..Len(q) /\ i + 1 # 1
            BY <1>0, <2>1
          <5> QED BY <5>1, <5>2, <1>0
        <4> QED BY <4>1, <4>2
      <3> QED BY <3>1, <3>2
    <2>5. ASSUME NEW i \in 1..Len(t), NEW j \in 1..Len(t), t[i] = t[j]
          PROVE  i = j
      <3>1. /\ i # Len(q) => t[i] = q[i + 1] /\ i + 1 \in 1..Len(q) /\ t[i] # k
            /\ j # Len(q) => t[j] = q[j + 1] /\ j + 1 \in 1..Len(q) /\ t[j] # k
        BY <1>0, <2>2
      <3> QED BY <3>1, <2>5, <2>2, <1>0
    <2>6. Set!Oldest(s, max) = {q[1]} /\ q[1] \in s.keys /\ q[1] \in S
      BY <1>0, <1>2, <2>1, <2>2 DEF Set!Oldest
    <2>7. new \in Sets(S) /\ Set!WellFormed(new, max)
      <3>1. (s.keys \ {q[1]}) \cup {k} \in SUBSET S /\ t \in Seq(S)
            /\ Len(t) <= max
        BY <1>0, <2>2
      <3>2. /\ [keys |-> (s.keys \ {q[1]}) \cup {k}, order |-> t] \in Sets(S)
            /\ Set!WellFormed([keys |-> (s.keys \ {q[1]}) \cup {k},
                               order |-> t], max)
        BY <3>1, <2>4, <2>5, WellFormedOf
      <3> QED BY <3>2, <2>3
    <2>8. new.keys = (s.keys \ {q[1]}) \cup {k}
      BY <2>3
    <2> QED BY <1>0, <2>6, <2>7, <2>8
  <1> QED BY <1>1, <1>2

\* Cutting a key out of the order keeps the order of the others.
LEMMA DeleteWellFormed ==
    ASSUME NEW S, NEW max \in Nat \ {0}, NEW s \in Sets(S), NEW k \in s.keys,
           Set!WellFormed(s, max)
    PROVE  /\ Set!Delete(s, k) \in Sets(S)
           /\ Set!WellFormed(Set!Delete(s, k), max)
           /\ Set!Delete(s, k).keys = s.keys \ {k}
  <1> DEFINE q == s.order
             p == Set!Place(q, k)
             t == Set!Without(q, p)
  <1>0. /\ q \in Seq(S) /\ Len(q) \in Nat /\ s.keys \subseteq S
        /\ s.keys = {q[i] : i \in 1..Len(q)}
        /\ \A i, j \in 1..Len(q) : q[i] = q[j] => i = j
        /\ Len(q) <= max
        /\ \A i \in 1..Len(q) : q[i] \in S
    BY DEF Sets, Set!WellFormed
  <1>1. p \in 1..Len(q) /\ q[p] = k
    <2>1. \E i \in 1..Len(q) : q[i] = k
      BY <1>0
    <2> QED BY <2>1 DEF Set!Place
  <1> HIDE DEF p
  <1>2. Len(q) - 1 \in Nat
    BY <1>0, <1>1
  <1>3. /\ t \in Seq(S) /\ Len(t) = Len(q) - 1
        /\ \A j \in 1..Len(q) - 1 : t[j] = IF j < p THEN q[j] ELSE q[j + 1]
    <2>1. t = [j \in 1..Len(q) - 1 |-> IF j < p THEN q[j] ELSE q[j + 1]]
      BY DEF Set!Without
    <2>2. \A j \in 1..Len(q) - 1 : j \in 1..Len(q) /\ j + 1 \in 1..Len(q)
      BY <1>0
    <2>3. t \in [1..Len(q) - 1 -> S]
      BY <2>1, <2>2, <1>0
    <2> HIDE DEF t
    <2>4. t \in Seq(S)
      BY <2>3, <1>2
    <2> QED BY <2>1, <2>3, <2>4, <1>2
  <1> HIDE DEF t
  <1>4. Set!Delete(s, k) = [keys |-> s.keys \ {k}, order |-> t]
    BY DEF Set!Delete, t, p
  <1>5. /\ \A x \in s.keys \ {k} : \E j \in 1..Len(t) : t[j] = x
        /\ \A j \in 1..Len(t) : t[j] \in s.keys \ {k}
    <2>1. ASSUME NEW x \in s.keys \ {k} PROVE \E j \in 1..Len(t) : t[j] = x
      <3>1. PICK i \in 1..Len(q) : q[i] = x /\ i # p
        BY <2>1, <1>0, <1>1
      <3>2. CASE i < p
        BY <3>1, <3>2, <1>0, <1>1, <1>3
      <3>3. CASE i > p
        <4>1. i - 1 \in 1..Len(t) /\ ~(i - 1 < p) /\ (i - 1) + 1 = i
          BY <3>1, <3>3, <1>0, <1>1, <1>3
        <4>2. t[i - 1] = x
          BY <4>1, <3>1, <1>3
        <4> QED BY <4>1, <4>2
      <3> QED BY <3>1, <3>2, <3>3, <1>0, <1>1
    <2>2. ASSUME NEW j \in 1..Len(t) PROVE t[j] \in s.keys \ {k}
      <3>1. CASE j < p
        <4>1. j \in 1..Len(q) /\ j # p /\ t[j] = q[j]
          BY <3>1, <2>2, <1>0, <1>1, <1>3
        <4> QED BY <4>1, <1>0, <1>1
      <3>2. CASE ~(j < p)
        <4>1. j + 1 \in 1..Len(q) /\ j + 1 # p /\ t[j] = q[j + 1]
          BY <3>2, <2>2, <1>0, <1>1, <1>3
        <4> QED BY <4>1, <1>0, <1>1
      <3> QED BY <3>1, <3>2
    <2> QED BY <2>1, <2>2
  <1>6. ASSUME NEW i \in 1..Len(t), NEW j \in 1..Len(t), t[i] = t[j]
        PROVE  i = j
    <2> DEFINE back(n) == IF n < p THEN n ELSE n + 1
    <2>1. \A n \in 1..Len(t) : back(n) \in 1..Len(q) /\ t[n] = q[back(n)]
      BY <1>0, <1>1, <1>3
    <2>2. back(i) = back(j)
      BY <2>1, <1>6, <1>0
    <2> QED BY <2>2, <1>0, <1>1, <1>3
  <1>7. s.keys \ {k} \in SUBSET S /\ Len(t) <= max
    BY <1>0, <1>2, <1>3
  <1>8. /\ [keys |-> s.keys \ {k}, order |-> t] \in Sets(S)
        /\ Set!WellFormed([keys |-> s.keys \ {k}, order |-> t], max)
    BY <1>3, <1>5, <1>6, <1>7, WellFormedOf
  <1> QED BY <1>4, <1>8

-----------------------------------------------------------------------------
(* What was announced is what was evicted and what is remembered. *)

Balanced(built, gone, keys, K) ==
    /\ built \in [K -> Nat] /\ gone \in [K -> Nat]
    /\ \A k \in K : built[k] = gone[k] + (IF k \in keys THEN 1 ELSE 0)

\* A key that is new is announced, and those thrown out for it are gone.
LEMMA BalancedAdd ==
    ASSUME NEW K, NEW built, NEW gone, NEW keys \in SUBSET K,
           Balanced(built, gone, keys, K),
           NEW k \in K, k \notin keys, NEW out \in SUBSET keys
    PROVE  Balanced(Count(built, {k}), Count(gone, out), (keys \ out) \cup {k}, K)
  BY DEF Balanced, Count

\* A key that is forgotten is gone.
LEMMA BalancedDelete ==
    ASSUME NEW K, NEW built, NEW gone, NEW keys \in SUBSET K,
           Balanced(built, gone, keys, K), NEW k \in keys
    PROVE  Balanced(built, Count(gone, {k}), keys \ {k}, K)
  BY DEF Balanced, Count

DedupInv ==
    /\ emittedSession \in Sets(Conn)
    /\ Set!WellFormed(emittedSession, MaxKeys)
    /\ Balanced(handshakes, released, emittedSession.keys, Conn)
    /\ lazySessions \in Sets(Key)
    /\ Set!WellFormed(lazySessions, MaxKeys)
    /\ Balanced(announced, evicted, lazySessions.keys, Key)
    /\ actorIdentifiers \subseteq Actor
    /\ Balanced(identified, forgotten, actorIdentifiers, Actor)

\* Nothing is remembered and nothing was announced at the start.
LEMMA InitDedup == Init => DedupInv
  <1> SUFFICES ASSUME Init PROVE DedupInv
    OBVIOUS
  <1>1. MaxKeys \in Nat \ {0}
    BY SessionAssumption
  <1>2. Set!Empty.keys = {}
    BY DEF Set!Empty
  <1> QED BY <1>1, <1>2, EmptyWellFormed DEF Init, DedupInv, Balanced

\* Only a handshake, an unregistering, an identity and a session event touch
\* what is deduplicated.
LEMMA StepDedup == DedupInv /\ [Next]_vars => DedupInv'
  <1> SUFFICES ASSUME DedupInv, [Next]_vars PROVE DedupInv'
    OBVIOUS
  <1> USE DEF DedupInv
  <1>0. MaxKeys \in Nat \ {0}
    BY SessionAssumption
  <1>1. CASE UNCHANGED <<dedupVars, connVars>>
    BY <1>1 DEF dedupVars, connVars
  <1>2. ASSUME NEW c \in Inits, AfterInitialize(c) PROVE DedupInv'
    <2> DEFINE s == ConnOf[c]
    <2>1. s \in Conn
      BY DEF Conn
    <2>2. CASE ~NewHandshake(s)
      BY <1>1, <1>2, <2>2 DEF AfterInitialize, connVars, dedupVars
    <2>3. CASE NewHandshake(s)
      <3>1. /\ emittedSession' = Set!Add(emittedSession, s, MaxKeys)
            /\ handshakes' = Count(handshakes, {s})
            /\ released' = Count(released, emittedSession.keys \ emittedSession'.keys)
            /\ UNCHANGED dedupVars
        BY <1>2, <2>3 DEF AfterInitialize
      <3>2. /\ emittedSession' \in Sets(Conn)
            /\ Set!WellFormed(emittedSession', MaxKeys)
            /\ emittedSession'.keys = (emittedSession.keys
                   \ Set!Oldest(emittedSession, MaxKeys)) \cup {s}
            /\ Set!Oldest(emittedSession, MaxKeys) \subseteq emittedSession.keys
        BY <1>0, <2>1, <2>3, <3>1, AddWellFormed DEF NewHandshake
      <3>3. emittedSession.keys \in SUBSET Conn
        BY DEF Sets
      <3>4. Balanced(handshakes', released', emittedSession'.keys, Conn)
        BY <2>1, <2>3, <3>1, <3>2, <3>3, BalancedAdd DEF NewHandshake
      <3> QED BY <3>1, <3>2, <3>4 DEF dedupVars
    <2> QED BY <2>2, <2>3
  <1>3. ASSUME NEW s \in Conn, UnregisterSession(s) PROVE DedupInv'
    <2>1. /\ s \in emittedSession.keys
          /\ emittedSession' = Set!Delete(emittedSession, s)
          /\ released' = Count(released, {s})
          /\ UNCHANGED <<handshakes, dedupVars>>
      BY <1>3 DEF UnregisterSession, Forget
    <2>2. /\ emittedSession' \in Sets(Conn)
          /\ Set!WellFormed(emittedSession', MaxKeys)
          /\ emittedSession'.keys = emittedSession.keys \ {s}
      BY <1>0, <2>1, DeleteWellFormed
    <2>3. emittedSession.keys \in SUBSET Conn
      BY DEF Sets
    <2>4. Balanced(handshakes', released', emittedSession'.keys, Conn)
      BY <2>1, <2>2, <2>3, BalancedDelete
    <2> QED BY <2>1, <2>2, <2>4 DEF dedupVars
  <1>4. ASSUME NEW c \in Candidate, IdentityEvent(c) PROVE DedupInv'
    <2> DEFINE a == ActorOf[c]
    <2>1. CASE ~UnknownActor(a)
      BY <1>1, <1>4, <2>1 DEF IdentityEvent, connVars, dedupVars
    <2>2. CASE UnknownActor(a)
      <3>1. a \in Actor /\ a \notin actorIdentifiers
        BY <2>2 DEF UnknownActor, Actor
      <3>2. /\ identified' = Count(identified, {a})
            /\ forgotten' = Count(forgotten, actorIdentifiers \ actorIdentifiers')
        BY <1>4, <2>2 DEF IdentityEvent
      <3>3. PICK out \in SUBSET actorIdentifiers :
                actorIdentifiers' = (actorIdentifiers \ out) \cup {a}
        <4>1. CASE ~ActorsFull
          <5>1. actorIdentifiers' = (actorIdentifiers \ {}) \cup {a}
            BY <1>4, <2>2, <4>1 DEF IdentityEvent
          <5> QED BY <5>1
        <4>2. CASE ActorsFull
          BY <1>4, <2>2, <4>2 DEF IdentityEvent
        <4> QED BY <4>1, <4>2
      <3>4. actorIdentifiers \ actorIdentifiers' = out
        BY <3>1, <3>3
      <3>5. Balanced(identified', forgotten', actorIdentifiers', Actor)
        BY <3>1, <3>2, <3>3, <3>4, BalancedAdd
      <3>6. UNCHANGED <<lazySessions, announced, evicted, connVars>>
        BY <1>4 DEF IdentityEvent
      <3> QED BY <3>1, <3>3, <3>5, <3>6 DEF connVars
    <2> QED BY <2>1, <2>2
  <1>5. ASSUME NEW c \in Candidate, SessionEvent(c) PROVE DedupInv'
    <2> DEFINE k == KeyOf[c]
    <2>1. CASE ~NewSession(k)
      BY <1>1, <1>5, <2>1 DEF SessionEvent, connVars, dedupVars
    <2>2. CASE NewSession(k)
      <3>1. k \in Key /\ k \notin lazySessions.keys
        BY <2>2 DEF NewSession, Key
      <3>2. /\ lazySessions' = Set!Add(lazySessions, k, MaxKeys)
            /\ evicted' = Count(evicted, lazySessions.keys \ lazySessions'.keys)
            /\ announced' = Count(announced, {k})
            /\ UNCHANGED <<actorIdentifiers, identified, forgotten, connVars>>
        BY <1>5, <2>2 DEF SessionEvent
      <3>3. /\ lazySessions' \in Sets(Key)
            /\ Set!WellFormed(lazySessions', MaxKeys)
            /\ lazySessions'.keys = (lazySessions.keys
                   \ Set!Oldest(lazySessions, MaxKeys)) \cup {k}
            /\ Set!Oldest(lazySessions, MaxKeys) \subseteq lazySessions.keys
        BY <1>0, <3>1, <3>2, AddWellFormed
      <3>4. lazySessions.keys \in SUBSET Key
        BY DEF Sets
      <3>5. Balanced(announced', evicted', lazySessions'.keys, Key)
        BY <3>1, <3>2, <3>3, <3>4, BalancedAdd
      <3> QED BY <3>2, <3>3, <3>5 DEF connVars
    <2> QED BY <2>1, <2>2
  <1>6. ASSUME NEW c \in Candidate,
               \/ ResolveSeed(c) \/ FinalizeToolCall(c) \/ ShipReserved(c)
               \/ BeginCandidate(c) \/ Enqueue(c)
        PROVE  DedupInv'
    BY <1>1, <1>6 DEF ResolveSeed, FinalizeToolCall, ShipReserved,
                      BeginCandidate, Enqueue
  <1>7. CASE TakeBatch \/ ShipBatch \/ SettleCandidate \/ Rest \/ UNCHANGED vars
    BY <1>1, <1>7 DEF TakeBatch, ShipBatch, SettleCandidate, Rest, vars
  <1>8. Queued \subseteq Candidate /\ Direct \subseteq Candidate
    BY DEF Candidate
  <1> QED BY <1>2, <1>3, <1>4, <1>5, <1>6, <1>7, <1>8
          DEF Next, WorkerStep, DirectStep, BuildStep

\* The invariant holds in every reachable state.
LEMMA Dedup == Spec => []DedupInv
  BY InitDedup, StepDedup, PTL DEF Spec

\* Map and order of both sets agree, and neither outgrows its bound.
THEOREM MapsAndOrdersAgree == Spec => []KeysAgree
  <1>1. DedupInv => KeysAgree
    BY DEF DedupInv, KeysAgree
  <1> QED BY <1>1, Dedup, PTL

\* A session is announced, an actor identified and a connection offered once,
\* and once more for each time it was evicted or unregistered.
THEOREM DeduplicationIsExact == Spec => []DedupExact
  <1>1. DedupInv => AnnouncedOnce
    BY DEF DedupInv, Balanced, AnnouncedOnce
  <1>2. DedupInv => IdentifiedOnce
    BY DEF DedupInv, Balanced, IdentifiedOnce
  <1>3. DedupInv => HandshakeOnce
    BY DEF DedupInv, Balanced, HandshakeOnce
  <1>4. DedupInv => DedupExact
    BY <1>1, <1>2, <1>3 DEF DedupExact
  <1> QED BY <1>4, Dedup, PTL
=============================================================================
