----------------------- MODULE StatelessSessionProofs -----------------------
(***************************************************************************)
(* Proofs about StatelessSession, for any number of conversations,         *)
(* handshakes and calls, every choice of seeds and every deployment.       *)
(***************************************************************************)
EXTENDS StatelessSession, TLAPS

\* An id that a handshake announced, and one that conversation c may bear.
Known(id)   == <<id, "handshake">> \in announced
Fits(c, id) == id \in Minted /\ (Seeded(c) => id = <<Client[c], seed[c]>>)

\* The queue of announcements: calls announce only ids nobody minted.
Announcements == \A id \in Minted : <<id, "call">> \notin announced

\* A client echoes an id of its own conversation that is announced.
Holds(c) == given[c] # None => Fits(c, given[c]) /\ Known(given[c])

\* A handshake: before the wrapper, in the server, and once it is answered.
HandshakeInv(r) ==
    /\ at[r] \in {"idle", "wrapper"} => session[r] = None
    /\ at[r] \in {"idle", "wrapper", "server"} =>
           /\ named[r] = {} /\ header[r] = None /\ status[r] = "none"
           /\ answer[r] = "none" /\ r \notin served
    /\ at[r] \in {"server", "write", "return", "end"} =>
           /\ Wrapped => Fits(Of[r], session[r]) /\ repair[r] = session[r]
           /\ ~Wrapped => session[r] = None
    /\ at[r] = "write" => status[r] \in {"none", "1xx"} /\ answer[r] = "none"
    /\ at[r] = "write" => header[r] = None /\ named[r] \subseteq {own[r]}
    /\ at[r] \in {"write", "return", "end"} /\ status[r] # "error" =>
           /\ Fits(Of[r], own[r])
           /\ deployment \in {"repair", "context"} => own[r] = session[r]
           /\ named[r] \subseteq {own[r], session[r]}
           /\ ~Wrapped => named[r] \subseteq {own[r]}
    /\ status[r] = "error" =>
           named[r] = {} /\ header[r] = None /\ r \notin served
    /\ status[r] = "1xx" => r \in Hinted
    /\ at[r] \in {"return", "end"} /\ status[r] # "error" =>
           header[r] = own[r] \/ (r \in Hinted /\ header[r] = None)
    /\ r \in served => Known(own[r])

\* A call: whatever it is recorded under, it echoed or got from a seed.
CallInv(r) ==
    /\ echo[r] # None => Fits(Of[r], echo[r]) /\ Known(echo[r])
    /\ at[r] \in {"idle", "wrapper"} => session[r] = None
    /\ at[r] \in {"server", "write", "return", "end"} =>
           /\ Wrapped => session[r] = echo[r]
           /\ Wrapped => repair[r] = session[r]
           /\ ~Wrapped => session[r] = None
    /\ at[r] \in {"idle", "wrapper", "server"} => named[r] = {}
    /\ \A id \in named[r] : \/ id = echo[r]
                            \/ echo[r] = None /\ id = seed[Of[r]]

IInv ==
    /\ TypeOK
    /\ Announcements
    /\ \A c \in Conversation : Holds(c)
    /\ \A r \in Handshake : HandshakeInv(r)
    /\ \A r \in ToolCall : CallInv(r)

-----------------------------------------------------------------------------
(* What the building blocks return *)

\* A handshake resolves to an id of its conversation, wherever it is resolved.
LEMMA HandshakeResolves ==
    ASSUME TypeOK, NEW r \in Handshake, NEW by \in {"wrapper", "server"}
    PROVE  Fits(Of[r], Resolve(r, by))
  <1>1. r \in Request /\ Of[r] \in Conversation
    BY StatelessAssumption DEF Request
  <1>2. SessionUUID(Of[r], r, by) \in UUIDSeeds \cup Request \X {"wrapper", "server"}
    BY <1>1 DEF SessionUUID, Seeded
  <1> QED BY <1>1, <1>2 DEF Resolve, Fits, Minted, SessionUUID

\* A call resolves to what it echoes.
LEMMA CallResolves ==
    ASSUME NEW r \in ToolCall, NEW by
    PROVE  Resolve(r, by) = echo[r]
  BY StatelessAssumption DEF Resolve

\* No minted id is one of the others.
LEMMA MintedIsSomething ==
    \A c, id : Fits(c, id) => id # None /\ id \in Minted /\ id \notin SeedHeader
  BY StatelessAssumption DEF Fits

\* Types and announcements of a recorded event.
LEMMA Recorded ==
    ASSUME TypeOK, NEW r \in Request, NEW id \in Identifier,
           NEW by \in {"handshake", "call"}, Record(r, id, by)
    PROVE  /\ named' \in [Request -> SUBSET Identifier]
           /\ announced' \subseteq Identifier \X {"handshake", "call"}
           /\ announced \subseteq announced'
  BY DEF TypeOK, Record, Announce

\* An announcement by a handshake is none by a call.
LEMMA HowDiffers == \A x, y : <<x, "call">> # <<y, "handshake">>
  OBVIOUS

\* The first announcement of an id stays.
LEMMA AnnouncedOnce ==
    ASSUME NEW id, NEW by, Announce(id, by)
    PROVE  \/ announced' = announced
           \/ /\ announced' = announced \cup {<<id, by>>}
              /\ <<id, "handshake">> \notin announced
  BY DEF Announce

-----------------------------------------------------------------------------
(* The induction *)

\* The initial states satisfy the invariant.
LEMMA InitHolds == Init => IInv
  <1> SUFFICES ASSUME Init PROVE IInv
    OBVIOUS
  <1>1. TypeOK
    <2>1. /\ deployment \in Deployments
          /\ seed \in [Conversation -> SeedHeader \cup {None}]
      BY DEF Init
    <2>2. /\ given \in [Conversation -> Minted \cup {None}]
          /\ echo \in [Request -> Minted \cup {None}]
          /\ session \in [Request -> Minted \cup {None}]
          /\ header \in [Request -> Minted \cup {None}]
      BY DEF Init
    <2>3. /\ repair \in [Request -> Identifier]
          /\ own \in [Request -> Minted \cup SeedHeader \cup {None}]
          /\ named \in [Request -> SUBSET Identifier]
      BY DEF Init, Identifier
    <2>4. /\ at \in [Request -> {"idle", "wrapper", "server", "write", "return", "end"}]
          /\ status \in [Request -> {"none", "1xx", "2xx", "error"}]
          /\ answer \in [Request -> {"none", "sent", "received"}]
      BY DEF Init
    <2>5. served \subseteq Request /\ announced \subseteq Identifier \X {"handshake", "call"}
      BY DEF Init
    <2> QED BY <2>1, <2>2, <2>3, <2>4, <2>5 DEF TypeOK
  <1>2. Announcements
    BY DEF Init, Announcements
  <1>3. \A c \in Conversation : Holds(c)
    BY DEF Init, Holds
  <1>4. \A r \in Handshake : HandshakeInv(r)
    BY DEF Init, HandshakeInv, Request
  <1>5. \A r \in ToolCall : CallInv(r)
    BY DEF Init, CallInv, Request
  <1> QED BY <1>1, <1>2, <1>3, <1>4, <1>5 DEF IInv

\* What a server records an event under.
LEMMA ServerSessions ==
    ASSUME IInv, NEW r \in Request, at[r] = "server"
    PROVE  /\ ServerSession(r) \in Minted \cup SeedHeader \cup {None}
           /\ r \in Handshake =>
                  /\ Fits(Of[r], ServerSession(r))
                  /\ deployment \in {"repair", "context"} =>
                         ServerSession(r) = session[r]
           /\ r \in ToolCall =>
                  \/ ServerSession(r) = echo[r]
                  \/ echo[r] = None /\ ServerSession(r) = seed[Of[r]]
  <1> USE DEF ServerSession, AnalyticsSessionID
  <1>0. Of[r] \in Conversation /\ TypeOK
    BY StatelessAssumption DEF IInv
  <1>1. CASE r \in Handshake
    <2>1. HandshakeInv(r) /\ Fits(Of[r], Resolve(r, "server"))
      BY <1>0, <1>1, HandshakeResolves DEF IInv
    <2>2. r \notin ToolCall
      BY <1>1, StatelessAssumption
    <2>3. deployment \in {"repair", "context"} =>
              /\ Fits(Of[r], session[r]) /\ repair[r] = session[r]
              /\ session[r] # None
      BY <2>1, MintedIsSomething DEF HandshakeInv, Wrapped
    <2>4. deployment \in {"repair", "context"} => ServerSession(r) = session[r]
      BY <2>3
    <2>5. deployment \notin {"repair", "context"} =>
              ServerSession(r) = Resolve(r, "server")
      OBVIOUS
    <2>6. Fits(Of[r], ServerSession(r))
      BY <2>1, <2>3, <2>4, <2>5
    <2> QED BY <1>1, <2>2, <2>4, <2>6 DEF Fits
  <1>2. CASE r \in ToolCall
    <2>1. CallInv(r) /\ Resolve(r, "server") = echo[r]
      BY <1>2, CallResolves DEF IInv
    <2>2. r \notin Handshake
      BY <1>2, StatelessAssumption
    <2>3. echo[r] \in Minted \cup {None} /\ seed[Of[r]] \in SeedHeader \cup {None}
      BY <1>0 DEF TypeOK
    <2> QED BY <1>2, <2>1, <2>2, <2>3 DEF CallInv, Wrapped
  <1> QED BY <1>1, <1>2 DEF Request

\* Every step keeps the types and never takes an announcement back.
LEMMA StepTyped == IInv /\ [Next]_vars => TypeOK' /\ announced \subseteq announced'
  <1> SUFFICES ASSUME IInv, [Next]_vars
               PROVE  TypeOK' /\ announced \subseteq announced'
    OBVIOUS
  <1>0. TypeOK
    BY DEF IInv
  <1>1. ASSUME NEW r \in Request, RequestStep(r) \/ Receive(r)
        PROVE  TypeOK' /\ announced \subseteq announced'
    <2>0. Of[r] \in Conversation
      BY StatelessAssumption
    <2>1. \A by \in {"wrapper", "server"} : Resolve(r, by) \in Minted \cup {None}
      BY <1>0, HandshakeResolves, CallResolves DEF Fits, Request, TypeOK
    <2> USE <1>0, <2>0, <2>1 DEF Goto
    <2>2. CASE Send(r)
      BY <2>2 DEF Send, TypeOK, Identifier
    <2>3. CASE Enter(r)
      BY <2>3 DEF Enter, Inbound, TypeOK, Identifier
    <2>4. CASE Refuse(r)
      BY <2>4 DEF Refuse, TypeOK
    <2>5. CASE Serve(r)
      <3>1. ServerSession(r) \in Minted \cup SeedHeader \cup {None}
        BY <2>5, ServerSessions DEF Serve
      <3>2. /\ named' \in [Request -> SUBSET Identifier]
            /\ announced' \subseteq Identifier \X {"handshake", "call"}
            /\ announced \subseteq announced'
        BY <2>5, <3>1, Recorded DEF Serve, Identifier, TypeOK
      <3> QED BY <2>5, <3>1, <3>2 DEF Serve, TypeOK
    <2>6. CASE WriteHint(r)
      BY <2>6 DEF WriteHint, handling, TypeOK
    <2>7. CASE WriteAnswer(r) \/ WriteNothing(r)
      <3>1. Attach(r) \in Minted \cup {None}
        <4>1. at[r] = "write"
          BY <2>7 DEF WriteAnswer, WriteNothing
        <4>2. CASE r \in Handshake
          <5>1. HandshakeInv(r)
            BY <4>2 DEF IInv
          <5>2. own[r] \in Minted
            BY <4>1, <5>1 DEF HandshakeInv, Fits
          <5> QED BY <5>2 DEF Attach, Generated, TypeOK
        <4>3. CASE r \notin Handshake
          BY <4>3 DEF Attach, Generated, TypeOK
        <4> QED BY <4>2, <4>3
      <3> QED BY <2>7, <3>1 DEF WriteAnswer, WriteNothing, TypeOK
    <2>8. CASE Return(r)
      <3>1. /\ named' \in [Request -> SUBSET Identifier]
            /\ announced' \subseteq Identifier \X {"handshake", "call"}
            /\ announced \subseteq announced'
        BY <2>8, Recorded DEF Return, Identifier, TypeOK
      <3> QED BY <2>8, <3>1 DEF Return, TypeOK
    <2>9. CASE Receive(r)
      BY <2>9 DEF Receive, handling, TypeOK
    <2> QED BY <1>1, <2>2, <2>3, <2>4, <2>5, <2>6, <2>7, <2>8, <2>9 DEF RequestStep
  <1>2. CASE UNCHANGED vars
    BY <1>0, <1>2 DEF vars, handling, TypeOK
  <1> QED BY <1>1, <1>2 DEF Next

\* Calls announce nothing that was minted.
LEMMA StepAnnouncements == IInv /\ [Next]_vars => Announcements'
  <1> SUFFICES ASSUME IInv, [Next]_vars, NEW other \in Minted
               PROVE  <<other, "call">> \notin announced'
    BY DEF Announcements
  <1>0. TypeOK /\ <<other, "call">> \notin announced
    BY DEF IInv, Announcements
  <1>1. ASSUME NEW r \in Request, Serve(r) PROVE <<other, "call">> \notin announced'
    <2>1. CASE r \in Handshake
      <3>1. \/ announced' = announced
            \/ announced' = announced \cup {<<ServerSession(r), "handshake">>}
        BY <1>1, <2>1, AnnouncedOnce DEF Serve, Record
      <3> QED BY <1>0, <3>1, HowDiffers
    <2>2. CASE r \in ToolCall
      <3>1. CallInv(r)
        BY <2>2 DEF IInv
      <3>2. \/ ServerSession(r) = echo[r]
            \/ ServerSession(r) = seed[Of[r]]
        BY <1>1, <2>2, ServerSessions DEF Serve
      <3>3. seed[Of[r]] \notin Minted
        BY <1>0, StatelessAssumption DEF TypeOK
      <3>4. ServerSession(r) \in Minted => Known(ServerSession(r))
        BY <3>1, <3>2, <3>3, StatelessAssumption DEF CallInv
      <3>5. \/ announced' = announced
            \/ /\ announced' = announced \cup {<<ServerSession(r), "call">>}
               /\ <<ServerSession(r), "handshake">> \notin announced
        BY <1>1, <2>2, StatelessAssumption, AnnouncedOnce DEF Serve, Record
      <3> QED BY <1>0, <3>4, <3>5 DEF Known
    <2> QED BY <2>1, <2>2 DEF Request
  <1>2. ASSUME NEW r \in Request, Return(r) PROVE <<other, "call">> \notin announced'
    <2>1. \/ announced' = announced
          \/ announced' = announced \cup {<<session[r], "handshake">>}
      BY <1>2, AnnouncedOnce DEF Return, Record
    <2> QED BY <1>0, <2>1, HowDiffers
  <1>3. ASSUME NEW r \in Request, \/ Send(r) \/ Enter(r) \/ Refuse(r) \/ WriteHint(r)
                                 \/ WriteAnswer(r) \/ WriteNothing(r) \/ Receive(r)
        PROVE  <<other, "call">> \notin announced'
    BY <1>0, <1>3 DEF Send, Enter, Refuse, WriteHint, WriteAnswer, WriteNothing,
                      Receive
  <1>4. CASE UNCHANGED vars
    BY <1>0, <1>4 DEF vars
  <1> QED BY <1>1, <1>2, <1>3, <1>4 DEF Next, RequestStep

\* A client learns an id only from the answer of a handshake that was served.
LEMMA StepHolds == IInv /\ [Next]_vars => \A c \in Conversation : Holds(c)'
  <1> SUFFICES ASSUME IInv, [Next]_vars, NEW c \in Conversation PROVE Holds(c)'
    OBVIOUS
  <1>0. TypeOK /\ Holds(c) /\ announced \subseteq announced'
    BY StepTyped DEF IInv
  <1>1. given[c]' = given[c] /\ seed' = seed => Holds(c)'
    BY <1>0 DEF Holds, Known, Fits, Seeded
  <1>2. ASSUME NEW r \in Request, Receive(r) PROVE Holds(c)'
    <2>1. CASE Of[r] = c /\ r \in Handshake \cap served /\ header[r] # None
      <3>1. HandshakeInv(r)
        BY <2>1 DEF IInv
      <3>2. at[r] \in {"return", "end"} /\ status[r] # "error"
        BY <1>0, <1>2, <2>1, <3>1 DEF Receive, HandshakeInv, TypeOK
      <3>3. header[r] = own[r] /\ Fits(c, own[r]) /\ Known(own[r])
        BY <2>1, <3>1, <3>2 DEF HandshakeInv
      <3>4. given'[c] = own[r] /\ UNCHANGED <<announced, seed>>
        BY <1>0, <1>2, <2>1, <3>3 DEF Receive, TypeOK
      <3> QED BY <3>3, <3>4 DEF Holds, Known, Fits, Seeded
    <2>2. CASE ~(Of[r] = c /\ r \in Handshake \cap served /\ header[r] # None)
      BY <1>0, <1>1, <1>2, <2>2, StatelessAssumption DEF Receive, TypeOK
    <2> QED BY <2>1, <2>2
  <1>3. ASSUME NEW r \in Request, RequestStep(r) PROVE Holds(c)'
    BY <1>1, <1>3 DEF RequestStep, Send, Enter, Refuse, Serve, WriteHint,
                      WriteAnswer, WriteNothing, Return
  <1>4. CASE UNCHANGED vars
    BY <1>1, <1>4 DEF vars
  <1> QED BY <1>2, <1>3, <1>4 DEF Next

\* Each step of a handshake keeps its invariant, and so do all others.
LEMMA StepHandshake == IInv /\ [Next]_vars => \A r \in Handshake : HandshakeInv(r)'
  <1> SUFFICES ASSUME IInv, [Next]_vars, NEW q \in Handshake PROVE HandshakeInv(q)'
    OBVIOUS
  <1>0. /\ TypeOK /\ HandshakeInv(q) /\ announced \subseteq announced'
        /\ q \in Request /\ q \notin ToolCall /\ Announcements
    BY StepTyped, StatelessAssumption DEF IInv, Request
  <1>1. ASSUME NEW r \in Request, RequestStep(r) \/ Receive(r), r # q
        PROVE  HandshakeInv(q)'
    <2>1. UNCHANGED <<deployment, seed, at[q], repair[q], session[q], own[q],
                      status[q], header[q], answer[q], named[q]>>
      BY <1>0, <1>1 DEF TypeOK, RequestStep, Send, Enter, Refuse, Serve, WriteHint,
             WriteAnswer, WriteNothing, Return, Receive, Record, Goto, handling
    <2>2. q \in served' <=> q \in served
      BY <1>0, <1>1 DEF RequestStep, Send, Enter, Refuse, Serve, WriteHint,
             WriteAnswer, WriteNothing, Return, Receive, handling
    <2> QED BY <1>0, <2>1, <2>2 DEF HandshakeInv, Known, Fits, Seeded, Wrapped
  <1>2. ASSUME RequestStep(q) \/ Receive(q) PROVE HandshakeInv(q)'
    <2> USE <1>0 DEF HandshakeInv, Goto, TypeOK
    <2>1. CASE Send(q)
      BY <2>1 DEF Send
    <2>2. CASE Enter(q)
      <3>1. Fits(Of[q], Resolve(q, "wrapper")) /\ Resolve(q, "wrapper") # None
        BY HandshakeResolves, MintedIsSomething
      <3>2. UNCHANGED <<deployment, seed>>
        BY <2>2 DEF Enter
      <3>3. Wrapped => session'[q] = Resolve(q, "wrapper") /\ repair'[q] = session'[q]
        BY <2>2, <3>1 DEF Enter
      <3>4. ~Wrapped => session'[q] = None
        BY <2>2 DEF Enter
      <3> QED BY <2>2, <3>1, <3>2, <3>3, <3>4 DEF Enter, Fits, Seeded, Wrapped
    <2>3. CASE Refuse(q)
      BY <2>3 DEF Refuse, Fits, Seeded, Wrapped
    <2>4. CASE Serve(q)
      <3>1. /\ Fits(Of[q], ServerSession(q))
            /\ deployment \in {"repair", "context"} => ServerSession(q) = session[q]
        BY <2>4, ServerSessions DEF Serve
      <3>2. own'[q] = ServerSession(q) /\ named'[q] \subseteq {own'[q]}
        BY <2>4 DEF Serve, Record
      <3>3. q \in served' => <<own'[q], "handshake">> \in announced'
        BY <2>4, <3>1, <3>2, MintedIsSomething DEF Serve, Record, Announce, Announcements
      <3>4. /\ UNCHANGED <<deployment, seed, session, repair, status, header, answer>>
            /\ at'[q] = "write" /\ at[q] = "server"
        BY <2>4 DEF Serve
      <3> QED BY <3>1, <3>2, <3>3, <3>4 DEF Fits, Seeded, Wrapped, Known
    <2>5. CASE WriteHint(q)
      BY <2>5 DEF WriteHint, handling, Fits, Seeded, Wrapped, Known
    <2>6. CASE WriteAnswer(q) \/ WriteNothing(q)
      <3>1. /\ at[q] = "write" /\ at'[q] = "return" /\ header'[q] = Attach(q)
            /\ UNCHANGED <<deployment, seed, repair, session, own, served, named, announced>>
        BY <2>6 DEF WriteAnswer, WriteNothing
      <3>2. /\ status'[q] = "1xx" => status[q] = "1xx"
            /\ status'[q] # "error"
        BY <2>6 DEF WriteAnswer, WriteNothing
      <3>3. own[q] # None /\ (deployment = "repair" => own[q] = session[q])
        BY <3>1, MintedIsSomething
      <3>4. Attach(q) = own[q] \/ (q \in Hinted /\ Attach(q) = None)
        BY <3>1, <3>3 DEF Attach, Generated, Mark3labs
      <3> QED BY <3>1, <3>2, <3>4 DEF Fits, Seeded, Wrapped, Known
    <2>7. CASE Return(q)
      <3>1. /\ at[q] = "return" /\ at'[q] = "end"
            /\ UNCHANGED <<deployment, seed, repair, session, own, served, status, header>>
        BY <2>7 DEF Return
      <3>2. /\ named'[q] \subseteq named[q] \cup {session[q]}
            /\ status[q] = "error" \/ ~Wrapped => named'[q] = named[q]
        BY <2>7 DEF Return, Record, Succeeded
      <3> QED BY <3>1, <3>2 DEF Fits, Seeded, Wrapped, Known
    <2>8. CASE Receive(q)
      BY <2>8 DEF Receive, handling, Fits, Seeded, Wrapped, Known
    <2> QED BY <1>2, <2>1, <2>2, <2>3, <2>4, <2>5, <2>6, <2>7, <2>8 DEF RequestStep
  <1>3. CASE UNCHANGED vars
    BY <1>0, <1>3 DEF vars, handling, HandshakeInv, Known, Fits, Seeded, Wrapped
  <1> QED BY <1>1, <1>2, <1>3 DEF Next

\* The same for calls.
LEMMA StepCall == IInv /\ [Next]_vars => \A r \in ToolCall : CallInv(r)'
  <1> SUFFICES ASSUME IInv, [Next]_vars, NEW q \in ToolCall PROVE CallInv(q)'
    OBVIOUS
  <1>0. /\ TypeOK /\ CallInv(q) /\ announced \subseteq announced'
        /\ q \in Request /\ q \notin Handshake /\ Of[q] \in Conversation
    BY StepTyped, StatelessAssumption DEF IInv, Request
  <1>1. ASSUME NEW r \in Request, RequestStep(r) \/ Receive(r), r # q
        PROVE  CallInv(q)'
    <2>1. UNCHANGED <<deployment, seed, at[q], echo[q], repair[q], session[q], named[q]>>
      BY <1>0, <1>1 DEF TypeOK, RequestStep, Send, Enter, Refuse, Serve, WriteHint,
             WriteAnswer, WriteNothing, Return, Receive, Record, Goto, handling
    <2> QED BY <1>0, <2>1 DEF CallInv, Known, Fits, Seeded, Wrapped
  <1>2. ASSUME RequestStep(q) \/ Receive(q) PROVE CallInv(q)'
    <2> USE <1>0 DEF CallInv, Goto, TypeOK
    <2>1. CASE Send(q)
      <3>1. Holds(Of[q])
        BY DEF IInv
      <3>2. echo'[q] \in {given[Of[q]], None}
        BY <2>1 DEF Send
      <3> QED BY <2>1, <3>1, <3>2 DEF Send, Holds, Known, Fits, Seeded
    <2>2. CASE Enter(q)
      <3>1. Resolve(q, "wrapper") = echo[q]
        BY CallResolves
      <3> QED BY <2>2, <3>1 DEF Enter, Inbound, Known, Fits, Seeded, Wrapped
    <2>3. CASE Refuse(q)
      BY <2>3 DEF Refuse, Known, Fits, Seeded, Wrapped
    <2>4. CASE Serve(q)
      <3>1. \/ ServerSession(q) = echo[q]
            \/ echo[q] = None /\ ServerSession(q) = seed[Of[q]]
        BY <2>4, ServerSessions DEF Serve
      <3>2. named'[q] = {ServerSession(q)}
        BY <2>4 DEF Serve, Record
      <3> QED BY <2>4, <3>1, <3>2 DEF Serve, Known, Fits, Seeded, Wrapped
    <2>5. CASE WriteHint(q) \/ WriteAnswer(q) \/ WriteNothing(q)
      BY <2>5 DEF WriteHint, WriteAnswer, WriteNothing, handling, Known, Fits,
                  Seeded, Wrapped
    <2>6. CASE Return(q)
      BY <2>6 DEF Return, Known, Fits, Seeded, Wrapped
    <2>7. CASE Receive(q)
      BY <2>7 DEF Receive, handling, Known, Fits, Seeded, Wrapped
    <2> QED BY <1>2, <2>1, <2>2, <2>3, <2>4, <2>5, <2>6, <2>7 DEF RequestStep
  <1>3. CASE UNCHANGED vars
    BY <1>0, <1>3 DEF vars, handling, CallInv, Known, Fits, Seeded, Wrapped
  <1> QED BY <1>1, <1>2, <1>3 DEF Next

\* The invariant is inductive.
LEMMA Invariance == Spec => []IInv
  <1>1. IInv /\ [Next]_vars => IInv'
    BY StepTyped, StepAnnouncements, StepHolds, StepHandshake, StepCall DEF IInv
  <1> QED BY <1>1, InitHolds, PTL DEF Spec

-----------------------------------------------------------------------------
(* Theorems *)

\* The types of the model.
THEOREM StatelessTypeCorrect == Spec => []TypeOK
  <1>1. IInv => TypeOK
    BY DEF IInv
  <1> QED BY <1>1, Invariance, PTL

\* The events of a handshake bear the id its answer names to the client, and a
\* refused handshake leaves no trace, in every deployment.
THEOREM AnswersNameTheSession == Spec => []HandshakeNamesItsSession
  <1>1. IInv => HandshakeNamesItsSession
    <2> SUFFICES ASSUME IInv, NEW r \in Handshake, at[r] \in {"return", "end"}
                 PROVE  /\ status[r] = "error" => named[r] = {} /\ header[r] = None
                        /\ status[r] # "error" /\ ~Ambiguous(r) =>
                               \/ named[r] \subseteq {header[r]}
                               \/ r \in Hinted /\ header[r] = None
      BY DEF HandshakeNamesItsSession
    <2>1. HandshakeInv(r) /\ TypeOK /\ deployment \in Deployments
      BY DEF IInv, TypeOK
    <2>2. status[r] # "error" /\ ~Ambiguous(r) => named[r] \subseteq {own[r]}
      BY <2>1, StatelessAssumption DEF HandshakeInv, Ambiguous, Wrapped, Fits
    <2> QED BY <2>1, <2>2 DEF HandshakeInv
  <1> QED BY <1>1, Invariance, PTL

\* A call that echoes an id belongs to the session a handshake announced, and
\* no call to one that came from outside.
THEOREM CallsFollowTheirHandshake == Spec => []CallsJoinTheirHandshake
  <1>1. IInv => CallsJoinTheirHandshake
    <2> SUFFICES ASSUME IInv, NEW r \in ToolCall, NEW id \in named[r]
                 PROVE  \/ echo[r] = None /\ id \in {None, seed[Of[r]]}
                        \/ echo[r] # None /\ id = echo[r] /\ <<id, "handshake">> \in announced
      BY DEF CallsJoinTheirHandshake
    <2>1. CallInv(r)
      BY DEF IInv
    <2> QED BY <2>1 DEF CallInv, Known
  <1> QED BY <1>1, Invariance, PTL

\* A conversation with a seed is one session, whatever is lost, repeated or
\* resolved twice.
THEOREM SeedsKeepOneSession == Spec => []SeedKeepsOneSession
  <1>1. IInv => SeedKeepsOneSession
    <2> SUFFICES ASSUME IInv, NEW r \in Request, Seeded(Of[r]),
                        r \in Handshake \/ echo[r] # None
                 PROVE  named[r] \subseteq {<<Client[Of[r]], seed[Of[r]]>>}
      BY DEF SeedKeepsOneSession
    <2>1. CASE r \in Handshake
      <3>1. HandshakeInv(r) /\ TypeOK
        BY <2>1 DEF IInv
      <3> QED BY <2>1, <3>1 DEF HandshakeInv, Fits, TypeOK, Wrapped
    <2>2. CASE r \in ToolCall
      <3>1. CallInv(r) /\ r \notin Handshake
        BY <2>2, StatelessAssumption DEF IInv
      <3> QED BY <3>1 DEF CallInv, Fits
    <2> QED BY <2>1, <2>2 DEF Request
  <1> QED BY <1>1, Invariance, PTL
=============================================================================
