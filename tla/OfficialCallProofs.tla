------------------------- MODULE OfficialCallProofs -------------------------
(***************************************************************************)
(* Proofs about OfficialCall, for any number of requests and handler       *)
(* invocations, any of which may straggle or meet a panic of               *)
(* Config.ActorSeed; ReturnSettles and AcknowledgedDelivers are about the  *)
(* tame calls beside such ones.                                            *)
(***************************************************************************)
EXTENDS OfficialCall, FiniteSetTheorems, TLAPS

\* TypeOK with a counter that might be negative.
Typed ==
    /\ closed \in BOOLEAN
    /\ inflight \in Int
    /\ dropped \in Nat
    /\ pc \in [Call -> CallPC]
    /\ state \in [Call -> SUBSET Attempt]
    /\ carried \in [Call -> SUBSET Attempt]
    /\ unwound \subseteq Call
    /\ offered \subseteq Call
    /\ handlerPc \in [Invocation -> HandlerPC]
    /\ answer \in [Invocation -> Answer]
    /\ reservation \in [Invocation -> Outcome]
    /\ drain \in [Drainer -> {"idle", "waiting", "drained", "failed"}]

\* Who holds an open reservation: the handler that has not attached it, the
\* state of the call, or recordToolCall; never two of them.
Holding(i) ==
    /\ handlerPc[i] \in {"idle", "reserve"} => reservation[i] = "none"
    /\ handlerPc[i] = "attach" => Held(i)
    /\ i[2] \in state[i[1]] => Held(i) /\ handlerPc[i] = "done"
    /\ i[2] \in carried[i[1]] =>
           /\ pc[i[1]] \in {"record", "claim", "build"} =>
                  handlerPc[i] = "done" /\ i[2] \notin state[i[1]]
           /\ pc[i[1]] \in {"record", "claim"} => Held(i)
           /\ pc[i[1]] = "build" => reservation[i] = "claimed"

Single(c) ==
    /\ \A a, b \in state[c] : a = b
    /\ \A a, b \in carried[c] : a = b

Closing == \A d \in Closer : drain[d] # "idle" => closed

OpenSet == {i \in Invocation : reservation[i] \in Reserved}

Base ==
    /\ Typed
    /\ \A i \in Invocation : Holding(i)
    /\ \A c \in Call : Single(c)

\* The middleware and handler actions of one call, and its invocations.
LEMMA InvocationsOf ==
    ASSUME NEW c \in Call
    PROVE  /\ Of(c) \subseteq Invocation
           /\ \A i \in Of(c) : i[1] = c /\ i[2] \in Attempt /\ i = <<c, i[2]>>
           /\ \A i \in Invocation : i[1] = c => i \in Of(c)
  BY DEF Of, Invocation

\* Invocations are finitely many, so the counter can be compared to a
\* cardinality.
LEMMA InvocationsFinite == IsFiniteSet(Invocation)
  BY OfficialCallAssumption, FS_Product DEF Invocation

\* The initial state has every property the steps maintain.
LEMMA InitBase == Init => Base /\ Closing /\ InflightCounts
  <1> SUFFICES ASSUME Init PROVE Base /\ Closing /\ InflightCounts
    OBVIOUS
  <1> USE DEF Init
  <1>1. Base
    <2>1. Typed
      <3>1. reservation \in [Invocation -> Outcome]
        BY DEF Outcome
      <3>2. pc \in [Call -> CallPC] /\ handlerPc \in [Invocation -> HandlerPC]
        BY DEF CallPC, HandlerPC
      <3>3. state \in [Call -> SUBSET Attempt] /\ carried \in [Call -> SUBSET Attempt]
        OBVIOUS
      <3>4. answer \in [Invocation -> Answer]
        BY DEF Answer
      <3>5. drain \in [Drainer -> {"idle", "waiting", "drained", "failed"}]
        OBVIOUS
      <3>6. inflight \in Int /\ dropped \in Nat
        OBVIOUS
      <3>7. closed \in BOOLEAN /\ unwound \subseteq Call /\ offered \subseteq Call
        BY Zenon
      <3> QED BY <3>1, <3>2, <3>3, <3>4, <3>5, <3>6, <3>7, Zenon DEF Typed
    <2>2. ASSUME NEW i \in Invocation PROVE Holding(i)
      BY <2>2 DEF Holding, Held, Invocation
    <2>3. ASSUME NEW c \in Call PROVE Single(c)
      BY <2>3 DEF Single
    <2> QED BY <2>1, <2>2, <2>3 DEF Base
  <1>2. Closing
    BY DEF Init, Closing, Drainer
  <1>3. {i \in Invocation : reservation[i] \in Reserved} = {}
    BY DEF Init, Reserved
  <1>4. InflightCounts
    BY <1>3, FS_EmptySet DEF Init, InflightCounts
  <1> QED BY <1>1, <1>2, <1>4

\* Every step keeps the types.
LEMMA StepTyped == Typed /\ [Next]_vars => Typed'
  <1> SUFFICES ASSUME Typed, [Next]_vars PROVE Typed'
    OBVIOUS
  <1> USE DEF Typed
  <1>1. ASSUME NEW c \in Call, Enter(c) \/ MiddlewareStep(c) PROVE Typed'
    <2> USE InvocationsOf DEF Goto, Unwind, CallPC
    <2>1. CASE Enter(c)
      BY <2>1 DEF Enter, handlerVars
    <2>2. CASE ChainReturns(c) \/ ChainPanics(c)
      BY <2>2 DEF ChainReturns, ChainPanics, handlerVars
    <2>3. CASE PassReservation(c)
      BY <2>3 DEF PassReservation, Parameter, TakeState, handlerVars
    <2>4. CASE PrepareInput(c)
      BY <2>4 DEF PrepareInput, handlerVars
    <2>5. CASE RecordToolCall(c)
      BY <2>5 DEF RecordToolCall, CountDrop, handlerVars
    <2>6. CASE ClaimReservation(c)
      BY <2>6 DEF ClaimReservation, Become, Outcome, Reserved, handlerVars
    <2>7. CASE EmitReserved(c)
      BY <2>7 DEF EmitReserved, Become, WgDone, Outcome, Reserved,
                  Done, handlerVars
    <2>8. CASE RunDeferred(c)
      BY <2>8 DEF RunDeferred, TakeState, Release, Become, WgDone, Outcome,
                  Done, handlerVars
    <2> QED BY <1>1, <2>1, <2>2, <2>3, <2>4, <2>5, <2>6, <2>7, <2>8
            DEF MiddlewareStep
  <1>2. ASSUME NEW i \in Invocation, Invoke(i) \/ HandlerStep(i) \/ PostReturns(i)
        PROVE  Typed'
    <2> USE DEF Become, WgDone, HandlerPC, callVars
    <2>1. CASE Invoke(i)
      BY <2>1 DEF Invoke
    <2>2. CASE ReserveCapability(i)
      BY <2>2 DEF ReserveCapability, CountDrop, Leave, Answer, Outcome, Reserved
    <2>3. CASE AttachReservation(i)
      BY <2>3 DEF AttachReservation, Leave, Answer, Invocation
    <2>4. CASE AttachFails(i)
      BY <2>4 DEF AttachFails, Release, Leave, Answer, Outcome, Done
    <2>5. CASE PostReturns(i)
      BY <2>5 DEF PostReturns, Outcome, Done, handlerVars
    <2> QED BY <1>2, <2>1, <2>2, <2>3, <2>4, <2>5 DEF HandlerStep
  <1>3. ASSUME NEW d \in Drainer,
               CallDrain(d) \/ InflightDrained(d) \/ DrainFails(d)
        PROVE  Typed'
    BY <1>3 DEF CallDrain, InflightDrained, DrainFails, DrainGoto, callVars,
                handlerVars
  <1>4. CASE Rest \/ UNCHANGED vars
    BY <1>4 DEF Rest, vars, callVars, handlerVars
  <1> QED BY <1>1, <1>2, <1>3, <1>4 DEF Next

\* An open reservation has one holder at every step: what a handler, a state
\* or recordToolCall holds is disturbed by nobody else.
LEMMA StepHolding ==
    Base /\ [Next]_vars => \A i \in Invocation : Holding(i)'
  <1> SUFFICES ASSUME Base, [Next]_vars, NEW i \in Invocation
               PROVE  Holding(i)'
    OBVIOUS
  <1> DEFINE c == i[1]
             a == i[2]
  <1>0. Typed /\ Holding(i) /\ Single(c) /\ c \in Call /\ a \in Attempt
        /\ i = <<c, a>>
    BY DEF Base, Invocation
  <1> USE <1>0 DEF Typed, Holding, Held
  <1>1. ASSUME NEW e \in Call, Enter(e) \/ MiddlewareStep(e)
        PROVE  Holding(i)'
    <2> USE InvocationsOf DEF Goto, Unwind
    <2>1. CASE Enter(e)
      BY <2>1 DEF Enter, handlerVars
    <2>2. CASE ChainReturns(e) \/ ChainPanics(e)
      BY <2>2 DEF ChainReturns, ChainPanics, ChainMayEnd, handlerVars
    <2>3. CASE PassReservation(e)
      BY <2>3 DEF PassReservation, Parameter, TakeState, handlerVars
    <2>4. CASE PrepareInput(e)
      BY <2>4 DEF PrepareInput, handlerVars
    <2>5. CASE RecordToolCall(e)
      BY <2>5 DEF RecordToolCall, CountDrop, handlerVars
    <2>6. CASE ClaimReservation(e)
      BY <2>6 DEF ClaimReservation, Become, Single, handlerVars
    <2>7. CASE EmitReserved(e)
      BY <2>7 DEF EmitReserved, Become, Single, handlerVars
    <2>8. CASE RunDeferred(e)
      BY <2>8 DEF RunDeferred, Deferred, TakeState, Release, Become, Single,
                  handlerVars
    <2> QED BY <1>1, <2>1, <2>2, <2>3, <2>4, <2>5, <2>6, <2>7, <2>8
            DEF MiddlewareStep
  <1>2. ASSUME NEW j \in Invocation, Invoke(j) \/ HandlerStep(j) \/ PostReturns(j)
        PROVE  Holding(i)'
    <2>0. Typed /\ Holding(j) /\ j[1] \in Call /\ j = <<j[1], j[2]>>
      BY DEF Base, Invocation
    <2> USE <2>0 DEF Become, callVars
    <2>1. CASE Invoke(j)
      BY <2>1 DEF Invoke
    <2>2. CASE ReserveCapability(j)
      BY <2>2 DEF ReserveCapability, Leave
    <2>3. CASE AttachReservation(j)
      BY <2>3 DEF AttachReservation, MayAttach, Leave
    <2>4. CASE AttachFails(j)
      BY <2>4 DEF AttachFails, Release, Leave
    <2>5. CASE PostReturns(j)
      BY <2>5 DEF PostReturns, handlerVars
    <2> QED BY <1>2, <2>1, <2>2, <2>3, <2>4, <2>5 DEF HandlerStep
  <1>3. ASSUME NEW d \in Drainer,
               CallDrain(d) \/ InflightDrained(d) \/ DrainFails(d)
        PROVE  Holding(i)'
    BY <1>3 DEF CallDrain, InflightDrained, DrainFails, callVars, handlerVars
  <1>4. CASE Rest \/ UNCHANGED vars
    BY <1>4 DEF Rest, vars, callVars, handlerVars
  <1> QED BY <1>1, <1>2, <1>3, <1>4 DEF Next

\* A state holds at most one reservation: attach refuses a second one.
LEMMA StepSingle == Base /\ [Next]_vars => \A c \in Call : Single(c)'
  <1> SUFFICES ASSUME Base, [Next]_vars, NEW c \in Call PROVE Single(c)'
    OBVIOUS
  <1>0. Typed /\ Single(c)
    BY DEF Base
  <1> USE <1>0 DEF Typed, Single
  <1>1. ASSUME NEW e \in Call, Enter(e) \/ MiddlewareStep(e) PROVE Single(c)'
    BY <1>1 DEF MiddlewareStep, Enter, ChainReturns, ChainPanics,
                PassReservation, PrepareInput, RecordToolCall, ClaimReservation,
                EmitReserved, RunDeferred, TakeState, Parameter
  <1>2. ASSUME NEW j \in Invocation, Invoke(j) \/ HandlerStep(j) \/ PostReturns(j)
        PROVE  Single(c)'
    BY <1>2 DEF HandlerStep, Invoke, ReserveCapability, AttachReservation,
                AttachFails, PostReturns, callVars, Invocation
  <1>3. ASSUME NEW d \in Drainer,
               CallDrain(d) \/ InflightDrained(d) \/ DrainFails(d)
        PROVE  Single(c)'
    BY <1>3 DEF CallDrain, InflightDrained, DrainFails, callVars
  <1>4. CASE Rest \/ UNCHANGED vars
    BY <1>4 DEF Rest, vars, callVars
  <1> QED BY <1>1, <1>2, <1>3, <1>4 DEF Next

\* A Close that has begun keeps the recorder closed.
LEMMA StepClosing == Typed /\ Closing /\ [Next]_vars => Closing'
  <1> SUFFICES ASSUME Typed, Closing, [Next]_vars PROVE Closing'
    OBVIOUS
  <1> USE DEF Typed, Closing
  <1>1. ASSUME NEW d \in Drainer,
               CallDrain(d) \/ InflightDrained(d) \/ DrainFails(d)
        PROVE  Closing'
    BY <1>1 DEF CallDrain, InflightDrained, DrainFails, DrainGoto, Drainer
  <1>2. CASE UNCHANGED <<closed, drain>>
    BY <1>2
  <1> QED
    BY <1>1, <1>2 DEF Next, vars, MiddlewareStep, Enter, ChainReturns,
       ChainPanics, PassReservation, PrepareInput, RecordToolCall,
       ClaimReservation, EmitReserved, RunDeferred, HandlerStep, Invoke,
       ReserveCapability, AttachReservation, AttachFails, PostReturns, Rest

-----------------------------------------------------------------------------
(* The counter *)

\* A reservation that opens, closes, or moves on while open: what the change
\* of the counter has to be.
LEMMA OneChange ==
    ASSUME Typed, InflightCounts, NEW i \in Invocation, NEW v, Become(i, v)
    PROVE  /\ reservation[i] \notin Reserved /\ v \in Reserved
                  /\ inflight' = inflight + 1 => InflightCounts'
           /\ reservation[i] \in Reserved /\ v \notin Reserved /\ WgDone
                  => InflightCounts'
           /\ reservation[i] \in Reserved /\ v \in Reserved
                  /\ UNCHANGED inflight => InflightCounts'
  <1> DEFINE After == {j \in Invocation : reservation'[j] \in Reserved}
  <1>1. IsFiniteSet(OpenSet) /\ inflight = Cardinality(OpenSet)
    BY InvocationsFinite, FS_Subset DEF OpenSet, InflightCounts
  <1>2. \A j \in Invocation : reservation'[j] = IF j = i THEN v ELSE reservation[j]
    BY DEF Typed, Become
  <1>3. InflightCounts' <=> inflight' = Cardinality(After)
    BY DEF InflightCounts
  <1>4. CASE reservation[i] \notin Reserved /\ v \in Reserved
    <2>1. After = OpenSet \cup {i} /\ i \notin OpenSet
      BY <1>2, <1>4 DEF OpenSet
    <2>2. Cardinality(After) = Cardinality(OpenSet) + 1
      BY <1>1, <2>1, FS_AddElement
    <2> QED BY <1>1, <1>3, <1>4, <2>2
  <1>5. CASE reservation[i] \in Reserved /\ v \notin Reserved
    <2>1. After = OpenSet \ {i} /\ i \in OpenSet
      BY <1>2, <1>5 DEF OpenSet
    <2>2. Cardinality(After) = Cardinality(OpenSet) - 1
      BY <1>1, <2>1, FS_RemoveElement
    <2> QED BY <1>1, <1>3, <1>5, <2>2 DEF WgDone
  <1>6. CASE reservation[i] \in Reserved /\ v \in Reserved
    <2>1. After = OpenSet
      BY <1>2, <1>6 DEF OpenSet
    <2> QED BY <1>1, <1>3, <1>6, <2>1
  <1>7. CASE reservation[i] \notin Reserved /\ v \notin Reserved
    BY <1>7
  <1> QED BY <1>4, <1>5, <1>6, <1>7

\* Every step counts what it opens and closes.
LEMMA StepCounts == Base /\ InflightCounts /\ [Next]_vars => InflightCounts'
  <1> SUFFICES ASSUME Base, InflightCounts, [Next]_vars PROVE InflightCounts'
    OBVIOUS
  <1>0. Typed /\ \A i \in Invocation : Holding(i)
    BY DEF Base
  <1>1. CASE UNCHANGED <<reservation, inflight>>
    BY <1>1 DEF InflightCounts
  <1>2. ASSUME NEW i \in Invocation, Held(i), Release(i) PROVE InflightCounts'
    BY <1>0, <1>2, OneChange DEF Release, Held, Reserved
  <1>3. ASSUME NEW c \in Call, MiddlewareStep(c) PROVE InflightCounts'
    <2>1. CASE ClaimReservation(c)
      BY <1>0, <1>1, <2>1, OneChange, InvocationsOf
         DEF ClaimReservation, Held, Reserved
    <2>2. CASE EmitReserved(c)
      <3>1. PICK i \in Of(c) :
                /\ i[2] \in carried[c]
                /\ \/ Become(i, "posting") /\ UNCHANGED inflight
                   \/ Become(i, "empty") /\ WgDone
        BY <2>2 DEF EmitReserved
      <3>2. i \in Invocation /\ reservation[i] = "claimed"
        BY <1>0, <2>2, <3>1, InvocationsOf DEF EmitReserved, Holding
      <3> QED BY <1>0, <3>1, <3>2, OneChange DEF Reserved
    <2>3. CASE RunDeferred(c)
      <3>1. ASSUME NEW i \in Of(c), i[2] \in Deferred(c), Release(i)
            PROVE  InflightCounts'
        BY <1>0, <1>2, <3>1, InvocationsOf DEF Deferred, Holding
      <3> QED BY <1>1, <2>3, <3>1 DEF RunDeferred
    <2>4. CASE \/ ChainReturns(c) \/ ChainPanics(c) \/ PassReservation(c)
               \/ PrepareInput(c) \/ RecordToolCall(c)
      BY <1>1, <2>4 DEF ChainReturns, ChainPanics, PassReservation,
                        PrepareInput, RecordToolCall
    <2> QED BY <1>3, <2>1, <2>2, <2>3, <2>4 DEF MiddlewareStep
  <1>4. ASSUME NEW i \in Invocation, HandlerStep(i) PROVE InflightCounts'
    <2>1. CASE ReserveCapability(i)
      <3>1. reservation[i] = "none"
        BY <1>0, <2>1 DEF ReserveCapability, Holding
      <3> QED BY <1>0, <1>1, <2>1, <3>1, OneChange DEF ReserveCapability, Reserved
    <2>2. CASE AttachReservation(i)
      BY <1>1, <2>2 DEF AttachReservation
    <2>3. CASE AttachFails(i)
      BY <1>0, <1>2, <2>3 DEF AttachFails, Holding
    <2> QED BY <1>4, <2>1, <2>2, <2>3 DEF HandlerStep
  <1>5. ASSUME NEW i \in Invocation, PostReturns(i) PROVE InflightCounts'
    BY <1>0, <1>5, OneChange DEF PostReturns, Reserved
  <1> QED
    BY <1>1, <1>3, <1>4, <1>5
       DEF Next, vars, Enter, Invoke, CallDrain, InflightDrained, DrainFails, Rest

\* The three parts of the invariant hold in every reachable state.
LEMMA Invariance == Spec => [](Base /\ Closing /\ InflightCounts)
  <1>1. Base /\ Closing /\ InflightCounts /\ [Next]_vars
            => (Base /\ Closing /\ InflightCounts)'
    BY StepTyped, StepHolding, StepSingle, StepClosing, StepCounts DEF Base
  <1> QED BY <1>1, InitBase, PTL DEF Spec

\* The WaitGroup counts exactly the open reservations.
THEOREM CounterIsExact == Spec => []InflightCounts
  BY Invariance, PTL

\* Every variable keeps its type; that the counter never goes negative rests
\* on the accounting.
THEOREM OfficialTypeCorrect == Spec => []TypeOK
  <1>1. Base /\ InflightCounts => TypeOK
    <2> SUFFICES ASSUME Base, InflightCounts PROVE TypeOK
      OBVIOUS
    <2>1. IsFiniteSet(OpenSet) /\ inflight = Cardinality(OpenSet)
      BY InvocationsFinite, FS_Subset DEF OpenSet, InflightCounts
    <2>2. inflight \in Nat
      BY <2>1, FS_CardinalityType
    <2> QED BY <2>2, Zenon DEF Base, Typed, TypeOK
  <1> QED BY <1>1, Invariance, PTL

-----------------------------------------------------------------------------
(* The reservations behave as Reservations says *)

\* A reservation that becomes v moves from stage to stage in the ledger.
LEMMA StageMoves ==
    ASSUME Typed, NEW i \in Invocation, NEW v, Become(i, v)
    PROVE  Ledger!Move(i, LedgerStage(reservation[i]), LedgerStage(v))
  BY DEF Typed, Become, Ledger!Move

\* The stage of each value a reservation can have.
LEMMA StagesOf ==
    /\ LedgerStage("none") = "free"
    /\ LedgerStage("held") = "held"
    /\ LedgerStage("claimed") = "claimed"
    /\ LedgerStage("posting") = "claimed"
    /\ LedgerStage("posted") = "delivered"
    /\ LedgerStage("empty") = "released"
    /\ LedgerStage("released") = "released"
  BY DEF LedgerStage

\* The ledger does not see a step that changes none of its variables.
LEMMA Unseen ==
    UNCHANGED <<reservation, closed, drain>> => UNCHANGED Ledger!ledgerVars
  BY DEF Ledger!ledgerVars

\* A step of one reservation is a step of the ledger.
LEMMA MoveIsLedgerStep ==
    ASSUME Typed, UNCHANGED <<closed, drain>>, NEW i \in Invocation, NEW v,
           Become(i, v),
           \/ reservation[i] = "none" /\ v = "held" /\ ~closed
           \/ reservation[i] = "held" /\ v \in {"claimed", "released"}
           \/ reservation[i] = "claimed" /\ v \in {"posting", "empty"}
           \/ reservation[i] = "posting" /\ v = "posted"
    PROVE  [Ledger!LedgerNext]_Ledger!ledgerVars
  <1>1. Ledger!Move(i, LedgerStage(reservation[i]), LedgerStage(v))
    BY StageMoves
  <1>2. CASE reservation[i] = "claimed" /\ v = "posting"
    <2>1. \A j \in Invocation :
              LedgerStage(reservation'[j]) = LedgerStage(reservation[j])
      BY <1>2, StagesOf DEF Typed, Become
    <2> QED BY <2>1 DEF Ledger!ledgerVars
  <1>3. CASE reservation[i] = "none" /\ v = "held"
    <2>1. Ledger!Take(i)
      BY <1>1, <1>3, StagesOf DEF Ledger!Take
    <2> QED BY <2>1 DEF Ledger!LedgerNext
  <1>4. CASE reservation[i] = "held"
    <2>1. Ledger!Claim(i) \/ Ledger!Release(i)
      BY <1>1, <1>4, StagesOf DEF Ledger!Claim, Ledger!Release
    <2> QED BY <2>1 DEF Ledger!LedgerNext
  <1>5. CASE \/ reservation[i] = "claimed" /\ v = "empty"
             \/ reservation[i] = "posting"
    <2>1. Ledger!Deliver(i) \/ Ledger!Abandon(i)
      BY <1>1, <1>5, StagesOf DEF Ledger!Deliver, Ledger!Abandon
    <2> QED BY <2>1 DEF Ledger!LedgerNext
  <1> QED BY <1>2, <1>3, <1>4, <1>5

\* A drain that passes inflight.Wait on a closed recorder finds nothing open.
LEMMA DrainIsLedgerStep ==
    ASSUME Typed, Closing, InflightCounts, NEW d \in Drainer,
           CallDrain(d) \/ InflightDrained(d) \/ DrainFails(d)
    PROVE  [Ledger!LedgerNext]_Ledger!ledgerVars
  <1> USE DEF DrainGoto, Typed
  <1>1. CASE CallDrain(d)
    <2>1. (\E e \in Closer : drain'[e] = "drained")
             <=> (\E e \in Closer : drain[e] = "drained")
      BY <1>1 DEF CallDrain, Drainer
    <2>2. UNCHANGED reservation
      BY <1>1 DEF CallDrain
    <2>3. closed' = closed \/ closed' = TRUE
      BY <1>1 DEF CallDrain
    <2>4. CASE closed' = closed
      BY <2>1, <2>2, <2>4 DEF Ledger!ledgerVars
    <2>5. CASE closed' = TRUE
      <3>1. Ledger!Refuse
        BY <2>1, <2>2, <2>5 DEF Ledger!Refuse
      <3> QED BY <3>1 DEF Ledger!LedgerNext
    <2> QED BY <2>3, <2>4, <2>5
  <1>2. CASE DrainFails(d)
    <2>1. (\E e \in Closer : drain'[e] = "drained")
             <=> (\E e \in Closer : drain[e] = "drained")
      BY <1>2 DEF DrainFails, Drainer
    <2> QED BY <1>2, <2>1 DEF DrainFails, Ledger!ledgerVars
  <1>3. CASE InflightDrained(d) /\ d \notin Closer
    <2>1. (\E e \in Closer : drain'[e] = "drained")
             <=> (\E e \in Closer : drain[e] = "drained")
      BY <1>3 DEF InflightDrained, Drainer
    <2> QED BY <1>3, <2>1 DEF InflightDrained, Ledger!ledgerVars
  <1>4. CASE InflightDrained(d) /\ d \in Closer
    <2>1. closed
      BY <1>4 DEF InflightDrained, Closing
    <2>2. IsFiniteSet(OpenSet) /\ Cardinality(OpenSet) = 0
      BY <1>4, InvocationsFinite, FS_Subset
         DEF InflightDrained, InflightCounts, OpenSet
    <2>3. OpenSet = {}
      BY <2>2, FS_EmptySet
    <2>4. \A i \in Invocation :
              LedgerStage(reservation[i]) \notin {"held", "claimed"}
      BY <2>3, StagesOf DEF OpenSet, Reserved, Outcome, Done
    <2>5. Ledger!Open = {}
      BY <2>4 DEF Ledger!Open
    <2>6. \E e \in Closer : drain'[e] = "drained"
      BY <1>4 DEF InflightDrained, Drainer
    <2>7. Ledger!Drain
      BY <1>4, <2>1, <2>5, <2>6 DEF Ledger!Drain, InflightDrained
    <2> QED BY <2>7 DEF Ledger!LedgerNext
  <1> QED BY <1>1, <1>2, <1>3, <1>4

\* Every step of the adapter is a step of the ledger or leaves it alone.
LEMMA StepIsLedgerStep ==
    Base /\ Closing /\ InflightCounts /\ [Next]_vars
        => [Ledger!LedgerNext]_Ledger!ledgerVars
  <1> SUFFICES ASSUME Base, Closing, InflightCounts, [Next]_vars
               PROVE  [Ledger!LedgerNext]_Ledger!ledgerVars
    OBVIOUS
  <1>0. Typed /\ \A i \in Invocation : Holding(i)
    BY DEF Base
  <1>1. CASE UNCHANGED <<reservation, closed, drain>>
    BY <1>1, Unseen
  <1>2. ASSUME NEW c \in Call, MiddlewareStep(c)
        PROVE  [Ledger!LedgerNext]_Ledger!ledgerVars
    <2>1. CASE ClaimReservation(c)
      BY <1>0, <1>1, <2>1, MoveIsLedgerStep, InvocationsOf
         DEF ClaimReservation, Held
    <2>2. CASE EmitReserved(c)
      <3>1. PICK i \in Of(c), v \in {"posting", "empty"} :
                i[2] \in carried[c] /\ Become(i, v)
        BY <2>2 DEF EmitReserved
      <3>2. i \in Invocation /\ reservation[i] = "claimed"
        BY <1>0, <2>2, <3>1, InvocationsOf DEF EmitReserved, Holding
      <3> QED BY <1>0, <2>2, <3>1, <3>2, MoveIsLedgerStep DEF EmitReserved
    <2>3. CASE RunDeferred(c)
      BY <1>0, <1>1, <2>3, MoveIsLedgerStep, InvocationsOf
         DEF RunDeferred, Release, Held
    <2>4. CASE \/ ChainReturns(c) \/ ChainPanics(c) \/ PassReservation(c)
               \/ PrepareInput(c) \/ RecordToolCall(c)
      BY <1>1, <2>4 DEF ChainReturns, ChainPanics, PassReservation,
                        PrepareInput, RecordToolCall
    <2> QED BY <1>2, <2>1, <2>2, <2>3, <2>4 DEF MiddlewareStep
  <1>3. ASSUME NEW i \in Invocation, HandlerStep(i)
        PROVE  [Ledger!LedgerNext]_Ledger!ledgerVars
    <2>1. CASE ReserveCapability(i)
      <3>1. reservation[i] = "none"
        BY <1>0, <2>1 DEF ReserveCapability, Holding
      <3> QED BY <1>0, <1>1, <2>1, <3>1, MoveIsLedgerStep
              DEF ReserveCapability, MayReserve
    <2>2. CASE AttachReservation(i)
      BY <1>1, <2>2 DEF AttachReservation
    <2>3. CASE AttachFails(i)
      BY <1>0, <1>1, <2>3, MoveIsLedgerStep DEF AttachFails, Release, Held
    <2> QED BY <1>3, <2>1, <2>2, <2>3 DEF HandlerStep
  <1>4. ASSUME NEW i \in Invocation, PostReturns(i)
        PROVE  [Ledger!LedgerNext]_Ledger!ledgerVars
    BY <1>0, <1>4, MoveIsLedgerStep DEF PostReturns
  <1>5. ASSUME NEW d \in Drainer,
               CallDrain(d) \/ InflightDrained(d) \/ DrainFails(d)
        PROVE  [Ledger!LedgerNext]_Ledger!ledgerVars
    BY <1>0, <1>5, DrainIsLedgerStep
  <1> QED
    BY <1>1, <1>2, <1>3, <1>4, <1>5 DEF Next, vars, Enter, Invoke, Rest

\* The adapter implements Reservations: each reservation is opened on a live
\* recorder and settled once, and a drained Close leaves none open.
THEOREM OfficialImplements == Spec => ImplementsReservations
  <1>1. Init => Ledger!LedgerInit
    BY StagesOf DEF Init, Ledger!LedgerInit, Drainer
  <1> QED
    BY <1>1, Invariance, StepIsLedgerStep, PTL
       DEF Spec, ImplementsReservations, Ledger!LedgerSpec

-----------------------------------------------------------------------------
(* A call in which no invocation straggles and Config.ActorSeed returns *)

\* Every open reservation has a holder that will still settle it, and an
\* acknowledged one stays on the way to its delivery.
Followed(i) ==
    /\ Busy(i) => pc[i[1]] = "next"
    /\ Held(i) => \/ handlerPc[i] = "attach"
                  \/ i[2] \in state[i[1]]
                  \/ i[2] \in carried[i[1]] /\ pc[i[1]] \in {"record", "claim"}
    /\ reservation[i] = "claimed" => pc[i[1]] = "build" /\ i[2] \in carried[i[1]]
    /\ i[2] \in state[i[1]] => pc[i[1]] \in {"next", "take", "deferred"}
    /\ answer[i] = "acknowledged" =>
           \/ i[1] \in unwound
           \/ reservation[i] \in {"posting", "posted", "empty"}
           \/ i[2] \in state[i[1]] /\ pc[i[1]] \in {"next", "take"}
           \/ /\ i[2] \in carried[i[1]]
              /\ pc[i[1]] \in {"record", "claim", "build"}

\* Followed holds initially: nothing is reserved.
LEMMA InitFollowed == Init => \A i \in Tame \X Attempt : Followed(i)
  BY DEF Init, Followed, Busy, Held, Invocation, Tame

\* Every step keeps track of who will settle a reservation of a tame call.
LEMMA StepFollowed ==
    Base /\ (\A i \in Tame \X Attempt : Followed(i)) /\ [Next]_vars
        => \A i \in Tame \X Attempt : Followed(i)'
  <1> SUFFICES ASSUME Base, \A i \in Tame \X Attempt : Followed(i), [Next]_vars,
                      NEW i \in Tame \X Attempt
               PROVE  Followed(i)'
    OBVIOUS
  <1> DEFINE c == i[1]
             a == i[2]
  <1>0. /\ Typed /\ Holding(i) /\ Single(c) /\ Followed(i)
        /\ c \in Call /\ a \in Attempt /\ i = <<c, a>> /\ i \in Of(c)
        /\ c \notin Straggler /\ c \notin SeedPanics /\ i \in Invocation
    BY DEF Base, Invocation, Of, Tame
  <1> USE <1>0 DEF Typed, Followed, Held, Busy
  <1>1. ASSUME NEW e \in Call, Enter(e) \/ MiddlewareStep(e)
        PROVE  Followed(i)'
    <2> USE InvocationsOf DEF Goto, Unwind
    <2>1. CASE Enter(e)
      BY <2>1 DEF Enter, handlerVars
    <2>2. CASE ChainReturns(e) \/ ChainPanics(e)
      BY <2>2 DEF ChainReturns, ChainPanics, ChainMayEnd, handlerVars
    <2>3. CASE PassReservation(e)
      BY <2>3 DEF PassReservation, Parameter, TakeState, handlerVars
    <2>4. CASE PrepareInput(e)
      BY <2>4 DEF PrepareInput, handlerVars
    <2>5. CASE RecordToolCall(e)
      BY <2>5 DEF RecordToolCall, CountDrop, handlerVars
    <2>6. CASE ClaimReservation(e)
      BY <2>6 DEF ClaimReservation, Become, Single, Holding, handlerVars
    <2>7. CASE EmitReserved(e)
      BY <2>7 DEF EmitReserved, Become, Single, Holding, handlerVars
    <2>8. CASE RunDeferred(e)
      BY <2>8 DEF RunDeferred, Deferred, TakeState, Release, Become, Single,
                  Holding, handlerVars
    <2> QED BY <1>1, <2>1, <2>2, <2>3, <2>4, <2>5, <2>6, <2>7, <2>8
            DEF MiddlewareStep
  <1>2. ASSUME NEW j \in Invocation, Invoke(j) \/ HandlerStep(j) \/ PostReturns(j)
        PROVE  Followed(i)'
    <2>0. /\ Holding(j) /\ j[1] \in Call /\ j[2] \in Attempt
          /\ j = <<j[1], j[2]>>
      BY DEF Base, Invocation
    <2> USE <2>0 DEF Become, callVars
    <2>1. CASE Invoke(j)
      BY <2>1 DEF Invoke
    <2>2. CASE ReserveCapability(j)
      BY <2>2 DEF ReserveCapability, Leave, Holding
    <2>3. CASE AttachReservation(j)
      BY <2>3 DEF AttachReservation, MayAttach, Leave, Holding
    <2>4. CASE AttachFails(j)
      BY <2>4 DEF AttachFails, Release, Leave, Holding
    <2>5. CASE PostReturns(j)
      BY <2>5 DEF PostReturns, handlerVars
    <2> QED BY <1>2, <2>1, <2>2, <2>3, <2>4, <2>5 DEF HandlerStep
  <1>3. ASSUME NEW d \in Drainer,
               CallDrain(d) \/ InflightDrained(d) \/ DrainFails(d)
        PROVE  Followed(i)'
    BY <1>3 DEF CallDrain, InflightDrained, DrainFails, callVars, handlerVars
  <1>4. CASE Rest \/ UNCHANGED vars
    BY <1>4 DEF Rest, vars, callVars, handlerVars
  <1> QED BY <1>1, <1>2, <1>3, <1>4 DEF Next

\* At the end of the middleware nobody is left to settle a reservation.
LEMMA FollowedImplies ==
    (\A i \in Tame \X Attempt : Followed(i)) => SettledOnReturn /\ AcknowledgedIsDelivered
  <1> SUFFICES ASSUME \A i \in Tame \X Attempt : Followed(i)
               PROVE  SettledOnReturn /\ AcknowledgedIsDelivered
    OBVIOUS
  <1>1. ASSUME NEW c \in Tame, pc[c] = "end", NEW i \in Of(c)
        PROVE  /\ reservation[i] \notin {"held", "claimed"}
               /\ c \notin unwound /\ answer[i] = "acknowledged" =>
                      reservation[i] \in {"posting", "posted", "empty"}
    <2>1. i \in Tame \X Attempt /\ i[1] = c /\ Followed(i)
      BY <1>1 DEF Of
    <2> QED BY <1>1, <2>1 DEF Followed, Held, Busy
  <1> QED BY <1>1 DEF SettledOnReturn, AcknowledgedIsDelivered

\* The middleware of a tame call that returns, normally or by a panic of the
\* chain, leaves no reservation of its call behind that nobody will settle.
THEOREM ReturnSettles == Spec => []SettledOnReturn
  <1> DEFINE Inv == \A i \in Tame \X Attempt : Followed(i)
  <1>1. Base /\ Inv /\ [Next]_vars => Inv'
    BY StepFollowed
  <1>2. Inv => SettledOnReturn
    BY FollowedImplies
  <1>3. Init => Inv
    BY InitFollowed
  <1> HIDE DEF Inv
  <1> QED BY <1>1, <1>2, <1>3, Invariance, PTL DEF Spec

\* What send_feedback acknowledged in a tame call is delivered although Close
\* may have begun.
THEOREM AcknowledgedDelivers == Spec => []AcknowledgedIsDelivered
  <1> DEFINE Inv == \A i \in Tame \X Attempt : Followed(i)
  <1>1. Base /\ Inv /\ [Next]_vars => Inv'
    BY StepFollowed
  <1>2. Inv => AcknowledgedIsDelivered
    BY FollowedImplies
  <1>3. Init => Inv
    BY InitFollowed
  <1> HIDE DEF Inv
  <1> QED BY <1>1, <1>2, <1>3, Invariance, PTL DEF Spec
=============================================================================
