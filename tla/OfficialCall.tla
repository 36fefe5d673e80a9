---------------------------- MODULE OfficialCall ----------------------------
(***************************************************************************)
(* A tools/call request in the official-SDK adapter                        *)
(* (src/armatureanalytics/official/official.go): the receiving middleware  *)
(* puts a capabilityCallState into the context, runs the rest of the chain *)
(* (customer middleware around the tool handler), takes the reservation    *)
(* out of the state again and records the call.                            *)
(*                                                                         *)
(* Customer middleware inside the chain may invoke the handler several     *)
(* times, at once or in turn, with its own context, and may panic; a       *)
(* middleware with a timeout may return while the handler still runs       *)
(* (Straggler).  A panic unwinds through the deferred take and is          *)
(* recovered outside.  Sending happens on a goroutine of its own           *)
(* (background delivery); Flush and Close appear only as waiters for the   *)
(* reservations, which Recorder models step by step.                       *)
(***************************************************************************)
EXTENDS Integers, FiniteSets

CONSTANTS
    Call,           \* tools/call requests
    Attempt,        \* invocations of the send_feedback handler in a call
    Flusher,        \* goroutines that call Flush
    Closer,         \* goroutines that call Close
    CanExpire,      \* of these, those whose context may end
    Straggler,      \* calls whose chain may return before an invocation does
    SeedPanics      \* calls for which Config.ActorSeed may panic

Drainer    == Flusher \cup Closer
Invocation == Call \X Attempt
Of(c)      == {c} \X Attempt
Tame       == Call \ (Straggler \cup SeedPanics)

ASSUME OfficialCallAssumption ==
    /\ IsFiniteSet(Call)
    /\ IsFiniteSet(Attempt)
    /\ Flusher \cap Closer = {}
    /\ CanExpire \subseteq Drainer
    /\ Straggler \subseteq Call
    /\ SeedPanics \subseteq Call

VARIABLES
    closed,      \* core.closed
    inflight,    \* counter of the WaitGroup core.inflight
    dropped,     \* core.dropped
    pc,          \* where the middleware of each call is
    state,       \* capabilityCallState.reservation of each call, {} for nil
    carried,     \* the parameter capabilityReservation of recordToolCall
    unwound,     \* calls whose middleware panicked
    offered,     \* calls handed to core.RecordToolCall that passed active()
    handlerPc,   \* where each invocation of the send_feedback handler is
    answer,      \* what each invocation told its caller
    reservation, \* life of the reservation of each invocation
    drain        \* what became of each Flush and Close

callVars    == <<pc, carried, unwound, offered>>
handlerVars == <<handlerPc, answer>>
vars == <<closed, inflight, dropped, state, callVars, handlerVars,
          reservation, drain>>

CallPC    == {"idle", "next", "take", "record", "active", "claim", "build",
              "deferred", "end"}
HandlerPC == {"idle", "reserve", "attach", "done"}
Answer    == {"none", "unavailable", "invalid", "acknowledged"}
Reserved  == {"held", "claimed", "posting"}      \* counted by inflight
Done      == {"posted", "empty", "released"}
Outcome   == {"none"} \cup Reserved \cup Done

Held(i)   == reservation[i] = "held"
Busy(i)   == handlerPc[i] \in {"reserve", "attach"}

Goto(c, label)    == pc' = [pc EXCEPT ![c] = label]
Leave(i, reply)   == /\ handlerPc' = [handlerPc EXCEPT ![i] = "done"]
                     /\ answer' = [answer EXCEPT ![i] = reply]
Become(i, result) == reservation' = [reservation EXCEPT ![i] = result]

Init ==
    /\ closed = FALSE
    /\ inflight = 0
    /\ dropped = 0
    /\ pc = [c \in Call |-> "idle"]
    /\ state = [c \in Call |-> {}]
    /\ carried = [c \in Call |-> {}]
    /\ unwound = {}
    /\ offered = {}
    /\ handlerPc = [i \in Invocation |-> "idle"]
    /\ answer = [i \in Invocation |-> "none"]
    /\ reservation = [i \in Invocation |-> "none"]
    /\ drain = [d \in Drainer |-> "idle"]

-----------------------------------------------------------------------------
(* Slips: wrong versions of the building blocks below, used by no          *)
(* specification; they confirm that the properties notice such a slip.     *)
AttachAnyway(c)     == TRUE
ReserveAnyway       == TRUE
NothingDeferred(c)  == {}
ForgetParameter(c)  == {}

-----------------------------------------------------------------------------
(* Building blocks *)

MayAttach(c) == state[c] = {}   \* capabilityCallState.attach
MayReserve   == ~closed         \* ReserveCapabilityRequest
CountDrop    == dropped' = dropped + 1
WgDone       == inflight' = inflight - 1

\* CapabilityReservation.Release: the CompareAndSwap fails once it is claimed.
Release(i) == IF Held(i) THEN Become(i, "released") /\ WgDone
                         ELSE UNCHANGED <<reservation, inflight>>

\* capabilityCallState.take: empties the state ...
TakeState(c) == state' = [state EXCEPT ![c] = {}]

\* ... and yields what the deferred function releases, ...
Deferred(c) == state[c]

\* ... or what recordToolCall receives.
Parameter(c) == state[c]

-----------------------------------------------------------------------------
(* The middleware *)

\* A fresh capabilityCallState; next(ctx, method, req) starts.
Enter(c) ==
    /\ pc[c] = "idle"
    /\ Goto(c, "next")
    /\ UNCHANGED <<closed, inflight, dropped, state, carried, unwound, offered,
                   handlerVars, reservation, drain>>

ChainMayEnd(c) ==
    /\ pc[c] = "next"
    /\ c \in Straggler \/ \A i \in Of(c) : ~Busy(i)

ChainReturns(c) ==
    /\ ChainMayEnd(c)
    /\ Goto(c, "take")
    /\ UNCHANGED <<closed, inflight, dropped, state, carried, unwound, offered,
                   handlerVars, reservation, drain>>

\* A panic on the way out: what is left is the deferred function.
Unwind(c) == Goto(c, "deferred") /\ unwound' = unwound \cup {c}

ChainPanics(c) ==
    /\ ChainMayEnd(c)
    /\ Unwind(c)
    /\ UNCHANGED <<closed, inflight, dropped, state, carried, offered,
                   handlerVars, reservation, drain>>

\* r.recordToolCall(..., capabilityState.take())
PassReservation(c) ==
    /\ pc[c] = "take"
    /\ carried' = [carried EXCEPT ![c] = Parameter(c)]
    /\ TakeState(c)
    /\ Goto(c, "record")
    /\ UNCHANGED <<closed, inflight, dropped, unwound, offered, handlerVars,
                   reservation, drain>>

\* recordToolCall prepares the input; Config.ActorSeed is called on the way.
\* (Parameters of tools/call that are no CallToolParamsRaw do not occur.)
PrepareInput(c) ==
    /\ pc[c] = "record"
    /\ \/ Goto(c, IF carried[c] = {} THEN "active" ELSE "claim")
          /\ UNCHANGED unwound
       \/ c \in SeedPanics /\ Unwind(c)
    /\ UNCHANGED <<closed, inflight, dropped, state, carried, offered,
                   handlerVars, reservation, drain>>

\* core.RecordToolCall: a closed recorder counts the call, else it is handed
\* to the queue; Config.ActorIdentifier may panic before.
RecordToolCall(c) ==
    /\ pc[c] = "active"
    /\ \/ closed /\ CountDrop /\ Goto(c, "deferred")
          /\ UNCHANGED <<offered, unwound>>
       \/ ~closed /\ offered' = offered \cup {c} /\ Goto(c, "deferred")
          /\ UNCHANGED <<dropped, unwound>>
       \/ ~closed /\ Unwind(c) /\ UNCHANGED <<dropped, offered>>
    /\ UNCHANGED <<closed, inflight, state, carried, handlerVars, reservation,
                   drain>>

\* core.RecordReservedCapability wins the CompareAndSwap; a reservation that
\* is claimed already is left alone.
ClaimReservation(c) ==
    /\ pc[c] = "claim"
    /\ \E i \in Of(c) :
           /\ i[2] \in carried[c]
           /\ \/ Held(i) /\ Become(i, "claimed") /\ Goto(c, "build")
              \/ ~Held(i) /\ Goto(c, "deferred") /\ UNCHANGED reservation
    /\ UNCHANGED <<closed, inflight, dropped, state, carried, unwound, offered,
                   handlerVars, drain>>

\* buildToolCallEvents and emitReserved: a POST starts on its goroutine; or
\* there is no event; or a callback panics and the deferred Done runs.
EmitReserved(c) ==
    /\ pc[c] = "build"
    /\ \E i \in Of(c) :
           /\ i[2] \in carried[c]
           /\ \/ Become(i, "posting") /\ Goto(c, "deferred")
                 /\ UNCHANGED <<inflight, unwound>>
              \/ Become(i, "empty") /\ WgDone /\ Goto(c, "deferred")
                 /\ UNCHANGED unwound
              \/ Become(i, "empty") /\ WgDone /\ Unwind(c)
    /\ UNCHANGED <<closed, dropped, state, carried, offered, handlerVars,
                   drain>>

\* defer: if reservation := capabilityState.take(); reservation != nil ...
RunDeferred(c) ==
    /\ pc[c] = "deferred"
    /\ TakeState(c)
    /\ Goto(c, "end")
    /\ \/ /\ \A i \in Of(c) : i[2] \notin Deferred(c)
          /\ UNCHANGED <<reservation, inflight>>
       \/ \E i \in Of(c) : i[2] \in Deferred(c) /\ Release(i)
    /\ UNCHANGED <<closed, dropped, carried, unwound, offered, handlerVars,
                   drain>>

-----------------------------------------------------------------------------
(* The send_feedback handler *)

\* Customer middleware invokes the rest of the chain.
Invoke(i) ==
    /\ pc[i[1]] = "next"
    /\ handlerPc[i] = "idle"
    /\ handlerPc' = [handlerPc EXCEPT ![i] = "reserve"]
    /\ UNCHANGED <<closed, inflight, dropped, state, callVars, answer,
                   reservation, drain>>

\* core.ReserveCapabilityRequest under closeMu
ReserveCapability(i) ==
    /\ handlerPc[i] = "reserve"
    /\ \/ /\ ~MayReserve
          /\ CountDrop
          /\ Leave(i, "unavailable")
          /\ UNCHANGED <<inflight, reservation>>
       \/ /\ MayReserve
          /\ inflight' = inflight + 1
          /\ Become(i, "held")
          /\ handlerPc' = [handlerPc EXCEPT ![i] = "attach"]
          /\ UNCHANGED <<dropped, answer>>
    /\ UNCHANGED <<closed, state, callVars, drain>>

\* state.attach under its mutex, then the check of the argument.
AttachReservation(i) ==
    /\ handlerPc[i] = "attach"
    /\ MayAttach(i[1])
    /\ state' = [state EXCEPT ![i[1]] = {i[2]}]
    /\ \E reply \in {"invalid", "acknowledged"} : Leave(i, reply)
    /\ UNCHANGED <<closed, inflight, dropped, callVars, reservation, drain>>

\* The state is taken, or customer middleware replaced the context.
AttachFails(i) ==
    /\ handlerPc[i] = "attach"
    /\ Release(i)
    /\ Leave(i, "unavailable")
    /\ UNCHANGED <<closed, dropped, state, callVars, drain>>

\* The POST returns, with or without an error.
PostReturns(i) ==
    /\ reservation[i] = "posting"
    /\ Become(i, "posted")
    /\ WgDone
    /\ UNCHANGED <<closed, dropped, state, callVars, handlerVars, drain>>

-----------------------------------------------------------------------------
(* Flush and Close of the core recorder, as waiters for inflight *)

DrainGoto(d, label) == drain' = [drain EXCEPT ![d] = label]

CallDrain(d) ==
    /\ drain[d] = "idle"
    /\ DrainGoto(d, "waiting")
    /\ closed' = (closed \/ d \in Closer)
    /\ UNCHANGED <<inflight, dropped, state, callVars, handlerVars, reservation>>

InflightDrained(d) ==
    /\ drain[d] = "waiting"
    /\ inflight = 0
    /\ DrainGoto(d, "drained")
    /\ UNCHANGED <<closed, inflight, dropped, state, callVars, handlerVars,
                   reservation>>

DrainFails(d) ==
    /\ drain[d] = "waiting"
    /\ d \in CanExpire
    /\ DrainGoto(d, "failed")
    /\ UNCHANGED <<closed, inflight, dropped, state, callVars, handlerVars,
                   reservation>>

-----------------------------------------------------------------------------
MiddlewareStep(c) ==
    \/ ChainReturns(c) \/ ChainPanics(c) \/ PassReservation(c)
    \/ PrepareInput(c) \/ RecordToolCall(c) \/ ClaimReservation(c)
    \/ EmitReserved(c) \/ RunDeferred(c)

HandlerStep(i) ==
    ReserveCapability(i) \/ AttachReservation(i) \/ AttachFails(i)

Rest ==
    /\ \A c \in Call : pc[c] = "end"
    /\ \A i \in Invocation : ~Busy(i) /\ reservation[i] # "posting"
    /\ UNCHANGED vars

Next ==
    \/ \E c \in Call : Enter(c) \/ MiddlewareStep(c)
    \/ \E i \in Invocation : Invoke(i) \/ HandlerStep(i) \/ PostReturns(i)
    \/ \E d \in Drainer : CallDrain(d) \/ InflightDrained(d) \/ DrainFails(d)
    \/ Rest

Spec == Init /\ [][Next]_vars

(***************************************************************************)
(* Middleware and handlers that run keep running, customer code returns or *)
(* panics, and a POST returns by its deadline.  Requests, invocations and  *)
(* drains happen or not, and no context of a drain needs to end.           *)
(***************************************************************************)
Fairness ==
    /\ \A c \in Call : WF_vars(MiddlewareStep(c))
    /\ \A i \in Invocation : WF_vars(HandlerStep(i)) /\ WF_vars(PostReturns(i))
    /\ \A d \in Drainer : WF_vars(InflightDrained(d))

FairSpec == Spec /\ Fairness

-----------------------------------------------------------------------------
(* Properties *)

TypeOK ==
    /\ closed \in BOOLEAN
    /\ inflight \in Nat
    /\ dropped \in Nat
    /\ pc \in [Call -> CallPC]
    /\ state \in [Call -> SUBSET Attempt]
    /\ carried \in [Call -> SUBSET Attempt]
    /\ unwound \subseteq Call
    /\ offered \subseteq Call
    /\ handlerPc \in [Invocation -> HandlerPC]
    /\ answer \in [Invocation -> Answer]
    /\ reservation \in [Invocation -> Outcome]
    /\ drain \in [Drainer -> {"idle", "waiting", "drained", "failed"}]

\* When the middleware has returned, no reservation of the call is open
\* except one that is being posted: two takes, a panic of the chain, repeated
\* invocations and misbehaving calls beside it notwithstanding.
SettledOnReturn ==
    \A c \in Tame : pc[c] = "end" =>
        \A i \in Of(c) : reservation[i] \notin {"held", "claimed"}

\* An acknowledged request is delivered although a Close may have begun in
\* between (RecordReservedCapability): unless the middleware panicked, its
\* event was built, and posted if redaction left one.
AcknowledgedIsDelivered ==
    \A c \in Tame \ unwound : pc[c] = "end" =>
        \A i \in Of(c) : answer[i] = "acknowledged" =>
            reservation[i] \in {"posting", "posted", "empty"}

\* Flush and Close wait for what inflight counts, and that is the open
\* reservations.
InflightCounts ==
    inflight = Cardinality({i \in Invocation : reservation[i] \in Reserved})

\* The reservations behave as Reservations says: opened on a live recorder
\* only, settled once, and none open when a Close has drained.
LedgerStage(r) ==
    CASE r = "none"                   -> "free"
      [] r = "held"                   -> "held"
      [] r \in {"claimed", "posting"} -> "claimed"
      [] r = "posted"                 -> "delivered"
      [] r \in {"empty", "released"}  -> "released"

Ledger == INSTANCE Reservations WITH
    Token    <- Invocation,
    stage    <- [i \in Invocation |-> LedgerStage(reservation[i])],
    refusing <- closed,
    drained  <- \E d \in Closer : drain[d] = "drained"

ImplementsReservations == Ledger!LedgerSpec

\* A reservation without an owner: its handler and its middleware are done.
Abandoned(i) == Held(i) /\ handlerPc[i] = "done" /\ pc[i[1]] = "end"

\* A Flush or Close without a deadline returns, unless a straggling invocation
\* or a panic of Config.ActorSeed abandoned a reservation.
DrainReturns ==
    \A d \in Drainer :
        drain[d] = "waiting"
            ~> \/ drain[d] # "waiting"
               \/ \E i \in (Call \ Tame) \X Attempt : Abandoned(i)

=============================================================================
