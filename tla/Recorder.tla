------------------------------ MODULE Recorder ------------------------------
(***************************************************************************)
(* The life of tool calls inside the recorder of the mark3labs adapter     *)
(* (src/armatureanalytics/recorder.go), from the BeforeAny hook to the     *)
(* hand-over of a candidate to the privacy queue, together with            *)
(*   - onAbandonedCall, which a context callback starts when the context   *)
(*     of a registered call ends,                                          *)
(*   - the reservation of a send_feedback call (CapabilityReservation),    *)
(*     delivered outside the queue and tracked by the inflight WaitGroup,  *)
(*   - Flush and Close, any number of them, with contexts that may end.    *)
(*                                                                         *)
(* The queue below is DeliveryPipe, which PrivacyQueue implements.  Here   *)
(* the line never overflows (one candidate per thread) and a call does not *)
(* wait for its candidate: PrivacyQueue covers overflow and waiting.       *)
(***************************************************************************)
EXTENDS Integers, Sequences, FiniteSets, Functions

CONSTANTS
    Call,           \* tools/call requests
    Feedback,       \* the calls that go to the SDK-owned send_feedback tool
    SameKey,        \* calls of one session that use one and the same id
    CanEnd,         \* calls whose context may end
    Flusher,        \* goroutines that call Flush
    Closer,         \* goroutines that call Close
    CanExpire,      \* drainers whose context may end
    MayLeak,        \* a completion hook may miss its reservation: customer
                    \* middleware replaced the result, or no hook ran at all
    Handful         \* most candidates the queue's worker takes at once

Drainer == Flusher \cup Closer
Hook(c)    == <<c, "hook">>
Abandon(c) == <<c, "abandon">>
Thread     == Call \X {"hook", "abandon"}
KeyOf(c)   == IF c \in SameKey THEN "shared" ELSE c
Key        == {KeyOf(c) : c \in Call}

ASSUME RecorderAssumption ==
    /\ IsFiniteSet(Call)
    /\ Feedback \subseteq Call
    /\ SameKey \subseteq Call
    /\ CanEnd \subseteq Call
    /\ Flusher \cap Closer = {}
    /\ CanExpire \subseteq Drainer
    /\ MayLeak \in BOOLEAN
    /\ Handful \in Nat \ {0}
    /\ "shared" \notin Call

VARIABLES
    closed,       \* r.closed
    pendingCalls, \* r.pendingCalls: for each key no call or one
    inflight,     \* counter of the WaitGroup r.inflight
    dropped,      \* r.dropped
    ended,        \* calls whose context has ended
    pc,           \* where each thread is
    taken,        \* taken[t]: the call whose callContext thread t removed
    reservation,  \* life of the reservation of each feedback call
    drainPc,      \* where each drainer is
    expired,      \* drainers whose context has ended
    waiter,       \* goroutine that Flush starts around inflight.Wait()
    failed        \* drainers that return an error

VARIABLES line, hand, shipped, wire, settled, lost, number, open

Pipe == INSTANCE DeliveryPipe WITH
    Item <- Thread, Capacity <- Cardinality(Thread), Lossless <- FALSE

queueVars == <<line, hand, shipped, wire, settled, lost, number, open>>
callVars  == <<pendingCalls, ended, pc, taken, reservation>>
drainVars == <<drainPc, expired, failed>>
vars == <<closed, inflight, dropped, waiter, callVars, drainVars, queueVars>>

HookPC    == {"idle", "store", "handler", "take", "active", "record",
              "enqueue", "build", "post", "end"}
DrainPC   == {"start", "shut", "queue", "inflight", "waiting", "sweep", "end"}
WaiterPC  == {"none", "fresh", "asleep", "woken", "done", "panicked"}
Reserved  == {"held", "claimed", "posting"}  \* counted by inflight
ReservationState == {"none", "posted", "empty", "released"} \cup Reserved

Crashed   == \E d \in Drainer : waiter[d] = "panicked"
QueueIdle == line = <<>> /\ hand = <<>>

Goto(t, label)      == pc' = [pc EXCEPT ![t] = label]
DrainGoto(d, label) == drainPc' = [drainPc EXCEPT ![d] = label]
Reserve(c, state)   == reservation' = [reservation EXCEPT ![c] = state]

Init ==
    /\ closed = FALSE
    /\ pendingCalls = [k \in Key |-> {}]
    /\ inflight = 0
    /\ dropped = 0
    /\ ended = {}
    /\ pc = [t \in Thread |-> "idle"]
    /\ taken = [t \in Thread |-> {}]
    /\ reservation = [c \in Feedback |-> "none"]
    /\ drainPc = [d \in Drainer |-> "start"]
    /\ expired = {}
    /\ waiter = [d \in Drainer |-> "none"]
    /\ failed = {}
    /\ Pipe!PipeInit

-----------------------------------------------------------------------------
(* Slips: wrong versions of the building blocks below, used by no          *)
(* specification; they confirm that the properties notice such a slip.     *)
RegisterAnyway     == TRUE
ReserveAnyway      == TRUE
LoadOnly(c)        == UNCHANGED pendingCalls
DropUncounted      == UNCHANGED dropped
DoneWithoutWakeup  == inflight' = inflight - 1 /\ UNCHANGED waiter
ArmOnly(c)         == "armed"

-----------------------------------------------------------------------------
(* Building blocks *)

MayRegister == ~closed  \* storePendingCall
MayReserve  == ~closed  \* ReserveCapabilityRequest
CountDrop   == dropped' = dropped + 1

\* pendingCalls.LoadAndDelete(callKey(...)): its second half
Delete(c) == pendingCalls' = [pendingCalls EXCEPT ![KeyOf(c)] = {}]

\* inflight.Done(): the last one wakes every sleeping Wait.
WgDone ==
    /\ inflight' = inflight - 1
    /\ waiter' = IF inflight > 1 THEN waiter
                 ELSE [d \in Drainer |->
                          IF waiter[d] = "asleep" THEN "woken" ELSE waiter[d]]

\* CapabilityReservation.Release
Release(c) == Reserve(c, "released") /\ WgDone

\* context.AfterFunc: runs the callback at once if the context has ended.
AfterFunc(c) == IF c \in ended THEN "take" ELSE "armed"

\* case <-ctx.Done(): return ctx.Err()
FailWithContext(d) == d \in expired /\ failed' = failed \cup {d}

-----------------------------------------------------------------------------
(* The goroutine of Flush that calls inflight.Wait() *)

\* Wait returns at once at zero, else it sleeps.
WgWait(d) ==
    /\ waiter[d] = "fresh"
    /\ waiter' = [waiter EXCEPT ![d] = IF inflight = 0 THEN "done" ELSE "asleep"]
    /\ UNCHANGED <<closed, inflight, dropped, callVars, drainVars, queueVars>>

\* A woken Wait checks the counter again and panics if an Add slipped in.
WgResume(d) ==
    /\ waiter[d] = "woken"
    /\ waiter' = [waiter EXCEPT ![d] = IF inflight = 0 THEN "done" ELSE "panicked"]
    /\ UNCHANGED <<closed, inflight, dropped, callVars, drainVars, queueVars>>

-----------------------------------------------------------------------------
(* onBeforeAny for tools/call *)

\* active(): a closed recorder counts the call and does not track it.
BeforeCall(c) ==
    /\ pc[Hook(c)] = "idle"
    /\ \/ closed  /\ CountDrop /\ Goto(Hook(c), "handler")
       \/ ~closed /\ UNCHANGED dropped /\ Goto(Hook(c), "store")
    /\ UNCHANGED <<closed, inflight, pendingCalls, ended, taken, reservation,
                   waiter, drainVars, queueVars>>

\* storePendingCall under closeMu, then context.AfterFunc(onAbandonedCall).
StorePendingCall(c) ==
    /\ pc[Hook(c)] = "store"
    /\ \/ /\ ~MayRegister
          /\ CountDrop
          /\ Goto(Hook(c), "handler")
          /\ UNCHANGED pendingCalls
       \/ /\ MayRegister
          /\ pendingCalls' = [pendingCalls EXCEPT ![KeyOf(c)] = {c}]
          /\ pc' = [pc EXCEPT ![Hook(c)] = "handler",
                              ![Abandon(c)] = AfterFunc(c)]
          /\ UNCHANGED dropped
    /\ UNCHANGED <<closed, inflight, ended, taken, reservation, waiter,
                   drainVars, queueVars>>

\* The request's context ends: client gone, timeout, or ServeHTTP returned.
ContextEnds(c) ==
    /\ c \in CanEnd \ ended
    /\ ended' = ended \cup {c}
    /\ IF pc[Abandon(c)] = "armed" THEN Goto(Abandon(c), "take")
       ELSE UNCHANGED pc
    /\ UNCHANGED <<closed, inflight, dropped, pendingCalls, taken, reservation,
                   waiter, drainVars, queueVars>>

\* The tool handler runs.  send_feedback reserves under closeMu and puts the
\* reservation into its result; an inactive recorder yields a plain result.
Handler(c) ==
    /\ pc[Hook(c)] = "handler"
    /\ Goto(Hook(c), "take")
    /\ \/ c \notin Feedback /\ UNCHANGED <<reservation, inflight, dropped>>
       \/ /\ c \in Feedback
          /\ ~MayReserve
          /\ CountDrop
          /\ UNCHANGED <<reservation, inflight>>
       \/ /\ c \in Feedback
          /\ MayReserve
          /\ Reserve(c, "held")
          /\ inflight' = inflight + 1
          /\ UNCHANGED dropped
    /\ UNCHANGED <<closed, pendingCalls, ended, taken, waiter, drainVars,
                   queueVars>>

-----------------------------------------------------------------------------
(* onSuccess, onError and onAbandonedCall *)

\* pendingCalls.LoadAndDelete(callKey(...))
Remove(t, c) ==
    /\ taken' = [taken EXCEPT ![t] = pendingCalls[KeyOf(c)]]
    /\ Delete(c)

\* takeCall by a hook whose result carries no reservation, by onError, or by
\* onAbandonedCall: without an entry there is nothing to record.
TakeCall(t, c) ==
    /\ pc[t] = "take"
    /\ t = Hook(c) /\ c \in Feedback => reservation[c] # "held" \/ MayLeak
    /\ Remove(t, c)
    /\ Goto(t, IF pendingCalls[KeyOf(c)] = {} THEN "end" ELSE "active")
    /\ UNCHANGED <<closed, inflight, dropped, ended, reservation, waiter,
                   drainVars, queueVars>>

\* takeCall by onSuccess with a reservation and a matching call:
\* RecordReservedCapability claims the reservation.
TakeReserved(c) ==
    /\ pc[Hook(c)] = "take"
    /\ reservation[c] = "held"
    /\ pendingCalls[KeyOf(c)] # {}
    /\ Remove(Hook(c), c)
    /\ Reserve(c, "claimed")
    /\ Goto(Hook(c), "build")
    /\ UNCHANGED <<closed, inflight, dropped, ended, waiter, drainVars,
                   queueVars>>

\* The same without a matching call: Release.
ReleaseReserved(c) ==
    /\ pc[Hook(c)] = "take"
    /\ reservation[c] = "held"
    /\ pendingCalls[KeyOf(c)] = {}
    /\ Release(c)
    /\ Goto(Hook(c), "end")
    /\ UNCHANGED <<closed, dropped, pendingCalls, ended, taken, drainVars,
                   queueVars>>

\* A call whose context has ended may never reach a completion hook.
HookSkipped(c) ==
    /\ pc[Hook(c)] = "take"
    /\ c \in ended
    /\ c \in Feedback => reservation[c] # "held" \/ MayLeak
    /\ Goto(Hook(c), "end")
    /\ UNCHANGED <<closed, inflight, dropped, pendingCalls, ended, taken,
                   reservation, waiter, drainVars, queueVars>>

\* active() in the hook ("active"), then again in RecordToolCall ("record").
CheckActive(t, here, next) ==
    /\ pc[t] = here
    /\ \/ closed  /\ CountDrop /\ Goto(t, "end")
       \/ ~closed /\ UNCHANGED dropped /\ Goto(t, next)
    /\ UNCHANGED <<closed, inflight, pendingCalls, ended, taken, reservation,
                   waiter, drainVars, queueVars>>

\* r.queue.enqueue; a queue closed meanwhile refuses and counts.
Enqueue(t) ==
    /\ pc[t] = "enqueue"
    /\ \/ Pipe!Admit(t) /\ UNCHANGED dropped
       \/ ~open /\ CountDrop /\ UNCHANGED queueVars
    /\ Goto(t, "end")
    /\ UNCHANGED <<closed, inflight, pendingCalls, ended, taken, reservation,
                   waiter, drainVars>>

\* buildToolCallEvents and emitReserved: a POST starts, or there is no event
\* (redacted away, or a customer callback panicked).
EmitReserved(c) ==
    /\ pc[Hook(c)] = "build"
    /\ \/ /\ Reserve(c, "posting")
          /\ Goto(Hook(c), "post")
          /\ UNCHANGED <<inflight, waiter>>
       \/ /\ Reserve(c, "empty")
          /\ Goto(Hook(c), "end")
          /\ WgDone
    /\ UNCHANGED <<closed, dropped, pendingCalls, ended, taken, drainVars,
                   queueVars>>

\* The POST of the reserved event returns, with or without an error.
PostReturns(c) ==
    /\ pc[Hook(c)] = "post"
    /\ Reserve(c, "posted")
    /\ Goto(Hook(c), "end")
    /\ WgDone
    /\ UNCHANGED <<closed, dropped, pendingCalls, ended, taken, drainVars,
                   queueVars>>

-----------------------------------------------------------------------------
(* The queue's worker *)

Deliver ==
    /\ \/ \E n \in 1..Handful : Pipe!TakeInHand(n)
       \/ Pipe!Ship
       \/ Pipe!Settle
    /\ UNCHANGED <<closed, inflight, dropped, waiter, callVars, drainVars>>

-----------------------------------------------------------------------------
(* Flush and Close *)

Expire(d) ==
    /\ d \in CanExpire \ expired
    /\ drainPc[d] # "end"
    /\ expired' = expired \cup {d}
    /\ UNCHANGED <<closed, inflight, dropped, waiter, callVars, drainPc,
                   failed, queueVars>>

CallFlush(d) ==
    /\ d \in Flusher
    /\ drainPc[d] = "start"
    /\ DrainGoto(d, "queue")
    /\ UNCHANGED <<closed, inflight, dropped, waiter, callVars, expired,
                   failed, queueVars>>

\* r.closed becomes true under closeMu.
CallClose(d) ==
    /\ d \in Closer
    /\ drainPc[d] = "start"
    /\ closed' = TRUE
    /\ DrainGoto(d, "shut")
    /\ UNCHANGED <<inflight, dropped, waiter, callVars, expired, failed,
                   queueVars>>

\* queue.close stops admission, then drains like flush.
ShutQueue(d) ==
    /\ drainPc[d] = "shut"
    /\ Pipe!Shut
    /\ DrainGoto(d, "queue")
    /\ UNCHANGED <<closed, inflight, dropped, waiter, callVars, expired, failed>>

\* queue.flush returns nil.  (Close then calls Flush, whose own queue.flush
\* finds the shut queue still idle.)
QueueDrained(d) ==
    /\ drainPc[d] = "queue"
    /\ QueueIdle
    /\ DrainGoto(d, "inflight")
    /\ UNCHANGED <<closed, inflight, dropped, waiter, callVars, expired,
                   failed, queueVars>>

\* Flush starts the goroutine that calls inflight.Wait().
AwaitInflight(d) ==
    /\ drainPc[d] = "inflight"
    /\ waiter' = [waiter EXCEPT ![d] = "fresh"]
    /\ DrainGoto(d, "waiting")
    /\ UNCHANGED <<closed, inflight, dropped, callVars, expired, failed,
                   queueVars>>

\* Close sweeps pendingCalls whatever the outcome.
Outcome(d) == IF d \in Closer THEN "sweep" ELSE "end"

InflightDrained(d) ==
    /\ drainPc[d] = "waiting"
    /\ waiter[d] = "done"
    /\ DrainGoto(d, Outcome(d))
    /\ UNCHANGED <<closed, inflight, dropped, waiter, callVars, expired,
                   failed, queueVars>>

\* The context ends first: in queue.flush, where the worker may not have
\* retired yet although the queue is idle, or while inflight drains.
DrainFails(d) ==
    /\ drainPc[d] \in {"queue", "waiting"}
    /\ FailWithContext(d)
    /\ DrainGoto(d, Outcome(d))
    /\ UNCHANGED <<closed, inflight, dropped, waiter, callVars, expired,
                   queueVars>>

\* pendingCalls.Range(... Delete ...), one entry at a time.
Sweep(d) ==
    /\ drainPc[d] = "sweep"
    /\ IF \A k \in Key : pendingCalls[k] = {}
       THEN DrainGoto(d, "end") /\ UNCHANGED pendingCalls
       ELSE /\ \E k \in Key :
                   /\ pendingCalls[k] # {}
                   /\ pendingCalls' = [pendingCalls EXCEPT ![k] = {}]
            /\ UNCHANGED drainPc
    /\ UNCHANGED <<closed, inflight, dropped, waiter, ended, pc, taken,
                   reservation, expired, failed, queueVars>>

-----------------------------------------------------------------------------
HookStep(c) ==
    \/ StorePendingCall(c) \/ Handler(c)
    \/ TakeCall(Hook(c), c) \/ HookSkipped(c)
    \/ c \in Feedback /\ (TakeReserved(c) \/ ReleaseReserved(c)
                          \/ EmitReserved(c) \/ PostReturns(c))

AbandonStep(c) == TakeCall(Abandon(c), c)

RecordStep(t) ==
    \/ CheckActive(t, "active", "record")
    \/ CheckActive(t, "record", "enqueue")
    \/ Enqueue(t)

DrainStep(d) ==
    \/ ShutQueue(d) \/ QueueDrained(d) \/ AwaitInflight(d)
    \/ InflightDrained(d) \/ DrainFails(d) \/ Sweep(d)

WaiterStep(d) == WgWait(d) \/ WgResume(d)

\* A reservation nobody can settle any more (MayLeak), and a Close without a
\* deadline that waits for it.
Leaked(c) == reservation[c] = "held" /\ pc[Hook(c)] = "end"
WaitsInVain(d) == waiter[d] = "asleep" /\ \E c \in Feedback : Leaked(c)

Quiet ==
    /\ \A t \in Thread : pc[t] \in {"idle", "armed", "end"}
    /\ \A d \in Drainer : /\ drainPc[d] = "end" \/ WaitsInVain(d)
                          /\ waiter[d] \notin {"fresh", "woken"}
    /\ QueueIdle /\ shipped

\* Everything is done, or an unrecovered panic ended the process.
Rest == (Quiet \/ Crashed) /\ UNCHANGED vars

Next ==
    \/ Rest
    \/ /\ ~Crashed
       /\ \/ \E c \in Call : \/ BeforeCall(c) \/ ContextEnds(c)
                             \/ HookStep(c) \/ AbandonStep(c)
          \/ \E t \in Thread : RecordStep(t)
          \/ Deliver
          \/ \E d \in Drainer : \/ CallFlush(d) \/ CallClose(d) \/ Expire(d)
                                \/ DrainStep(d) \/ WaiterStep(d)

Spec == Init /\ [][Next]_vars

(***************************************************************************)
(* Goroutines inside a hook, a drain or the worker keep running: handlers, *)
(* customer callbacks and sends return (sends have the delivery budget as  *)
(* deadline).  Calls, drains and ends of contexts happen or not.           *)
(***************************************************************************)
Fairness ==
    /\ \A c \in Call : /\ WF_vars(~Crashed /\ HookStep(c))
                       /\ WF_vars(~Crashed /\ AbandonStep(c))
    /\ \A t \in Thread : WF_vars(~Crashed /\ RecordStep(t))
    /\ WF_vars(~Crashed /\ Deliver)
    /\ \A d \in Drainer : /\ WF_vars(~Crashed /\ DrainStep(d))
                          /\ WF_vars(~Crashed /\ WaiterStep(d))

FairSpec == Spec /\ Fairness

-----------------------------------------------------------------------------
(* Properties *)

TypeOK ==
    /\ closed \in BOOLEAN
    /\ pendingCalls \in [Key -> SUBSET Call]
    /\ inflight \in Nat
    /\ dropped \in Nat
    /\ ended \subseteq CanEnd
    /\ pc \in [Thread -> HookPC \cup {"armed"}]
    /\ taken \in [Thread -> SUBSET Call]
    /\ reservation \in [Feedback -> ReservationState]
    /\ drainPc \in [Drainer -> DrainPC]
    /\ expired \subseteq CanExpire
    /\ waiter \in [Drainer -> WaiterPC]
    /\ failed \subseteq expired

\* The WaitGroup counts the reservations that are neither delivered nor
\* given up: it never goes negative, and Wait returns only when all are.
InflightCounts ==
    inflight = Cardinality({c \in Feedback : reservation[c] \in Reserved})

\* A registered call is taken by one thread: its completion hook, the
\* callback of its ended context, or the hook of a later call that reused its
\* id.  So a call is recorded at most once whatever their order.
TakenOnce ==
    /\ \A t, u \in Thread : t # u => taken[t] \cap taken[u] = {}
    /\ \A t \in Thread, k \in Key : taken[t] \cap pendingCalls[k] = {}

\* Once any Close has returned, with or without an error, no call is or will
\* be retained: registration and the closed flag share closeMu.
NothingRetained ==
    (\E d \in Closer : drainPc[d] = "end") =>
        \A k \in Key : pendingCalls[k] = {}

\* A Close on its way to return nil, or that has, leaves no candidate in the
\* queue and no reserved event to deliver, and none can come any more.
CleanCloseDrains ==
    (\E d \in Closer \ failed : drainPc[d] \in {"sweep", "end"}) =>
        /\ QueueIdle /\ ~open
        /\ \A c \in Feedback : reservation[c] \notin Reserved

\* The reservations behave as Reservations says; Close drains when it passes
\* inflight.Wait.
LedgerStage(r) ==
    CASE r = "none"                   -> "free"
      [] r = "held"                   -> "held"
      [] r \in {"claimed", "posting"} -> "claimed"
      [] r = "posted"                 -> "delivered"
      [] r \in {"empty", "released"}  -> "released"

Ledger == INSTANCE Reservations WITH
    Token    <- Feedback,
    stage    <- [c \in Feedback |-> LedgerStage(reservation[c])],
    refusing <- closed,
    drained  <- \E d \in Closer \ failed : drainPc[d] \in {"sweep", "end"}

ImplementsReservations == Ledger!LedgerSpec

\* The three ways to lose a call or a request that was seen: the recorder was
\* closed before the call was registered, it was closed before send_feedback
\* reserved, or a thread took the call and handed it neither to the queue nor
\* to a POST.
Unregistered == {c \in Call : /\ pc[Hook(c)] \notin {"idle", "store"}
                              /\ pc[Abandon(c)] = "idle"}

Refused == {c \in Feedback : /\ pc[Hook(c)] \notin {"idle", "store", "handler"}
                             /\ reservation[c] = "none"}

Undelivered == {t \in Thread :
    /\ pc[t] = "end" /\ taken[t] # {} /\ t \notin Pipe!Admitted
    /\ \A c \in Feedback :
           t = Hook(c) => reservation[c] \notin {"posted", "empty"}}

\* Dropped() is the exact number of these losses: none goes uncounted, none
\* counts twice however the two checks of active(), the closed queue and the
\* callback of the ended context meet a Close, and nothing delivered counts.
\* A call whose entry Close sweeps before any thread takes it is not in it.
LossesCounted ==
    dropped = Cardinality(Unregistered) + Cardinality(Refused)
                  + Cardinality(Undelivered)

\* Every Close returns although its context never ends, unless a reservation
\* was lost: that is the only thing a Close may wait for in vain.
DrainReturns ==
    \A d \in Closer :
        drainPc[d] = "shut"
            ~> drainPc[d] = "end" \/ \E c \in Feedback : Leaked(c)

\* No registered call stays registered for ever, even when its hook is
\* skipped because its context ended, and no reservation stays open.
NothingLingers ==
    /\ \A c \in Call : c \in pendingCalls[KeyOf(c)]
                            ~> c \notin pendingCalls[KeyOf(c)]
    /\ \A c \in Feedback : reservation[c] \in Reserved
                                ~> reservation[c] \notin Reserved \/ Leaked(c)

-----------------------------------------------------------------------------
(* A claim of the documentation that the code does not keep *)

\* README.md:531-533, "every acknowledged request reaches the unmet-demand
\* signal pipeline" (unless RedactEvent drops its event).
AcknowledgedIsDelivered ==
    \A c \in Feedback :
        pc[Hook(c)] = "end" /\ reservation[c] # "none"
            => reservation[c] \in {"posted", "empty"}

\* recorder.go:276-277, Flush "returns ctx.Err() on cancellation; nil
\* otherwise": it does not take the process down.
FlushReturnsNormally == ~Crashed
=============================================================================
