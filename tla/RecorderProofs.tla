--------------------------- MODULE RecorderProofs ---------------------------
(***************************************************************************)
(* Theorems about Recorder, for any number of calls, Flushes and Closes,   *)
(* with keys that are reused, contexts that end and reservations that      *)
(* leak, as the constants allow.                                           *)
(***************************************************************************)
EXTENDS Recorder, FiniteSetTheorems, TLAPS

-----------------------------------------------------------------------------
(* Threads and keys: all that the proofs below know of them. *)

LEMMA Threads ==
  /\ \A c \in Call : Hook(c) \in Thread /\ Abandon(c) \in Thread
  /\ \A c, d \in Call : Hook(c) # Abandon(d)
  /\ \A c, d \in Call : /\ Hook(c) = Hook(d) => c = d
                        /\ Abandon(c) = Abandon(d) => c = d
  BY DEF Hook, Abandon, Thread

LEMMA Keys == \A c \in Call : KeyOf(c) \in Key
  BY DEF Key

LEMMA ThreadsFinite == IsFiniteSet(Thread)
<1>1. IsFiniteSet({"hook", "abandon"})
<2>1. IsFiniteSet({"hook"} \cup {"abandon"})
  BY FS_Singleton, FS_AddElement
<2>2. {"hook", "abandon"} = {"hook"} \cup {"abandon"}
  OBVIOUS
<2> QED
  BY <2>1, <2>2
<1> QED
  BY <1>1, FS_Product, RecorderAssumption DEF RecorderAssumption, Thread

-----------------------------------------------------------------------------
(* Types.  The counter may be negative until Counted is known. *)

Typed ==
    /\ closed \in BOOLEAN
    /\ pendingCalls \in [Key -> SUBSET Call]
    /\ inflight \in Int
    /\ dropped \in Nat
    /\ ended \subseteq CanEnd
    /\ pc \in [Thread -> HookPC \cup {"armed"}]
    /\ taken \in [Thread -> SUBSET Call]
    /\ reservation \in [Feedback -> ReservationState]
    /\ drainPc \in [Drainer -> DrainPC]
    /\ expired \subseteq CanExpire
    /\ waiter \in [Drainer -> WaiterPC]
    /\ failed \subseteq expired
    /\ number \in [Thread -> Nat]

\* The initial state is well typed.
LEMMA InitTyped == Init => Typed
<1> SUFFICES ASSUME Init PROVE Typed
  OBVIOUS
<1>1. /\ pc \in [Thread -> HookPC \cup {"armed"}]
      /\ reservation \in [Feedback -> ReservationState]
  BY DEF Init, HookPC, ReservationState
<1>2. drainPc \in [Drainer -> DrainPC] /\ waiter \in [Drainer -> WaiterPC]
  BY DEF Init, DrainPC, WaiterPC
<1>3. /\ pendingCalls \in [Key -> SUBSET Call]
      /\ taken \in [Thread -> SUBSET Call]
      /\ number \in [Thread -> Nat]
  BY DEF Init, Pipe!PipeInit
<1>4. closed \in BOOLEAN /\ ended \subseteq CanEnd
      /\ expired \subseteq CanExpire /\ failed \subseteq expired
  BY Zenon DEF Init
<1>5. inflight \in Int /\ dropped \in Nat
  BY DEF Init
<1> QED
  BY <1>1, <1>2, <1>3, <1>4, <1>5, Zenon DEF Typed

\* The instance has its own copy of Cardinality.
LEMMA SameCardinality == ASSUME NEW S PROVE Pipe!Cardinality(S) = Cardinality(S)
  BY DEF Pipe!Cardinality, Cardinality

\* The pipe of the queue numbers what it admits.
LEMMA NumberTyped ==
  ASSUME Typed, NEW t \in Thread, Pipe!Admit(t)
  PROVE  /\ number' \in [Thread -> Nat]
         /\ number'[t] > 0
         /\ \A u \in Thread \ {t} : number'[u] = number[u]
<1>1. Pipe!Admitted \subseteq Thread
  BY DEF Pipe!Admitted
<1>2. Cardinality(Pipe!Admitted) \in Nat
  BY <1>1, ThreadsFinite, FS_Subset, FS_CardinalityType
<1>3. number' = [number EXCEPT ![t] = Cardinality(Pipe!Admitted) + 1]
  BY SameCardinality DEF Pipe!Admit, Pipe!Enroll
<1> QED
  BY <1>2, <1>3 DEF Typed

\* Every step keeps the types.
LEMMA StepTyped == Typed /\ [Next]_vars => Typed'
<1> SUFFICES ASSUME Typed, [Next]_vars PROVE Typed'
  OBVIOUS
<1> USE Threads, Keys DEF Typed, Goto, DrainGoto, Reserve, callVars, drainVars,
        queueVars, HookPC, DrainPC, WaiterPC, ReservationState
<1>1. CASE UNCHANGED vars \/ Rest
  BY <1>1 DEF Rest, vars
<1>2. ASSUME NEW c \in Call, BeforeCall(c) \/ ContextEnds(c) PROVE Typed'
  BY <1>2 DEF BeforeCall, ContextEnds, CountDrop
<1>3. ASSUME NEW c \in Call, StorePendingCall(c) PROVE Typed'
  BY <1>3 DEF StorePendingCall, CountDrop, AfterFunc
<1>4. ASSUME NEW c \in Call, Handler(c) PROVE Typed'
  BY <1>4 DEF Handler, CountDrop, Reserved
<1>5. ASSUME NEW c \in Call, NEW t \in Thread, TakeCall(t, c) PROVE Typed'
  BY <1>5 DEF TakeCall, Remove, Delete
<1>6. ASSUME NEW c \in Call, HookSkipped(c) PROVE Typed'
  BY <1>6 DEF HookSkipped
<1>7. ASSUME NEW c \in Feedback, c \in Call, TakeReserved(c) PROVE Typed'
  BY <1>7 DEF TakeReserved, Remove, Delete, Reserved
<1>8. ASSUME NEW c \in Feedback, c \in Call,
             ReleaseReserved(c) \/ EmitReserved(c) \/ PostReturns(c)
      PROVE  Typed'
  BY <1>8 DEF ReleaseReserved, EmitReserved, PostReturns, Release, WgDone, Reserved
<1>9. ASSUME NEW t \in Thread, RecordStep(t) PROVE Typed'
  <2>1. CASE Enqueue(t)
    BY <1>9, <2>1, NumberTyped DEF Enqueue, CountDrop
  <2>2. CASE ~Enqueue(t)
    BY <1>9, <2>2 DEF RecordStep, CheckActive, CountDrop
  <2> QED
    BY <2>1, <2>2
<1>10. CASE Deliver
  BY <1>10 DEF Deliver, Pipe!TakeInHand, Pipe!Ship, Pipe!Settle
<1>11. ASSUME NEW d \in Drainer,
              CallFlush(d) \/ CallClose(d) \/ Expire(d) \/ ShutQueue(d)
              \/ QueueDrained(d) \/ AwaitInflight(d)
       PROVE  Typed'
  BY <1>11 DEF CallFlush, CallClose, Expire, ShutQueue, QueueDrained,
               AwaitInflight, Pipe!Shut
<1>12. ASSUME NEW d \in Drainer, InflightDrained(d) \/ DrainFails(d)
       PROVE  Typed'
  BY <1>12 DEF InflightDrained, DrainFails, FailWithContext, Outcome
<1>13. ASSUME NEW d \in Drainer, Sweep(d) \/ WgWait(d) \/ WgResume(d)
       PROVE  Typed'
  BY <1>13 DEF Sweep, WgWait, WgResume
<1> QED
  BY <1>1, <1>2, <1>3, <1>4, <1>5, <1>6, <1>7, <1>8, <1>9, <1>10, <1>11,
     <1>12, <1>13 DEF Next, HookStep, AbandonStep, DrainStep, WaiterStep

-----------------------------------------------------------------------------
(* Where a thread and its reservation can be together. *)

Placed(c) ==
    /\ pc[Hook(c)] \in {"idle", "store"} => pc[Abandon(c)] = "idle"
    /\ c \in Feedback =>
           /\ pc[Hook(c)] \in {"idle", "store", "handler"}
                  => reservation[c] = "none"
           /\ pc[Hook(c)] = "build" => reservation[c] = "claimed"
           /\ pc[Hook(c)] = "post" => reservation[c] = "posting"
           /\ reservation[c] \in {"posted", "empty"} => pc[Hook(c)] = "end"

\* A thread holds a call only after its LoadAndDelete.
Unclaimed(t) ==
    pc[t] \in {"idle", "store", "handler", "armed", "take"} => taken[t] = {}

Base ==
    /\ Typed
    /\ \A c \in Call : Placed(c)
    /\ \A t \in Thread : Unclaimed(t)

\* Nothing has been taken or reserved at first.
LEMMA InitBase == Init => Base
  BY InitTyped, Threads, RecorderAssumption
     DEF Init, Base, Placed, Unclaimed, RecorderAssumption

\* Every step keeps a thread and its reservation together.
LEMMA StepBase == Base /\ [Next]_vars => Base'
<1> SUFFICES ASSUME Base, [Next]_vars
             PROVE  /\ \A c \in Call : Placed(c)'
                    /\ \A t \in Thread : Unclaimed(t)'
  BY StepTyped DEF Base
<1> DEFINE Goal == /\ \A c \in Call : Placed(c)'
                   /\ \A t \in Thread : Unclaimed(t)'
<1> USE Threads, Keys DEF Base, Typed, Placed, Unclaimed, Goto, Reserve,
        callVars
<1>1. CASE UNCHANGED <<pc, taken, reservation>>
  BY <1>1
<1>2. ASSUME NEW c \in Call, BeforeCall(c) \/ ContextEnds(c) PROVE Goal
  BY <1>2 DEF BeforeCall, ContextEnds
<1>3. ASSUME NEW c \in Call, StorePendingCall(c) PROVE Goal
  BY <1>3 DEF StorePendingCall, AfterFunc
<1>4. ASSUME NEW c \in Call, Handler(c) PROVE Goal
  BY <1>4 DEF Handler
<1>5. ASSUME NEW c \in Call, NEW t \in {Hook(c), Abandon(c)}, TakeCall(t, c)
      PROVE  Goal
  BY <1>5 DEF TakeCall, Remove
<1>6. ASSUME NEW c \in Call, HookSkipped(c) PROVE Goal
  BY <1>6 DEF HookSkipped
<1>7. ASSUME NEW c \in Feedback, c \in Call, TakeReserved(c) PROVE Goal
  BY <1>7 DEF TakeReserved, Remove
<1>8. ASSUME NEW c \in Feedback, c \in Call,
             ReleaseReserved(c) \/ EmitReserved(c) \/ PostReturns(c)
      PROVE  Goal
  BY <1>8 DEF ReleaseReserved, EmitReserved, PostReturns, Release
<1>9. ASSUME NEW t \in Thread, RecordStep(t) PROVE Goal
  BY <1>9 DEF RecordStep, CheckActive, Enqueue
<1>10. CASE Deliver
  BY <1>10 DEF Deliver
<1>11. ASSUME NEW d \in Drainer,
              CallFlush(d) \/ CallClose(d) \/ Expire(d) \/ DrainStep(d)
              \/ WaiterStep(d)
       PROVE  Goal
  BY <1>11 DEF CallFlush, CallClose, Expire, DrainStep, ShutQueue,
               QueueDrained, AwaitInflight, InflightDrained, DrainFails,
               Sweep, WaiterStep, WgWait, WgResume
<1> QED
  BY <1>1, <1>2, <1>3, <1>4, <1>5, <1>6, <1>7, <1>8, <1>9, <1>10, <1>11,
     RecorderAssumption
     DEF Next, HookStep, AbandonStep, Rest, vars, RecorderAssumption

-----------------------------------------------------------------------------
(* The counter *)

OpenReservations == {c \in Feedback : reservation[c] \in Reserved}

\* There are finitely many reservations, so their number is a number.
LEMMA OpenFinite == IsFiniteSet(OpenReservations)
  BY RecorderAssumption, FS_Subset DEF OpenReservations, RecorderAssumption

\* The three ways a step may change a reservation and the counter with it.
LEMMA CountKept ==
  ASSUME InflightCounts, inflight' = inflight,
         OpenReservations' = OpenReservations
  PROVE  InflightCounts'
  BY DEF InflightCounts, OpenReservations

LEMMA CountUp ==
  ASSUME InflightCounts, inflight' = inflight + 1, NEW c,
         c \notin OpenReservations,
         OpenReservations' = OpenReservations \cup {c}
  PROVE  InflightCounts'
  BY OpenFinite, FS_AddElement DEF InflightCounts, OpenReservations

LEMMA CountDown ==
  ASSUME InflightCounts, inflight' = inflight - 1, NEW c \in OpenReservations,
         OpenReservations' = OpenReservations \ {c}
  PROVE  InflightCounts'
  BY OpenFinite, FS_RemoveElement DEF InflightCounts, OpenReservations

LEMMA StepCounts == Base /\ InflightCounts /\ [Next]_vars => InflightCounts'
<1> SUFFICES ASSUME Base, InflightCounts, [Next]_vars PROVE InflightCounts'
  OBVIOUS
<1> USE DEF Base, Typed, Placed, Reserve, OpenReservations, Reserved, callVars
<1>1. CASE UNCHANGED <<inflight, reservation>>
  BY <1>1, CountKept
<1>2. ASSUME NEW c \in Call, Handler(c) PROVE InflightCounts'
  <2>1. CASE UNCHANGED <<inflight, reservation>>
    BY <2>1, CountKept
  <2>2. CASE c \in Feedback /\ Reserve(c, "held") /\ inflight' = inflight + 1
    <3>1. reservation[c] = "none"
      BY <1>2, <2>2 DEF Handler
    <3> QED
      BY <2>2, <3>1, CountUp
  <2> QED
    BY <1>2, <2>1, <2>2 DEF Handler
<1>3. ASSUME NEW c \in Feedback, c \in Call, TakeReserved(c)
      PROVE  InflightCounts'
  BY <1>3, CountKept DEF TakeReserved
<1>4. ASSUME NEW c \in Feedback, c \in Call, EmitReserved(c)
      PROVE  InflightCounts'
  <2>1. reservation[c] = "claimed"
    BY <1>4 DEF EmitReserved
  <2>2. CASE Reserve(c, "posting") /\ UNCHANGED inflight
    BY <2>1, <2>2, CountKept
  <2>3. CASE Reserve(c, "empty") /\ WgDone
    BY <2>1, <2>3, CountDown DEF WgDone
  <2> QED
    BY <1>4, <2>2, <2>3 DEF EmitReserved
<1>5. ASSUME NEW c \in Feedback, c \in Call,
             ReleaseReserved(c) \/ PostReturns(c)
      PROVE  InflightCounts'
  <2>1. c \in OpenReservations
    BY <1>5 DEF ReleaseReserved, PostReturns
  <2>2. OpenReservations' = OpenReservations \ {c}
    BY <1>5 DEF ReleaseReserved, PostReturns, Release
  <2> QED
    BY <1>5, <2>1, <2>2, CountDown
       DEF ReleaseReserved, PostReturns, Release, WgDone
<1>6. ASSUME NEW c \in Call,
             BeforeCall(c) \/ ContextEnds(c) \/ StorePendingCall(c)
             \/ HookSkipped(c) \/ (\E t \in Thread : TakeCall(t, c))
      PROVE  UNCHANGED <<inflight, reservation>>
  BY <1>6 DEF BeforeCall, ContextEnds, StorePendingCall, HookSkipped, TakeCall
<1>7. ASSUME NEW t \in Thread, RecordStep(t)
      PROVE  UNCHANGED <<inflight, reservation>>
  BY <1>7 DEF RecordStep, CheckActive, Enqueue
<1>8. ASSUME NEW d \in Drainer,
             CallFlush(d) \/ CallClose(d) \/ Expire(d) \/ DrainStep(d)
             \/ WaiterStep(d)
      PROVE  UNCHANGED <<inflight, reservation>>
  BY <1>8 DEF CallFlush, CallClose, Expire, DrainStep, ShutQueue,
               QueueDrained, AwaitInflight, InflightDrained, DrainFails,
               Sweep, WaiterStep, WgWait, WgResume
<1>9. CASE Deliver
  BY <1>1, <1>9 DEF Deliver
<1> QED
  BY <1>1, <1>2, <1>3, <1>4, <1>5, <1>6, <1>7, <1>8, <1>9, Threads,
     RecorderAssumption
     DEF Next, HookStep, AbandonStep, Rest, vars, RecorderAssumption

LEMMA InitCounts == Init => InflightCounts
<1> SUFFICES ASSUME Init PROVE InflightCounts
  OBVIOUS
<1>1. {c \in Feedback : reservation[c] \in Reserved} = {}
  BY DEF Init, Reserved
<1> QED
  BY <1>1, FS_EmptySet DEF Init, InflightCounts

\* The WaitGroup counts the open reservations, whatever the order of hooks,
\* panics of callbacks and drains.
THEOREM CounterIsExact == Spec => []InflightCounts
  BY InitBase, StepBase, InitCounts, StepCounts, PTL DEF Spec

LEMMA BaseCorrect == Spec => []Base
  BY InitBase, StepBase, PTL DEF Spec

\* The variables hold values of their types; the counter of the WaitGroup
\* never goes negative, at which Done would panic.
THEOREM RecorderTypeCorrect == Spec => []TypeOK
<1>1. Base /\ InflightCounts => TypeOK
  <2>1. InflightCounts => inflight \in Nat
    BY OpenFinite, FS_CardinalityType DEF InflightCounts, OpenReservations
  <2> QED
    BY <2>1 DEF Base, Typed, TypeOK
<1> QED
  BY <1>1, BaseCorrect, CounterIsExact, PTL

-----------------------------------------------------------------------------
(* Who has a call: the map or one thread.  An entry belongs to its key, and *)
(* a call is stored once, on the way from "store" to "handler".             *)

Known ==
    /\ \A k \in Key : \A c \in pendingCalls[k] :
           KeyOf(c) = k /\ pc[Hook(c)] \notin {"idle", "store"}
    /\ \A t \in Thread : \A c \in taken[t] : pc[Hook(c)] \notin {"idle", "store"}

LEMMA InitTaken == Init => Known /\ TakenOnce
  BY DEF Init, Known, TakenOnce

LEMMA StepTaken ==
  Base /\ Known /\ TakenOnce /\ [Next]_vars => Known' /\ TakenOnce'
<1> SUFFICES ASSUME Base, Known, TakenOnce, [Next]_vars
             PROVE  Known' /\ TakenOnce'
  OBVIOUS
<1> USE Threads, Keys DEF Base, Typed, Known, TakenOnce, Goto, callVars
<1>1. ASSUME UNCHANGED <<pendingCalls, taken>>,
             \A c \in Call : pc[Hook(c)] \notin {"idle", "store"}
                                 => pc'[Hook(c)] \notin {"idle", "store"}
      PROVE  Known' /\ TakenOnce'
  BY <1>1
<1>2. ASSUME NEW c \in Call, BeforeCall(c) \/ ContextEnds(c) \/ Handler(c)
                             \/ HookSkipped(c)
      PROVE  Known' /\ TakenOnce'
  BY <1>1, <1>2 DEF BeforeCall, ContextEnds, Handler, HookSkipped
<1>3. ASSUME NEW c \in Call, StorePendingCall(c) PROVE Known' /\ TakenOnce'
  <2>1. CASE UNCHANGED pendingCalls
    BY <1>1, <1>3, <2>1 DEF StorePendingCall
  <2>2. CASE pendingCalls' # pendingCalls
    <3>1. /\ pc[Hook(c)] = "store"
          /\ pendingCalls' = [pendingCalls EXCEPT ![KeyOf(c)] = {c}]
          /\ \A d \in Call : pc'[Hook(d)] = IF d = c THEN "handler"
                                            ELSE pc[Hook(d)]
          /\ taken' = taken
      BY <1>3, <2>2 DEF StorePendingCall
    <3>2. \A t \in Thread : c \notin taken[t]
      BY <3>1
    <3>3. \A k \in Key : pendingCalls'[k] = IF k = KeyOf(c) THEN {c}
                                            ELSE pendingCalls[k]
      BY <3>1
    <3> QED
      BY <3>1, <3>2, <3>3
  <2> QED
    BY <2>1, <2>2
<1>4. ASSUME NEW c \in Call, NEW t \in Thread, Remove(t, c),
             \A d \in Call : pc[Hook(d)] \notin {"idle", "store"}
                                 => pc'[Hook(d)] \notin {"idle", "store"}
      PROVE  Known' /\ TakenOnce'
  <2>1. /\ \A u \in Thread : taken'[u] = IF u = t THEN pendingCalls[KeyOf(c)]
                                         ELSE taken[u]
        /\ \A k \in Key : pendingCalls'[k] = IF k = KeyOf(c) THEN {}
                                             ELSE pendingCalls[k]
    BY <1>4 DEF Remove, Delete
  <2>2. Known'
    BY <1>4, <2>1
  <2>3. \A u \in Thread, k \in Key : taken'[u] \cap pendingCalls'[k] = {}
    BY <2>1
  <2>4. \A u, v \in Thread : u # v => taken'[u] \cap taken'[v] = {}
    BY <2>1
  <2> QED
    BY <2>2, <2>3, <2>4
<1>5. ASSUME NEW c \in Call, NEW t \in {Hook(c), Abandon(c)}, TakeCall(t, c)
      PROVE  Known' /\ TakenOnce'
  BY <1>4, <1>5 DEF TakeCall
<1>6. ASSUME NEW c \in Feedback, c \in Call, TakeReserved(c)
      PROVE  Known' /\ TakenOnce'
  BY <1>4, <1>6 DEF TakeReserved
<1>7. ASSUME NEW c \in Feedback, c \in Call,
             ReleaseReserved(c) \/ EmitReserved(c) \/ PostReturns(c)
      PROVE  Known' /\ TakenOnce'
  BY <1>1, <1>7 DEF ReleaseReserved, EmitReserved, PostReturns
<1>8. ASSUME NEW t \in Thread, RecordStep(t) PROVE Known' /\ TakenOnce'
  BY <1>1, <1>8 DEF RecordStep, CheckActive, Enqueue
<1>9. ASSUME NEW d \in Drainer, Sweep(d) PROVE Known' /\ TakenOnce'
  <2>1. \A k \in Key : pendingCalls'[k] \in {{}, pendingCalls[k]}
    BY <1>9 DEF Sweep
  <2>2. UNCHANGED <<pc, taken>>
    BY <1>9 DEF Sweep
  <2> QED
    BY <2>1, <2>2
<1>10. ASSUME NEW d \in Drainer,
              CallFlush(d) \/ CallClose(d) \/ Expire(d) \/ ShutQueue(d)
              \/ QueueDrained(d) \/ AwaitInflight(d) \/ InflightDrained(d)
              \/ DrainFails(d) \/ WaiterStep(d)
       PROVE  Known' /\ TakenOnce'
  BY <1>1, <1>10 DEF CallFlush, CallClose, Expire, ShutQueue, QueueDrained,
     AwaitInflight, InflightDrained, DrainFails, WaiterStep, WgWait, WgResume
<1>11. CASE Deliver \/ UNCHANGED vars
  BY <1>1, <1>11 DEF Deliver, vars
<1> QED
  BY <1>2, <1>3, <1>5, <1>6, <1>7, <1>8, <1>9, <1>10, <1>11, RecorderAssumption
     DEF Next, HookStep, AbandonStep, DrainStep, Rest, RecorderAssumption

\* A call is taken by one thread only: its hook, the callback of its ended
\* context, or the hook of a call that reused its key.
THEOREM CallsAreTakenOnce == Spec => []TakenOnce
  BY InitTaken, StepTaken, BaseCorrect, PTL DEF Spec

-----------------------------------------------------------------------------
(* Shutdown.  A Close that is past a stage keeps what the stage achieved,   *)
(* since the closed flag keeps reservations and entries out and the shut    *)
(* queue keeps candidates out.                                              *)

PastQueue(d)    == drainPc[d] \in {"inflight", "waiting", "sweep", "end"}
PastInflight(d) == drainPc[d] \in {"sweep", "end"}

Staged(d) ==
    /\ drainPc[d] # "start" => closed
    /\ drainPc[d] \notin {"start", "shut"} => ~open
    /\ PastQueue(d) /\ d \notin failed => QueueIdle
    /\ waiter[d] # "none" => closed
    /\ waiter[d] \in {"woken", "done"} => inflight = 0
    /\ PastInflight(d) /\ d \notin failed => inflight = 0
    /\ waiter[d] # "panicked"

Shutdown ==
    /\ \A d \in Closer : Staged(d)
    /\ \A d \in failed : PastInflight(d)
    /\ NothingRetained

\* A counter at zero means that no reservation is open, and conversely.
LEMMA ZeroMeansNone ==
  ASSUME InflightCounts
  PROVE  /\ inflight \in Nat
         /\ inflight = 0 <=> OpenReservations = {}
  BY OpenFinite, FS_EmptySet, FS_CardinalityType
     DEF InflightCounts, OpenReservations

\* Done of an open reservation: who sleeps wakes when the counter is zero.
LEMMA DoneWakes ==
  ASSUME Base, InflightCounts, OpenReservations # {}, WgDone
  PROVE  /\ inflight \in Nat \ {0}
         /\ inflight' = inflight - 1
         /\ \A d \in Drainer : \/ waiter'[d] = waiter[d]
                               \/ waiter'[d] = "woken" /\ inflight' = 0
<1>1. inflight \in Nat \ {0}
  BY ZeroMeansNone
<1> QED
  BY <1>1 DEF WgDone, Base, Typed

LEMMA InitShutdown == Init => Shutdown
  BY DEF Init, Shutdown, Staged, NothingRetained, PastQueue, PastInflight,
         Drainer

\* A step that moves no drainer, wakes nobody and adds nothing.
LEMMA ShutdownFrame ==
  ASSUME Shutdown,
         UNCHANGED <<drainPc, failed, waiter, closed, line, hand, open>>,
         closed => inflight' = inflight,
         closed => \A k \in Key : pendingCalls[k] = {} => pendingCalls'[k] = {}
  PROVE  Shutdown'
<1>1. ASSUME NEW d \in Closer PROVE Staged(d)'
  BY DEF Shutdown, Staged, PastQueue, PastInflight, QueueIdle
<1>2. NothingRetained'
  BY DEF Shutdown, Staged, NothingRetained
<1>3. \A d \in failed' : PastInflight(d)'
  BY DEF Shutdown, PastInflight
<1> QED
  BY <1>1, <1>2, <1>3 DEF Shutdown

\* A step of a call keeps what the stages of a Close achieved.
LEMMA CallShutdown ==
  ASSUME Base, InflightCounts, Shutdown, NEW c \in Call,
         BeforeCall(c) \/ ContextEnds(c) \/ HookStep(c) \/ AbandonStep(c)
  PROVE  Shutdown'
<1> USE Keys DEF Base, Typed, Placed, callVars, drainVars, queueVars
<1>1. CASE BeforeCall(c) \/ ContextEnds(c) \/ HookSkipped(c)
  BY <1>1, ShutdownFrame DEF BeforeCall, ContextEnds, HookSkipped
<1>2. CASE StorePendingCall(c)
  BY <1>2, ShutdownFrame DEF StorePendingCall, MayRegister
<1>3. CASE Handler(c)
  BY <1>3, ShutdownFrame DEF Handler, MayReserve
<1>4. ASSUME NEW t \in Thread, Remove(t, c),
             UNCHANGED <<drainPc, failed, waiter, closed, line, hand, open,
                         inflight>>
      PROVE  Shutdown'
  BY <1>4, ShutdownFrame DEF Remove, Delete
<1>5. CASE TakeCall(Hook(c), c) \/ TakeCall(Abandon(c), c)
  BY <1>4, <1>5, Threads DEF TakeCall
<1>6. CASE TakeReserved(c)
  BY <1>4, <1>6, Threads DEF TakeReserved
<1>7. ASSUME WgDone, OpenReservations # {},
             UNCHANGED <<drainPc, failed, closed, line, hand, open,
                         pendingCalls>>
      PROVE  Shutdown'
  <2>1. /\ inflight \in Nat \ {0} /\ inflight' = inflight - 1
        /\ \A d \in Drainer : \/ waiter'[d] = waiter[d]
                              \/ waiter'[d] = "woken" /\ inflight' = 0
    BY <1>7, DoneWakes
  <2>2. ASSUME NEW d \in Closer PROVE Staged(d)'
    <3>1. /\ Staged(d) /\ d \in Drainer
          /\ waiter'[d] # waiter[d] => waiter[d] = "asleep"
      BY <1>7, <2>2 DEF Shutdown, Drainer, WgDone
    <3> QED
      BY <1>7, <2>1, <3>1 DEF Staged, PastQueue, PastInflight, QueueIdle
  <2>3. NothingRetained' /\ (\A d \in failed' : PastInflight(d)')
    BY <1>7 DEF Shutdown, NothingRetained, PastInflight
  <2> QED
    BY <2>2, <2>3 DEF Shutdown
<1>8. CASE c \in Feedback /\ EmitReserved(c)
  <2>1. c \in OpenReservations
    BY <1>8 DEF EmitReserved, OpenReservations, Reserved
  <2> QED
    BY <1>7, <1>8, <2>1, ShutdownFrame DEF EmitReserved
<1>9. CASE c \in Feedback /\ (ReleaseReserved(c) \/ PostReturns(c))
  <2>1. c \in OpenReservations
    BY <1>9 DEF ReleaseReserved, PostReturns, OpenReservations, Reserved
  <2> QED
    BY <1>7, <1>9, <2>1 DEF ReleaseReserved, PostReturns, Release
<1> QED
  BY <1>1, <1>2, <1>3, <1>5, <1>6, <1>8, <1>9 DEF HookStep, AbandonStep

\* So does a step of the queue: nothing is admitted or in hand any more.
LEMMA QueueShutdown ==
  ASSUME Base, Shutdown, Deliver \/ (\E t \in Thread : RecordStep(t))
  PROVE  Shutdown'
<1>1. CASE \E t \in Thread : RecordStep(t)
  <2>1. PICK t \in Thread : RecordStep(t)
    BY <1>1
  <2>2. UNCHANGED <<drainPc, failed, waiter, closed, inflight, pendingCalls>>
    BY <2>1 DEF RecordStep, CheckActive, Enqueue, drainVars, queueVars
  <2>3. CASE UNCHANGED queueVars
    BY <2>2, <2>3, ShutdownFrame DEF queueVars
  <2>4. CASE Pipe!Admit(t)
    <3>1. open /\ UNCHANGED <<open, hand>>
      BY <2>4 DEF Pipe!Admit, Pipe!Enroll
    <3> QED
      BY <2>2, <3>1
         DEF Shutdown, Staged, NothingRetained, PastQueue, PastInflight
  <2> QED
    BY <2>1, <2>3, <2>4 DEF RecordStep, CheckActive, Enqueue
<1>2. CASE Deliver
  <2>1. UNCHANGED <<drainPc, failed, waiter, closed, inflight, pendingCalls,
                    open>>
    BY <1>2 DEF Deliver, drainVars, callVars, Pipe!TakeInHand, Pipe!Ship,
                Pipe!Settle
  <2>2. QueueIdle => QueueIdle'
    <3> SUFFICES ASSUME line = <<>>, hand = <<>> PROVE UNCHANGED <<line, hand>>
      BY DEF QueueIdle
    <3>1. ASSUME NEW n \in 1..Handful PROVE ~Pipe!TakeInHand(n)
      <4>1. n > 0 /\ Len(line) = 0
        BY RecorderAssumption DEF RecorderAssumption
      <4> QED
        BY <4>1 DEF Pipe!TakeInHand
    <3>2. ~Pipe!Settle
      BY DEF Pipe!Settle
    <3>3. Pipe!Ship => UNCHANGED <<line, hand>>
      BY DEF Pipe!Ship
    <3> QED
      BY <1>2, <3>1, <3>2, <3>3 DEF Deliver
  <2> QED
    BY <2>1, <2>2 DEF Shutdown, Staged, NothingRetained, PastQueue, PastInflight
<1> QED
  BY <1>1, <1>2

\* Steps of the drainers themselves, and of the goroutines that wait for them.
LEMMA DrainShutdown ==
  ASSUME Base, InflightCounts, Shutdown, NEW d \in Drainer,
         CallFlush(d) \/ CallClose(d) \/ Expire(d) \/ DrainStep(d)
         \/ WaiterStep(d)
  PROVE  Shutdown'
<1> USE DEF Base, Typed, PastQueue, PastInflight, QueueIdle, DrainGoto,
        callVars, drainVars, queueVars
<1>0. /\ Flusher \cap Closer = {}
      /\ Closer \subseteq Drainer /\ failed \subseteq Drainer
  BY RecorderAssumption DEF RecorderAssumption, Drainer
<1>1. /\ \A e \in Closer : Staged(e)
      /\ \A e \in failed : PastInflight(e)
      /\ NothingRetained
  BY DEF Shutdown
<1>2. CASE CallFlush(d) \/ Expire(d)
  <2>1. \A e \in Closer : Staged(e)'
    BY <1>0, <1>1, <1>2 DEF CallFlush, Expire, Staged
  <2>2. NothingRetained' /\ (\A e \in failed' : PastInflight(e)')
    BY <1>0, <1>1, <1>2 DEF CallFlush, Expire, NothingRetained
  <2> QED
    BY <2>1, <2>2 DEF Shutdown
<1>3. CASE CallClose(d)
  <2>1. \A e \in Closer : Staged(e)'
    BY <1>0, <1>1, <1>3 DEF CallClose, Staged
  <2>2. NothingRetained' /\ (\A e \in failed' : PastInflight(e)')
    BY <1>0, <1>1, <1>3 DEF CallClose, NothingRetained
  <2> QED
    BY <2>1, <2>2 DEF Shutdown
<1>4. CASE ShutQueue(d) \/ QueueDrained(d) \/ AwaitInflight(d)
  <2>1. \A e \in Closer : Staged(e)'
    BY <1>0, <1>1, <1>4 DEF ShutQueue, QueueDrained, AwaitInflight, Staged,
                             Pipe!Shut
  <2>2. NothingRetained' /\ (\A e \in failed' : PastInflight(e)')
    BY <1>0, <1>1, <1>4 DEF ShutQueue, QueueDrained, AwaitInflight,
                             NothingRetained
  <2> QED
    BY <2>1, <2>2 DEF Shutdown
<1>5. CASE InflightDrained(d) \/ DrainFails(d)
  <2>1. \A e \in Closer : Staged(e)'
    <3>1. CASE InflightDrained(d)
      BY <1>0, <1>1, <3>1 DEF InflightDrained, Outcome, Staged
    <3>2. CASE DrainFails(d)
      BY <1>0, <1>1, <3>2 DEF DrainFails, FailWithContext, Outcome, Staged
    <3> QED
      BY <1>5, <3>1, <3>2
  <2>2. NothingRetained' /\ (\A e \in failed' : PastInflight(e)')
    BY <1>0, <1>1, <1>5 DEF InflightDrained, DrainFails, FailWithContext,
                             Outcome, NothingRetained
  <2> QED
    BY <2>1, <2>2 DEF Shutdown
<1>6. CASE Sweep(d)
  <2>1. \A e \in Closer : Staged(e)'
    BY <1>0, <1>1, <1>6 DEF Sweep, Staged
  <2>2. NothingRetained' /\ (\A e \in failed' : PastInflight(e)')
    <3>1. \A k \in Key : pendingCalls'[k] \in {{}, pendingCalls[k]}
      BY <1>6 DEF Sweep
    <3>2. (\E e \in Closer : drainPc'[e] = "end" /\ drainPc[e] # "end")
             => \A k \in Key : pendingCalls'[k] = {}
      BY <1>6 DEF Sweep
    <3> QED
      BY <1>0, <1>1, <1>6, <3>1, <3>2 DEF Sweep, NothingRetained
  <2> QED
    BY <2>1, <2>2 DEF Shutdown
<1>7. CASE WaiterStep(d)
  <2>1. \A e \in Closer : Staged(e)'
    BY <1>0, <1>1, <1>7 DEF WaiterStep, WgWait, WgResume, Staged
  <2>2. NothingRetained' /\ (\A e \in failed' : PastInflight(e)')
    BY <1>0, <1>1, <1>7 DEF WaiterStep, WgWait, WgResume, NothingRetained
  <2> QED
    BY <2>1, <2>2 DEF Shutdown
<1> QED
  BY <1>2, <1>3, <1>4, <1>5, <1>6, <1>7 DEF DrainStep

LEMMA StepShutdown ==
  Base /\ InflightCounts /\ Shutdown /\ [Next]_vars => Shutdown'
<1> SUFFICES ASSUME Base, InflightCounts, Shutdown, [Next]_vars PROVE Shutdown'
  OBVIOUS
<1>1. CASE UNCHANGED vars \/ Rest
  BY <1>1, ShutdownFrame DEF Rest, vars, callVars, drainVars, queueVars
<1> QED
  BY <1>1, CallShutdown, QueueShutdown, DrainShutdown DEF Next

LEMMA ShutdownCorrect == Spec => []Shutdown
  BY InitShutdown, StepShutdown, BaseCorrect, CounterIsExact, PTL DEF Spec

\* Once any Close has returned no call is retained, whoever still registers.
THEOREM NothingStaysRetained == Spec => []NothingRetained
  BY ShutdownCorrect, PTL DEF Shutdown

\* A Close that returns nil leaves no candidate in the queue and no reserved
\* event to deliver, and none can come any more.
THEOREM CloseDrainsClean == Spec => []CleanCloseDrains
<1>1. InflightCounts /\ Shutdown => CleanCloseDrains
  BY ZeroMeansNone
     DEF Shutdown, Staged, PastQueue, PastInflight, CleanCloseDrains,
         OpenReservations
<1> QED
  BY <1>1, ShutdownCorrect, CounterIsExact, PTL

\* The panic of WaitGroup.Wait that FlushReturnsNormally finds is one of a
\* Flush on a live recorder: the wait of a Close never meets it, as nothing is
\* added once the recorder is closed.
CloseNeverPanics == \A d \in Closer : waiter[d] # "panicked"

THEOREM CloseWaitsSafely == Spec => []CloseNeverPanics
<1>1. Shutdown => CloseNeverPanics
  BY DEF Shutdown, Staged, CloseNeverPanics
<1> QED
  BY <1>1, ShutdownCorrect, PTL

-----------------------------------------------------------------------------
(* Losses: each step that counts one makes one more, and no other does. *)

\* A thread on its way to the queue has a call, and its candidate has no
\* number before the thread has ended.
Loaded(t) ==
    /\ pc[t] \in {"active", "record", "enqueue"} => taken[t] # {}
    /\ pc[t] # "end" => number[t] = 0

\* Only Enqueue gives a number, and the thread that gets it ends.
LEMMA StepLoaded ==
  Base /\ (\A t \in Thread : Loaded(t)) /\ [Next]_vars
      => \A t \in Thread : Loaded(t)'
<1> SUFFICES ASSUME Base, \A t \in Thread : Loaded(t), [Next]_vars
             PROVE  \A t \in Thread : Loaded(t)'
  OBVIOUS
<1> DEFINE Goal == \A t \in Thread : Loaded(t)'
<1> USE Threads, Keys DEF Base, Typed, Loaded, Goto, callVars, queueVars
<1>1. CASE UNCHANGED <<pc, taken, number>>
  BY <1>1
<1>2. ASSUME NEW c \in Call, \/ BeforeCall(c) \/ ContextEnds(c)
                             \/ StorePendingCall(c) \/ Handler(c)
      PROVE  Goal
  BY <1>2 DEF BeforeCall, ContextEnds, StorePendingCall, AfterFunc, Handler,
              Placed
<1>3. ASSUME NEW c \in Call, NEW t \in {Hook(c), Abandon(c)}, TakeCall(t, c)
      PROVE  Goal
  BY <1>3 DEF TakeCall, Remove
<1>4. ASSUME NEW c \in Call, HookSkipped(c) PROVE Goal
  BY <1>4 DEF HookSkipped
<1>5. ASSUME NEW c \in Feedback, c \in Call,
             TakeReserved(c) \/ ReleaseReserved(c) \/ EmitReserved(c)
             \/ PostReturns(c)
      PROVE  Goal
  BY <1>5 DEF TakeReserved, Remove, ReleaseReserved, EmitReserved, PostReturns
<1>6. ASSUME NEW t \in Thread,
             CheckActive(t, "active", "record")
             \/ CheckActive(t, "record", "enqueue")
      PROVE  Goal
  BY <1>6 DEF CheckActive
<1>7. ASSUME NEW t \in Thread, Enqueue(t) PROVE Goal
  <2>1. CASE Pipe!Admit(t)
    BY <1>7, <2>1, NumberTyped DEF Enqueue
  <2>2. CASE UNCHANGED queueVars
    BY <1>7, <2>2 DEF Enqueue
  <2> QED
    BY <1>7, <2>1, <2>2 DEF Enqueue
<1>8. CASE Deliver
  BY <1>8 DEF Deliver, Pipe!TakeInHand, Pipe!Ship, Pipe!Settle
<1>9. ASSUME NEW d \in Drainer,
             CallFlush(d) \/ CallClose(d) \/ Expire(d) \/ DrainStep(d)
             \/ WaiterStep(d)
      PROVE  Goal
  BY <1>9 DEF CallFlush, CallClose, Expire, DrainStep, ShutQueue, Pipe!Shut,
              QueueDrained, AwaitInflight, InflightDrained, DrainFails, Sweep,
              WaiterStep, WgWait, WgResume
<1> QED
  BY <1>1, <1>2, <1>3, <1>4, <1>5, <1>6, <1>7, <1>8, <1>9, RecorderAssumption
     DEF Next, HookStep, AbandonStep, RecordStep, Rest, vars,
         RecorderAssumption

LEMMA LossesFinite ==
  /\ IsFiniteSet(Unregistered) /\ IsFiniteSet(Refused)
  /\ IsFiniteSet(Undelivered)
<1>1. /\ Unregistered \subseteq Call /\ Refused \subseteq Call
      /\ Undelivered \subseteq Thread
  BY RecorderAssumption
     DEF Unregistered, Refused, Undelivered, RecorderAssumption
<1> QED
  BY <1>1, ThreadsFinite, RecorderAssumption, FS_Subset DEF RecorderAssumption

LossesSame ==
    /\ Unregistered' = Unregistered
    /\ Refused' = Refused
    /\ Undelivered' = Undelivered

OneMore(S, T, x) == x \notin S /\ T = S \cup {x}

\* A step that loses nothing, and one that loses and counts one thing.
LEMMA LossesKept ==
  ASSUME LossesCounted, dropped' = dropped, LossesSame PROVE LossesCounted'
  BY DEF LossesCounted, LossesSame

LEMMA LossCounted ==
  ASSUME Typed, LossesCounted, CountDrop, NEW x,
         \/ /\ OneMore(Unregistered, Unregistered', x)
            /\ Refused' = Refused /\ Undelivered' = Undelivered
         \/ /\ OneMore(Refused, Refused', x)
            /\ Unregistered' = Unregistered /\ Undelivered' = Undelivered
         \/ /\ OneMore(Undelivered, Undelivered', x)
            /\ Unregistered' = Unregistered /\ Refused' = Refused
  PROVE  LossesCounted'
<1>1. ASSUME NEW S, NEW T, IsFiniteSet(S), OneMore(S, T, x)
      PROVE  Cardinality(T) = Cardinality(S) + 1
  BY <1>1, FS_AddElement DEF OneMore
<1>2. /\ Cardinality(Unregistered) \in Nat /\ Cardinality(Refused) \in Nat
      /\ Cardinality(Undelivered) \in Nat
  BY LossesFinite, FS_CardinalityType
<1>3. CASE OneMore(Unregistered, Unregistered', x)
           /\ Refused' = Refused /\ Undelivered' = Undelivered
  <2>1. Cardinality(Unregistered') = Cardinality(Unregistered) + 1
    BY <1>1, <1>3, LossesFinite
  <2> QED
    BY <1>2, <1>3, <2>1 DEF CountDrop, LossesCounted
<1>4. CASE OneMore(Refused, Refused', x)
           /\ Unregistered' = Unregistered /\ Undelivered' = Undelivered
  <2>1. Cardinality(Refused') = Cardinality(Refused) + 1
    BY <1>1, <1>4, LossesFinite
  <2> QED
    BY <1>2, <1>4, <2>1 DEF CountDrop, LossesCounted
<1>5. CASE OneMore(Undelivered, Undelivered', x)
           /\ Unregistered' = Unregistered /\ Refused' = Refused
  <2>1. Cardinality(Undelivered') = Cardinality(Undelivered) + 1
    BY <1>1, <1>5, LossesFinite
  <2> QED
    BY <1>2, <1>5, <2>1 DEF CountDrop, LossesCounted
<1> QED
  BY <1>3, <1>4, <1>5

\* A thread past the handler neither registers nor reserves.
LEMMA LateStep ==
  ASSUME Base, NEW t \in Thread, NEW label, Goto(t, label),
         pc[t] \notin {"idle", "store", "handler"},
         label \notin {"idle", "store", "handler"},
         \A c \in Feedback : reservation'[c] = "none" <=> reservation[c] = "none"
  PROVE  Unregistered' = Unregistered /\ Refused' = Refused
<1>1. \A c \in Call :
          /\ pc'[Hook(c)] \in {"idle", "store"} <=> pc[Hook(c)] \in {"idle", "store"}
          /\ pc'[Hook(c)] = "handler" <=> pc[Hook(c)] = "handler"
          /\ pc'[Abandon(c)] = "idle" <=> pc[Abandon(c)] = "idle"
  BY Threads DEF Base, Typed, Goto
<1>2. Unregistered' = Unregistered
  BY <1>1 DEF Unregistered
<1>3. Refused' = Refused
  BY <1>1, RecorderAssumption DEF Refused, RecorderAssumption
<1> QED
  BY <1>2, <1>3

\* A thread that goes on, or ends without a call or with its event delivered,
\* loses nothing.
LEMMA ThreadStep ==
  ASSUME Base, NEW t \in Thread, NEW label, Goto(t, label), pc[t] # "end",
         number' = number,
         \A u \in Thread \ {t} : taken'[u] = taken[u],
         \A c \in Feedback : Hook(c) # t => reservation'[c] = reservation[c],
         \/ label # "end"
         \/ taken'[t] = {}
         \/ \E c \in Feedback : t = Hook(c) /\ reservation'[c] \in {"posted", "empty"}
  PROVE  Undelivered' = Undelivered
<1>1. t \notin Undelivered /\ t \notin Undelivered'
  BY DEF Undelivered, Base, Typed, Goto
<1>2. \A u \in Thread \ {t} : pc'[u] = pc[u]
  BY DEF Goto, Base, Typed
<1>3. ASSUME NEW u \in Thread \ {t}
      PROVE  u \in Undelivered' <=> u \in Undelivered
  BY <1>2, <1>3 DEF Undelivered, Pipe!Admitted
<1> QED
  BY <1>1, <1>3 DEF Undelivered

\* A thread that ends with a call neither queued nor posted is one loss more.
LEMMA ThreadLost ==
  ASSUME Base, NEW t \in Thread, Loaded(t), Goto(t, "end"),
         pc[t] \in {"active", "record", "enqueue"},
         UNCHANGED <<number, taken, reservation>>
  PROVE  OneMore(Undelivered, Undelivered', t)
<1>1. t \notin Undelivered
  BY DEF Undelivered
<1>2. \A c \in Feedback : t = Hook(c) => reservation[c] \notin {"posted", "empty"}
  BY RecorderAssumption DEF Base, Placed, RecorderAssumption
<1>3. t \in Undelivered'
  BY <1>2 DEF Undelivered, Loaded, Base, Typed, Goto, Pipe!Admitted
<1>4. ASSUME NEW u \in Thread \ {t}
      PROVE  u \in Undelivered' <=> u \in Undelivered
  BY <1>4 DEF Undelivered, Base, Typed, Goto, Pipe!Admitted
<1> QED
  BY <1>1, <1>3, <1>4 DEF OneMore, Undelivered

\* What the early steps of a call do to the counter and the losses.
LEMMA EarlyLosses ==
  ASSUME Base, LossesCounted, NEW c \in Call,
         BeforeCall(c) \/ ContextEnds(c) \/ StorePendingCall(c) \/ Handler(c)
  PROVE  LossesCounted'
<1> USE Threads DEF Base, Typed, Placed, Unclaimed, Goto, Reserve, callVars,
        queueVars
<1>1. Undelivered' = Undelivered
  <2>1. \A u \in Thread : pc'[u] = "end" <=> pc[u] = "end"
    BY DEF BeforeCall, ContextEnds, StorePendingCall, AfterFunc, Handler
  <2>2. /\ UNCHANGED <<taken, number>>
        /\ \A e \in Feedback :
               reservation'[e] \in {"posted", "empty"}
                   <=> reservation[e] \in {"posted", "empty"}
    BY DEF BeforeCall, ContextEnds, StorePendingCall, Handler
  <2> QED
    BY <2>1, <2>2 DEF Undelivered, Pipe!Admitted
<1>2. CASE ContextEnds(c) \/ (BeforeCall(c) /\ dropped' = dropped)
  <2>1. \A e \in Call :
            /\ pc'[Hook(e)] \in {"idle", "store"} <=> pc[Hook(e)] \in {"idle", "store"}
            /\ pc'[Hook(e)] = "handler" <=> pc[Hook(e)] = "handler"
            /\ pc'[Abandon(e)] = "idle" <=> pc[Abandon(e)] = "idle"
    BY <1>2 DEF ContextEnds, BeforeCall, CountDrop
  <2>2. UNCHANGED <<dropped, reservation>>
    BY <1>2 DEF ContextEnds, BeforeCall
  <2>3. Unregistered' = Unregistered
    BY <2>1 DEF Unregistered
  <2>4. Refused' = Refused
    BY <2>1, <2>2, RecorderAssumption DEF Refused, RecorderAssumption
  <2> QED
    BY <1>1, <2>2, <2>3, <2>4, LossesKept DEF LossesSame
<1>3. CASE (BeforeCall(c) \/ StorePendingCall(c)) /\ dropped' # dropped
  <2>1. CountDrop /\ Goto(Hook(c), "handler") /\ UNCHANGED reservation
    BY <1>3 DEF BeforeCall, StorePendingCall
  <2>2. pc[Hook(c)] \in {"idle", "store"} /\ pc[Abandon(c)] = "idle"
    BY <1>3 DEF BeforeCall, StorePendingCall
  <2>3. OneMore(Unregistered, Unregistered', c)
    BY <2>1, <2>2 DEF OneMore, Unregistered
  <2>4. Refused' = Refused
    BY <2>1, <2>2, RecorderAssumption DEF Refused, RecorderAssumption
  <2> QED
    BY <1>1, <2>1, <2>3, <2>4, LossCounted
<1>4. CASE StorePendingCall(c) /\ dropped' = dropped
  <2>1. /\ pc' = [pc EXCEPT ![Hook(c)] = "handler", ![Abandon(c)] = AfterFunc(c)]
        /\ pc[Hook(c)] = "store" /\ UNCHANGED reservation
    BY <1>4 DEF StorePendingCall, CountDrop
  <2>2. Unregistered' = Unregistered
    BY <2>1 DEF Unregistered, AfterFunc
  <2>3. Refused' = Refused
    BY <2>1, RecorderAssumption DEF Refused, RecorderAssumption
  <2> QED
    BY <1>1, <1>4, <2>2, <2>3, LossesKept DEF LossesSame
<1>5. CASE Handler(c)
  <2>1. pc[Hook(c)] = "handler" /\ Goto(Hook(c), "take")
    BY <1>5 DEF Handler
  <2>2. Unregistered' = Unregistered
    BY <2>1 DEF Unregistered
  <2>3. CASE c \in Feedback /\ CountDrop /\ UNCHANGED reservation
    <3>1. OneMore(Refused, Refused', c)
      BY <2>1, <2>3, RecorderAssumption DEF OneMore, Refused, RecorderAssumption
    <3> QED
      BY <1>1, <2>2, <2>3, <3>1, LossCounted
  <2>4. CASE /\ dropped' = dropped
             /\ \/ c \notin Feedback /\ UNCHANGED reservation
                \/ c \in Feedback /\ Reserve(c, "held")
    <3>1. Refused' = Refused
      BY <2>1, <2>4, RecorderAssumption DEF Refused, RecorderAssumption
    <3> QED
      BY <1>1, <2>2, <2>4, <3>1, LossesKept DEF LossesSame
  <2> QED
    BY <1>5, <2>3, <2>4 DEF Handler
<1> QED
  BY <1>2, <1>3, <1>4, <1>5

LEMMA StepLosses ==
  ASSUME Base, \A t \in Thread : Loaded(t), LossesCounted, [Next]_vars
  PROVE  LossesCounted'
<1> USE Threads DEF callVars, drainVars, queueVars
<1>1. ASSUME NEW c \in Call,
             BeforeCall(c) \/ ContextEnds(c) \/ StorePendingCall(c) \/ Handler(c)
      PROVE  LossesCounted'
  BY <1>1, EarlyLosses
<1>2. ASSUME NEW c \in Call, NEW t \in {Hook(c), Abandon(c)}, TakeCall(t, c)
      PROVE  LossesCounted'
  <2> DEFINE label == IF pendingCalls[KeyOf(c)] = {} THEN "end" ELSE "active"
  <2>1. /\ t \in Thread /\ pc[t] = "take" /\ Goto(t, label)
        /\ UNCHANGED <<dropped, number, reservation>>
    BY <1>2 DEF TakeCall
  <2>2. taken' = [taken EXCEPT ![t] = pendingCalls[KeyOf(c)]]
    BY <1>2 DEF TakeCall, Remove
  <2>3. Unregistered' = Unregistered /\ Refused' = Refused
    BY <2>1, LateStep
  <2>4. /\ \A u \in Thread \ {t} : taken'[u] = taken[u]
        /\ label # "end" \/ taken'[t] = {}
    BY <2>1, <2>2 DEF Base, Typed
  <2>5. Undelivered' = Undelivered
    BY <2>1, <2>4, ThreadStep
  <2> QED
    BY <2>1, <2>3, <2>5, LossesKept DEF LossesSame
<1>3. ASSUME NEW c \in Call, HookSkipped(c) PROVE LossesCounted'
  <2>1. /\ pc[Hook(c)] = "take" /\ Goto(Hook(c), "end") /\ taken[Hook(c)] = {}
        /\ UNCHANGED <<dropped, number, reservation, taken>>
    BY <1>3 DEF HookSkipped, Base, Unclaimed
  <2>2. Unregistered' = Unregistered /\ Refused' = Refused
    BY <2>1, LateStep
  <2>3. Undelivered' = Undelivered
    BY <2>1, ThreadStep
  <2> QED
    BY <2>1, <2>2, <2>3, LossesKept DEF LossesSame
<1>4. ASSUME NEW c \in Feedback, c \in Call,
             TakeReserved(c) \/ ReleaseReserved(c) \/ EmitReserved(c)
             \/ PostReturns(c)
      PROVE  LossesCounted'
  <2>1. PICK label \in {"build", "post", "end"} : Goto(Hook(c), label)
    BY <1>4 DEF TakeReserved, ReleaseReserved, EmitReserved, PostReturns
  <2>2. PICK r \in {"claimed", "released", "posting", "empty", "posted"} :
            Reserve(c, r) /\ (label = "end" => r # "claimed" /\ r # "posting")
                          /\ (r = "released" => ReleaseReserved(c))
    BY <1>4, <2>1 DEF TakeReserved, ReleaseReserved, Release, EmitReserved,
                      PostReturns, Goto, Base, Typed
  <2>3. /\ pc[Hook(c)] \in {"take", "build", "post"} /\ reservation[c] # "none"
        /\ UNCHANGED <<dropped, number>>
    BY <1>4 DEF TakeReserved, ReleaseReserved, EmitReserved, PostReturns, Base,
                Placed
  <2>4. \A u \in Thread \ {Hook(c)} : taken'[u] = taken[u]
    BY <1>4 DEF TakeReserved, Remove, ReleaseReserved, EmitReserved,
                PostReturns, Base, Typed
  <2>5. ReleaseReserved(c) => taken'[Hook(c)] = {}
    BY <1>4 DEF ReleaseReserved, Base, Unclaimed
  <2>6. reservation'[c] = r
        /\ \A e \in Feedback \ {c} : reservation'[e] = reservation[e]
    BY <2>2 DEF Reserve, Base, Typed
  <2>7. Unregistered' = Unregistered /\ Refused' = Refused
    BY <1>4, <2>1, <2>2, <2>3, <2>6, LateStep
  <2>8. Undelivered' = Undelivered
    BY <1>4, <2>1, <2>2, <2>3, <2>4, <2>5, <2>6, ThreadStep, RecorderAssumption
       DEF RecorderAssumption
  <2> QED
    BY <2>3, <2>7, <2>8, LossesKept DEF LossesSame
<1>5. ASSUME NEW t \in Thread, RecordStep(t) PROVE LossesCounted'
  <2>1. /\ pc[t] \in {"active", "record", "enqueue"}
        /\ UNCHANGED <<taken, reservation>>
    BY <1>5 DEF RecordStep, CheckActive, Enqueue
  <2>2. CASE CountDrop /\ Goto(t, "end") /\ UNCHANGED number
    <3>1. Unregistered' = Unregistered /\ Refused' = Refused
      BY <2>1, <2>2, LateStep
    <3>2. OneMore(Undelivered, Undelivered', t)
      BY <2>1, <2>2, ThreadLost
    <3> QED
      BY <2>2, <3>1, <3>2, LossCounted DEF Base
  <2>3. CASE /\ Goto(t, "record") \/ Goto(t, "enqueue")
             /\ UNCHANGED <<dropped, number>>
    <3>1. Unregistered' = Unregistered /\ Refused' = Refused
      BY <2>1, <2>3, LateStep
    <3>2. Undelivered' = Undelivered
      BY <2>1, <2>3, ThreadStep
    <3> QED
      BY <2>3, <3>1, <3>2, LossesKept DEF LossesSame
  <2>4. CASE Pipe!Admit(t) /\ Goto(t, "end") /\ UNCHANGED dropped
    <3>1. Unregistered' = Unregistered /\ Refused' = Refused
      BY <2>1, <2>4, LateStep
    <3>2. number'[t] > 0 /\ \A u \in Thread \ {t} : number'[u] = number[u]
      BY <2>4, NumberTyped DEF Base
    <3>3. t \notin Undelivered /\ t \notin Undelivered'
      BY <2>1, <3>2 DEF Undelivered, Pipe!Admitted
    <3>4. ASSUME NEW u \in Thread \ {t}
          PROVE  u \in Undelivered' <=> u \in Undelivered
      BY <2>1, <2>4, <3>2, <3>4 DEF Undelivered, Pipe!Admitted, Goto, Base, Typed
    <3>5. Undelivered' = Undelivered
      BY <3>3, <3>4 DEF Undelivered
    <3> QED
      BY <2>4, <3>1, <3>5, LossesKept DEF LossesSame
  <2> QED
    BY <1>5, <2>2, <2>3, <2>4 DEF RecordStep, CheckActive, Enqueue
<1>6. ASSUME UNCHANGED <<dropped, pc, taken, reservation, number>>
      PROVE  LossesCounted'
  BY <1>6, LossesKept
     DEF LossesSame, Unregistered, Refused, Undelivered, Pipe!Admitted
<1>7. CASE Deliver
  BY <1>6, <1>7 DEF Deliver, Pipe!TakeInHand, Pipe!Ship, Pipe!Settle
<1>8. ASSUME NEW d \in Drainer,
             CallFlush(d) \/ CallClose(d) \/ Expire(d) \/ DrainStep(d)
             \/ WaiterStep(d)
      PROVE  LossesCounted'
  BY <1>6, <1>8 DEF CallFlush, CallClose, Expire, DrainStep, ShutQueue,
     Pipe!Shut, QueueDrained, AwaitInflight, InflightDrained, DrainFails,
     Sweep, WaiterStep, WgWait, WgResume
<1>9. CASE UNCHANGED vars \/ Rest
  BY <1>6, <1>9 DEF Rest, vars
<1> QED
  BY <1>1, <1>2, <1>3, <1>4, <1>5, <1>7, <1>8, <1>9, RecorderAssumption
     DEF Next, HookStep, AbandonStep, RecorderAssumption

\* Dropped() is the number of calls not registered, requests not reserved and
\* taken calls not delivered, exactly.
THEOREM LossesAreCounted == Spec => []LossesCounted
<1> DEFINE Inv == (\A t \in Thread : Loaded(t)) /\ LossesCounted
<1>1. Init => Inv
  <2> SUFFICES ASSUME Init PROVE Inv
    OBVIOUS
  <2>1. \A t \in Thread : Loaded(t)
    BY DEF Init, Loaded, Pipe!PipeInit
  <2>2. Unregistered = {} /\ Refused = {} /\ Undelivered = {}
    BY Threads, RecorderAssumption
       DEF Init, Unregistered, Refused, Undelivered, RecorderAssumption
  <2> QED
    BY <2>1, <2>2, FS_EmptySet DEF Init, LossesCounted
<1>2. Base /\ Inv /\ [Next]_vars => Inv'
  BY StepLoaded, StepLosses
<1>3. Inv => LossesCounted
  OBVIOUS
<1> HIDE DEF Inv
<1> QED
  BY <1>1, <1>2, <1>3, BaseCorrect, PTL DEF Spec

-----------------------------------------------------------------------------
(* The step simulation to Reservations *)

\* What the ledger calls drained.
ClosedClean == \E d \in Closer \ failed : drainPc[d] \in {"sweep", "end"}

Stages == [c \in Feedback |-> LedgerStage(reservation[c])]

LEMMA StageValues ==
  /\ LedgerStage("none") = "free" /\ LedgerStage("held") = "held"
  /\ LedgerStage("claimed") = "claimed" /\ LedgerStage("posting") = "claimed"
  /\ LedgerStage("posted") = "delivered"
  /\ LedgerStage("empty") = "released" /\ LedgerStage("released") = "released"
  BY DEF LedgerStage

\* One reservation changes its state, and with it its stage.
LEMMA StageMoves ==
  ASSUME Typed, NEW c \in Feedback, NEW r, Reserve(c, r)
  PROVE  Stages' = [Stages EXCEPT ![c] = LedgerStage(r)]
  BY DEF Typed, Reserve, Stages

\* Every step of a call is a step of the ledger or changes nothing in it.
LEMMA CallIsLedgerStep ==
  ASSUME Base, NEW c \in Call,
         BeforeCall(c) \/ ContextEnds(c) \/ HookStep(c) \/ AbandonStep(c)
  PROVE  [Ledger!LedgerNext]_(Ledger!ledgerVars)
<1>0. UNCHANGED <<closed, drainPc, failed>>
  BY DEF BeforeCall, ContextEnds, HookStep, AbandonStep, StorePendingCall,
         Handler, TakeCall, HookSkipped, TakeReserved, ReleaseReserved,
         EmitReserved, PostReturns, drainVars
<1>1. ClosedClean' = ClosedClean
  BY <1>0 DEF ClosedClean
<1>2. CASE UNCHANGED reservation
  BY <1>0, <1>1, <1>2 DEF Ledger!ledgerVars, ClosedClean
<1> USE StageMoves, StageValues DEF Base, Placed, Stages
<1>3. CASE Handler(c) /\ ~UNCHANGED reservation
  <2>1. c \in Feedback /\ ~closed /\ Reserve(c, "held") /\ reservation[c] = "none"
    BY <1>3 DEF Handler, MayReserve
  <2>2. Ledger!Take(c)
    BY <1>0, <1>1, <2>1 DEF Ledger!Take, Ledger!Move, ClosedClean
  <2> QED
    BY <2>1, <2>2 DEF Ledger!LedgerNext
<1>4. CASE c \in Feedback /\ TakeReserved(c)
  <2>1. Ledger!Claim(c)
    BY <1>0, <1>1, <1>4 DEF TakeReserved, Ledger!Claim, Ledger!Move, ClosedClean
  <2> QED
    BY <1>4, <2>1 DEF Ledger!LedgerNext
<1>5. CASE c \in Feedback /\ ReleaseReserved(c)
  <2>1. Ledger!Release(c)
    BY <1>0, <1>1, <1>5
       DEF ReleaseReserved, Release, Ledger!Release, Ledger!Move, ClosedClean
  <2> QED
    BY <1>5, <2>1 DEF Ledger!LedgerNext
<1>6. CASE c \in Feedback /\ EmitReserved(c)
  <2>1. reservation[c] = "claimed"
    BY <1>6 DEF EmitReserved
  <2>2. CASE Reserve(c, "posting")
    <3>1. Stages' = Stages
      BY <2>1, <2>2 DEF Typed, Reserve
    <3> QED
      BY <1>0, <1>1, <3>1 DEF Ledger!ledgerVars, ClosedClean
  <2>3. CASE Reserve(c, "empty")
    <3>1. Ledger!Abandon(c)
      BY <1>0, <1>1, <1>6, <2>1, <2>3 DEF Ledger!Abandon, Ledger!Move, ClosedClean
    <3> QED
      BY <1>6, <3>1 DEF Ledger!LedgerNext
  <2> QED
    BY <1>6, <2>2, <2>3 DEF EmitReserved
<1>7. CASE c \in Feedback /\ PostReturns(c)
  <2>1. reservation[c] = "posting" /\ Reserve(c, "posted")
    BY <1>7 DEF PostReturns
  <2>2. Ledger!Deliver(c)
    BY <1>0, <1>1, <1>7, <2>1 DEF Ledger!Deliver, Ledger!Move, ClosedClean
  <2> QED
    BY <1>7, <2>2 DEF Ledger!LedgerNext
<1> QED
  BY <1>2, <1>3, <1>4, <1>5, <1>6, <1>7
     DEF BeforeCall, ContextEnds, HookStep, AbandonStep, StorePendingCall,
         TakeCall, HookSkipped

\* A drain is a drain of the ledger when a Close passes inflight.Wait.
LEMMA DrainIsLedgerStep ==
  ASSUME Base, InflightCounts, Shutdown, Shutdown', NEW d \in Drainer,
         CallFlush(d) \/ CallClose(d) \/ Expire(d) \/ DrainStep(d)
         \/ WaiterStep(d)
  PROVE  [Ledger!LedgerNext]_(Ledger!ledgerVars)
<1>0. reservation' = reservation /\ Stages' = Stages
  BY DEF CallFlush, CallClose, Expire, DrainStep, ShutQueue, QueueDrained,
         AwaitInflight, InflightDrained, DrainFails, Sweep, WaiterStep,
         WgWait, WgResume, callVars, Stages
<1> USE DEF Base, Typed, ClosedClean, Stages
<1>1. CASE CallClose(d)
  <2>1. drainPc[d] = "start" /\ drainPc' = [drainPc EXCEPT ![d] = "shut"]
        /\ failed' = failed /\ closed' = TRUE
    BY <1>1 DEF CallClose, DrainGoto
  <2>2. \A e \in Closer \ failed : drainPc'[e] \in {"sweep", "end"}
                                <=> drainPc[e] \in {"sweep", "end"}
    BY <2>1 DEF Drainer
  <2>3. Ledger!Refuse
    BY <1>0, <2>1, <2>2 DEF Ledger!Refuse
  <2> QED
    BY <2>3 DEF Ledger!LedgerNext
<1>2. CASE ~CallClose(d) /\ ClosedClean' = ClosedClean
  <2>1. closed' = closed
    BY <1>2 DEF CallFlush, Expire, DrainStep, ShutQueue, QueueDrained,
         AwaitInflight, InflightDrained, DrainFails, Sweep, WaiterStep,
         WgWait, WgResume
  <2> QED
    BY <1>0, <1>2, <2>1 DEF Ledger!ledgerVars
<1>3. CASE ~CallClose(d) /\ ClosedClean' # ClosedClean
  <2>1. InflightDrained(d) /\ d \in Closer \ failed
    <3>1. Closer \subseteq Drainer /\ failed \subseteq Drainer
          /\ Flusher \cap Closer = {}
      BY RecorderAssumption DEF RecorderAssumption, Drainer
    <3>2. CASE CallFlush(d) \/ Expire(d) \/ ShutQueue(d) \/ QueueDrained(d)
               \/ AwaitInflight(d) \/ WaiterStep(d)
      <4>1. /\ failed' = failed
            /\ \A e \in Closer : drainPc'[e] \in {"sweep", "end"}
                                    <=> drainPc[e] \in {"sweep", "end"}
        BY <3>1, <3>2 DEF CallFlush, Expire, ShutQueue, QueueDrained,
           AwaitInflight, WaiterStep, WgWait, WgResume, DrainGoto, drainVars
      <4> QED
        BY <1>3, <4>1
    <3>3. CASE DrainFails(d)
      <4>1. /\ drainPc[d] \notin {"sweep", "end"}
            /\ failed' = failed \cup {d}
            /\ \A e \in Closer \ {d} : drainPc'[e] = drainPc[e]
        BY <3>1, <3>3 DEF DrainFails, FailWithContext, DrainGoto
      <4> QED
        BY <1>3, <4>1
    <3>4. CASE Sweep(d)
      <4>1. /\ failed' = failed /\ drainPc[d] = "sweep"
            /\ drainPc'[d] \in {"sweep", "end"}
            /\ \A e \in Closer \ {d} : drainPc'[e] = drainPc[e]
        BY <3>1, <3>4 DEF Sweep, DrainGoto
      <4> QED
        BY <1>3, <4>1
    <3>5. CASE InflightDrained(d)
      <4>1. /\ failed' = failed
            /\ drainPc[d] = "waiting"
            /\ \A e \in Closer \ {d} : drainPc'[e] = drainPc[e]
        BY <3>1, <3>5 DEF InflightDrained, DrainGoto
      <4>2. d \in Closer /\ d \notin failed
        BY <1>3, <3>1, <4>1
           DEF Shutdown, PastInflight
      <4> QED
        BY <3>5, <4>2
    <3> QED
      BY <1>3, <3>2, <3>3, <3>4, <3>5 DEF DrainStep
  <2>2. closed /\ inflight = 0 /\ closed' = closed
    BY <2>1 DEF InflightDrained, Shutdown, Staged
  <2>3. OpenReservations = {}
    BY <2>2, ZeroMeansNone
  <2>4. Ledger!Open = {}
    BY <2>3, StageValues DEF Ledger!Open, OpenReservations, Reserved, ReservationState
  <2>5. ClosedClean'
    BY <2>1 DEF InflightDrained, Outcome, DrainGoto, Drainer
  <2>6. Ledger!Drain
    BY <1>0, <2>2, <2>4, <2>5 DEF Ledger!Drain
  <2> QED
    BY <2>6 DEF Ledger!LedgerNext
<1> QED
  BY <1>1, <1>2, <1>3

LEMMA StepIsLedgerStep ==
  Base /\ InflightCounts /\ Shutdown /\ Shutdown' /\ [Next]_vars
    => [Ledger!LedgerNext]_(Ledger!ledgerVars)
<1> SUFFICES ASSUME Base, InflightCounts, Shutdown, Shutdown', [Next]_vars
             PROVE  [Ledger!LedgerNext]_(Ledger!ledgerVars)
  OBVIOUS
<1>1. ASSUME UNCHANGED <<closed, reservation, drainPc, failed>>
      PROVE  [Ledger!LedgerNext]_(Ledger!ledgerVars)
  BY <1>1 DEF Ledger!ledgerVars
<1>2. CASE UNCHANGED vars \/ Rest
  BY <1>1, <1>2 DEF Rest, vars, callVars, drainVars
<1>3. ASSUME NEW t \in Thread, RecordStep(t)
      PROVE  UNCHANGED <<closed, reservation, drainPc, failed>>
  BY <1>3 DEF RecordStep, CheckActive, Enqueue, drainVars
<1>4. CASE Deliver
  BY <1>1, <1>4 DEF Deliver, callVars, drainVars
<1> QED
  BY <1>1, <1>2, <1>3, <1>4, CallIsLedgerStep, DrainIsLedgerStep DEF Next

\* The reservations of the mark3labs adapter keep to the ledger: taken on a
\* live recorder only, settled once, none open behind a Close that returns nil.
THEOREM RecorderImplements == Spec => ImplementsReservations
<1>1. Init => Ledger!LedgerInit
  BY StageValues DEF Init, Ledger!LedgerInit, Drainer
<1> QED
  BY <1>1, StepIsLedgerStep, BaseCorrect, CounterIsExact, ShutdownCorrect, PTL
     DEF Spec, ImplementsReservations, Ledger!LedgerSpec
=============================================================================
