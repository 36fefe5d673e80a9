---------------------------- MODULE PrivacyQueue ----------------------------
(***************************************************************************)
(* The privacy queue of the recorder (src/armatureanalytics/queue.go): a   *)
(* bounded FIFO of event candidates that tool-call goroutines fill and one *)
(* worker goroutine at a time drains, finalizes and sends in batches.      *)
(*                                                                         *)
(* Every critical section of q.mu is one action; what the code does with   *)
(* the mutex released (finalizing, sending, closing done channels, adding  *)
(* to the drop counter) is a step of its own.                              *)
(*                                                                         *)
(* notifyLocked closes q.signal and replaces it, so it wakes whoever took  *)
(* the old channel before: a goroutine in "listening" holds the current    *)
(* channel, and a waiting goroutine outside it holds a closed one.         *)
(*                                                                         *)
(* Left out: log lines and warnedDrop, which only silences one of them.    *)
(***************************************************************************)
EXTENDS Integers, Sequences, FiniteSets, Functions

CONSTANTS
    Item,           \* candidates; each is the argument of one enqueue call
    Flusher,        \* goroutines that call flush
    Closer,         \* goroutines that call close
    Worker,         \* goroutines that "go q.run()" may start
    Cancellable,    \* callers whose context may end while they are inside
    Capacity,       \* PrivacyQueueCapacity
    BatchSize,      \* PrivacyQueueBatchSize
    AwaitDelivery   \* Config.Delivery = DeliveryAwait

Drainer == Flusher \cup Closer
Caller  == Item \cup Drainer

ASSUME QueueAssumption ==
    /\ Capacity \in Nat \ {0}
    /\ BatchSize \in Nat \ {0}
    /\ AwaitDelivery \in BOOLEAN
    /\ Cancellable \subseteq Caller
    /\ Item \cap Drainer = {}
    /\ Flusher \cap Closer = {}

VARIABLES
    pending,    \* q.pending
    running,    \* q.running
    accepting,  \* q.accepting
    listening,  \* callers that hold the channel now in q.signal
    pc,         \* where each caller is inside enqueue, flush or close
    victim,     \* victim[i]: the item that enqueue(i) pushed out, if any
    done,       \* items whose done channel is closed
    dropped,    \* the counter that onDrop increments
    cancelled,  \* callers whose context has ended
    workerAt,   \* where each goroutine is inside run
    batch,      \* batch[w]: claimed items that are not finished yet
    todo,       \* todo[w]: claimed items that are not finalized yet
    events,     \* events[w]: finalized items that go into the next POST
    ticket,     \* history: position of an item in the order of acceptance
    clock,      \* history: number of items accepted so far
    sent,       \* history: items handed to send, in order
    owed        \* history: items accepted when a drainer entered

callerVars == <<listening, pc, victim, dropped, cancelled, owed>>
workerVars == <<workerAt, batch, todo, events>>
vars == <<pending, running, accepting, done, ticket, clock, sent,
          callerVars, workerVars>>

ItemPC    == {"start", "waitRoom", "noteDrop", "awaitDone",
              "returned", "refused", "delivered", "gaveUp"}
DrainerPC == {"start", "check", "waiting", "drained", "gaveUp"}
WorkerPC  == {"none", "take", "finalize", "sending", "finish"}
Finished  == {"returned", "refused", "delivered", "gaveUp", "drained"}

Accepted == {i \in Item : ticket[i] > 0}
Evicted  == UNION {victim[i] : i \in Item}
Active   == {w \in Worker : workerAt[w] # "none"}
InBatch  == UNION {Range(batch[w]) : w \in Worker}
Goto(g, label) == pc' = [pc EXCEPT ![g] = label]
WorkerGoto(w, label) == workerAt' = [workerAt EXCEPT ![w] = label]

Init ==
    /\ pending = <<>>
    /\ running = FALSE
    /\ accepting = TRUE
    /\ listening = {}
    /\ pc = [g \in Caller |-> "start"]
    /\ victim = [i \in Item |-> {}]
    /\ done = {}
    /\ dropped = 0
    /\ cancelled = {}
    /\ workerAt = [w \in Worker |-> "none"]
    /\ batch = [w \in Worker |-> <<>>]
    /\ todo = [w \in Worker |-> <<>>]
    /\ events = [w \in Worker |-> <<>>]
    /\ ticket = [i \in Item |-> 0]
    /\ clock = 0
    /\ sent = <<>>
    /\ owed = [d \in Drainer |-> {}]

-----------------------------------------------------------------------------
(***************************************************************************)
(* Slips: wrong versions of the building blocks below, one missing check   *)
(* or wrong index each.  No specification uses them; they exist to confirm *)
(* that the properties at the end notice such a slip.                      *)
(***************************************************************************)
IdleButRunning    == pending = <<>>
NoNotify          == UNCHANGED listening
DropUncounted     == UNCHANGED dropped
CloseStaysOpen    == UNCHANGED accepting
PushOutNewest     == IF AwaitDelivery \/ Len(pending) < Capacity THEN {}
                     ELSE {pending[Len(pending)]}
WokenWithoutRecheck(i) ==
    AwaitDelivery => Len(pending) < Capacity \/ pc[i] = "waitRoom"
StartAnyway       == /\ running' = TRUE
                     /\ \E w \in Worker \ Active : WorkerGoto(w, "take")
RetireAnyway      == TRUE

-----------------------------------------------------------------------------
(* Building blocks *)

HasRoom == Len(pending) < Capacity
Idle    == ~running /\ pending = <<>>

\* notifyLocked: close(q.signal), then a fresh channel nobody holds.
Notify == listening' = {}

CountDrop     == dropped' = dropped + 1
Finish(S)     == done' = done \cup S
StopAccepting == accepting' = FALSE

\* A background append pushes the oldest item out of a full queue.
Overflows == ~AwaitDelivery /\ ~HasRoom
PushedOut == IF Overflows THEN {Head(pending)} ELSE {}

\* The loop of an awaiting enqueue ends only with room.
MayAppend(i) == AwaitDelivery => HasRoom

\* if !q.running { q.running = true; go q.run() }
StartWorker ==
    \/ /\ running
       /\ UNCHANGED <<running, workerAt>>
    \/ /\ ~running
       /\ running' = TRUE
       /\ \E w \in Worker \ Active : WorkerGoto(w, "take")

MayRetire    == pending = <<>>
Oldest(n)    == SubSeq(pending, 1, n)
Remaining(n) == SubSeq(pending, n + 1, Len(pending))

\* events = append(events, finalized...)
Join(w) == Append(events[w], Head(todo[w]))

\* safelyFinalize: the next item's events join the batch, or it has none
\* because the redaction callback dropped it or panicked.
SafelyFinalize(w) ==
    \/ events' = [events EXCEPT ![w] = Join(w)]
    \/ UNCHANGED events

-----------------------------------------------------------------------------
(* Contexts end at any moment while their caller is inside the queue. *)
Cancel(g) ==
    /\ g \in Cancellable \ cancelled
    /\ pc[g] \notin Finished
    /\ cancelled' = cancelled \cup {g}
    /\ UNCHANGED <<pending, running, accepting, done, ticket, clock, sent,
                   listening, pc, victim, dropped, owed, workerVars>>

-----------------------------------------------------------------------------
(* enqueue *)

\* About to lock q.mu at the top of enqueue, or again after a signal.
AtEnqueueLock(i) ==
    \/ pc[i] = "start"
    \/ pc[i] = "waitRoom" /\ i \notin listening

\* An awaiting caller finds the queue full and keeps the current signal.
WaitForRoom(i) ==
    /\ AtEnqueueLock(i)
    /\ AwaitDelivery
    /\ accepting
    /\ ~HasRoom
    /\ listening' = listening \cup {i}
    /\ Goto(i, "waitRoom")
    /\ UNCHANGED <<pending, running, accepting, done, ticket, clock, sent,
                   victim, dropped, cancelled, owed, workerVars>>

\* The context ends first: the candidate is counted as dropped.
GiveUpRoom(i) ==
    /\ pc[i] = "waitRoom"
    /\ i \in cancelled
    /\ listening' = listening \ {i}
    /\ Goto(i, "noteDrop")
    /\ UNCHANGED <<pending, running, accepting, done, ticket, clock, sent,
                   victim, dropped, cancelled, owed, workerVars>>

\* The queue was closed.
Refuse(i) ==
    /\ AtEnqueueLock(i)
    /\ ~accepting
    /\ Goto(i, "noteDrop")
    /\ UNCHANGED <<pending, running, accepting, done, ticket, clock, sent,
                   listening, victim, dropped, cancelled, owed, workerVars>>

\* The item joins the queue; a background caller makes room by pushing out
\* the oldest pending item.
Accept(i) ==
    /\ AtEnqueueLock(i)
    /\ accepting
    /\ MayAppend(i)
    /\ pending' = Append(IF Overflows THEN Tail(pending) ELSE pending, i)
    /\ victim' = [victim EXCEPT ![i] = PushedOut]
    /\ StartWorker
    /\ Notify
    /\ Goto(i, IF Overflows THEN "noteDrop"
               ELSE IF AwaitDelivery THEN "awaitDone" ELSE "returned")
    /\ clock' = clock + 1
    /\ ticket' = [ticket EXCEPT ![i] = clock + 1]
    /\ UNCHANGED <<accepting, done, sent, dropped, cancelled, owed,
                   batch, todo, events>>

\* After the unlock: finish what was pushed out, count the loss, return.
NoteDrop(i) ==
    /\ pc[i] = "noteDrop"
    /\ Finish(victim[i])
    /\ CountDrop
    /\ Goto(i, IF victim[i] = {} THEN "refused" ELSE "returned")
    /\ UNCHANGED <<pending, running, accepting, ticket, clock, sent,
                   listening, victim, cancelled, owed, workerVars>>

\* select { case <-item.done: case <-ctx.Done(): }
AwaitReturn(i) ==
    /\ pc[i] = "awaitDone"
    /\ \/ i \in done      /\ Goto(i, "delivered")
       \/ i \in cancelled /\ Goto(i, "gaveUp")
    /\ UNCHANGED <<pending, running, accepting, done, ticket, clock, sent,
                   listening, victim, dropped, cancelled, owed, workerVars>>

-----------------------------------------------------------------------------
(* run *)

\* Nothing pending: the worker retires.
Retire(w) ==
    /\ workerAt[w] = "take"
    /\ MayRetire
    /\ running' = FALSE
    /\ Notify
    /\ WorkerGoto(w, "none")
    /\ UNCHANGED <<pending, accepting, done, ticket, clock, sent,
                   pc, victim, dropped, cancelled, owed, batch, todo, events>>

\* Claim up to BatchSize of the oldest items.
Claim(w) ==
    /\ workerAt[w] = "take"
    /\ pending # <<>>
    /\ LET count == IF Len(pending) < BatchSize THEN Len(pending) ELSE BatchSize
       IN  /\ batch' = [batch EXCEPT ![w] = Oldest(count)]
           /\ todo' = [todo EXCEPT ![w] = Oldest(count)]
           /\ pending' = Remaining(count)
    /\ events' = [events EXCEPT ![w] = <<>>]
    /\ Notify
    /\ WorkerGoto(w, "finalize")
    /\ UNCHANGED <<running, accepting, done, ticket, clock, sent,
                   pc, victim, dropped, cancelled, owed>>

\* The next claimed item is finalized.
Finalize(w) ==
    /\ workerAt[w] = "finalize"
    /\ todo[w] # <<>>
    /\ todo' = [todo EXCEPT ![w] = Tail(todo[w])]
    /\ SafelyFinalize(w)
    /\ UNCHANGED <<pending, running, accepting, done, ticket, clock, sent,
                   callerVars, workerAt, batch>>

\* q.send begins.
StartSend(w) ==
    /\ workerAt[w] = "finalize"
    /\ todo[w] = <<>>
    /\ events[w] # <<>>
    /\ sent' = sent \o events[w]
    /\ events' = [events EXCEPT ![w] = <<>>]
    /\ WorkerGoto(w, "sending")
    /\ UNCHANGED <<pending, running, accepting, done, ticket, clock,
                   callerVars, batch, todo>>

\* No event survived finalization: no POST.
SkipSend(w) ==
    /\ workerAt[w] = "finalize"
    /\ todo[w] = <<>>
    /\ events[w] = <<>>
    /\ WorkerGoto(w, "finish")
    /\ UNCHANGED <<pending, running, accepting, done, ticket, clock, sent,
                   callerVars, batch, todo, events>>

\* q.send returns; an error goes to onError and changes nothing here.
SendReturns(w) ==
    /\ workerAt[w] = "sending"
    /\ WorkerGoto(w, "finish")
    /\ UNCHANGED <<pending, running, accepting, done, ticket, clock, sent,
                   callerVars, batch, todo, events>>

\* item.finish(), one claimed item after the other.
FinishItem(w) ==
    /\ workerAt[w] = "finish"
    /\ batch[w] # <<>>
    /\ Finish({Head(batch[w])})
    /\ batch' = [batch EXCEPT ![w] = Tail(batch[w])]
    /\ UNCHANGED <<pending, running, accepting, ticket, clock, sent,
                   callerVars, workerAt, todo, events>>

\* Lock, notify, unlock, next round.
Announce(w) ==
    /\ workerAt[w] = "finish"
    /\ batch[w] = <<>>
    /\ Notify
    /\ WorkerGoto(w, "take")
    /\ UNCHANGED <<pending, running, accepting, done, ticket, clock, sent,
                   pc, victim, dropped, cancelled, owed, batch, todo, events>>

-----------------------------------------------------------------------------
(* flush and close *)

CallFlush(d) ==
    /\ d \in Flusher
    /\ pc[d] = "start"
    /\ owed' = [owed EXCEPT ![d] = Accepted]
    /\ Goto(d, "check")
    /\ UNCHANGED <<pending, running, accepting, done, ticket, clock, sent,
                   listening, victim, dropped, cancelled, workerVars>>

CallClose(d) ==
    /\ d \in Closer
    /\ pc[d] = "start"
    /\ StopAccepting
    /\ Notify
    /\ owed' = [owed EXCEPT ![d] = Accepted]
    /\ Goto(d, "check")
    /\ UNCHANGED <<pending, running, done, ticket, clock, sent,
                   victim, dropped, cancelled, workerVars>>

\* About to lock q.mu in the loop of flush.
AtFlushLock(d) ==
    \/ pc[d] = "check"
    \/ pc[d] = "waiting" /\ d \notin listening

DrainDone(d) ==
    /\ AtFlushLock(d)
    /\ Idle
    /\ Goto(d, "drained")
    /\ UNCHANGED <<pending, running, accepting, done, ticket, clock, sent,
                   listening, victim, dropped, cancelled, owed, workerVars>>

DrainWait(d) ==
    /\ AtFlushLock(d)
    /\ ~Idle
    /\ listening' = listening \cup {d}
    /\ Goto(d, "waiting")
    /\ UNCHANGED <<pending, running, accepting, done, ticket, clock, sent,
                   victim, dropped, cancelled, owed, workerVars>>

DrainGiveUp(d) ==
    /\ pc[d] = "waiting"
    /\ d \in cancelled
    /\ listening' = listening \ {d}
    /\ Goto(d, "gaveUp")
    /\ UNCHANGED <<pending, running, accepting, done, ticket, clock, sent,
                   victim, dropped, cancelled, owed, workerVars>>

-----------------------------------------------------------------------------
EnqueueStep(i) == \/ WaitForRoom(i) \/ GiveUpRoom(i) \/ Refuse(i)
                  \/ Accept(i) \/ NoteDrop(i) \/ AwaitReturn(i)

RunStep(w) == \/ Retire(w) \/ Claim(w) \/ Finalize(w) \/ StartSend(w)
              \/ SkipSend(w) \/ SendReturns(w) \/ FinishItem(w) \/ Announce(w)

DrainStep(d) == DrainDone(d) \/ DrainWait(d) \/ DrainGiveUp(d)

\* Every call has returned and no worker is left: the system may rest.
Rest ==
    /\ \A g \in Caller : pc[g] \in Finished
    /\ Active = {}
    /\ UNCHANGED vars

Next ==
    \/ \E g \in Caller : Cancel(g)
    \/ \E i \in Item : EnqueueStep(i)
    \/ \E w \in Worker : RunStep(w)
    \/ \E d \in Drainer : CallFlush(d) \/ CallClose(d) \/ DrainStep(d)
    \/ Rest

Spec == Init /\ [][Next]_vars

(***************************************************************************)
(* A goroutine that is inside a call keeps running; whether a call is made *)
(* and whether a context ends is up to the environment.  SendReturns is    *)
(* fair because send gets a context with the delivery budget as deadline   *)
(* (timeoutCtx), Finalize on the assumption that customer callbacks return.*)
(***************************************************************************)
Fairness ==
    /\ \A i \in Item : WF_vars(pc[i] # "start" /\ EnqueueStep(i))
    /\ \A d \in Drainer : WF_vars(DrainStep(d))
    /\ \A w \in Worker : WF_vars(RunStep(w))

FairSpec == Spec /\ Fairness

-----------------------------------------------------------------------------
(* Properties *)

TypeOK ==
    /\ pending \in Seq(Item)
    /\ running \in BOOLEAN
    /\ accepting \in BOOLEAN
    /\ listening \subseteq Caller
    /\ pc \in [Caller -> ItemPC \cup DrainerPC]
    /\ victim \in [Item -> SUBSET Item]
    /\ done \subseteq Item
    /\ dropped \in Nat
    /\ cancelled \subseteq Cancellable
    /\ workerAt \in [Worker -> WorkerPC]
    /\ batch \in [Worker -> Seq(Item)]
    /\ todo \in [Worker -> Seq(Item)]
    /\ events \in [Worker -> Seq(Item)]
    /\ ticket \in [Item -> Nat]
    /\ clock \in Nat
    /\ sent \in Seq(Item)
    /\ owed \in [Drainer -> SUBSET Item]

\* One worker at a time, and it exists exactly while q.running says so: the
\* check and the "go q.run()" of enqueue cannot race the worker's retirement.
SingleWorker ==
    /\ running <=> Active # {}
    /\ \A v, w \in Active : v = w

\* A pending item always has a worker that will come back for it: enqueue
\* starts one, and the worker retires only on an empty queue.
NothingStranded == pending # <<>> => running

\* The queue never holds more than PrivacyQueueCapacity items, although
\* awaiting callers decide to append after being woken in a crowd.
Bounded == Len(pending) <= Capacity

\* No lost wakeup: a caller that still holds the current signal has nothing
\* to do yet.  An enqueuer sleeps only while the open queue is full, a
\* drainer only while there is work.
NoLostWakeup ==
    /\ \A i \in Item \cap listening :
           pc[i] = "waitRoom" /\ accepting /\ ~HasRoom
    /\ \A d \in Drainer \cap listening : pc[d] = "waiting" /\ ~Idle

\* DeliveryAwait: callers that are woken in a crowd never over-fill the queue,
\* since nothing would be pushed out for them, and a call that returns because
\* its item is done returns after the worker handled that item.
AwaitedIsHandled ==
    AwaitDelivery =>
        /\ Bounded
        /\ \A i \in Item : pc[i] = "delivered" =>
               i \in Accepted \ (Range(pending) \cup InBatch)

\* flush or close that returns nil leaves nothing behind of what was accepted
\* before it was called: every such item is finished or was pushed out.
DrainCoversEarlier ==
    \A d \in Drainer : pc[d] = "drained" => owed[d] \subseteq done \cup Evicted

\* The drop counter counts every lost candidate once: those pushed out, those
\* refused after close, and those whose context ended before there was room;
\* it lags only by callers between the unlock and noteDrop.
DropsCounted ==
    dropped + Cardinality({i \in Item : pc[i] = "noteDrop"})
        = Cardinality(Evicted)
          + Cardinality({i \in Item : \/ pc[i] = "refused"
                                      \/ pc[i] = "noteDrop" /\ victim[i] = {}})

\* Once close has returned nil nothing reaches send any more, whatever
\* enqueue calls race it.
QuietAfterClose ==
    [][(\E d \in Closer : pc[d] = "drained") => sent' = sent]_vars

\* Every call of enqueue, flush and close returns, whether it waits for room,
\* for its item or for the drain, and whoever else waits for the same signal.
CallsReturn ==
    /\ \A i \in Item : pc[i] \in {"waitRoom", "noteDrop", "awaitDone"}
                            ~> pc[i] \in Finished
    /\ \A d \in Drainer : pc[d] \in {"check", "waiting"} ~> pc[d] \in Finished

-----------------------------------------------------------------------------
(* The queue implements DeliveryPipe. *)

\* What the worker holds; there is never more than one worker.
InHand ==
    IF Active = {} THEN <<>> ELSE batch[CHOOSE w \in Active : TRUE]

Pipe == INSTANCE DeliveryPipe WITH
    Handful  <- BatchSize,
    Lossless <- AwaitDelivery,
    line     <- pending,
    hand     <- InHand,
    shipped  <- \A w \in Worker : workerAt[w] # "finalize",
    wire     <- sent,
    settled  <- done \ Evicted,
    lost     <- Evicted,
    number   <- ticket,
    open     <- accepting

\* Callers of the queue may rely on DeliveryPipe: goroutines, signals, worker
\* restarts and the unlocked window between a batch's steps add no behaviour.
ImplementsPipe == Pipe!PipeSpec
=============================================================================
