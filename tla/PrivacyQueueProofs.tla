------------------------- MODULE PrivacyQueueProofs -------------------------
(* Theorems about PrivacyQueue, for every value of its constants. *)
EXTENDS PrivacyQueue, SequenceTheorems, FiniteSetTheorems, TLAPS

USE DEF Goto, WorkerGoto, Caller, Drainer

\* Types.
LEMMA InitType == Init => TypeOK
  <1> SUFFICES ASSUME Init PROVE TypeOK
    OBVIOUS
  <1>1. pc \in [Caller -> ItemPC \cup DrainerPC]
    BY DEF Init, ItemPC
  <1>2. workerAt \in [Worker -> WorkerPC]
    BY DEF Init, WorkerPC
  <1>3. /\ victim \in [Item -> SUBSET Item]
        /\ owed \in [Drainer -> SUBSET Item]
        /\ ticket \in [Item -> Nat]
    BY DEF Init
  <1>4. /\ pending \in Seq(Item) /\ sent \in Seq(Item)
        /\ batch \in [Worker -> Seq(Item)]
        /\ todo \in [Worker -> Seq(Item)]
        /\ events \in [Worker -> Seq(Item)]
    BY DEF Init
  <1> QED
    BY <1>1, <1>2, <1>3, <1>4 DEF Init, TypeOK

LEMMA CancelType == ASSUME TypeOK, NEW g \in Caller, Cancel(g) PROVE TypeOK'
  BY DEF TypeOK, Cancel, workerVars

\* An append finds the queue full only if it may push out the oldest.
LEMMA FullOverflows ==
  ASSUME NEW i \in Item, Accept(i) PROVE Overflows <=> ~HasRoom
BY DEF Accept, MayAppend, Overflows

LEMMA EnqueueType ==
  ASSUME TypeOK, NEW i \in Item, EnqueueStep(i) PROVE TypeOK'
  <1>1. CASE WaitForRoom(i)
    BY <1>1 DEF TypeOK, WaitForRoom, workerVars, ItemPC
  <1>2. CASE GiveUpRoom(i)
    BY <1>2 DEF TypeOK, GiveUpRoom, workerVars, ItemPC
  <1>3. CASE Refuse(i)
    BY <1>3 DEF TypeOK, Refuse, workerVars, ItemPC
  <1>4. CASE Accept(i)
    <2>1. pending # <<>> => Head(pending) \in Item /\ Tail(pending) \in Seq(Item)
      BY DEF TypeOK
    <2>2. ~HasRoom => pending # <<>>
      BY QueueAssumption DEF HasRoom
    <2>3. pending' \in Seq(Item) /\ PushedOut \subseteq Item
      <3>1. Overflows => pending # <<>>
        BY <2>2 DEF Overflows
      <3> QED
        BY <1>4, <2>1, <3>1 DEF TypeOK, Accept, PushedOut
    <2>4. running' \in BOOLEAN /\ workerAt' \in [Worker -> WorkerPC]
      BY <1>4 DEF TypeOK, Accept, StartWorker, WorkerPC, Active
    <2>5. victim' \in [Item -> SUBSET Item] /\ pc' \in [Caller -> ItemPC \cup DrainerPC]
      BY <1>4, <2>3 DEF TypeOK, Accept, ItemPC
    <2> QED
      BY <1>4, <2>3, <2>4, <2>5 DEF TypeOK, Accept, Notify
  <1>5. CASE NoteDrop(i)
    BY <1>5 DEF TypeOK, NoteDrop, Finish, CountDrop, workerVars, ItemPC
  <1>6. CASE AwaitReturn(i)
    BY <1>6 DEF TypeOK, AwaitReturn, workerVars, ItemPC
  <1> QED
    BY <1>1, <1>2, <1>3, <1>4, <1>5, <1>6 DEF EnqueueStep

\* What Claim takes and what it leaves.
LEMMA ClaimSplits ==
  ASSUME TypeOK, NEW w \in Worker, Claim(w)
  PROVE  \E n \in 1..Len(pending) :
            /\ n \in 1..BatchSize
            /\ batch' = [batch EXCEPT ![w] = Oldest(n)]
            /\ todo' = [todo EXCEPT ![w] = Oldest(n)]
            /\ pending' = Remaining(n)
            /\ Oldest(n) \in Seq(Item) /\ Len(Oldest(n)) = n
            /\ Remaining(n) \in Seq(Item) /\ Len(Remaining(n)) = Len(pending) - n
  <1> DEFINE n == IF Len(pending) < BatchSize THEN Len(pending) ELSE BatchSize
  <1>1. pending \in Seq(Item) /\ pending # <<>> /\ Len(pending) \in Nat \ {0}
    BY DEF TypeOK, Claim
  <1>2. n \in 1..Len(pending) /\ n \in 1..BatchSize
    BY <1>1, QueueAssumption
  <1>3. batch' = [batch EXCEPT ![w] = Oldest(n)] /\ todo' = [todo EXCEPT ![w] = Oldest(n)]
        /\ pending' = Remaining(n)
    BY DEF Claim
  <1> HIDE DEF n
  <1>4. Oldest(n) \in Seq(Item) /\ Len(Oldest(n)) = n
    BY <1>1, <1>2 DEF Oldest
  <1>5. Remaining(n) \in Seq(Item) /\ Len(Remaining(n)) = Len(pending) - n
    BY <1>1, <1>2 DEF Remaining
  <1> QED
    BY <1>2, <1>3, <1>4, <1>5

LEMMA RunType ==
  ASSUME TypeOK, NEW w \in Worker, RunStep(w) PROVE TypeOK'
  <1> USE DEF callerVars, WorkerPC
  <1>1. CASE Retire(w)
    BY <1>1 DEF TypeOK, Retire, Notify
  <1>2. CASE Claim(w)
    <2>1. PICK n \in 1..Len(pending) :
              /\ batch' = [batch EXCEPT ![w] = Oldest(n)]
              /\ todo' = [todo EXCEPT ![w] = Oldest(n)]
              /\ pending' = Remaining(n)
              /\ Oldest(n) \in Seq(Item) /\ Len(Oldest(n)) = n
              /\ Remaining(n) \in Seq(Item)
              /\ Len(Remaining(n)) = Len(pending) - n
      BY <1>2, ClaimSplits
    <2>2. /\ pending' \in Seq(Item)
          /\ batch' \in [Worker -> Seq(Item)]
          /\ todo' \in [Worker -> Seq(Item)]
      BY <2>1 DEF TypeOK
    <2>3. events' \in [Worker -> Seq(Item)] /\ workerAt' \in [Worker -> WorkerPC]
      BY <1>2 DEF TypeOK, Claim
    <2> QED
      BY <1>2, <2>2, <2>3 DEF TypeOK, Claim, Notify
  <1>3. CASE Finalize(w)
    <2>1. Head(todo[w]) \in Item /\ Tail(todo[w]) \in Seq(Item)
      BY <1>3 DEF TypeOK, Finalize
    <2>2. Join(w) \in Seq(Item)
      BY <2>1 DEF TypeOK, Join
    <2> QED
      BY <1>3, <2>1, <2>2 DEF TypeOK, Finalize, SafelyFinalize
  <1>4. CASE StartSend(w)
    BY <1>4 DEF TypeOK, StartSend
  <1>5. CASE SkipSend(w)
    BY <1>5 DEF TypeOK, SkipSend
  <1>6. CASE SendReturns(w)
    BY <1>6 DEF TypeOK, SendReturns
  <1>7. CASE FinishItem(w)
    <2>1. Head(batch[w]) \in Item /\ Tail(batch[w]) \in Seq(Item)
      BY <1>7 DEF TypeOK, FinishItem
    <2> QED
      BY <1>7, <2>1 DEF TypeOK, FinishItem, Finish
  <1>8. CASE Announce(w)
    BY <1>8 DEF TypeOK, Announce, Notify
  <1> QED
    BY <1>1, <1>2, <1>3, <1>4, <1>5, <1>6, <1>7, <1>8 DEF RunStep

LEMMA DrainType ==
  ASSUME TypeOK, NEW d \in Drainer, CallFlush(d) \/ CallClose(d) \/ DrainStep(d)
  PROVE  TypeOK'
  <1> USE DEF workerVars, DrainerPC
  <1>1. CASE CallFlush(d)
    BY <1>1 DEF TypeOK, CallFlush, Accepted
  <1>2. CASE CallClose(d)
    BY <1>2 DEF TypeOK, CallClose, Accepted, Notify, StopAccepting
  <1>3. CASE DrainDone(d)
    BY <1>3 DEF TypeOK, DrainDone
  <1>4. CASE DrainWait(d)
    BY <1>4 DEF TypeOK, DrainWait
  <1>5. CASE DrainGiveUp(d)
    BY <1>5 DEF TypeOK, DrainGiveUp
  <1> QED
    BY <1>1, <1>2, <1>3, <1>4, <1>5 DEF DrainStep

\* The variables hold values of their types in every reachable state.
THEOREM TypeCorrect == Spec => []TypeOK
  <1>1. Init => TypeOK
    BY InitType
  <1>2. TypeOK /\ [Next]_vars => TypeOK'
    <2> SUFFICES ASSUME TypeOK, [Next]_vars PROVE TypeOK'
      OBVIOUS
    <2>1. CASE UNCHANGED vars
      BY <2>1 DEF TypeOK, vars, callerVars, workerVars
    <2>2. CASE Rest
      BY <2>2 DEF TypeOK, Rest, vars, callerVars, workerVars
    <2> QED
      BY <2>1, <2>2, CancelType, EnqueueType, RunType, DrainType DEF Next
  <1> QED
    BY <1>1, <1>2, PTL DEF Spec

-----------------------------------------------------------------------------
(* Control: workers, wakeups, capacity.  The conjunction is inductive with  *)
(* TypeOK; none of the parts is on its own, because enqueue relies on       *)
(* "running" to know that a worker will return for what it appends.         *)
Control == SingleWorker /\ NothingStranded /\ Bounded /\ NoLostWakeup

LEMMA InitControl == Init => Control
  BY QueueAssumption DEF Init, Control, SingleWorker, NothingStranded,
     Bounded, NoLostWakeup, Active

\* Steps that leave the queue, the signal and the set of live workers alone
\* and do not move a listening caller.
LEMMA ControlFrame ==
  ASSUME Control, UNCHANGED <<pending, running, accepting, listening>>,
         Active' = Active,
         \A g \in listening : pc'[g] = pc[g]
  PROVE  Control'
  BY DEF Control, SingleWorker, NothingStranded, Bounded, NoLostWakeup,
     HasRoom, Idle

\* After a broadcast nobody listens, so only the first three parts matter.
LEMMA ControlNotify ==
  ASSUME Notify, SingleWorker', NothingStranded', Bounded'
  PROVE  Control'
  BY DEF Control, NoLostWakeup, Notify

LEMMA EnqueueControl ==
  ASSUME TypeOK, Control, NEW i \in Item, EnqueueStep(i) PROVE Control'
  <1> USE DEF TypeOK, workerVars
  <1>1. CASE WaitForRoom(i)
    <2>1. UNCHANGED <<pending, running, accepting, workerAt>> /\ Active' = Active
      BY <1>1 DEF WaitForRoom, Active
    <2>2. NoLostWakeup'
      <3>1. \A j \in Item \cap listening' :
               pc'[j] = "waitRoom" /\ accepting' /\ ~HasRoom'
        BY <1>1, <2>1 DEF WaitForRoom, Control, NoLostWakeup, HasRoom
      <3>2. \A d \in Drainer \cap listening' : pc'[d] = "waiting" /\ ~Idle'
        BY <1>1, <2>1, QueueAssumption
           DEF WaitForRoom, Control, NoLostWakeup, Idle, QueueAssumption
      <3> QED
        BY <3>1, <3>2 DEF NoLostWakeup
    <2> QED
      BY <2>1, <2>2 DEF Control, SingleWorker, NothingStranded, Bounded
  <1>2. CASE GiveUpRoom(i)
    <2>1. UNCHANGED <<pending, running, accepting, workerAt>> /\ Active' = Active
      BY <1>2 DEF GiveUpRoom, Active
    <2>2. NoLostWakeup'
      BY <1>2, <2>1 DEF GiveUpRoom, Control, NoLostWakeup, HasRoom, Idle
    <2> QED
      BY <2>1, <2>2 DEF Control, SingleWorker, NothingStranded, Bounded
  <1>3. CASE Refuse(i)
    <2>1. i \notin listening
      BY <1>3 DEF Refuse, AtEnqueueLock, Control, NoLostWakeup
    <2> QED
      BY <1>3, <2>1, ControlFrame DEF Refuse, Active
  <1>4. CASE Accept(i)
    <2>1. Notify
      BY <1>4 DEF Accept
    <2>2. SingleWorker' /\ running'
      <3>1. CASE running
        BY <1>4, <3>1 DEF Accept, StartWorker, Control, SingleWorker, Active
      <3>2. CASE ~running
        <4>1. Active = {}
          BY <3>2 DEF Control, SingleWorker
        <4>2. PICK w \in Worker : WorkerGoto(w, "take") /\ running'
          BY <1>4, <3>2 DEF Accept, StartWorker
        <4>3. Active' = {w}
          BY <4>1, <4>2 DEF Active
        <4> QED
          BY <4>2, <4>3 DEF SingleWorker
      <3> QED
        BY <3>1, <3>2
    <2>3. Bounded'
      <3>1. CASE HasRoom
        BY <1>4, <3>1, QueueAssumption, FullOverflows
           DEF Accept, HasRoom, Bounded, QueueAssumption
      <3>2. CASE ~HasRoom
        <4>1. Len(pending) = Capacity /\ pending # <<>>
          BY <3>2, QueueAssumption DEF HasRoom, Control, Bounded, QueueAssumption
        <4>2. Tail(pending) \in Seq(Item) /\ Len(Tail(pending)) = Len(pending) - 1
          BY <4>1
        <4>3. pending' = Append(Tail(pending), i)
          BY <1>4, <3>2, FullOverflows DEF Accept
        <4> QED
          BY <4>1, <4>2, <4>3, QueueAssumption DEF Bounded, QueueAssumption
      <3> QED
        BY <3>1, <3>2
    <2> QED
      BY <2>1, <2>2, <2>3, ControlNotify DEF NothingStranded
  <1>5. CASE NoteDrop(i)
    BY <1>5, ControlFrame DEF NoteDrop, Active, Control, NoLostWakeup
  <1>6. CASE AwaitReturn(i)
    BY <1>6, ControlFrame DEF AwaitReturn, Active, Control, NoLostWakeup
  <1> QED
    BY <1>1, <1>2, <1>3, <1>4, <1>5, <1>6 DEF EnqueueStep

LEMMA RunControl ==
  ASSUME TypeOK, Control, NEW w \in Worker, RunStep(w) PROVE Control'
  <1> USE DEF TypeOK, callerVars
  <1>1. CASE Retire(w)
    <2>1. Active = {w}
      BY <1>1 DEF Retire, Control, SingleWorker, Active
    <2>2. Active' = {}
      BY <1>1, <2>1 DEF Retire, Active
    <2>3. SingleWorker' /\ NothingStranded' /\ Bounded' /\ Notify
      BY <1>1, <2>2 DEF Retire, MayRetire, Control, SingleWorker,
         NothingStranded, Bounded
    <2> QED
      BY <2>3, ControlNotify
  <1>2. CASE Claim(w)
    <2>1. Active' = Active /\ w \in Active /\ UNCHANGED running /\ Notify
      BY <1>2 DEF Claim, Active
    <2>2. SingleWorker' /\ running'
      BY <2>1 DEF Control, SingleWorker
    <2>3. PICK n \in 1..Len(pending) : /\ pending' = Remaining(n)
                                       /\ Len(Remaining(n)) = Len(pending) - n
      BY <1>2, ClaimSplits
    <2>4. Bounded'
      BY <2>3, QueueAssumption DEF Control, Bounded, QueueAssumption
    <2> QED
      BY <2>1, <2>2, <2>4, ControlNotify DEF NothingStranded
  <1>3. CASE Finalize(w)
    BY <1>3, ControlFrame DEF Finalize, Active
  <1>4. CASE StartSend(w)
    BY <1>4, ControlFrame DEF StartSend, Active
  <1>5. CASE SkipSend(w)
    BY <1>5, ControlFrame DEF SkipSend, Active
  <1>6. CASE SendReturns(w)
    BY <1>6, ControlFrame DEF SendReturns, Active
  <1>7. CASE FinishItem(w)
    BY <1>7, ControlFrame DEF FinishItem, Active
  <1>8. CASE Announce(w)
    <2>1. Active' = Active /\ UNCHANGED <<pending, running>> /\ Notify
      BY <1>8 DEF Announce, Active
    <2> QED
      BY <2>1, ControlNotify DEF Control, SingleWorker, NothingStranded, Bounded
  <1> QED
    BY <1>1, <1>2, <1>3, <1>4, <1>5, <1>6, <1>7, <1>8 DEF RunStep

LEMMA DrainControl ==
  ASSUME TypeOK, Control, NEW d \in Drainer,
         CallFlush(d) \/ CallClose(d) \/ DrainStep(d)
  PROVE  Control'
  <1> USE DEF TypeOK, workerVars
  <1>0. d \notin Item
    BY QueueAssumption DEF QueueAssumption
  <1>1. CASE CallFlush(d)
    BY <1>1, <1>0, ControlFrame DEF CallFlush, Active, Control, NoLostWakeup
  <1>2. CASE CallClose(d)
    <2>1. Active' = Active /\ UNCHANGED <<pending, running>> /\ Notify
      BY <1>2 DEF CallClose, Active
    <2> QED
      BY <2>1, ControlNotify DEF Control, SingleWorker, NothingStranded, Bounded
  <1>3. CASE DrainDone(d)
    <2>1. d \notin listening
      BY <1>3 DEF DrainDone, AtFlushLock, Control, NoLostWakeup
    <2> QED
      BY <1>3, <2>1, ControlFrame DEF DrainDone, Active
  <1>4. CASE DrainWait(d)
    <2>1. UNCHANGED <<pending, running, accepting, workerAt>> /\ Active' = Active
      BY <1>4 DEF DrainWait, Active
    <2>2. NoLostWakeup'
      <3>1. \A j \in Item \cap listening' :
               pc'[j] = "waitRoom" /\ accepting' /\ ~HasRoom'
        BY <1>4, <1>0, <2>1 DEF DrainWait, Control, NoLostWakeup, HasRoom
      <3>2. \A e \in Drainer \cap listening' : pc'[e] = "waiting" /\ ~Idle'
        BY <1>4, <2>1 DEF DrainWait, Control, NoLostWakeup, Idle
      <3> QED
        BY <3>1, <3>2 DEF NoLostWakeup
    <2> QED
      BY <2>1, <2>2 DEF Control, SingleWorker, NothingStranded, Bounded
  <1>5. CASE DrainGiveUp(d)
    <2>1. UNCHANGED <<pending, running, accepting, workerAt>> /\ Active' = Active
      BY <1>5 DEF DrainGiveUp, Active
    <2>2. NoLostWakeup'
      BY <1>5, <2>1 DEF DrainGiveUp, Control, NoLostWakeup, HasRoom, Idle
    <2> QED
      BY <2>1, <2>2 DEF Control, SingleWorker, NothingStranded, Bounded
  <1> QED
    BY <1>1, <1>2, <1>3, <1>4, <1>5 DEF DrainStep

LEMMA NextControl == TypeOK /\ Control /\ [Next]_vars => Control'
  <1> SUFFICES ASSUME TypeOK, Control, [Next]_vars PROVE Control'
    OBVIOUS
  <1>1. CASE UNCHANGED vars
    BY <1>1, ControlFrame DEF vars, callerVars, workerVars, Active
  <1>2. CASE Rest
    BY <1>2, ControlFrame DEF Rest, vars, callerVars, workerVars, Active
  <1>3. ASSUME NEW g \in Caller, Cancel(g) PROVE Control'
    BY <1>3, ControlFrame DEF Cancel, workerVars, Active
  <1> QED
    BY <1>1, <1>2, <1>3, EnqueueControl, RunControl, DrainControl DEF Next

THEOREM ControlCorrect == Spec => []Control
  <1>1. Init => Control
    BY InitControl
  <1> QED
    BY <1>1, NextControl, TypeCorrect, PTL DEF Spec

\* At most one goroutine runs the loop of run, and exactly while q.running.
THEOREM WorkerIsSingle == Spec => []SingleWorker
  BY ControlCorrect, PTL DEF Control

\* Whatever is pending has a worker that will come back for it.
THEOREM NothingIsStranded == Spec => []NothingStranded
  BY ControlCorrect, PTL DEF Control

\* The queue stays within its capacity in both delivery modes.
THEOREM QueueIsBounded == Spec => []Bounded
  BY ControlCorrect, PTL DEF Control

\* No broadcast is missing: whoever still waits has nothing to do yet.
THEOREM NoWakeupIsLost == Spec => []NoLostWakeup
  BY ControlCorrect, PTL DEF Control

-----------------------------------------------------------------------------
(* Range of the sequence operations the queue uses. *)

LEMMA RangeAppend ==
  ASSUME NEW S, NEW s \in Seq(S), NEW e
  PROVE  Range(Append(s, e)) = Range(s) \cup {e}
  <1>1. /\ DOMAIN Append(s, e) = 1..(Len(s) + 1)
        /\ \A k \in 1..Len(s) : Append(s, e)[k] = s[k]
        /\ Append(s, e)[Len(s) + 1] = e
    OBVIOUS
  <1>2. DOMAIN s = 1..Len(s) /\ Len(s) \in Nat
    OBVIOUS
  <1>3. \A k \in 1..(Len(s) + 1) : k \in 1..Len(s) \/ k = Len(s) + 1
    BY <1>2
  <1>4. Len(s) + 1 \in 1..(Len(s) + 1) /\ 1..Len(s) \subseteq 1..(Len(s) + 1)
    BY <1>2
  <1> QED
    BY <1>1, <1>2, <1>3, <1>4 DEF Range

LEMMA RangeHeadTail ==
  ASSUME NEW S, NEW s \in Seq(S), s # <<>>
  PROVE  Range(s) = {Head(s)} \cup Range(Tail(s))
  <1>1. /\ Len(s) \in Nat \ {0} /\ DOMAIN s = 1..Len(s)
        /\ DOMAIN Tail(s) = 1..(Len(s) - 1)
        /\ Head(s) = s[1]
        /\ \A k \in 1..(Len(s) - 1) : Tail(s)[k] = s[k + 1]
    OBVIOUS
  <1>2. \A k \in 1..Len(s) :
            k = 1 \/ (k - 1 \in 1..(Len(s) - 1) /\ (k - 1) + 1 = k)
    BY <1>1
  <1>3. \A k \in 1..(Len(s) - 1) : k + 1 \in 1..Len(s)
    BY <1>1
  <1>4. Range(s) \subseteq {Head(s)} \cup Range(Tail(s))
    <2> SUFFICES ASSUME NEW k \in 1..Len(s)
                 PROVE  s[k] = Head(s) \/ \E j \in DOMAIN Tail(s) : s[k] = Tail(s)[j]
      BY <1>1 DEF Range
    <2>1. CASE k = 1
      BY <1>1, <2>1
    <2>2. CASE k # 1
      <3>1. k - 1 \in 1..(Len(s) - 1) /\ (k - 1) + 1 = k
        BY <1>2, <2>2
      <3>2. Tail(s)[k - 1] = s[k]
        BY <1>1, <3>1
      <3> QED
        BY <1>1, <3>1, <3>2
    <2> QED
      BY <2>1, <2>2
  <1>5. {Head(s)} \cup Range(Tail(s)) \subseteq Range(s)
    BY <1>1, <1>3 DEF Range
  <1> QED
    BY <1>4, <1>5

LEMMA RangeSplit ==
  ASSUME NEW S, NEW s \in Seq(S), NEW n \in 1..Len(s)
  PROVE  Range(s) = Range(SubSeq(s, 1, n)) \cup Range(SubSeq(s, n + 1, Len(s)))
  <1> DEFINE front == SubSeq(s, 1, n)
             back  == SubSeq(s, n + 1, Len(s))
  <1>1. Len(s) \in Nat /\ 1 \in 1..(Len(s) + 1)
        /\ n \in (1 - 1)..Len(s) /\ Len(s) \in n..Len(s)
    OBVIOUS
  <1>2. front \o back = SubSeq(s, 1, Len(s))
    BY <1>1, ConcatAdjacentSubSeq
  <1>3. SubSeq(s, 1, Len(s)) = s
    BY SubSeqFull
  <1>4. front \in Seq(S) /\ back \in Seq(S)
    BY <1>1
  <1> HIDE DEF front, back
  <1>5. Range(front \o back) = Range(front) \cup Range(back)
    BY <1>4, RangeConcatenation
  <1>6. Range(s) = Range(front) \cup Range(back)
    BY <1>2, <1>3, <1>5, Zenon
  <1> QED
    BY <1>6 DEF front, back

LEMMA RangeEmpty == Range(<<>>) = {}
  BY DEF Range

-----------------------------------------------------------------------------
(* Close: once a closer was called nothing is admitted, and an idle queue   *)
(* that admits nothing stays idle.                                          *)
Closing ==
    \A d \in Closer : /\ pc[d] # "start" => ~accepting
                      /\ pc[d] = "drained" => Idle

LEMMA InitClosing == Init => Closing
  BY QueueAssumption DEF Init, Closing

\* Steps that neither move a closer nor touch what Closing speaks of.
LEMMA ClosingFrame ==
  ASSUME Closing, UNCHANGED <<pending, running, accepting>>,
         \A d \in Closer : pc'[d] = pc[d]
  PROVE  Closing'
  BY DEF Closing, Idle

LEMMA NextClosing == TypeOK /\ Control /\ Closing /\ [Next]_vars => Closing'
  <1> SUFFICES ASSUME TypeOK, Control, Closing, [Next]_vars PROVE Closing'
    OBVIOUS
  <1> USE DEF TypeOK
  <1>0. Closer \cap Item = {}
    BY QueueAssumption DEF QueueAssumption
  <1>1. CASE UNCHANGED vars \/ Rest
    BY <1>1, ClosingFrame DEF Rest, vars, callerVars
  <1>2. ASSUME NEW g \in Caller, Cancel(g) PROVE Closing'
    BY <1>2, ClosingFrame DEF Cancel
  <1>3. ASSUME NEW i \in Item, EnqueueStep(i) PROVE Closing'
    <2>1. \A d \in Closer : pc'[d] = pc[d]
      BY <1>3, <1>0 DEF EnqueueStep, WaitForRoom, GiveUpRoom, Refuse, Accept,
         NoteDrop, AwaitReturn
    <2>2. CASE Accept(i)
      BY <2>1, <2>2 DEF Accept, Closing
    <2>3. CASE ~Accept(i)
      BY <1>3, <2>1, <2>3, ClosingFrame DEF EnqueueStep, WaitForRoom,
         GiveUpRoom, Refuse, NoteDrop, AwaitReturn
    <2> QED
      BY <2>2, <2>3
  <1>4. ASSUME NEW w \in Worker, RunStep(w) PROVE Closing'
    <2>1. UNCHANGED <<pc, accepting>>
      BY <1>4 DEF RunStep, Retire, Claim, Finalize, StartSend, SkipSend,
         SendReturns, FinishItem, Announce, callerVars
    <2>2. CASE Idle
      <3>1. Active = {}
        BY <2>2 DEF Idle, Control, SingleWorker
      <3> QED
        BY <1>4, <3>1 DEF Active, RunStep, Retire, Claim, Finalize, StartSend,
           SkipSend, SendReturns, FinishItem, Announce
    <2> QED
      BY <2>1, <2>2 DEF Closing
  <1>5. ASSUME NEW d \in Drainer, CallFlush(d) \/ CallClose(d) \/ DrainStep(d)
        PROVE  Closing'
    <2>1. CASE CallFlush(d)
      BY <2>1, QueueAssumption, ClosingFrame DEF CallFlush, QueueAssumption
    <2>2. CASE CallClose(d)
      BY <2>2 DEF CallClose, StopAccepting, Closing, Idle
    <2>3. CASE DrainStep(d)
      BY <2>3 DEF DrainStep, DrainDone, DrainWait, DrainGiveUp, AtFlushLock,
         Closing, Idle
    <2> QED
      BY <1>5, <2>1, <2>2, <2>3
  <1> QED
    BY <1>1, <1>2, <1>3, <1>4, <1>5 DEF Next

LEMMA ClosingCorrect == Spec => []Closing
  <1>1. Init => Closing
    BY InitClosing
  <1> QED
    BY <1>1, NextClosing, TypeCorrect, ControlCorrect, PTL DEF Spec

\* Nothing reaches send after close has returned nil.
THEOREM CloseIsQuiet == Spec => QuietAfterClose
  <1>1. TypeOK /\ Control /\ Closing /\ [Next]_vars =>
            [(\E d \in Closer : pc[d] = "drained") => sent' = sent]_vars
    <2> SUFFICES ASSUME TypeOK, Control, Closing, [Next]_vars,
                        \E d \in Closer : pc[d] = "drained"
                 PROVE  sent' = sent
      OBVIOUS
    <2>1. Active = {}
      BY DEF Closing, Idle, Control, SingleWorker
    <2>2. ASSUME NEW w \in Worker, RunStep(w) PROVE FALSE
      BY <2>1, <2>2 DEF Active, RunStep, Retire, Claim, Finalize, StartSend,
         SkipSend, SendReturns, FinishItem, Announce
    <2>3. ASSUME NEW i \in Item, EnqueueStep(i) PROVE sent' = sent
      BY <2>3 DEF EnqueueStep, WaitForRoom, GiveUpRoom, Refuse, Accept,
         NoteDrop, AwaitReturn
    <2>4. ASSUME NEW d \in Drainer, CallFlush(d) \/ CallClose(d) \/ DrainStep(d)
          PROVE  sent' = sent
      BY <2>4 DEF CallFlush, CallClose, DrainStep, DrainDone, DrainWait, DrainGiveUp
    <2>5. ASSUME NEW g \in Caller, Cancel(g) PROVE sent' = sent
      BY <2>5 DEF Cancel
    <2> QED
      BY <2>2, <2>3, <2>4, <2>5 DEF Next, Rest, vars
  <1> QED
    BY <1>1, TypeCorrect, ControlCorrect, ClosingCorrect, PTL
       DEF Spec, QuietAfterClose

-----------------------------------------------------------------------------
(* Cover: every accepted item is pending, claimed, finished or pushed out.  *)
(* With an idle queue only the last two remain.                             *)
Fresh ==
    \A i \in Item : pc[i] \in {"start", "waitRoom"} =>
                        ticket[i] = 0 /\ victim[i] = {}

HandsEmpty ==
    \A w \in Worker : workerAt[w] \in {"none", "take"} => batch[w] = <<>>

Covered == Accepted \subseteq Range(pending) \cup InBatch \cup done \cup Evicted

OwedIsAccepted == \A d \in Drainer : owed[d] \subseteq Accepted

Cover == Fresh /\ HandsEmpty /\ Covered /\ OwedIsAccepted /\ DrainCoversEarlier

LEMMA InitCover == Init => Cover
  BY QueueAssumption DEF Init, Cover, Fresh, HandsEmpty, Covered, Accepted,
     OwedIsAccepted, DrainCoversEarlier

\* Most steps leave alone what Cover speaks of, finish items at most, and
\* move no enqueuer back and no drainer to "drained".
LEMMA CoverFrame ==
  ASSUME TypeOK, Cover,
         UNCHANGED <<pending, batch, ticket, victim, owed>>,
         done \subseteq done',
         \A w \in Worker : workerAt'[w] \in {"none", "take"}
                               => workerAt[w] \in {"none", "take"} \/ batch[w] = <<>>,
         \A i \in Item : pc'[i] \in {"start", "waitRoom"}
                             => pc[i] \in {"start", "waitRoom"},
         \A d \in Drainer : pc'[d] = "drained" => pc[d] = "drained"
  PROVE  Cover'
  <1>1. Accepted' = Accepted /\ Evicted' = Evicted /\ InBatch' = InBatch
    BY DEF Accepted, Evicted, InBatch
  <1>2. Fresh' /\ HandsEmpty'
    BY DEF Cover, Fresh, HandsEmpty
  <1>3. Covered' /\ OwedIsAccepted' /\ DrainCoversEarlier'
    BY <1>1 DEF Cover, Covered, OwedIsAccepted, DrainCoversEarlier
  <1> QED
    BY <1>2, <1>3 DEF Cover

\* What Accept does to the sets that the invariants speak of.
LEMMA AcceptMoves ==
  ASSUME TypeOK, Control, Cover, NEW i \in Item, Accept(i)
  PROVE  /\ i \notin Accepted
         /\ Accepted' = Accepted \cup {i}
         /\ Evicted' = Evicted \cup PushedOut
         /\ InBatch' = InBatch
         /\ PushedOut \subseteq Range(pending)
         /\ \/ /\ HasRoom
               /\ PushedOut = {}
               /\ pending' = Append(pending, i)
            \/ /\ ~HasRoom
               /\ pending # <<>>
               /\ PushedOut = {Head(pending)}
               /\ pending' = Append(Tail(pending), i)
<1> USE DEF TypeOK
<1>1. pc[i] \in {"start", "waitRoom"} /\ victim[i] = {} /\ ticket[i] = 0
  BY DEF Accept, AtEnqueueLock, Cover, Fresh
<1>2. /\ UNCHANGED batch
      /\ ticket' = [ticket EXCEPT ![i] = clock + 1]
      /\ victim' = [victim EXCEPT ![i] = PushedOut]
      /\ pending' = Append(IF HasRoom THEN pending ELSE Tail(pending), i)
  BY FullOverflows DEF Accept
<1>3. i \notin Accepted /\ Accepted' = Accepted \cup {i}
  BY <1>1, <1>2 DEF Accepted
<1>4. Evicted' = Evicted \cup PushedOut
  <2>1. \A j \in Item : victim'[j] = IF j = i THEN PushedOut ELSE victim[j]
    BY <1>2
  <2>2. \A e : e \in Evicted <=> \E j \in Item : e \in victim[j]
    BY DEF Evicted
  <2>3. \A e : e \in Evicted' <=> \E j \in Item : e \in victim'[j]
    BY DEF Evicted
  <2>4. \A e : e \in Evicted' <=> e \in Evicted \/ e \in PushedOut
    BY <1>1, <2>1, <2>2, <2>3
  <2> QED
    BY <2>4
<1>5. InBatch' = InBatch
  BY <1>2 DEF InBatch
<1>6. CASE HasRoom
  BY <1>2, <1>3, <1>4, <1>5, <1>6, FullOverflows DEF PushedOut
<1>7. CASE ~HasRoom
  <2>1. pending # <<>>
    BY <1>7, QueueAssumption DEF HasRoom, QueueAssumption
  <2>2. PushedOut = {Head(pending)} /\ Head(pending) \in Range(pending)
    BY <1>7, <2>1, RangeHeadTail, FullOverflows DEF PushedOut
  <2> QED
    BY <1>2, <1>3, <1>4, <1>5, <1>7, <2>1, <2>2
<1> QED
  BY <1>6, <1>7
LEMMA AcceptCover ==
  ASSUME TypeOK, Control, Cover, NEW i \in Item, Accept(i) PROVE Cover'
  <1> USE DEF TypeOK
  <1>0. i \notin Drainer
    BY QueueAssumption DEF QueueAssumption
  <1>1. /\ Accepted' = Accepted \cup {i}
        /\ Evicted' = Evicted \cup PushedOut
        /\ InBatch' = InBatch
    BY AcceptMoves
  <1>2. /\ UNCHANGED <<batch, done, owed>>
        /\ ticket' = [ticket EXCEPT ![i] = clock + 1]
        /\ victim' = [victim EXCEPT ![i] = PushedOut]
        /\ \A g \in Caller : g # i => pc'[g] = pc[g]
        /\ pc'[i] \in {"noteDrop", "awaitDone", "returned"}
    BY DEF Accept
  <1>3. Range(pending) \cup {i} \subseteq Range(pending') \cup PushedOut
    <2>1. CASE HasRoom
      <3>1. pending \in Seq(Item) /\ pending' = Append(pending, i)
        BY <2>1, AcceptMoves
      <3>2. Range(pending') = Range(pending) \cup {i}
        BY <3>1, RangeAppend
      <3> QED
        BY <3>2
    <2>2. CASE ~HasRoom
      <3>1. /\ pending # <<>> /\ PushedOut = {Head(pending)}
            /\ pending' = Append(Tail(pending), i)
        BY <2>2, AcceptMoves
      <3>2. Range(pending) = {Head(pending)} \cup Range(Tail(pending))
        BY <3>1, RangeHeadTail
      <3>3. Tail(pending) \in Seq(Item)
        BY <3>1
      <3>4. Range(pending') = Range(Tail(pending)) \cup {i}
        BY <3>1, <3>3, RangeAppend
      <3> QED
        BY <3>1, <3>2, <3>4
    <2> QED
      BY <2>1, <2>2
  <1>4. Covered'
    BY <1>1, <1>2, <1>3 DEF Cover, Covered
  <1>5. Fresh'
    BY <1>2 DEF Cover, Fresh
  <1>6. HandsEmpty'
    <2>1. \A w \in Worker : \/ workerAt'[w] = workerAt[w]
                            \/ workerAt[w] = "none" /\ workerAt'[w] = "take"
      <3>1. CASE workerAt' = workerAt
        BY <3>1
      <3>2. CASE \E v \in Worker \ Active : WorkerGoto(v, "take")
        <4>1. PICK v \in Worker \ Active :
                  workerAt' = [workerAt EXCEPT ![v] = "take"]
          BY <3>2
        <4>2. workerAt[v] = "none"
          BY DEF Active
        <4> QED
          BY <4>1, <4>2
      <3> QED
        BY <3>1, <3>2 DEF Accept, StartWorker
    <2> QED
      BY <1>2, <2>1 DEF Cover, HandsEmpty
  <1>7. OwedIsAccepted' /\ DrainCoversEarlier'
    BY <1>0, <1>1, <1>2 DEF Cover, OwedIsAccepted, DrainCoversEarlier
  <1> QED
    BY <1>4, <1>5, <1>6, <1>7 DEF Cover

LEMMA ClaimCover ==
  ASSUME TypeOK, Cover, NEW w \in Worker, Claim(w) PROVE Cover'
  <1> USE DEF TypeOK
  <1>1. PICK n \in 1..Len(pending) :
            /\ batch' = [batch EXCEPT ![w] = Oldest(n)]
            /\ pending' = Remaining(n)
    BY ClaimSplits
  <1>2. Range(pending) = Range(Oldest(n)) \cup Range(pending')
    BY <1>1, RangeSplit DEF Oldest, Remaining
  <1>3. batch[w] = <<>>
    BY DEF Claim, Cover, HandsEmpty
  <1>4. InBatch' = InBatch \cup Range(Oldest(n))
    <2>1. \A v \in Worker : Range(batch'[v]) =
              IF v = w THEN Range(Oldest(n)) ELSE Range(batch[v])
      BY <1>1
    <2>2. Range(batch[w]) = {}
      BY <1>3, RangeEmpty
    <2>3. \A e : e \in InBatch <=> \E v \in Worker : e \in Range(batch[v])
      BY DEF InBatch
    <2>4. \A e : e \in InBatch' <=> \E v \in Worker : e \in Range(batch'[v])
      BY DEF InBatch
    <2>5. \A e : e \in InBatch' <=> e \in InBatch \/ e \in Range(Oldest(n))
      BY <2>1, <2>2, <2>3, <2>4, Zenon
    <2> QED
      BY <2>5
  <1>5. UNCHANGED <<ticket, victim, done, owed, pc>>
    BY DEF Claim
  <1>6. Covered'
    BY <1>2, <1>4, <1>5 DEF Cover, Covered, Accepted, Evicted
  <1>7. HandsEmpty'
    BY <1>1 DEF Claim, Cover, HandsEmpty
  <1>8. Fresh' /\ OwedIsAccepted' /\ DrainCoversEarlier'
    BY <1>5 DEF Cover, Fresh, OwedIsAccepted, DrainCoversEarlier, Accepted, Evicted
  <1> QED
    BY <1>6, <1>7, <1>8 DEF Cover

LEMMA FinishCover ==
  ASSUME TypeOK, Cover, NEW w \in Worker, FinishItem(w) PROVE Cover'
  <1> USE DEF TypeOK
  <1>1. /\ batch[w] # <<>> /\ batch' = [batch EXCEPT ![w] = Tail(batch[w])]
        /\ done' = done \cup {Head(batch[w])}
        /\ UNCHANGED <<pending, ticket, victim, owed, pc, workerAt>>
    BY DEF FinishItem, Finish, callerVars
  <1>2. Range(batch[w]) = {Head(batch[w])} \cup Range(Tail(batch[w]))
    BY <1>1, RangeHeadTail
  <1>3. InBatch \cup done \subseteq InBatch' \cup done'
    <2>1. \A v \in Worker : Range(batch'[v]) =
              IF v = w THEN Range(Tail(batch[w])) ELSE Range(batch[v])
      BY <1>1
    <2>2. \A e : e \in InBatch <=> \E v \in Worker : e \in Range(batch[v])
      BY DEF InBatch
    <2>3. \A e : e \in InBatch' <=> \E v \in Worker : e \in Range(batch'[v])
      BY DEF InBatch
    <2>4. \A e \in InBatch : e \in InBatch' \/ e = Head(batch[w])
      BY <1>2, <2>1, <2>2, <2>3
    <2> QED
      BY <1>1, <2>4
  <1>4. Covered'
    BY <1>1, <1>3 DEF Cover, Covered, Accepted, Evicted
  <1>5. HandsEmpty'
    BY <1>1 DEF FinishItem, Cover, HandsEmpty
  <1>6. Fresh' /\ OwedIsAccepted' /\ DrainCoversEarlier'
    BY <1>1 DEF Cover, Fresh, OwedIsAccepted, DrainCoversEarlier, Accepted, Evicted
  <1> QED
    BY <1>4, <1>5, <1>6 DEF Cover

\* The step in which flush returns nil: the queue is idle, so no worker is
\* live, no batch is in hand, and what was owed is finished or pushed out.
LEMMA DrainDoneCover ==
  ASSUME TypeOK, Control, Cover, NEW d \in Drainer, DrainDone(d) PROVE Cover'
  <1> USE DEF TypeOK
  <1>1. pending = <<>> /\ Active = {}
    BY DEF DrainDone, Idle, Control, SingleWorker
  <1>2. Range(pending) = {} /\ InBatch = {}
    BY <1>1, RangeEmpty DEF Active, InBatch, Cover, HandsEmpty
  <1>3. Accepted \subseteq done \cup Evicted
    BY <1>2 DEF Cover, Covered
  <1>4. UNCHANGED <<pending, batch, ticket, victim, owed, done, workerAt>>
    BY DEF DrainDone, workerVars
  <1>5. Accepted' = Accepted /\ Evicted' = Evicted /\ InBatch' = InBatch
    BY <1>4 DEF Accepted, Evicted, InBatch
  <1>6. d \notin Item
    BY QueueAssumption DEF QueueAssumption
  <1>7. Fresh'
    BY <1>4, <1>6 DEF DrainDone, Cover, Fresh
  <1>8. HandsEmpty' /\ Covered' /\ OwedIsAccepted'
    BY <1>4, <1>5 DEF Cover, HandsEmpty, Covered, OwedIsAccepted
  <1>9. DrainCoversEarlier'
    BY <1>3, <1>4, <1>5 DEF Cover, OwedIsAccepted, DrainCoversEarlier
  <1> QED
    BY <1>7, <1>8, <1>9 DEF Cover

\* The step in which flush or close begins.
LEMMA CallCover ==
  ASSUME TypeOK, Cover, NEW d \in Drainer, CallFlush(d) \/ CallClose(d)
  PROVE  Cover'
  <1> USE DEF TypeOK
  <1>1. /\ UNCHANGED <<pending, batch, ticket, victim, done, workerAt>>
        /\ owed' = [owed EXCEPT ![d] = Accepted]
        /\ pc' = [pc EXCEPT ![d] = "check"]
    BY DEF CallFlush, CallClose, workerVars
  <1>2. Accepted' = Accepted /\ Evicted' = Evicted /\ InBatch' = InBatch
    BY <1>1 DEF Accepted, Evicted, InBatch
  <1>3. d \notin Item
    BY QueueAssumption DEF QueueAssumption
  <1>4. Fresh'
    BY <1>1, <1>3 DEF Cover, Fresh
  <1>5. HandsEmpty' /\ Covered' /\ OwedIsAccepted' /\ DrainCoversEarlier'
    BY <1>1, <1>2 DEF Cover, HandsEmpty, Covered, OwedIsAccepted, DrainCoversEarlier
  <1> QED
    BY <1>4, <1>5 DEF Cover

LEMMA NextCover == TypeOK /\ Control /\ Cover /\ [Next]_vars => Cover'
  <1> SUFFICES ASSUME TypeOK, Control, Cover, [Next]_vars PROVE Cover'
    OBVIOUS
  <1> USE DEF TypeOK, callerVars, workerVars
  <1>0. Item \cap Drainer = {}
    BY QueueAssumption DEF QueueAssumption
  <1>1. CASE UNCHANGED vars \/ Rest
    BY <1>1, CoverFrame DEF Rest, vars
  <1>2. ASSUME NEW g \in Caller, Cancel(g) PROVE Cover'
    BY <1>2, CoverFrame DEF Cancel
  <1>3. ASSUME NEW i \in Item, EnqueueStep(i) PROVE Cover'
    <2>1. CASE WaitForRoom(i) \/ GiveUpRoom(i) \/ Refuse(i)
      BY <1>0, <2>1, CoverFrame DEF WaitForRoom, GiveUpRoom, Refuse, AtEnqueueLock
    <2>2. CASE NoteDrop(i) \/ AwaitReturn(i)
      BY <1>0, <2>2, CoverFrame DEF NoteDrop, AwaitReturn, Finish
    <2> QED
      BY <1>3, <2>1, <2>2, AcceptCover DEF EnqueueStep
  <1>4. ASSUME NEW w \in Worker, RunStep(w) PROVE Cover'
    <2>1. CASE Retire(w)
      BY <2>1, CoverFrame DEF Retire
    <2>2. CASE Finalize(w) \/ StartSend(w) \/ SkipSend(w) \/ SendReturns(w)
      BY <2>2, CoverFrame DEF Finalize, StartSend, SkipSend, SendReturns
    <2>3. CASE Announce(w)
      BY <2>3, CoverFrame DEF Announce
    <2> QED
      BY <1>4, <2>1, <2>2, <2>3, ClaimCover, FinishCover DEF RunStep
  <1>5. ASSUME NEW d \in Drainer, CallFlush(d) \/ CallClose(d) \/ DrainStep(d)
        PROVE  Cover'
    <2>1. CASE DrainWait(d) \/ DrainGiveUp(d)
      BY <1>0, <2>1, CoverFrame DEF DrainWait, DrainGiveUp
    <2> QED
      BY <1>5, <2>1, CallCover, DrainDoneCover DEF DrainStep
  <1> QED
    BY <1>1, <1>2, <1>3, <1>4, <1>5 DEF Next

\* flush or close that returns nil has left nothing behind of what was
\* accepted before it was called.
THEOREM DrainIsComplete == Spec => []DrainCoversEarlier
  <1>1. Init => Cover
    BY InitCover
  <1>2. Cover => DrainCoversEarlier
    BY DEF Cover
  <1> QED
    BY <1>1, <1>2, NextCover, TypeCorrect, ControlCorrect, PTL DEF Spec

-----------------------------------------------------------------------------
(* Custody: an accepted candidate is in one place at a time.  It waits in   *)
(* the queue or in the worker's batch, once, or it is finished or pushed    *)
(* out; what was refused or never admitted is in none of these places.      *)
Custody ==
    /\ IsInjective(pending)
    /\ \A w \in Worker : IsInjective(batch[w])
    /\ Range(pending) \cap InBatch = {}
    /\ Range(pending) \cup InBatch \subseteq Accepted \ (Evicted \cup done)
    /\ Evicted \cup done \subseteq Accepted

LEMMA InjectiveAppend ==
  ASSUME NEW S, NEW s \in Seq(S), NEW e, IsInjective(s), e \notin Range(s)
  PROVE  IsInjective(Append(s, e))
<1>1. /\ DOMAIN Append(s, e) = 1..(Len(s) + 1)
      /\ \A k \in 1..Len(s) : Append(s, e)[k] = s[k]
      /\ Append(s, e)[Len(s) + 1] = e
      /\ DOMAIN s = 1..Len(s) /\ Len(s) \in Nat
  OBVIOUS
<1>2. \A k \in 1..(Len(s) + 1) : k \in 1..Len(s) \/ k = Len(s) + 1
  BY <1>1
<1>3. \A k \in 1..Len(s) : s[k] # e
  BY <1>1 DEF Range
<1> QED
  BY <1>1, <1>2, <1>3 DEF IsInjective

LEMMA InjectiveTail ==
  ASSUME NEW S, NEW s \in Seq(S), s # <<>>, IsInjective(s)
  PROVE  IsInjective(Tail(s)) /\ Head(s) \notin Range(Tail(s))
<1>1. /\ Len(s) \in Nat \ {0} /\ DOMAIN s = 1..Len(s)
      /\ DOMAIN Tail(s) = 1..(Len(s) - 1)
      /\ Head(s) = s[1]
      /\ \A k \in 1..(Len(s) - 1) : Tail(s)[k] = s[k + 1]
  OBVIOUS
<1>2. \A k \in 1..(Len(s) - 1) : k + 1 \in 1..Len(s) /\ k + 1 # 1
  BY <1>1
<1>3. \A j, k \in 1..(Len(s) - 1) : s[j + 1] = s[k + 1] => j = k
  <2> SUFFICES ASSUME NEW j \in 1..(Len(s) - 1), NEW k \in 1..(Len(s) - 1),
                      s[j + 1] = s[k + 1]
               PROVE  j = k
    OBVIOUS
  <2>1. j + 1 = k + 1
    BY <1>1, <1>2 DEF IsInjective
  <2> QED
    BY <2>1
<1>4. IsInjective(Tail(s))
  BY <1>1, <1>3 DEF IsInjective
<1>5. 1 \in 1..Len(s)
  BY <1>1
<1>6. \A k \in 1..(Len(s) - 1) : s[k + 1] # s[1]
  BY <1>1, <1>2, <1>5 DEF IsInjective
<1>7. Head(s) \notin Range(Tail(s))
  BY <1>1, <1>6 DEF Range
<1> QED
  BY <1>4, <1>7

LEMMA InjectiveSplit ==
  ASSUME NEW S, NEW s \in Seq(S), NEW n \in 1..Len(s), IsInjective(s)
  PROVE  /\ IsInjective(SubSeq(s, 1, n))
         /\ IsInjective(SubSeq(s, n + 1, Len(s)))
         /\ Range(SubSeq(s, 1, n)) \cap Range(SubSeq(s, n + 1, Len(s))) = {}
<1> DEFINE front == SubSeq(s, 1, n)
           back  == SubSeq(s, n + 1, Len(s))
<1>1. /\ DOMAIN s = 1..Len(s) /\ Len(s) \in Nat /\ n \in Nat
      /\ DOMAIN front = 1..n
      /\ \A k \in 1..n : front[k] = s[k]
      /\ DOMAIN back = 1..(Len(s) - n)
      /\ \A k \in 1..(Len(s) - n) : back[k] = s[k + n]
  <2>1. Len(s) \in Nat /\ n \in Nat /\ DOMAIN s = 1..Len(s)
    OBVIOUS
  <2>2. DOMAIN front = 1..n /\ \A k \in 1..n : front[k] = s[k]
    OBVIOUS
  <2>3. DOMAIN back = 1..(Len(s) - n) /\ \A k \in 1..(Len(s) - n) : back[k] = s[k + n]
    OBVIOUS
  <2> QED
    BY <2>1, <2>2, <2>3
<1> HIDE DEF front, back
<1>2. \A k \in 1..n : k \in 1..Len(s)
  OBVIOUS
<1>3. \A k \in 1..(Len(s) - n) : k + n \in 1..Len(s) /\ k + n \notin 1..n
  BY <1>1
<1>4. \A j, k \in 1..(Len(s) - n) : s[j + n] = s[k + n] => j = k
  <2> SUFFICES ASSUME NEW j \in 1..(Len(s) - n), NEW k \in 1..(Len(s) - n),
                      s[j + n] = s[k + n]
               PROVE  j = k
    OBVIOUS
  <2>1. j + n = k + n
    BY <1>1, <1>3 DEF IsInjective
  <2> QED
    BY <2>1, <1>1
<1>5. IsInjective(front)
  BY <1>1, <1>2 DEF IsInjective
<1>6. IsInjective(back)
  <2>1. \A j, k \in 1..(Len(s) - n) : back[j] = back[k] => j = k
    BY <1>1, <1>4
  <2> QED
    BY <1>1, <2>1, Zenon DEF IsInjective
<1>7. \A j \in 1..n, k \in 1..(Len(s) - n) : front[j] # back[k]
  <2> SUFFICES ASSUME NEW j \in 1..n, NEW k \in 1..(Len(s) - n), s[j] = s[k + n]
               PROVE  FALSE
    BY <1>1
  <2>1. j = k + n
    BY <1>1, <1>2, <1>3 DEF IsInjective
  <2> QED
    BY <2>1, <1>3
<1>8. Range(front) \cap Range(back) = {}
  BY <1>1, <1>7 DEF Range
<1> QED
  BY <1>5, <1>6, <1>8 DEF front, back

LEMMA InitCustody == Init => Custody
  BY RangeEmpty DEF Init, Custody, IsInjective, InBatch, Accepted, Evicted

\* Only the live worker has anything in hand.
LEMMA OneHand ==
  ASSUME Control, HandsEmpty, NEW w \in Worker, workerAt[w] # "none"
  PROVE  /\ \A v \in Worker : v # w => batch[v] = <<>>
         /\ InBatch = Range(batch[w])
<1>1. \A v \in Worker : v # w => batch[v] = <<>>
  BY DEF Control, SingleWorker, Active, HandsEmpty
<1>2. \A v \in Worker : v # w => Range(batch[v]) = {}
  BY <1>1, RangeEmpty
<1> QED
  BY <1>1, <1>2 DEF InBatch

\* Steps that move no candidate, and finish at most what was pushed out.
LEMMA CustodyFrame ==
  ASSUME Custody, UNCHANGED <<pending, batch, ticket, victim>>,
         done \subseteq done', done' \subseteq done \cup Evicted
  PROVE  Custody'
<1>1. Accepted' = Accepted /\ Evicted' = Evicted /\ InBatch' = InBatch
  BY DEF Accepted, Evicted, InBatch
<1>2. IsInjective(pending)' /\ \A w \in Worker : IsInjective(batch'[w])
  BY DEF Custody
<1>3. /\ Range(pending') \cap InBatch' = {}
      /\ Range(pending') \cup InBatch' \subseteq Accepted' \ (Evicted' \cup done')
      /\ Evicted' \cup done' \subseteq Accepted'
  BY <1>1 DEF Custody
<1> QED
  BY <1>2, <1>3 DEF Custody

LEMMA AcceptCustody ==
  ASSUME TypeOK, Control, Cover, Custody, NEW i \in Item, Accept(i)
  PROVE  Custody'
<1> USE DEF TypeOK
<1>1. /\ i \notin Accepted
      /\ Accepted' = Accepted \cup {i}
      /\ Evicted' = Evicted \cup PushedOut
      /\ InBatch' = InBatch
      /\ PushedOut \subseteq Range(pending)
  BY AcceptMoves
<1>2. UNCHANGED <<batch, done>>
  BY DEF Accept
<1>3. i \notin Range(pending) \cup InBatch \cup Evicted \cup done
  BY <1>1 DEF Custody
<1>4. /\ IsInjective(pending')
      /\ Range(pending') \subseteq (Range(pending) \ PushedOut) \cup {i}
  <2>1. CASE HasRoom
    <3>1. pending' = Append(pending, i) /\ PushedOut = {} /\ pending \in Seq(Item)
      BY <2>1, AcceptMoves
    <3>2. Range(pending') = Range(pending) \cup {i}
      BY <3>1, RangeAppend
    <3>3. IsInjective(pending')
      BY <3>1, <1>3, InjectiveAppend DEF Custody
    <3> QED
      BY <3>1, <3>2, <3>3
  <2>2. CASE ~HasRoom
    <3>1. /\ pending' = Append(Tail(pending), i) /\ PushedOut = {Head(pending)}
          /\ pending # <<>> /\ pending \in Seq(Item)
      BY <2>2, AcceptMoves
    <3>2. Tail(pending) \in Seq(Item)
      BY <3>1
    <3>3. Range(pending) = {Head(pending)} \cup Range(Tail(pending))
      BY <3>1, RangeHeadTail
    <3>4. IsInjective(Tail(pending)) /\ Head(pending) \notin Range(Tail(pending))
      BY <3>1, InjectiveTail DEF Custody
    <3>5. Range(pending') = Range(Tail(pending)) \cup {i}
      BY <3>1, <3>2, RangeAppend
    <3>6. i \notin Range(Tail(pending))
      BY <1>3, <3>3
    <3>7. IsInjective(pending')
      BY <3>1, <3>2, <3>4, <3>6, InjectiveAppend
    <3> QED
      BY <3>1, <3>3, <3>4, <3>5, <3>7
  <2> QED
    BY <2>1, <2>2
<1>5. \A w \in Worker : IsInjective(batch'[w])
  BY <1>2 DEF Custody
<1>6. /\ Range(pending') \cap InBatch' = {}
      /\ Range(pending') \cup InBatch' \subseteq Accepted' \ (Evicted' \cup done')
      /\ Evicted' \cup done' \subseteq Accepted'
  BY <1>1, <1>2, <1>3, <1>4 DEF Custody
<1> QED
  BY <1>4, <1>5, <1>6 DEF Custody

LEMMA ClaimCustody ==
  ASSUME TypeOK, Control, Cover, Custody, NEW w \in Worker, Claim(w)
  PROVE  Custody'
<1> USE DEF TypeOK
<1>1. PICK n \in 1..Len(pending) :
          /\ batch' = [batch EXCEPT ![w] = Oldest(n)]
          /\ pending' = Remaining(n)
  BY ClaimSplits
<1>2. Range(pending) = Range(Oldest(n)) \cup Range(pending')
  BY <1>1, RangeSplit DEF Oldest, Remaining
<1>3. /\ IsInjective(Oldest(n)) /\ IsInjective(pending')
      /\ Range(Oldest(n)) \cap Range(pending') = {}
  BY <1>1, InjectiveSplit DEF Oldest, Remaining, Custody
<1>4. \A v \in Worker : v # w => batch[v] = <<>>
  BY OneHand DEF Claim, Cover
<1>5. InBatch' = Range(Oldest(n))
  <2>1. \A v \in Worker : Range(batch'[v]) = IF v = w THEN Range(Oldest(n)) ELSE {}
    BY <1>1, <1>4, RangeEmpty
  <2>2. \A e : e \in InBatch' <=> \E v \in Worker : e \in Range(batch'[v])
    BY DEF InBatch
  <2>3. \A e : e \in InBatch' <=> e \in Range(Oldest(n))
    BY <2>1, <2>2
  <2> QED
    BY <2>3
<1>6. Accepted' = Accepted /\ Evicted' = Evicted /\ done' = done
  BY DEF Claim, Accepted, Evicted
<1>7. \A v \in Worker : IsInjective(batch'[v])
  BY <1>1, <1>3 DEF Custody
<1>8. /\ Range(pending') \cap InBatch' = {}
      /\ Range(pending') \cup InBatch' \subseteq Accepted' \ (Evicted' \cup done')
      /\ Evicted' \cup done' \subseteq Accepted'
  BY <1>2, <1>3, <1>5, <1>6 DEF Custody
<1> QED
  BY <1>3, <1>7, <1>8 DEF Custody

LEMMA FinishCustody ==
  ASSUME TypeOK, Control, Cover, Custody, NEW w \in Worker, FinishItem(w)
  PROVE  /\ Custody'
         /\ Head(batch[w]) \notin Evicted
<1> USE DEF TypeOK
<1>1. /\ batch[w] # <<>> /\ batch' = [batch EXCEPT ![w] = Tail(batch[w])]
      /\ done' = done \cup {Head(batch[w])}
      /\ UNCHANGED <<pending, ticket, victim>>
  BY DEF FinishItem, Finish, callerVars
<1>2. Range(batch[w]) = {Head(batch[w])} \cup Range(Tail(batch[w]))
  BY <1>1, RangeHeadTail
<1>3. IsInjective(Tail(batch[w])) /\ Head(batch[w]) \notin Range(Tail(batch[w]))
  BY <1>1, InjectiveTail DEF Custody
<1>4. (\A v \in Worker : v # w => batch[v] = <<>>) /\ InBatch = Range(batch[w])
  BY OneHand DEF FinishItem, Cover
<1>5. InBatch' = Range(Tail(batch[w]))
  <2>1. \A v \in Worker :
            Range(batch'[v]) = IF v = w THEN Range(Tail(batch[w])) ELSE {}
    BY <1>1, <1>4, RangeEmpty
  <2>2. \A e : e \in InBatch' <=> \E v \in Worker : e \in Range(batch'[v])
    BY DEF InBatch
  <2>3. \A e : e \in InBatch' <=> e \in Range(Tail(batch[w]))
    BY <2>1, <2>2
  <2> QED
    BY <2>3
<1>6. Accepted' = Accepted /\ Evicted' = Evicted
  BY <1>1 DEF Accepted, Evicted
<1>7. \A v \in Worker : IsInjective(batch'[v])
  BY <1>1, <1>3 DEF Custody
<1>8. Head(batch[w]) \in InBatch
  BY <1>2, <1>4
<1>9. /\ Range(pending') \cap InBatch' = {}
      /\ Range(pending') \cup InBatch' \subseteq Accepted' \ (Evicted' \cup done')
      /\ Evicted' \cup done' \subseteq Accepted'
  BY <1>1, <1>2, <1>3, <1>4, <1>5, <1>6, <1>8 DEF Custody
<1>10. IsInjective(pending')
  BY <1>1 DEF Custody
<1> QED
  BY <1>7, <1>8, <1>9, <1>10 DEF Custody

LEMMA NextCustody ==
  TypeOK /\ Control /\ Cover /\ Custody /\ [Next]_vars => Custody'
<1> SUFFICES ASSUME TypeOK, Control, Cover, Custody, [Next]_vars PROVE Custody'
  OBVIOUS
<1> USE DEF callerVars, workerVars
<1>1. CASE UNCHANGED vars \/ Rest
  BY <1>1, CustodyFrame DEF Rest, vars
<1>2. ASSUME NEW g \in Caller, Cancel(g) PROVE Custody'
  BY <1>2, CustodyFrame DEF Cancel
<1>3. ASSUME NEW i \in Item, EnqueueStep(i) PROVE Custody'
  <2>1. CASE WaitForRoom(i) \/ GiveUpRoom(i) \/ Refuse(i) \/ AwaitReturn(i)
    BY <2>1, CustodyFrame DEF WaitForRoom, GiveUpRoom, Refuse, AwaitReturn
  <2>2. CASE NoteDrop(i)
    <3>1. victim[i] \subseteq Evicted
      BY DEF Evicted
    <3>2. /\ UNCHANGED <<pending, batch, ticket, victim>>
          /\ done' = done \cup victim[i]
      BY <2>2 DEF NoteDrop, Finish
    <3>3. done \subseteq done' /\ done' \subseteq done \cup Evicted
      BY <3>1, <3>2
    <3> QED
      BY <3>2, <3>3, CustodyFrame
  <2> QED
    BY <1>3, <2>1, <2>2, AcceptCustody DEF EnqueueStep
<1>4. ASSUME NEW w \in Worker, RunStep(w) PROVE Custody'
  <2>1. CASE \/ Retire(w) \/ Finalize(w) \/ StartSend(w) \/ SkipSend(w)
             \/ SendReturns(w) \/ Announce(w)
    BY <2>1, CustodyFrame DEF Retire, Finalize, StartSend, SkipSend,
       SendReturns, Announce
  <2> QED
    BY <1>4, <2>1, ClaimCustody, FinishCustody DEF RunStep
<1>5. ASSUME NEW d \in Drainer, CallFlush(d) \/ CallClose(d) \/ DrainStep(d)
      PROVE  Custody'
  BY <1>5, CustodyFrame DEF CallFlush, CallClose, DrainStep, DrainDone,
     DrainWait, DrainGiveUp
<1> QED
  BY <1>1, <1>2, <1>3, <1>4, <1>5 DEF Next

\* No candidate is in two places, and none comes back from the finished.
THEOREM CustodyCorrect == Spec => [](Cover /\ Custody)
<1>1. Init => Cover /\ Custody
  BY InitCover, InitCustody
<1> QED
  BY <1>1, NextCover, NextCustody, TypeCorrect, ControlCorrect, PTL DEF Spec

-----------------------------------------------------------------------------
(* Awaited delivery: whoever is told that its candidate is done was told so *)
(* by the worker.                                                           *)
Awaited ==
    /\ AwaitDelivery => Evicted = {}
    /\ \A i \in Item : /\ pc[i] \in {"awaitDone", "delivered"} => i \in Accepted
                       /\ pc[i] = "delivered" => i \in done

LEMMA InitAwaited == Init => Awaited
  BY DEF Init, Awaited, Evicted

LEMMA NextAwaited == TypeOK /\ Control /\ Cover /\ Awaited /\ [Next]_vars => Awaited'
<1> SUFFICES ASSUME TypeOK, Control, Cover, Awaited, [Next]_vars PROVE Awaited'
  OBVIOUS
<1> USE DEF TypeOK, callerVars, workerVars
<1>0. Item \cap Drainer = {}
  BY QueueAssumption DEF QueueAssumption
\* Enough for every step but Accept.
<1>1. ASSUME UNCHANGED <<ticket, victim>>, done \subseteq done',
             \A i \in Item : \/ pc'[i] = pc[i]
                             \/ pc'[i] \notin {"awaitDone", "delivered"}
                             \/ i \in done /\ pc[i] = "awaitDone"
      PROVE  Awaited'
  <2>1. Accepted' = Accepted /\ Evicted' = Evicted
    BY <1>1 DEF Accepted, Evicted
  <2> QED
    BY <1>1, <2>1 DEF Awaited
<1>2. CASE UNCHANGED vars \/ Rest
  BY <1>1, <1>2 DEF Rest, vars
<1>3. ASSUME NEW g \in Caller, Cancel(g) PROVE Awaited'
  BY <1>1, <1>3 DEF Cancel
<1>4. ASSUME NEW i \in Item, EnqueueStep(i) PROVE Awaited'
  <2>1. CASE \/ WaitForRoom(i) \/ GiveUpRoom(i) \/ Refuse(i) \/ NoteDrop(i)
             \/ AwaitReturn(i)
    BY <1>1, <2>1 DEF WaitForRoom, GiveUpRoom, Refuse, NoteDrop, Finish, AwaitReturn
  <2>2. CASE Accept(i)
    <3>1. Accepted' = Accepted \cup {i} /\ Evicted' = Evicted \cup PushedOut
      BY <2>2, AcceptMoves
    <3>2. AwaitDelivery => PushedOut = {}
      BY DEF PushedOut, Overflows
    <3>3. UNCHANGED done /\ pc'[i] # "delivered" /\ \A j \in Item : j # i => pc'[j] = pc[j]
      BY <2>2 DEF Accept
    <3> QED
      BY <3>1, <3>2, <3>3 DEF Awaited
  <2> QED
    BY <1>4, <2>1, <2>2 DEF EnqueueStep
<1>5. ASSUME NEW w \in Worker, RunStep(w) PROVE Awaited'
  BY <1>1, <1>5 DEF RunStep, Retire, Claim, Finalize, StartSend, SkipSend,
     SendReturns, FinishItem, Finish, Announce
<1>6. ASSUME NEW d \in Drainer, CallFlush(d) \/ CallClose(d) \/ DrainStep(d)
      PROVE  Awaited'
  BY <1>0, <1>1, <1>6 DEF CallFlush, CallClose, DrainStep, DrainDone,
     DrainWait, DrainGiveUp
<1> QED
  BY <1>2, <1>3, <1>4, <1>5, <1>6 DEF Next

\* DeliveryAwait: a call that returns because its item is done returns after
\* the worker handled that item, and a crowd of woken callers never over-fills
\* the queue.
THEOREM AwaitIsHonest == Spec => []AwaitedIsHandled
<1>1. Init => Awaited
  BY InitAwaited
<1>2. Control /\ Custody /\ Awaited => AwaitedIsHandled
  BY DEF Control, Custody, Awaited, AwaitedIsHandled
<1> QED
  BY <1>1, <1>2, NextAwaited, TypeCorrect, ControlCorrect, CustodyCorrect, PTL
     DEF Spec
-----------------------------------------------------------------------------
(* Tally: the drop counter.  Only finitely many calls have begun at any     *)
(* time, so the sets that DropsCounted compares are finite even when the    *)
(* set of candidates is not.                                                *)
Entered == {i \in Item : pc[i] # "start"}
Noting  == {i \in Item : pc[i] = "noteDrop"}
Outside == {i \in Item : \/ pc[i] = "refused"
                         \/ pc[i] = "noteDrop" /\ victim[i] = {}}

Tally ==
    /\ IsFiniteSet(Entered)
    /\ Accepted \subseteq Entered
    /\ DropsCounted
    /\ clock = Cardinality(Accepted)

LEMMA InitTally == Init => Tally
<1> SUFFICES ASSUME Init PROVE Tally
  OBVIOUS
<1>1. Entered = {} /\ Noting = {} /\ Outside = {} /\ Accepted = {} /\ Evicted = {}
  BY DEF Init, Entered, Noting, Outside, Accepted, Evicted
<1>2. Cardinality({}) = 0 /\ IsFiniteSet({})
  BY FS_EmptySet
<1>3. DropsCounted
  BY <1>1, <1>2 DEF DropsCounted, Noting, Outside, Init
<1> QED
  BY <1>1, <1>2, <1>3 DEF Tally, Init

\* Everything that is counted is finite.
LEMMA Countable ==
  ASSUME Tally, Custody
  PROVE  /\ IsFiniteSet(Entered) /\ IsFiniteSet(Accepted) /\ IsFiniteSet(Evicted)
         /\ IsFiniteSet(Noting) /\ IsFiniteSet(Outside)
         /\ Cardinality(Accepted) \in Nat /\ Cardinality(Evicted) \in Nat
         /\ Cardinality(Noting) \in Nat /\ Cardinality(Outside) \in Nat
<1>1. /\ Accepted \subseteq Entered /\ Evicted \subseteq Entered
      /\ Noting \subseteq Entered /\ Outside \subseteq Entered
  BY DEF Tally, Custody, Entered, Noting, Outside
<1>2. IsFiniteSet(Entered)
  BY DEF Tally
<1> QED
  BY <1>1, <1>2, FS_Subset, FS_CardinalityType

\* Steps that move no enqueuer and drop nothing.
LEMMA TallyFrame ==
  ASSUME Tally, UNCHANGED <<ticket, clock, victim, dropped>>,
         \A i \in Item : pc'[i] = pc[i]
  PROVE  Tally'
<1>1. /\ Entered' = Entered /\ Noting' = Noting /\ Outside' = Outside
      /\ Accepted' = Accepted /\ Evicted' = Evicted
  BY DEF Entered, Noting, Outside, Accepted, Evicted
<1>2. DropsCounted'
  BY <1>1 DEF Tally, DropsCounted, Noting, Outside
<1> QED
  BY <1>1, <1>2 DEF Tally

\* An enqueuer moves on: Entered grows by at most that one.
LEMMA EnteredGrows ==
  ASSUME Tally, NEW i \in Item, \A j \in Item : j # i => pc'[j] = pc[j],
         pc'[i] # "start"
  PROVE  /\ Entered' = Entered \cup {i}
         /\ IsFiniteSet(Entered')
<1>1. Entered' = Entered \cup {i}
  BY DEF Entered
<1>2. IsFiniteSet(Entered)
  BY DEF Tally
<1> QED
  BY <1>1, <1>2, FS_AddElement

LEMMA EnqueueTally ==
  ASSUME TypeOK, Control, Cover, Custody, Tally, NEW i \in Item, EnqueueStep(i)
  PROVE  Tally'
<1> USE DEF workerVars
<1>0. /\ DropsCounted /\ dropped \in Nat
      /\ dropped + Cardinality(Noting) = Cardinality(Evicted) + Cardinality(Outside)
      /\ clock = Cardinality(Accepted)
  BY DEF TypeOK, Tally, DropsCounted, Noting, Outside
<1>a. /\ Cardinality(Evicted) \in Nat
      /\ Cardinality(Noting) \in Nat /\ Cardinality(Outside) \in Nat
  BY Countable
<1>1. (\A j \in Item : j # i => pc'[j] = pc[j]) /\ pc'[i] # "start"
  BY DEF TypeOK, EnqueueStep, WaitForRoom, GiveUpRoom, Refuse, Accept,
     NoteDrop, AwaitReturn
<1>2. Entered' = Entered \cup {i} /\ IsFiniteSet(Entered')
  BY <1>1, EnteredGrows
<1>3. Accepted' \subseteq Entered'
  <2>1. Accepted' \subseteq Accepted \cup {i}
    BY AcceptMoves DEF EnqueueStep, WaitForRoom, GiveUpRoom, Refuse, NoteDrop,
       AwaitReturn, Accepted
  <2> QED
    BY <1>2, <2>1 DEF Tally
<1>4. CASE WaitForRoom(i) \/ AwaitReturn(i)
  <2>1. /\ UNCHANGED <<ticket, clock, victim, dropped>>
        /\ pc[i] \notin {"noteDrop", "refused"}
        /\ pc'[i] \notin {"noteDrop", "refused"}
    BY <1>4 DEF TypeOK, WaitForRoom, AtEnqueueLock, AwaitReturn
  <2>2. /\ Noting' = Noting /\ Outside' = Outside
        /\ Accepted' = Accepted /\ Evicted' = Evicted
    BY <1>1, <2>1 DEF Noting, Outside, Accepted, Evicted
  <2>3. DropsCounted'
    BY <1>0, <2>1, <2>2 DEF DropsCounted, Noting, Outside
  <2> QED
    BY <1>0, <1>2, <1>3, <2>1, <2>2, <2>3 DEF Tally
\* The candidate is lost and will be counted: both sides grow by one.
<1>5. CASE GiveUpRoom(i) \/ Refuse(i)
  <2>1. /\ UNCHANGED <<ticket, clock, victim, dropped>>
        /\ pc[i] \in {"start", "waitRoom"} /\ pc'[i] = "noteDrop"
    BY <1>5 DEF TypeOK, GiveUpRoom, Refuse, AtEnqueueLock
  <2>2. victim[i] = {}
    BY <2>1 DEF Cover, Fresh
  <2>3. /\ Noting' = Noting \cup {i} /\ Outside' = Outside \cup {i}
        /\ Accepted' = Accepted /\ Evicted' = Evicted
        /\ i \notin Noting /\ i \notin Outside
    BY <1>1, <2>1, <2>2 DEF Noting, Outside, Accepted, Evicted
  <2>4. /\ Cardinality(Noting') = Cardinality(Noting) + 1
        /\ Cardinality(Outside') = Cardinality(Outside) + 1
    BY <2>3, Countable, FS_AddElement
  <2>5. dropped' + Cardinality(Noting')
            = Cardinality(Evicted') + Cardinality(Outside')
    <3>1. Cardinality(Evicted') = Cardinality(Evicted) /\ dropped' = dropped
      BY <2>1, <2>3
    <3> QED
      BY <1>0, <1>a, <2>4, <3>1
  <2>6. DropsCounted'
    BY <2>5 DEF DropsCounted, Noting, Outside
  <2> QED
    BY <1>0, <1>2, <1>3, <2>1, <2>3, <2>6 DEF Tally
\* A full queue loses its oldest, and this caller will count it.
<1>6. CASE Accept(i)
  <2>1. /\ i \notin Accepted
        /\ Accepted' = Accepted \cup {i}
        /\ Evicted' = Evicted \cup PushedOut
        /\ PushedOut \subseteq Range(pending)
    BY <1>6, AcceptMoves
  <2>2. /\ dropped' = dropped /\ clock' = clock + 1
        /\ pc[i] \in {"start", "waitRoom"}
        /\ victim' = [victim EXCEPT ![i] = PushedOut]
        /\ pc'[i] = "noteDrop" <=> ~HasRoom
        /\ pc'[i] # "refused"
    BY <1>6, FullOverflows DEF TypeOK, Accept, AtEnqueueLock
  <2>3. Cardinality(Accepted') = Cardinality(Accepted) + 1
    BY <2>1, Countable, FS_AddElement
  <2>4. Outside' = Outside
    <3>1. ~HasRoom => PushedOut # {}
      BY <1>6, FullOverflows DEF PushedOut
    <3> QED
      BY <1>1, <2>2, <3>1 DEF TypeOK, Outside
  <2>5. CASE HasRoom
    <3>1. Noting' = Noting /\ Evicted' = Evicted
      BY <1>1, <1>6, <2>1, <2>2, <2>5, FullOverflows DEF Noting, PushedOut
    <3>2. DropsCounted'
      BY <1>0, <2>2, <2>4, <3>1 DEF DropsCounted, Noting, Outside
    <3> QED
      BY <1>0, <1>2, <1>3, <2>2, <2>3, <3>2 DEF Tally
  <2>6. CASE ~HasRoom
    <3>1. Noting' = Noting \cup {i} /\ i \notin Noting
      BY <1>1, <2>2, <2>6 DEF Noting
    <3>2. Evicted' = Evicted \cup {Head(pending)} /\ Head(pending) \notin Evicted
      BY <1>6, <2>1, <2>6, FullOverflows DEF PushedOut, Custody
    <3>3. /\ Cardinality(Noting') = Cardinality(Noting) + 1
          /\ Cardinality(Evicted') = Cardinality(Evicted) + 1
      BY <3>1, <3>2, Countable, FS_AddElement
    <3>4. dropped' + Cardinality(Noting')
              = Cardinality(Evicted') + Cardinality(Outside')
      <4>1. Cardinality(Outside') = Cardinality(Outside) /\ dropped' = dropped
        BY <2>2, <2>4
      <4> QED
        BY <1>0, <1>a, <3>3, <4>1
    <3>5. DropsCounted'
      BY <3>4 DEF DropsCounted, Noting, Outside
    <3> QED
      BY <1>0, <1>2, <1>3, <2>2, <2>3, <3>5 DEF Tally
  <2> QED
    BY <2>5, <2>6
\* The loss moves from "about to be counted" to the counter.
<1>7. CASE NoteDrop(i)
  <2>1. /\ UNCHANGED <<ticket, clock, victim>> /\ dropped' = dropped + 1
        /\ pc[i] = "noteDrop"
        /\ pc'[i] = IF victim[i] = {} THEN "refused" ELSE "returned"
    BY <1>7 DEF TypeOK, NoteDrop, CountDrop
  <2>2. /\ Noting' = Noting \ {i} /\ i \in Noting /\ Outside' = Outside
        /\ Accepted' = Accepted /\ Evicted' = Evicted
    BY <1>1, <2>1 DEF Noting, Outside, Accepted, Evicted
  <2>3. Cardinality(Noting') = Cardinality(Noting) - 1
    BY <2>2, Countable, FS_RemoveElement
  <2>4. dropped' + Cardinality(Noting')
            = Cardinality(Evicted') + Cardinality(Outside')
    <3>1. /\ Cardinality(Evicted') = Cardinality(Evicted)
          /\ Cardinality(Outside') = Cardinality(Outside)
          /\ dropped' = dropped + 1
      BY <2>1, <2>2
    <3> QED
      BY <1>0, <1>a, <2>3, <3>1
  <2>5. DropsCounted'
    BY <2>4 DEF DropsCounted, Noting, Outside
  <2> QED
    BY <1>0, <1>2, <1>3, <2>1, <2>2, <2>5 DEF Tally
<1> QED
  BY <1>4, <1>5, <1>6, <1>7 DEF EnqueueStep

LEMMA NextTally ==
  TypeOK /\ Control /\ Cover /\ Custody /\ Tally /\ [Next]_vars => Tally'
<1> SUFFICES ASSUME TypeOK, Control, Cover, Custody, Tally, [Next]_vars
             PROVE  Tally'
  OBVIOUS
<1> USE DEF callerVars, workerVars
<1>0. Item \cap Drainer = {}
  BY QueueAssumption DEF QueueAssumption
<1>1. CASE UNCHANGED vars \/ Rest
  BY <1>1, TallyFrame DEF Rest, vars
<1>2. ASSUME NEW g \in Caller, Cancel(g) PROVE Tally'
  BY <1>2, TallyFrame DEF Cancel
<1>3. ASSUME NEW w \in Worker, RunStep(w) PROVE Tally'
  BY <1>3, TallyFrame DEF RunStep, Retire, Claim, Finalize, StartSend, SkipSend,
     SendReturns, FinishItem, Announce
<1>4. ASSUME NEW d \in Drainer, CallFlush(d) \/ CallClose(d) \/ DrainStep(d)
      PROVE  Tally'
  BY <1>0, <1>4, TallyFrame DEF TypeOK, CallFlush, CallClose, DrainStep,
     DrainDone, DrainWait, DrainGiveUp
<1> QED
  BY <1>1, <1>2, <1>3, <1>4, EnqueueTally DEF Next

THEOREM TallyCorrect == Spec => []Tally
<1>1. Init => Tally
  BY InitTally
<1> QED
  BY <1>1, NextTally, TypeCorrect, ControlCorrect, CustodyCorrect, PTL DEF Spec

\* Every lost candidate is counted once: pushed out, refused after close, or
\* given up for want of room.
THEOREM DropsAreCounted == Spec => []DropsCounted
  BY TallyCorrect, PTL DEF Tally
-----------------------------------------------------------------------------
(* Refinement.  While the worker finalizes, what it has finalized so far is *)
(* a front of its batch, and the events collected for the next POST are     *)
(* some of that front, in order.                                            *)
Chosen(s, at) == [k \in DOMAIN at |-> s[at[k]]]

InOrder(w) ==
    \E p \in 0..Len(batch[w]) :
        /\ todo[w] = SubSeq(batch[w], p + 1, Len(batch[w]))
        /\ \E at \in Pipe!Picks(p) : events[w] = Chosen(batch[w], at)

Sending == \A w \in Worker : workerAt[w] = "finalize" => InOrder(w)

\* Of no places only the empty choice can be made.
LEMMA PickNone ==
  ASSUME NEW s PROVE <<>> \in Pipe!Picks(0) /\ Chosen(s, <<>>) = <<>>
<1>1. 0 \in 0..0 /\ <<>> \in [1..0 -> 1..0] /\ DOMAIN <<>> = {}
  OBVIOUS
<1>2. <<>> \in Pipe!Picks(0)
  BY <1>1 DEF Pipe!Picks
<1>3. Chosen(s, <<>>) = <<>>
  BY <1>1 DEF Chosen
<1> QED
  BY <1>2, <1>3

\* A choice among p places is a choice among p + 1 places.
LEMMA PickFewer ==
  ASSUME NEW p \in Nat, NEW at \in Pipe!Picks(p) PROVE at \in Pipe!Picks(p + 1)
<1>1. PICK m \in 0..p : at \in [1..m -> 1..p]
  BY DEF Pipe!Picks
<1>2. m \in 0..(p + 1) /\ 1..p \subseteq 1..(p + 1)
  BY <1>1
<1>3. at \in [1..m -> 1..(p + 1)]
  BY <1>1, <1>2
<1>4. \A j, k \in DOMAIN at : j < k => at[j] < at[k]
  BY DEF Pipe!Picks
<1> QED
  BY <1>2, <1>3, <1>4 DEF Pipe!Picks

\* A choice among p places can be extended by place p + 1.
LEMMA PickMore ==
  ASSUME NEW S, NEW s \in Seq(S), NEW p \in Nat, p + 1 \in 1..Len(s),
         NEW at \in Pipe!Picks(p)
  PROVE  \E more \in Pipe!Picks(p + 1) :
             Chosen(s, more) = Append(Chosen(s, at), s[p + 1])
<1>1. PICK m \in 0..p : at \in [1..m -> 1..p]
  BY DEF Pipe!Picks
<1>2. \A j, k \in 1..m : j < k => at[j] < at[k]
  BY <1>1 DEF Pipe!Picks
<1>3. m \in Nat /\ DOMAIN at = 1..m /\ \A k \in 1..m : at[k] \in 1..p
  BY <1>1
<1> DEFINE more == [k \in 1..(m + 1) |-> IF k = m + 1 THEN p + 1 ELSE at[k]]
<1>4. \A k \in 1..(m + 1) : k \in 1..m \/ k = m + 1
  BY <1>3
<1>5. more \in [1..(m + 1) -> 1..(p + 1)] /\ m + 1 \in 0..(p + 1)
  BY <1>1, <1>3, <1>4
<1>6. \A j, k \in 1..(m + 1) : j < k => more[j] < more[k]
  <2> SUFFICES ASSUME NEW j \in 1..(m + 1), NEW k \in 1..(m + 1), j < k
               PROVE  more[j] < more[k]
    OBVIOUS
  <2>1. j \in 1..m /\ more[j] = at[j] /\ at[j] \in 1..p
    BY <1>3
  <2>2. CASE k = m + 1
    BY <2>1, <2>2
  <2>3. CASE k # m + 1
    <3>1. k \in 1..m /\ more[k] = at[k]
      BY <1>3, <2>3
    <3> QED
      BY <1>2, <2>1, <3>1
  <2> QED
    BY <2>2, <2>3
<1>7. more \in Pipe!Picks(p + 1)
  BY <1>5, <1>6 DEF Pipe!Picks
<1>8. \A k \in 1..m : s[at[k]] \in S
  BY <1>3
<1>9. Chosen(s, at) \in Seq(S) /\ Len(Chosen(s, at)) = m
  BY <1>3, <1>8 DEF Chosen
<1>10. DOMAIN Chosen(s, more) = 1..(m + 1)
  BY DEF Chosen
<1>11. \A k \in 1..(m + 1) :
           Chosen(s, more)[k] = Append(Chosen(s, at), s[p + 1])[k]
  <2> SUFFICES ASSUME NEW k \in 1..(m + 1)
               PROVE  Chosen(s, more)[k] = Append(Chosen(s, at), s[p + 1])[k]
    OBVIOUS
  <2>1. Chosen(s, more)[k] = s[more[k]]
    BY DEF Chosen
  <2>2. CASE k = m + 1
    BY <1>9, <2>1, <2>2, <1>3
  <2>3. CASE k # m + 1
    <3>1. k \in 1..m /\ more[k] = at[k]
      BY <1>4, <2>3
    <3>2. Chosen(s, at)[k] = s[at[k]]
      BY <1>3, <3>1 DEF Chosen
    <3> QED
      BY <1>9, <2>1, <3>1, <3>2
  <2> QED
    BY <2>2, <2>3
<1>12. DOMAIN more = 1..(m + 1)
  OBVIOUS
<1>13. \A k \in 1..(m + 1) : s[more[k]] \in S
  BY <1>4, <1>8
<1> HIDE DEF more
<1>14. Chosen(s, more) \in Seq(S) /\ Len(Chosen(s, more)) = m + 1
  BY <1>3, <1>12, <1>13 DEF Chosen
<1>15. s[p + 1] \in S
  OBVIOUS
<1>16. Append(Chosen(s, at), s[p + 1]) \in Seq(S)
       /\ Len(Append(Chosen(s, at), s[p + 1])) = m + 1
  BY <1>9, <1>15
<1>17. Chosen(s, more) = Append(Chosen(s, at), s[p + 1])
  BY <1>11, <1>14, <1>16, SeqEqual
<1> QED
  BY <1>7, <1>17
LEMMA InitSending == Init => Sending
  BY DEF Init, Sending

\* Steps in which the worker neither starts to finalize nor goes on.
LEMMA SendingFrame ==
  ASSUME Sending,
         \A w \in Worker : workerAt'[w] = "finalize" =>
             /\ workerAt[w] = "finalize" /\ batch'[w] = batch[w]
             /\ todo'[w] = todo[w] /\ events'[w] = events[w]
  PROVE  Sending'
<1> SUFFICES ASSUME NEW w \in Worker, workerAt'[w] = "finalize" PROVE InOrder(w)'
  BY DEF Sending
<1>1. InOrder(w)
  BY DEF Sending
<1> QED
  BY <1>1 DEF InOrder

LEMMA ClaimSending ==
  ASSUME TypeOK, Control, Sending, NEW w \in Worker, Claim(w) PROVE Sending'
<1>1. PICK n \in 1..Len(pending) :
          /\ batch' = [batch EXCEPT ![w] = Oldest(n)]
          /\ todo' = [todo EXCEPT ![w] = Oldest(n)]
          /\ Oldest(n) \in Seq(Item)
  BY ClaimSplits
<1>2. batch'[w] = Oldest(n) /\ todo'[w] = Oldest(n) /\ events'[w] = <<>>
  BY <1>1 DEF TypeOK, Claim
<1>3. SubSeq(Oldest(n), 1, Len(Oldest(n))) = Oldest(n)
  BY <1>1, SubSeqFull
<1>4. 0 \in 0..Len(batch'[w]) /\ 0 + 1 = 1
  BY <1>1, <1>2
<1>5. InOrder(w)'
  BY <1>2, <1>3, <1>4, PickNone DEF InOrder
<1>6. \A v \in Worker : v # w => workerAt'[v] # "finalize"
  BY DEF TypeOK, Claim, Control, SingleWorker, Active
<1> QED
  BY <1>5, <1>6 DEF Sending

\* One more item is finalized: it joins the events, or it has none.
LEMMA FinalizeSending ==
  ASSUME TypeOK, Control, Sending, NEW w \in Worker, Finalize(w) PROVE Sending'
<1>1. InOrder(w)
  BY DEF Finalize, Sending
<1>2. PICK p \in 0..Len(batch[w]) :
          /\ todo[w] = SubSeq(batch[w], p + 1, Len(batch[w]))
          /\ \E at \in Pipe!Picks(p) : events[w] = Chosen(batch[w], at)
  BY <1>1 DEF InOrder
<1>3. PICK at \in Pipe!Picks(p) : events[w] = Chosen(batch[w], at)
  BY <1>2
<1>4. /\ batch[w] \in Seq(Item) /\ todo[w] # <<>> /\ UNCHANGED <<batch, workerAt>>
      /\ todo'[w] = Tail(todo[w])
      /\ \A v \in Worker : v # w => todo'[v] = todo[v] /\ events'[v] = events[v]
      /\ events'[w] = events[w] \/ events'[w] = Append(events[w], Head(todo[w]))
  BY DEF TypeOK, Finalize, SafelyFinalize, Join
<1>5. p \in Nat /\ p + 1 \in 1..Len(batch[w])
  BY <1>2, <1>4
<1>6. /\ Head(todo[w]) = batch[w][p + 1]
      /\ todo'[w] = SubSeq(batch[w], (p + 1) + 1, Len(batch[w]))
  BY <1>2, <1>4, <1>5
<1>7. \E more \in Pipe!Picks(p + 1) : events'[w] = Chosen(batch[w], more)
  <2>1. CASE events'[w] = events[w]
    BY <1>3, <1>5, <2>1, PickFewer
  <2>2. CASE events'[w] = Append(events[w], Head(todo[w]))
    <3>1. PICK more \in Pipe!Picks(p + 1) :
              Chosen(batch[w], more) = Append(Chosen(batch[w], at), batch[w][p + 1])
      BY <1>4, <1>5, PickMore
    <3> QED
      BY <1>3, <1>6, <2>2, <3>1
  <2> QED
    BY <1>4, <2>1, <2>2
<1>8. p + 1 \in 0..Len(batch'[w])
  BY <1>4, <1>5
<1>9. InOrder(w)'
  BY <1>4, <1>6, <1>7, <1>8 DEF InOrder
<1>10. \A v \in Worker : v # w => (workerAt'[v] = "finalize" => InOrder(v)')
  BY <1>4 DEF Sending, InOrder
<1> QED
  BY <1>9, <1>10 DEF Sending

LEMMA NextSending == TypeOK /\ Control /\ Sending /\ [Next]_vars => Sending'
<1> SUFFICES ASSUME TypeOK, Control, Sending, [Next]_vars PROVE Sending'
  OBVIOUS
<1> USE DEF callerVars, workerVars
<1>1. CASE UNCHANGED vars \/ Rest
  BY <1>1, SendingFrame DEF Rest, vars
<1>2. ASSUME NEW g \in Caller, Cancel(g) PROVE Sending'
  BY <1>2, SendingFrame DEF Cancel
<1>3. ASSUME NEW i \in Item, EnqueueStep(i) PROVE Sending'
  <2>1. UNCHANGED <<batch, todo, events>>
    BY <1>3 DEF EnqueueStep, WaitForRoom, GiveUpRoom, Refuse, Accept, NoteDrop,
       AwaitReturn
  <2>2. \A w \in Worker : workerAt'[w] = workerAt[w] \/ workerAt'[w] = "take"
    BY <1>3 DEF TypeOK, EnqueueStep, WaitForRoom, GiveUpRoom, Refuse, Accept,
       StartWorker, NoteDrop, AwaitReturn
  <2> QED
    BY <2>1, <2>2, SendingFrame
<1>4. ASSUME NEW w \in Worker, RunStep(w) PROVE Sending'
  <2>1. CASE \/ Retire(w) \/ StartSend(w) \/ SkipSend(w) \/ SendReturns(w)
             \/ FinishItem(w) \/ Announce(w)
    <3>1. \A v \in Worker : workerAt'[v] = "finalize" =>
              /\ workerAt[v] = "finalize" /\ batch'[v] = batch[v]
              /\ todo'[v] = todo[v] /\ events'[v] = events[v]
      BY <2>1 DEF TypeOK, Retire, StartSend, SkipSend, SendReturns, FinishItem,
         Announce
    <3> QED
      BY <3>1, SendingFrame
  <2> QED
    BY <1>4, <2>1, ClaimSending, FinalizeSending DEF RunStep
<1>5. ASSUME NEW d \in Drainer, CallFlush(d) \/ CallClose(d) \/ DrainStep(d)
      PROVE  Sending'
  BY <1>5, SendingFrame DEF CallFlush, CallClose, DrainStep, DrainDone,
     DrainWait, DrainGiveUp
<1> QED
  BY <1>1, <1>2, <1>3, <1>4, <1>5 DEF Next
\* TRUE unless the worker is between claiming a batch and sending it.
HadItsTurn == \A w \in Worker : workerAt[w] # "finalize"

\* The instance has its own copy of Cardinality.
LEMMA SameCardinality == ASSUME NEW S PROVE Pipe!Cardinality(S) = Cardinality(S)
  BY DEF Pipe!Cardinality, Cardinality

\* What is in hand is the batch of the one live worker.
LEMMA HandIs ==
  ASSUME NEW w \in Worker
  PROVE  /\ Active = {w} => InHand = batch[w]
         /\ Active = {} => InHand = <<>>
<1>1. ASSUME Active = {w} PROVE InHand = batch[w]
  <2>1. (CHOOSE v \in Active : TRUE) \in Active /\ Active # {}
    BY <1>1
  <2> QED
    BY <1>1, <2>1 DEF InHand
<1> QED
  BY <1>1 DEF InHand

LEMMA HandIsNext ==
  ASSUME NEW w \in Worker
  PROVE  /\ Active' = {w} => InHand' = batch'[w]
         /\ Active' = {} => InHand' = <<>>
<1>1. ASSUME Active' = {w} PROVE InHand' = batch'[w]
  <2>1. (CHOOSE v \in Active' : TRUE) \in Active' /\ Active' # {}
    BY <1>1
  <2> QED
    BY <1>1, <2>1 DEF InHand
<1> QED
  BY <1>1 DEF InHand

\* A step the pipe does not see.
LEMMA Stutter ==
  ASSUME UNCHANGED <<pending, sent, ticket, accepting>>,
         InHand' = InHand, HadItsTurn' = HadItsTurn,
         Evicted' = Evicted, (done \ Evicted)' = done \ Evicted
  PROVE  UNCHANGED Pipe!pipeVars
  BY DEF Pipe!pipeVars, HadItsTurn

LEMMA InitPipe == Init => Pipe!PipeInit
<1> SUFFICES ASSUME Init PROVE Pipe!PipeInit
  OBVIOUS
<1>1. Active = {} /\ Evicted = {}
  BY DEF Init, Active, Evicted
<1>2. InHand = <<>>
  BY <1>1 DEF InHand
<1> QED
  BY <1>1, <1>2 DEF Init, Pipe!PipeInit

\* Accept admits the candidate, over the oldest one when the queue is full;
\* that a worker may be started for it is hidden, as its hands are empty.
LEMMA AcceptPipe ==
  ASSUME TypeOK, Control, Cover, Custody, Tally, NEW i \in Item, Accept(i)
  PROVE  Pipe!Admit(i) \/ Pipe!AdmitOverOldest(i)
<1>1. /\ i \notin Accepted
      /\ Evicted' = Evicted \cup PushedOut
      /\ PushedOut \subseteq Range(pending)
  BY AcceptMoves
<1>2. /\ UNCHANGED <<sent, done, batch, accepting>> /\ accepting /\ MayAppend(i)
      /\ ticket' = [ticket EXCEPT ![i] = clock + 1]
      /\ StartWorker
  BY DEF Accept
<1>3. (done \ Evicted)' = done \ Evicted
  BY <1>1, <1>2 DEF Custody
<1>4. InHand' = InHand /\ HadItsTurn' = HadItsTurn
  <2>1. CASE running
    BY <1>2, <2>1 DEF StartWorker, InHand, Active, HadItsTurn
  <2>2. CASE ~running
    <3>1. Active = {}
      BY <2>2 DEF Control, SingleWorker
    <3>2. PICK w \in Worker : workerAt' = [workerAt EXCEPT ![w] = "take"]
      BY <1>2, <2>2 DEF StartWorker
    <3>3. workerAt[w] = "none"
      BY <3>1 DEF Active
    <3>4. Active' = {w}
      BY <3>1, <3>2 DEF TypeOK, Active
    <3>5. InHand = <<>> /\ InHand' = batch[w] /\ batch[w] = <<>>
      BY <1>2, <3>1, <3>3, <3>4, HandIs, HandIsNext DEF Cover, HandsEmpty
    <3>6. HadItsTurn' = HadItsTurn
      BY <3>2, <3>3 DEF TypeOK, HadItsTurn
    <3> QED
      BY <3>5, <3>6
  <2> QED
    BY <2>1, <2>2
<1>5. Pipe!Admitted = Accepted
  BY DEF Pipe!Admitted, Accepted
<1>6. Pipe!Enroll(i)
  <2>1. ticket' = [ticket EXCEPT ![i] = Pipe!Cardinality(Pipe!Admitted) + 1]
    BY <1>2, <1>5, SameCardinality DEF Tally
  <2> QED
    BY <1>1, <1>2, <1>3, <1>4, <1>5, <2>1 DEF Pipe!Enroll, HadItsTurn
<1>7. CASE HasRoom
  <2>1. pending' = Append(pending, i) /\ Evicted' = Evicted
    BY <1>1, <1>7, AcceptMoves
  <2> QED
    BY <1>6, <1>7, <2>1 DEF Pipe!Admit, HasRoom
<1>8. CASE ~HasRoom
  <2>1. ~AwaitDelivery
    BY <1>2, <1>8 DEF MayAppend
  <2>2. Len(pending) = Capacity
    BY <1>8, QueueAssumption DEF TypeOK, HasRoom, Control, Bounded, QueueAssumption
  <2>3. pending' = Append(Tail(pending), i) /\ Evicted' = Evicted \cup {Head(pending)}
    BY <1>1, <1>8, AcceptMoves
  <2> QED
    BY <1>6, <2>1, <2>2, <2>3 DEF Pipe!AdmitOverOldest
<1> QED
  BY <1>7, <1>8

\* The worker is the only live one, before and after a step that keeps it.
LEMMA SoleWorker ==
  ASSUME TypeOK, Control, Cover, NEW w \in Worker, workerAt[w] # "none",
         NEW label, label # "none", WorkerGoto(w, label)
  PROVE  /\ InHand = batch[w] /\ InHand' = batch'[w]
         /\ HadItsTurn <=> workerAt[w] # "finalize"
         /\ HadItsTurn' <=> label # "finalize"
<1>1. Active = {w}
  BY DEF Control, SingleWorker, Active
<1>2. Active' = {w} /\ \A v \in Worker : v # w => workerAt[v] = "none"
  BY <1>1 DEF TypeOK, Active
<1>3. HadItsTurn <=> workerAt[w] # "finalize"
  BY <1>2 DEF HadItsTurn
<1>4. HadItsTurn' <=> label # "finalize"
  BY <1>2 DEF TypeOK, HadItsTurn
<1> QED
  BY <1>1, <1>2, <1>3, <1>4, HandIs, HandIsNext

LEMMA ClaimPipe ==
  ASSUME TypeOK, Control, Cover, NEW w \in Worker, Claim(w)
  PROVE  \E n \in 1..BatchSize : Pipe!TakeInHand(n)
<1>1. PICK n \in 1..Len(pending) :
          /\ n \in 1..BatchSize
          /\ batch' = [batch EXCEPT ![w] = Oldest(n)]
          /\ pending' = Remaining(n)
  BY ClaimSplits
<1>2. /\ UNCHANGED <<sent, done, ticket, victim, accepting>>
      /\ workerAt[w] = "take" /\ WorkerGoto(w, "finalize")
  BY DEF Claim
<1>3. /\ InHand = batch[w] /\ InHand' = batch'[w]
      /\ HadItsTurn /\ ~HadItsTurn'
  BY <1>2, SoleWorker
<1>4. batch[w] = <<>> /\ batch'[w] = Oldest(n)
  BY <1>1, <1>2 DEF TypeOK, Cover, HandsEmpty
<1>5. Evicted' = Evicted
  BY <1>2 DEF Evicted
<1>6. n <= Len(pending)
  BY <1>1 DEF TypeOK
<1>7. Pipe!TakeInHand(n)
  BY <1>1, <1>2, <1>3, <1>4, <1>5, <1>6
     DEF Pipe!TakeInHand, HadItsTurn, Oldest, Remaining
<1> QED
  BY <1>1, <1>7

\* The POST carries some of the batch, in order, or there is none.
LEMMA SendPipe ==
  ASSUME TypeOK, Control, Cover, Sending, NEW w \in Worker,
         StartSend(w) \/ SkipSend(w)
  PROVE  Pipe!Ship
<1>1. /\ workerAt[w] = "finalize" /\ todo[w] = <<>>
      /\ UNCHANGED <<pending, done, ticket, victim, accepting, batch>>
      /\ WorkerGoto(w, "sending") \/ WorkerGoto(w, "finish")
  BY DEF StartSend, SkipSend, callerVars
<1>2. /\ InHand = batch[w] /\ InHand' = batch[w]
      /\ ~HadItsTurn /\ HadItsTurn'
  BY <1>1, SoleWorker
<1>3. PICK p \in 0..Len(batch[w]) :
          /\ todo[w] = SubSeq(batch[w], p + 1, Len(batch[w]))
          /\ \E at \in Pipe!Picks(p) : events[w] = Chosen(batch[w], at)
  BY <1>1 DEF Sending, InOrder
<1>4. p = Len(batch[w])
  <2>1. batch[w] \in Seq(Item) /\ Len(batch[w]) \in Nat
    BY DEF TypeOK
  <2>2. Len(SubSeq(batch[w], p + 1, Len(batch[w]))) = Len(batch[w]) - p
    BY <2>1
  <2> QED
    BY <1>1, <1>3, <2>1, <2>2
<1>5. PICK at \in Pipe!Picks(Len(InHand)) : events[w] = Chosen(InHand, at)
  BY <1>2, <1>3, <1>4
<1>6. sent' = sent \o events[w]
  <2>1. CASE StartSend(w)
    BY <2>1 DEF StartSend
  <2>2. CASE SkipSend(w)
    <3>1. sent \in Seq(Item) /\ sent' = sent /\ events[w] = <<>>
      BY <2>2 DEF TypeOK, SkipSend
    <3> QED
      BY <3>1
  <2> QED
    BY <2>1, <2>2
<1>7. sent' = sent \o [k \in DOMAIN at |-> InHand[at[k]]]
  BY <1>5, <1>6 DEF Chosen
<1>8. Evicted' = Evicted
  BY <1>1 DEF Evicted
<1> QED
  BY <1>1, <1>2, <1>7, <1>8 DEF Pipe!Ship, HadItsTurn

LEMMA FinishPipe ==
  ASSUME TypeOK, Control, Cover, Custody, NEW w \in Worker, FinishItem(w)
  PROVE  Pipe!Settle
<1>1. /\ workerAt[w] = "finish" /\ batch[w] # <<>>
      /\ batch' = [batch EXCEPT ![w] = Tail(batch[w])]
      /\ done' = done \cup {Head(batch[w])}
      /\ UNCHANGED <<pending, sent, ticket, victim, accepting, workerAt>>
  BY DEF FinishItem, Finish, callerVars
<1>2. WorkerGoto(w, "finish")
  BY <1>1 DEF TypeOK
<1>3. /\ InHand = batch[w] /\ InHand' = batch'[w]
      /\ HadItsTurn /\ HadItsTurn'
  BY <1>1, <1>2, SoleWorker
<1>4. batch'[w] = Tail(batch[w])
  BY <1>1 DEF TypeOK
<1>5. Evicted' = Evicted
  BY <1>1 DEF Evicted
<1>6. (done \ Evicted)' = (done \ Evicted) \cup {Head(InHand)}
  BY <1>1, <1>3, <1>5, FinishCustody
<1> QED
  BY <1>1, <1>3, <1>4, <1>5, <1>6 DEF Pipe!Settle, HadItsTurn

\* The other steps of the worker are not seen.
LEMMA WorkerStutter ==
  ASSUME TypeOK, Control, Cover, NEW w \in Worker,
         Retire(w) \/ Finalize(w) \/ SendReturns(w) \/ Announce(w)
  PROVE  UNCHANGED Pipe!pipeVars
<1>1. /\ UNCHANGED <<pending, sent, ticket, accepting, victim, done, batch>>
      /\ workerAt[w] # "none"
  BY DEF Retire, Finalize, SendReturns, Announce, callerVars
<1>2. Evicted' = Evicted /\ (done \ Evicted)' = done \ Evicted
  BY <1>1 DEF Evicted
<1>3. CASE Finalize(w)
  <2>1. UNCHANGED workerAt
    BY <1>3 DEF Finalize
  <2> QED
    BY <1>1, <1>2, <2>1, Stutter DEF InHand, Active, HadItsTurn
<1>4. CASE Retire(w)
  <2>1. workerAt[w] = "take" /\ workerAt' = [workerAt EXCEPT ![w] = "none"]
    BY <1>4 DEF Retire
  <2>2. Active = {w}
    BY <2>1 DEF Control, SingleWorker, Active
  <2>3. Active' = {}
    BY <2>1, <2>2 DEF TypeOK, Active
  <2>4. InHand = batch[w] /\ InHand' = <<>> /\ batch[w] = <<>>
    BY <2>1, <2>2, <2>3, HandIs, HandIsNext DEF Cover, HandsEmpty
  <2>5. HadItsTurn' = HadItsTurn
    BY <2>1 DEF TypeOK, HadItsTurn
  <2> QED
    BY <1>1, <1>2, <2>4, <2>5, Stutter
<1>5. CASE SendReturns(w) \/ Announce(w)
  <2>1. /\ workerAt[w] \in {"sending", "finish"}
        /\ WorkerGoto(w, "finish") \/ WorkerGoto(w, "take")
    BY <1>5 DEF SendReturns, Announce
  <2>2. InHand = batch[w] /\ InHand' = batch'[w] /\ HadItsTurn /\ HadItsTurn'
    BY <2>1, SoleWorker
  <2> QED
    BY <1>1, <1>2, <2>2, Stutter
<1> QED
  BY <1>3, <1>4, <1>5

\* Nor is anything that a caller does besides Accept and CallClose.
LEMMA CallerStutter ==
  ASSUME UNCHANGED <<pending, sent, ticket, accepting, victim, workerAt, batch>>,
         done \subseteq done', done' \subseteq done \cup Evicted
  PROVE  UNCHANGED Pipe!pipeVars
<1>1. Evicted' = Evicted /\ InHand' = InHand /\ HadItsTurn' = HadItsTurn
  BY DEF Evicted, InHand, Active, HadItsTurn
<1>2. (done \ Evicted)' = done \ Evicted
  BY <1>1
<1> QED
  BY <1>1, <1>2, Stutter

\* Every step of the queue is a step of the pipe or leaves it alone.
LEMMA NextPipe ==
  TypeOK /\ Control /\ Cover /\ Custody /\ Tally /\ Sending /\ [Next]_vars
      => [Pipe!PipeNext]_(Pipe!pipeVars)
<1> SUFFICES ASSUME TypeOK, Control, Cover, Custody, Tally, Sending, [Next]_vars
             PROVE  Pipe!PipeNext \/ UNCHANGED Pipe!pipeVars
  OBVIOUS
<1> USE DEF callerVars, workerVars
<1>1. CASE UNCHANGED vars \/ Rest
  BY <1>1, CallerStutter DEF Rest, vars
<1>2. ASSUME NEW g \in Caller, Cancel(g) PROVE UNCHANGED Pipe!pipeVars
  BY <1>2, CallerStutter DEF Cancel
<1>3. ASSUME NEW i \in Item, EnqueueStep(i)
      PROVE  Pipe!PipeNext \/ UNCHANGED Pipe!pipeVars
  <2>1. CASE Accept(i)
    BY <2>1, AcceptPipe DEF Pipe!PipeNext
  <2>2. CASE WaitForRoom(i) \/ GiveUpRoom(i) \/ Refuse(i) \/ AwaitReturn(i)
    BY <2>2, CallerStutter DEF WaitForRoom, GiveUpRoom, Refuse, AwaitReturn
  <2>3. CASE NoteDrop(i)
    <3>1. /\ UNCHANGED <<pending, sent, ticket, accepting, victim, workerAt, batch>>
          /\ done' = done \cup victim[i]
      BY <2>3 DEF NoteDrop, Finish
    <3>2. done \subseteq done' /\ done' \subseteq done \cup Evicted
      BY <3>1 DEF Evicted
    <3> QED
      BY <3>1, <3>2, CallerStutter
  <2> QED
    BY <1>3, <2>1, <2>2, <2>3 DEF EnqueueStep
<1>4. ASSUME NEW w \in Worker, RunStep(w)
      PROVE  Pipe!PipeNext \/ UNCHANGED Pipe!pipeVars
  BY <1>4, ClaimPipe, SendPipe, FinishPipe, WorkerStutter DEF RunStep, Pipe!PipeNext
<1>5. ASSUME NEW d \in Drainer, CallFlush(d) \/ CallClose(d) \/ DrainStep(d)
      PROVE  Pipe!PipeNext \/ UNCHANGED Pipe!pipeVars
  <2>1. CASE CallFlush(d) \/ DrainStep(d)
    BY <2>1, CallerStutter DEF CallFlush, DrainStep, DrainDone, DrainWait, DrainGiveUp
  <2>2. CASE CallClose(d)
    <3>1. /\ UNCHANGED <<pending, sent, ticket, victim, done, workerAt, batch>>
          /\ accepting' = FALSE
      BY <2>2 DEF CallClose, StopAccepting
    <3>2. Evicted' = Evicted /\ InHand' = InHand
      BY <3>1 DEF Evicted, InHand, Active
    <3> QED
      BY <3>1, <3>2 DEF Pipe!PipeNext, Pipe!Shut
  <2> QED
    BY <1>5, <2>1, <2>2
<1> QED
  BY <1>1, <1>2, <1>3, <1>4, <1>5 DEF Next

\* The queue implements the pipe: goroutines, signals, worker restarts and the
\* unlocked window between a batch's steps add no behaviour.
THEOREM QueueImplementsPipe == Spec => ImplementsPipe
<1>1. Init => Sending /\ Pipe!PipeInit
  BY InitSending, InitPipe
<1> QED
  BY <1>1, NextSending, NextPipe, TypeCorrect, ControlCorrect, CustodyCorrect,
     TallyCorrect, PTL DEF Spec, ImplementsPipe, Pipe!PipeSpec
=============================================================================
