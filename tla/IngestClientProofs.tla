------------------------- MODULE IngestClientProofs -------------------------
(***************************************************************************)
(* Proofs about IngestClient, for every timeout, retry delay and deadline: *)
(* type correctness, the delivery budget is what Send needs and no less,   *)
(* and what Send reports is true of the server.                            *)
(***************************************************************************)
EXTENDS IngestClient, TLAPS

LEMMA BudgetIs ==
    /\ Budget = Timeout + Timeout + RetryDelay
    /\ Budget \in Nat /\ Timeout \in Nat \ {0} /\ RetryDelay \in Nat \ {0}
  BY IngestAssumption DEF Budget

LEMMA Attempts == Attempt = {1, 2}
  BY IngestAssumption DEF Attempt

-----------------------------------------------------------------------------
(* Types *)

\* What an attempt reports of its failure is a result.
LEMMA FailureType ==
    ASSUME NEW code \in Code, NEW status \in {"none", "ok", "busy", "refused"},
           NEW retryable \in BOOLEAN, attempt \in Attempt
    PROVE  Failure(code, status, retryable) \in Result
  BY IngestAssumption DEF Failure, Result, Attempt

\* A body that could not be read leaves a reply.
LEMMA ReplyType ==
    ASSUME NEW r \in Reply
    PROVE  [r EXCEPT !.body = "opaque"] \in Reply
  BY DEF Reply, Verdict, Detail

\* The judgement of a response is a result, or there is a pause.
LEMMA ReadType ==
    ASSUME TypeOK, NEW r \in Reply, ReadBody(r)
    PROVE  /\ pc' \in {"returned", "backoff"}
           /\ alarm' \in Nat
           /\ outcome' \in Result
           /\ attempt' = attempt
           /\ reply' = r
  <1>1. attempt' = attempt /\ reply' = r
    BY DEF ReadBody, JudgeBody, JudgeStatus, Return, WaitForRetry
  <1>2. CASE r.status = "ok"
    <2>1. Return([kind |-> IF Refusal(r, events) THEN "rejection" ELSE "nil",
                  code |-> "none", status |-> "ok", attempts |-> attempt,
                  retryable |-> FALSE])
      BY <1>2 DEF ReadBody, JudgeBody
    <2> QED BY <1>1, <2>1, IngestAssumption DEF Return, Result, Code, TypeOK, Attempt
  <1>3. CASE r.status # "ok"
    <2>1. r.status \in {"busy", "refused"}
      BY <1>3 DEF Reply
    <2>2. CASE WaitForRetry
      BY <1>1, <2>2, IngestAssumption DEF WaitForRetry, TypeOK
    <2>3. ASSUME Return(Failure(IF r.body = "code" THEN "server_code"
                                ELSE "ingest_http", r.status, Retryable(r)))
          PROVE  pc' = "returned" /\ alarm' = alarm /\ outcome' \in Result
      <3>1. Failure(IF r.body = "code" THEN "server_code" ELSE "ingest_http",
                    r.status, Retryable(r)) \in Result
        BY <2>1, FailureType DEF Code, Retryable, TypeOK
      <3> QED BY <2>3, <3>1 DEF Return
    <2> QED BY <1>1, <1>3, <2>2, <2>3 DEF ReadBody, JudgeStatus, TypeOK
  <1> QED BY <1>2, <1>3

LEMMA InitType == Init => TypeOK
  <1> SUFFICES ASSUME Init PROVE TypeOK
    OBVIOUS
  <1>1. deadline \in Nat /\ events \in Nat
    BY BudgetIs, IngestAssumption DEF Init
  <1>2. outcome \in Result
    BY IngestAssumption DEF Init, Pending, Result, Code
  <1>3. attempt \in Attempt
    BY Attempts DEF Init
  <1>4. {now, deadline, alarm, events} \subseteq Nat
    BY <1>1 DEF Init
  <1>5. {underway, kept, seen} \subseteq SUBSET Attempt /\ answers \subseteq Attempt \X Reply
    BY DEF Init
  <1> QED BY <1>2, <1>3, <1>4, <1>5 DEF Init, TypeOK

\* Only the first attempt is followed by a pause.
Pauses == pc = "backoff" => attempt = 1

LEMMA StepPauses == TypeOK /\ Pauses /\ [Next]_vars => Pauses'
  <1> SUFFICES ASSUME TypeOK, Pauses, [Next]_vars PROVE Pauses'
    OBVIOUS
  <1> USE DEF timeVars, ctxVars, clientVars, serverVars
  <1>1. MayRetry => attempt = 1
    BY Attempts, IngestAssumption DEF MayRetry, TypeOK
  <1>2. CASE Post \/ ExchangeCutShort \/ RetryTimerFires \/ RetryCutShort
    BY <1>2 DEF Post, ExchangeCutShort, RetryTimerFires, RetryCutShort, Return, Pauses
  <1>3. CASE ExchangeFails
    BY <1>1, <1>3 DEF ExchangeFails, Return, WaitForRetry, Pauses
  <1>4. ASSUME NEW r \in Reply, ResponseArrives(r) \/ ReadBody(r) PROVE Pauses'
    BY <1>1, <1>4 DEF ResponseArrives, ReadBody, JudgeBody, JudgeStatus,
                      Return, WaitForRetry, Pauses
  <1>5. ASSUME NEW a, NEW r, ServerAnswers(a, r) PROVE Pauses'
    BY <1>5 DEF ServerAnswers, Pauses
  <1>6. CASE Cancel \/ Tick \/ Rest \/ UNCHANGED vars
    BY <1>6 DEF Cancel, Tick, Rest, vars, Pauses
  <1> QED BY <1>2, <1>3, <1>4, <1>5, <1>6 DEF Next, SendStep

LEMMA StepType == TypeOK /\ Pauses /\ [Next]_vars => TypeOK'
  <1> SUFFICES ASSUME TypeOK, Pauses, [Next]_vars PROVE TypeOK'
    OBVIOUS
  <1> USE DEF timeVars, ctxVars, clientVars, serverVars
  <1>1. CASE Post
    BY <1>1, IngestAssumption DEF Post, TypeOK
  <1>2. CASE ExchangeCutShort
    <2>1. Failure(CtxCode, "none", ~cancelled) \in Result
      BY FailureType DEF CtxCode, Code, TypeOK
    <2> QED BY <1>2, <2>1 DEF ExchangeCutShort, Return, TypeOK
  <1>3. CASE ExchangeFails
    <2>1. CASE WaitForRetry
      BY <1>3, <2>1, IngestAssumption DEF ExchangeFails, WaitForRetry, TypeOK
    <2>2. ASSUME NEW code \in {"ingest_timeout", "ingest_connection_failed"},
                 Return(Failure(code, "none", TRUE))
          PROVE  TypeOK'
      <3>1. Failure(code, "none", TRUE) \in Result
        BY FailureType DEF Code, TypeOK
      <3> QED BY <1>3, <2>2, <3>1 DEF ExchangeFails, Return, TypeOK
    <2> QED BY <1>3, <2>1, <2>2 DEF ExchangeFails
  <1>4. CASE RetryTimerFires \/ RetryCutShort
    <2>1. CASE RetryTimerFires
      <3>1. attempt' \in Attempt
        BY <2>1, Attempts DEF RetryTimerFires, Pauses
      <3> QED BY <2>1, <3>1 DEF RetryTimerFires, TypeOK
    <2>2. CASE RetryCutShort
      <3>1. reply.status \in {"none", "ok", "busy", "refused"}
        BY DEF TypeOK, Reply, NoReply
      <3>2. Failure("ingest_timeout", reply.status, TRUE) \in Result
        BY <3>1, FailureType DEF Code, TypeOK
      <3> QED BY <2>2, <3>2 DEF RetryCutShort, Return, TypeOK
    <2> QED BY <1>4, <2>1, <2>2
  <1>5. ASSUME NEW r \in Reply, ResponseArrives(r) PROVE TypeOK'
    BY <1>5 DEF ResponseArrives, TypeOK
  <1>6. ASSUME NEW r \in Reply, ReadBody(r) PROVE TypeOK'
    BY <1>6, ReadType DEF ReadBody, TypeOK
  <1>7. ASSUME NEW a \in Attempt, NEW r \in Reply, ServerAnswers(a, r)
        PROVE  TypeOK'
    BY <1>7 DEF ServerAnswers, TypeOK
  <1>8. CASE Cancel \/ Tick \/ Rest \/ UNCHANGED vars
    <2>1. CASE Cancel
      BY <2>1 DEF Cancel, TypeOK
    <2>2. CASE Tick
      BY <2>2 DEF Tick, TypeOK
    <2>3. CASE UNCHANGED vars
      BY <2>3 DEF vars, TypeOK
    <2> QED BY <1>8, <2>1, <2>2, <2>3 DEF Rest
  <1> QED BY <1>1, <1>2, <1>3, <1>4, <1>5, <1>6, <1>7, <1>8 DEF Next, SendStep

\* The type invariant, for every timeout, delay and deadline.
THEOREM IngestTypeCorrect == Spec => []TypeOK
  <1>1. Init => Pauses
    BY DEF Init, Pauses
  <1> QED BY <1>1, InitType, StepPauses, StepType, PTL DEF Spec

-----------------------------------------------------------------------------
(* Time *)

\* When Send may be where: an attempt begins, and its timer expires, at the
\* latest at these times, which add up to the budget.
Latest(a) == IF a = 1 THEN 0 ELSE Timeout + RetryDelay

Schedule ==
    /\ now <= deadline
    /\ now <= Budget
    /\ pc = "post" => now <= Latest(attempt)
    /\ pc \in {"exchange", "body"} => /\ now <= alarm
                                      /\ alarm <= Latest(attempt) + Timeout
    /\ pc = "backoff" => /\ attempt = 1
                         /\ now <= alarm
                         /\ alarm <= Timeout + RetryDelay

\* Only a caller's own context is cancelled; Send reports at its end.
Quiet ==
    /\ cancelled => deadline # Budget
    /\ pc # "returned" => outcome = Pending

TimeInv == TypeOK /\ Pauses /\ Schedule /\ Quiet /\ BudgetCoversRetry

\* The room there is for each attempt.
LEMMA LatestFacts ==
    ASSUME TypeOK
    PROVE  /\ Latest(attempt) \in Nat
           /\ Latest(attempt) + Timeout <= Budget
           /\ MayRetry <=> attempt = 1
           /\ attempt = 1 => Latest(attempt) = 0
           /\ ~MayRetry => attempt = MaxAttempts
  <1>1. attempt \in {1, 2} /\ MaxAttempts = 2
    BY Attempts, IngestAssumption DEF TypeOK
  <1> QED BY <1>1, BudgetIs DEF Latest, MayRetry

LEMMA InitTime == Init => TimeInv
  <1> SUFFICES ASSUME Init PROVE TimeInv
    OBVIOUS
  <1>1. TypeOK /\ Pauses
    BY InitType DEF Init, Pauses
  <1>2. Schedule
    BY <1>1, BudgetIs DEF Init, Schedule, Latest, TypeOK
  <1>3. Quiet /\ BudgetCoversRetry
    BY DEF Init, Quiet, BudgetCoversRetry, Pending
  <1> QED BY <1>1, <1>2, <1>3 DEF TimeInv

LEMMA StepSchedule == TimeInv /\ [Next]_vars => Schedule'
  <1> SUFFICES ASSUME TimeInv, [Next]_vars PROVE Schedule'
    OBVIOUS
  <1> USE DEF TimeInv, timeVars, ctxVars, clientVars, serverVars
  <1>1. /\ {now, deadline, alarm, Budget, Timeout, RetryDelay} \subseteq Nat
        /\ Budget = Timeout + Timeout + RetryDelay
    BY BudgetIs DEF TypeOK
  <1>2. /\ Latest(attempt) \in Nat
        /\ Latest(attempt) + Timeout <= Budget
        /\ MayRetry => attempt = 1 /\ Latest(attempt) = 0
    BY LatestFacts
  <1>3. CASE Post
    BY <1>1, <1>2, <1>3 DEF Post, Schedule
  <1>4. CASE ExchangeCutShort \/ RetryCutShort
    BY <1>4 DEF ExchangeCutShort, RetryCutShort, Return, Schedule
  <1>5. ASSUME WaitForRetry, MayRetry, pc \in {"exchange", "body"},
               UNCHANGED <<now, deadline>>
        PROVE  Schedule'
    BY <1>1, <1>2, <1>5 DEF WaitForRetry, Schedule
  <1>6. CASE ExchangeFails
    BY <1>5, <1>6 DEF ExchangeFails, Return, Schedule
  <1>7. CASE RetryTimerFires
    <2>1. Latest(attempt') = Timeout + RetryDelay
      BY <1>7 DEF RetryTimerFires, Schedule, Latest
    <2>2. now <= Timeout + RetryDelay
      BY <1>1, <1>7 DEF RetryTimerFires, Schedule
    <2> QED BY <1>7, <2>1, <2>2 DEF RetryTimerFires, Schedule
  <1>8. ASSUME NEW r \in Reply, ResponseArrives(r) PROVE Schedule'
    BY <1>8 DEF ResponseArrives, Schedule
  <1>9. ASSUME NEW r \in Reply, ReadBody(r) PROVE Schedule'
    <2>1. CASE WaitForRetry /\ MayRetry
      BY <1>5, <1>9, <2>1 DEF ReadBody
    <2>2. CASE pc' = "returned"
      BY <1>9, <2>2 DEF ReadBody, Schedule
    <2> QED BY <1>9, <2>1, <2>2 DEF ReadBody, JudgeBody, JudgeStatus, Return
  <1>10. ASSUME NEW a, NEW r, ServerAnswers(a, r) PROVE Schedule'
    BY <1>10 DEF ServerAnswers, Schedule
  <1>11. CASE Cancel \/ Rest \/ UNCHANGED vars
    BY <1>11 DEF Cancel, Rest, vars, Schedule
  <1>12. CASE Tick
    <2>1. /\ now < alarm /\ now < deadline /\ now' = now + 1
          /\ UNCHANGED <<pc, attempt, alarm, deadline>>
          /\ pc \in {"exchange", "body", "backoff"}
      BY <1>1, <1>12 DEF Tick, Waiting, CtxEnded
    <2>2. alarm <= Budget
      BY <1>1, <1>2, <2>1 DEF Schedule
    <2> QED BY <1>1, <2>1, <2>2 DEF Schedule
  <1> QED BY <1>3, <1>4, <1>6, <1>7, <1>8, <1>9, <1>10, <1>11, <1>12
          DEF Next, SendStep

LEMMA StepBudget == TimeInv /\ [Next]_vars => Quiet' /\ BudgetCoversRetry'
  <1> SUFFICES ASSUME TimeInv, [Next]_vars PROVE Quiet' /\ BudgetCoversRetry'
    OBVIOUS
  <1> USE DEF TimeInv, timeVars, ctxVars, clientVars, serverVars
  <1>1. /\ {now, deadline, alarm, Budget, Timeout, RetryDelay} \subseteq Nat
        /\ Budget = Timeout + Timeout + RetryDelay
        /\ Timeout > 0 /\ RetryDelay > 0
    BY BudgetIs DEF TypeOK
  <1>2. /\ Latest(attempt) \in Nat
        /\ Latest(attempt) + Timeout <= Budget
        /\ attempt = 1 => Latest(attempt) = 0
        /\ MayRetry <=> attempt = 1
        /\ ~MayRetry => attempt = MaxAttempts
    BY LatestFacts
  <1>3. CtxEnded /\ deadline = Budget => now >= Budget
    BY DEF CtxEnded, Quiet
  <1>4. CASE Post \/ RetryTimerFires \/ Tick \/ Rest \/ Cancel \/ UNCHANGED vars
    <2>1. UNCHANGED <<outcome, deadline>> /\ (outcome # Pending => UNCHANGED <<now, alarm>>)
      BY <1>4 DEF Post, RetryTimerFires, Tick, Waiting, Rest, Cancel, vars, Quiet
    <2>2. BudgetCoversRetry'
      BY <2>1 DEF BudgetCoversRetry, Pending
    <2>3. Quiet'
      BY <1>4 DEF Post, RetryTimerFires, Tick, Waiting, Rest, Cancel, vars, Quiet
    <2> QED BY <2>2, <2>3
  <1>5. ASSUME NEW r \in Reply, ResponseArrives(r) PROVE Quiet' /\ BudgetCoversRetry'
    BY <1>5 DEF ResponseArrives, Quiet, BudgetCoversRetry
  <1>6. ASSUME NEW a, NEW r, ServerAnswers(a, r) PROVE Quiet' /\ BudgetCoversRetry'
    BY <1>6 DEF ServerAnswers, Quiet, BudgetCoversRetry
  <1>7. CASE ExchangeCutShort
    <2>1. deadline = Budget => attempt = MaxAttempts /\ now >= alarm
      <3>1. pc = "exchange" /\ CtxEnded
        BY <1>7 DEF ExchangeCutShort
      <3>2. now <= alarm /\ alarm <= Latest(attempt) + Timeout
        BY <3>1 DEF Schedule
      <3>3. deadline = Budget => now >= Budget
        BY <1>3, <3>1
      <3>4. deadline = Budget => now >= alarm
        BY <1>1, <1>2, <3>2, <3>3
      <3>5. deadline = Budget => attempt # 1
        BY <1>1, <1>2, <3>2, <3>3
      <3> QED BY <1>2, <3>4, <3>5
    <2>2. outcome' = Failure(CtxCode, "none", ~cancelled) /\ pc' = "returned"
          /\ UNCHANGED <<now, alarm, deadline, cancelled>>
      BY <1>7 DEF ExchangeCutShort, Return
    <2> QED BY <2>1, <2>2 DEF Failure, Quiet, BudgetCoversRetry, Budget
  <1>8. CASE RetryCutShort
    <2>1. deadline # Budget
      BY <1>1, <1>3, <1>8 DEF RetryCutShort, Schedule
    <2> QED BY <1>8, <2>1 DEF RetryCutShort, Return, Quiet, BudgetCoversRetry, Budget
  <1>9. CASE ExchangeFails
    <2>1. CASE WaitForRetry
      BY <1>9, <2>1 DEF ExchangeFails, WaitForRetry, Quiet, BudgetCoversRetry, Pending
    <2>2. ASSUME ~MayRetry, NEW code, code = "ingest_timeout" => now = alarm,
                 Return(Failure(code, "none", TRUE))
          PROVE  Quiet' /\ BudgetCoversRetry'
      <3>1. attempt = MaxAttempts
        BY <1>2, <2>2
      <3> QED BY <1>1, <1>9, <2>2, <3>1
              DEF ExchangeFails, Return, Failure, Quiet, BudgetCoversRetry, Budget
    <2>3. \/ WaitForRetry
          \/ ~MayRetry /\ now = alarm /\ Return(Failure("ingest_timeout", "none", TRUE))
          \/ ~MayRetry /\ Return(Failure("ingest_connection_failed", "none", TRUE))
      BY <1>9 DEF ExchangeFails
    <2> QED BY <2>1, <2>2, <2>3
  <1>10. ASSUME NEW r \in Reply, ReadBody(r) PROVE Quiet' /\ BudgetCoversRetry'
    <2>1. CASE WaitForRetry
      BY <1>10, <2>1 DEF ReadBody, WaitForRetry, Quiet, BudgetCoversRetry, Pending
    <2>2. CASE JudgeBody(r)
      BY <1>10, <2>2 DEF ReadBody, JudgeBody, Return, Quiet, BudgetCoversRetry
    <2>3. CASE JudgeStatus(r) /\ ~WaitForRetry
      <3>1. /\ ~(Retryable(r) /\ MayRetry)
            /\ Return(Failure(IF r.body = "code" THEN "server_code" ELSE "ingest_http",
                              r.status, Retryable(r)))
        BY <2>3 DEF JudgeStatus
      <3>2. /\ outcome'.code # "ingest_timeout"
            /\ outcome'.retryable = Retryable(r)
            /\ outcome'.attempts = attempt
            /\ pc' = "returned"
        BY <3>1 DEF Return, Failure
      <3>3. outcome'.retryable => outcome'.attempts = MaxAttempts
        BY <1>2, <3>1, <3>2
      <3> QED BY <1>10, <3>2, <3>3 DEF ReadBody, Quiet, BudgetCoversRetry, Budget
    <2> QED BY <1>10, <2>1, <2>2, <2>3 DEF ReadBody
  <1> QED BY <1>4, <1>5, <1>6, <1>7, <1>8, <1>9, <1>10 DEF Next, SendStep

LEMMA StepTime == TimeInv /\ [Next]_vars => TimeInv'
  BY StepPauses, StepType, StepSchedule, StepBudget DEF TimeInv

\* The deadline the recorder sets leaves room for every attempt, for every
\* timeout and retry delay.
THEOREM BudgetSuffices == Spec => []BudgetCoversRetry
  <1>1. TimeInv => BudgetCoversRetry
    BY DEF TimeInv
  <1> QED BY <1>1, InitTime, StepTime, PTL DEF Spec

\* Send returns by the end of its context and within the budget.
THEOREM SendReturnsInTime == Spec => []ReturnsInTime
  <1>1. TimeInv => ReturnsInTime
    BY DEF TimeInv, Schedule, ReturnsInTime
  <1> QED BY <1>1, InitTime, StepTime, PTL DEF Spec

-----------------------------------------------------------------------------
(* The report *)

\* The server answers a request once and says what it did.
Server ==
    /\ kept \cap underway = {}
    /\ \A a \in Attempt, r \in Reply : <<a, r>> \in answers =>
           /\ a \notin underway
           /\ a \in kept => r.status = "ok" /\ r.body \in {"accepted", "opaque"}
           /\ r.status = "ok" /\ r.body = "accepted" => a \in kept

\* Nothing is known of an attempt before it begins.
Untouched(a) ==
    /\ a \notin underway \cup kept \cup seen
    /\ \A r \in Reply : <<a, r>> \notin answers

Order ==
    \A a \in Attempt : a > attempt \/ (a = attempt /\ pc = "post") => Untouched(a)

\* The answers Send has seen settle nothing while it goes on, except the one
\* whose body it is about to read.
Reading ==
    /\ pc = "body" => <<attempt, reply>> \in answers /\ attempt \in seen
    /\ \A a \in seen :
           /\ a \notin underway
           /\ a \in kept => \/ pc = "body" /\ a = attempt
                          \/ outcome.kind \in {"nil", "rejection"}
    /\ outcome.kind = "rejection" => attempt \in seen

ReportInv ==
    /\ TypeOK /\ Pauses /\ Quiet
    /\ Server /\ Order /\ Reading /\ ReportIsTrue

LEMMA StepQuiet == Quiet /\ [Next]_vars => Quiet'
  <1> SUFFICES ASSUME Quiet, [Next]_vars PROVE Quiet'
    OBVIOUS
  <1> USE DEF timeVars, ctxVars, clientVars, serverVars
  <1>1. CASE Post \/ ExchangeCutShort \/ RetryTimerFires \/ RetryCutShort
    <2>1. UNCHANGED <<cancelled, deadline, Budget>>
      BY <1>1 DEF Post, ExchangeCutShort, RetryTimerFires, RetryCutShort, Budget
    <2>2. pc # "returned" /\ (pc' = "returned" \/ outcome' = outcome)
      BY <1>1 DEF Post, ExchangeCutShort, RetryTimerFires, RetryCutShort, Return
    <2> QED BY <2>1, <2>2 DEF Quiet
  <1>2. CASE ExchangeFails
    BY <1>2 DEF ExchangeFails, Return, WaitForRetry, Quiet, Budget
  <1>3. ASSUME NEW r \in Reply, ResponseArrives(r) \/ ReadBody(r) PROVE Quiet'
    BY <1>3 DEF ResponseArrives, ReadBody, JudgeBody, JudgeStatus, Return,
                WaitForRetry, Quiet, Budget
  <1>4. ASSUME NEW a, NEW r, ServerAnswers(a, r) PROVE Quiet'
    BY <1>4 DEF ServerAnswers, Quiet, Budget
  <1>5. CASE Cancel \/ Tick \/ Rest \/ UNCHANGED vars
    BY <1>5 DEF Cancel, Tick, Rest, vars, Quiet, Budget
  <1> QED BY <1>1, <1>2, <1>3, <1>4, <1>5 DEF Next, SendStep

LEMMA InitReport == Init => ReportInv
  <1> SUFFICES ASSUME Init PROVE ReportInv
    OBVIOUS
  <1>1. TypeOK /\ Pauses /\ Quiet
    BY InitTime DEF TimeInv
  <1>2. Server /\ Order
    BY DEF Init, Server, Order, Untouched
  <1>3. Reading /\ ReportIsTrue
    BY DEF Init, Reading, ReportIsTrue, Pending
  <1> QED BY <1>1, <1>2, <1>3 DEF ReportInv

\* The next attempt is one nothing is known of.
LEMMA StepServer == ReportInv /\ [Next]_vars => Server' /\ Order'
  <1> SUFFICES ASSUME ReportInv, [Next]_vars PROVE Server' /\ Order'
    OBVIOUS
  <1> USE DEF ReportInv, timeVars, ctxVars, clientVars, serverVars
  <1>1. attempt \in Attempt /\ Attempt = {1, 2}
    BY Attempts DEF TypeOK
  <1>2. CASE Post
    <2>1. /\ Untouched(attempt)
          /\ \A a \in Attempt : a > attempt => Untouched(a)
      BY <1>1, <1>2 DEF Post, Order
    <2>2. /\ underway' \subseteq underway \cup {attempt}
          /\ UNCHANGED <<kept, answers, seen, attempt>>
          /\ pc' = "exchange"
      BY <1>2 DEF Post
    <2>3. Server'
      BY <2>1, <2>2 DEF Server, Untouched
    <2>4. Order'
      BY <1>1, <2>1, <2>2 DEF Order, Untouched
    <2> QED BY <2>3, <2>4
  <1>3. CASE \/ ExchangeCutShort \/ ExchangeFails \/ RetryCutShort
             \/ \E r \in Reply : ReadBody(r)
    <2>1. UNCHANGED <<serverVars, seen, attempt>> /\ pc' # "post"
      BY <1>3 DEF ExchangeCutShort, ExchangeFails, RetryCutShort, ReadBody,
                  JudgeBody, JudgeStatus, Return, WaitForRetry
    <2> QED BY <2>1 DEF Server, Order, Untouched
  <1>4. CASE RetryTimerFires
    <2>1. UNCHANGED <<serverVars, seen>> /\ attempt' = attempt + 1
      BY <1>4 DEF RetryTimerFires
    <2>2. Server'
      BY <2>1 DEF Server
    <2>3. Order'
      BY <1>1, <2>1 DEF Order, Untouched
    <2> QED BY <2>2, <2>3
  <1>5. ASSUME NEW r \in Reply, ResponseArrives(r) PROVE Server' /\ Order'
    <2>1. /\ UNCHANGED <<serverVars, attempt>> /\ seen' = seen \cup {attempt}
          /\ pc' = "body"
      BY <1>5 DEF ResponseArrives
    <2>2. Server'
      BY <2>1 DEF Server
    <2>3. Order'
      BY <1>1, <2>1 DEF Order, Untouched
    <2> QED BY <2>2, <2>3
  <1>6. ASSUME NEW a \in Attempt, NEW r \in Reply, ServerAnswers(a, r)
        PROVE  Server' /\ Order'
    <2>1. /\ a \in underway /\ underway' = underway \ {a}
          /\ answers' = answers \cup {<<a, r>>}
          /\ UNCHANGED <<pc, attempt, seen>>
          /\ \/ /\ r.status = "ok" /\ r.body \in {"accepted", "opaque"}
                /\ kept' = kept \cup {a}
             \/ r.body # "accepted" /\ kept' = kept
      BY <1>6 DEF ServerAnswers
    <2>2. a \notin kept
      BY <2>1 DEF Server
    <2>3. Server'
      BY <2>1, <2>2 DEF Server
    <2>4. Order'
      BY <2>1 DEF Order, Untouched
    <2> QED BY <2>3, <2>4
  <1>7. CASE Cancel \/ Tick \/ Rest \/ UNCHANGED vars
    <2>1. UNCHANGED <<serverVars, seen, attempt, pc>>
      BY <1>7 DEF Cancel, Tick, Rest, vars
    <2> QED BY <2>1 DEF Server, Order, Untouched
  <1> QED BY <1>2, <1>3, <1>4, <1>5, <1>6, <1>7 DEF Next, SendStep

\* While Send goes on and no body is open, nothing it has seen was stored.
LEMMA NothingSettled ==
    ASSUME ReportInv, pc \notin {"body", "returned"}
    PROVE  kept \cap seen = {} /\ outcome = Pending
  <1>1. outcome = Pending
    BY DEF ReportInv, Quiet
  <1>2. outcome.kind = "pending"
    BY <1>1 DEF Pending
  <1> QED BY <1>1, <1>2 DEF ReportInv, Reading

\* A step that goes on or gives up reports truly if nothing was settled.
LEMMA GivesUp ==
    ASSUME ReportInv, kept \cap seen = {}, UNCHANGED <<serverVars, seen>>,
           pc' # "body", outcome' = Pending \/ outcome'.kind = "delivery"
    PROVE  Reading' /\ ReportIsTrue'
  <1>1. outcome'.kind \in {"pending", "delivery"}
    BY DEF Pending
  <1> QED BY <1>1 DEF ReportInv, Reading, ReportIsTrue, serverVars

\* What Send makes of a body it has read.
LEMMA JudgeTruly ==
    ASSUME ReportInv, NEW r \in Reply, ReadBody(r)
    PROVE  Reading' /\ ReportIsTrue'
  <1>1. /\ pc = "body" /\ r \in {reply, [reply EXCEPT !.body = "opaque"]}
        /\ reply' = r /\ attempt' = attempt
        /\ UNCHANGED <<events, seen, underway, answers, kept>>
    BY DEF ReadBody, JudgeBody, JudgeStatus, Return, WaitForRetry, ctxVars, serverVars
  <1>2. /\ <<attempt, reply>> \in answers /\ attempt \in seen
        /\ attempt \in Attempt /\ reply \in Reply /\ events \in Nat
    BY <1>1 DEF ReportInv, Reading, TypeOK
  <1>3. attempt \in kept => reply.status = "ok" /\ reply.body \in {"accepted", "opaque"}
    BY <1>2 DEF ReportInv, Server
  <1>4. r.status = reply.status /\ (r = reply \/ r.body = "opaque")
    BY <1>1, <1>2 DEF Reply
  <1>5. outcome.kind = "pending"
    BY <1>1 DEF ReportInv, Quiet, Pending
  <1>6. \A a \in seen : a \notin underway /\ (a \in kept => a = attempt)
    BY <1>1, <1>5 DEF ReportInv, Reading
  <1>7. CASE r.status = "ok"
    <2>1. /\ pc' = "returned"
          /\ outcome'.kind = IF Refusal(r, events) THEN "rejection" ELSE "nil"
      BY <1>7 DEF ReadBody, JudgeBody, Return
    <2>2. Reading'
      BY <1>1, <1>2, <1>6, <2>1 DEF Reading
    <2>3. outcome'.kind = "nil" => attempt \in kept \/ r.body = "opaque" \/ events = 0
      <3>1. SUFFICES ASSUME ~Refusal(r, events), r.body # "opaque", events # 0
                     PROVE  attempt \in kept
        BY <2>1
      <3>2. r = reply /\ r.body = "accepted"
        BY <1>2, <1>4, <1>7, <3>1 DEF Refusal, Reply, Verdict
      <3> QED BY <1>2, <1>7, <3>2 DEF ReportInv, Server
    <2>4. outcome'.kind = "rejection" => attempt \notin kept
      BY <1>3, <1>4, <2>1 DEF Refusal
    <2>5. outcome'.kind # "delivery"
      BY <2>1
    <2> QED BY <1>1, <2>2, <2>3, <2>4, <2>5 DEF ReportIsTrue
  <1>8. CASE r.status # "ok"
    <2>1. kept \cap seen = {}
      BY <1>3, <1>4, <1>6, <1>8
    <2>2. pc' # "body" /\ (outcome' = Pending \/ outcome'.kind = "delivery")
      <3>1. outcome = Pending
        BY <1>1 DEF ReportInv, Quiet
      <3> QED BY <1>8, <3>1 DEF ReadBody, JudgeStatus, Return, WaitForRetry, Failure
    <2> QED BY <1>1, <2>1, <2>2, GivesUp DEF serverVars
  <1> QED BY <1>7, <1>8

LEMMA StepReading == ReportInv /\ [Next]_vars => Reading' /\ ReportIsTrue'
  <1> SUFFICES ASSUME ReportInv, [Next]_vars PROVE Reading' /\ ReportIsTrue'
    OBVIOUS
  <1> USE DEF ReportInv, timeVars, ctxVars, clientVars
  <1>1. attempt \in Attempt /\ seen \subseteq Attempt /\ kept \subseteq Attempt
    BY DEF TypeOK
  <1>2. CASE Post
    <2>1. kept \cap seen = {} /\ outcome = Pending
      BY <1>2, NothingSettled DEF Post
    <2>2. attempt \notin seen
      BY <1>1, <1>2 DEF Post, Order, Untouched
    <2>3. outcome.kind = "pending"
      BY <2>1 DEF Pending
    <2> QED BY <1>2, <2>1, <2>2, <2>3 DEF Post, Reading, ReportIsTrue
  <1>3. CASE ExchangeCutShort \/ ExchangeFails \/ RetryTimerFires \/ RetryCutShort
    <2>1. kept \cap seen = {} /\ outcome = Pending
      BY <1>3, NothingSettled DEF ExchangeCutShort, ExchangeFails, RetryTimerFires,
                                  RetryCutShort
    <2>2. UNCHANGED <<serverVars, seen>> /\ pc' # "body"
      BY <1>3 DEF ExchangeCutShort, ExchangeFails, RetryTimerFires,
                  RetryCutShort, Return, WaitForRetry
    <2>3. outcome' = Pending \/ outcome'.kind = "delivery"
      BY <1>3, <2>1 DEF ExchangeCutShort, ExchangeFails, RetryTimerFires,
                        RetryCutShort, Return, WaitForRetry, Failure
    <2> QED BY <2>1, <2>2, <2>3, GivesUp
  <1>4. ASSUME NEW r \in Reply, ResponseArrives(r) PROVE Reading' /\ ReportIsTrue'
    <2>1. /\ <<attempt, r>> \in answers /\ seen' = seen \cup {attempt}
          /\ pc' = "body" /\ reply' = r
          /\ UNCHANGED <<attempt, outcome, events, underway, answers, kept>>
      BY <1>4 DEF ResponseArrives, serverVars
    <2>2. kept \cap seen = {} /\ outcome = Pending
      BY <1>4, NothingSettled DEF ResponseArrives
    <2>3. outcome.kind = "pending"
      BY <2>2 DEF Pending
    <2>4. attempt \notin underway
      BY <1>1, <2>1 DEF Server
    <2> QED BY <2>1, <2>2, <2>3, <2>4 DEF Reading, ReportIsTrue
  <1>5. ASSUME NEW a \in Attempt, NEW r \in Reply, ServerAnswers(a, r)
        PROVE  Reading' /\ ReportIsTrue'
    <2>1. /\ a \in underway /\ underway' = underway \ {a}
          /\ answers' = answers \cup {<<a, r>>}
          /\ kept \subseteq kept' /\ kept' \subseteq kept \cup {a}
          /\ UNCHANGED <<pc, attempt, reply, outcome, seen, events>>
      BY <1>5 DEF ServerAnswers
    <2>2. a \notin seen
      BY <2>1 DEF Reading
    <2>3. outcome.kind = "rejection" => attempt # a
      BY <2>2 DEF Reading
    <2>4. Reading'
      BY <2>1, <2>2 DEF Reading
    <2> QED BY <2>1, <2>2, <2>3, <2>4 DEF ReportIsTrue
  <1>6. CASE Cancel \/ Tick \/ Rest \/ UNCHANGED vars
    <2>1. UNCHANGED <<pc, attempt, reply, outcome, seen, events, underway, answers, kept>>
      BY <1>6 DEF Cancel, Tick, Rest, vars, serverVars
    <2> QED BY <2>1 DEF Reading, ReportIsTrue
  <1> QED BY <1>2, <1>3, <1>4, <1>5, <1>6, JudgeTruly DEF Next, SendStep

\* What Send reports is true of the server, however many of its requests and
\* answers are lost or late.
THEOREM SendTellsTheTruth == Spec => []ReportIsTrue
  <1>1. ReportInv /\ [Next]_vars => ReportInv'
    BY StepType, StepPauses, StepQuiet, StepServer, StepReading DEF ReportInv
  <1>2. ReportInv => ReportIsTrue
    BY DEF ReportInv
  <1> QED BY <1>1, <1>2, InitReport, PTL DEF Spec
=============================================================================
