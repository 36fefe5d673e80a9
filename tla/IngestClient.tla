---------------------------- MODULE IngestClient ----------------------------
(***************************************************************************)
(* One delivery of a batch: Client.Send (src/armatureanalytics/ingest.go)  *)
(* with its attempts, the pause between them, and the context it runs      *)
(* under: the delivery budget that the worker and emitReserved give it     *)
(* (recorder.go, deliveryBudget), or a caller's own.                       *)
(*                                                                         *)
(* Time is a counter.  What Send does takes no time, waiting does, and a   *)
(* timer that has expired is served before time goes on.  The network may  *)
(* lose a request or an answer or delay either, and the server may handle  *)
(* a request after Send has given it up.                                   *)
(***************************************************************************)
EXTENDS Integers, FiniteSets

CONSTANTS
    MaxAttempts,   \* DefaultIngestMaxAttempts
    Timeout,       \* of the http.Client, for one exchange and its body
    RetryDelay,    \* DefaultIngestRetryDelay
    OwnDeadlines,  \* deadlines of callers' own contexts
    EventCounts    \* sizes of batches

\* The formula of deliveryBudget covers one pause, hence two attempts.
ASSUME IngestAssumption ==
    /\ MaxAttempts = 2
    /\ Timeout \in Nat \ {0}
    /\ RetryDelay \in Nat \ {0}
    /\ OwnDeadlines \subseteq Nat
    /\ EventCounts \subseteq Nat

Attempt == 1..MaxAttempts

VARIABLES
    now,        \* time since Send was called
    deadline,   \* of ctx
    cancelled,  \* whether the caller cancelled ctx before its deadline
    events,     \* len(batch.Events)
    pc,         \* where Send is
    attempt,    \* the loop variable
    alarm,      \* when the timer that Send waits for expires
    reply,      \* the response whose body is read, or the last one read
    outcome,    \* what Send returned
    underway,   \* attempts whose request the server has not handled
    answers,    \* the server's answers, with their attempts
    kept,       \* attempts of which the server has stored the whole batch
    seen        \* attempts whose status line reached Send

timeVars   == <<now, alarm>>
ctxVars    == <<deadline, cancelled, events>>
clientVars == <<pc, attempt, reply, outcome, seen>>
serverVars == <<underway, answers, kept>>
vars == <<timeVars, ctxVars, clientVars, serverVars>>

\* 2xx: everything accepted or known already, some events refused, none
\* accepted, or a body that is no ingestResponse.  429 and 5xx are "busy", any
\* other status "refused"; their bodies name an error code or not.
Verdict == {"accepted", "rejected", "nothing", "opaque"}
Detail  == {"code", "opaque"}
Reply   == [status : {"ok"}, body : Verdict]
              \cup [status : {"busy", "refused"}, body : Detail]
NoReply == [status |-> "none", body |-> "opaque"]

Code == {"none", "ingest_cancelled", "ingest_timeout",
         "ingest_connection_failed", "ingest_http", "server_code"}
Result == [kind : {"pending", "nil", "rejection", "delivery"}, code : Code,
           status : {"none", "ok", "busy", "refused"}, attempts : 0..MaxAttempts,
           retryable : BOOLEAN]
Pending == [kind |-> "pending", code |-> "none", status |-> "none",
            attempts |-> 0, retryable |-> FALSE]

-----------------------------------------------------------------------------
(* Slips: wrong versions of the building blocks below, used by no          *)
(* specification; they confirm that the properties notice such a slip.     *)
RetryOnceMore      == attempt <= MaxAttempts
BudgetWithoutPause   == MaxAttempts * Timeout
CountUnread(r, n)  == r.body = "rejected"

-----------------------------------------------------------------------------
(* Building blocks *)

\* Recorder.deliveryBudget
Budget == MaxAttempts * Timeout + RetryDelay

\* attempt < DefaultIngestMaxAttempts
MayRetry == attempt < MaxAttempts

\* 429 or 5xx
Retryable(r) == r.status = "busy"

\* ingestBodyError: refused events, or nothing accepted of a batch with events
Refusal(r, n) == r.body = "rejected" \/ (r.body = "nothing" /\ n > 0)

CtxEnded == cancelled \/ now >= deadline

\* ctx.Err() of an ended context, as a code
CtxCode == IF cancelled THEN "ingest_cancelled" ELSE "ingest_timeout"

Failure(code, status, retryable) ==
    [kind |-> "delivery", code |-> code, status |-> status,
     attempts |-> attempt, retryable |-> retryable]

Return(result) ==
    /\ outcome' = result
    /\ pc' = "returned"
    /\ UNCHANGED <<attempt, alarm>>

WaitForRetry ==
    /\ pc' = "backoff"
    /\ alarm' = now + RetryDelay
    /\ UNCHANGED <<attempt, outcome>>

Init ==
    /\ now = 0
    /\ deadline \in {Budget} \cup OwnDeadlines
    /\ cancelled = FALSE
    /\ events \in EventCounts
    /\ pc = "post"
    /\ attempt = 1
    /\ alarm = 0
    /\ reply = NoReply
    /\ outcome = Pending
    /\ underway = {}
    /\ answers = {}
    /\ kept = {}
    /\ seen = {}

-----------------------------------------------------------------------------
(* Send *)

\* httpClient.Do begins; the request gets out or not.
Post ==
    /\ pc = "post"
    /\ pc' = "exchange"
    /\ alarm' = now + Timeout
    /\ reply' = NoReply
    /\ underway' \in {underway, underway \cup {attempt}}
    /\ UNCHANGED <<now, ctxVars, attempt, outcome, seen, answers, kept>>

\* Do returns an error and ctx is over.
ExchangeCutShort ==
    /\ pc = "exchange"
    /\ CtxEnded
    /\ Return(Failure(CtxCode, "none", ~cancelled))
    /\ UNCHANGED <<now, ctxVars, reply, seen, serverVars>>

\* Do returns another error: the http.Client's timeout, or a connection that
\* failed at any time (the transport's own, shorter timeouts are of this kind).
ExchangeFails ==
    /\ pc = "exchange"
    /\ ~CtxEnded
    /\ \/ MayRetry /\ WaitForRetry
       \/ /\ ~MayRetry
          /\ \/ now = alarm /\ Return(Failure("ingest_timeout", "none", TRUE))
             \/ Return(Failure("ingest_connection_failed", "none", TRUE))
    /\ UNCHANGED <<now, ctxVars, reply, seen, serverVars>>

\* Do returns a response; its body is still to be read.
ResponseArrives(r) ==
    /\ pc = "exchange"
    /\ <<attempt, r>> \in answers
    /\ pc' = "body"
    /\ reply' = r
    /\ seen' = seen \cup {attempt}
    /\ UNCHANGED <<timeVars, ctxVars, attempt, outcome, serverVars>>

\* 2xx: the body decides, and one that cannot be read counts as delivered.
JudgeBody(r) ==
    Return([kind |-> IF Refusal(r, events) THEN "rejection" ELSE "nil",
            code |-> "none", status |-> "ok", attempts |-> attempt,
            retryable |-> FALSE])

\* Any other status: another attempt if that may help.
JudgeStatus(r) ==
    \/ Retryable(r) /\ MayRetry /\ WaitForRetry
    \/ /\ ~(Retryable(r) /\ MayRetry)
       /\ Return(Failure(IF r.body = "code" THEN "server_code" ELSE "ingest_http",
                         r.status, Retryable(r)))

\* The body was read, or reading it failed or ran into a timeout.
ReadBody(r) ==
    /\ pc = "body"
    /\ r \in {reply, [reply EXCEPT !.body = "opaque"]}
    /\ reply' = r
    /\ IF r.status = "ok" THEN JudgeBody(r) ELSE JudgeStatus(r)
    /\ UNCHANGED <<now, ctxVars, seen, serverVars>>

\* waitForRetry: the timer
RetryTimerFires ==
    /\ pc = "backoff"
    /\ now = alarm
    /\ pc' = "post"
    /\ attempt' = attempt + 1
    /\ UNCHANGED <<timeVars, ctxVars, reply, outcome, seen, serverVars>>

\* waitForRetry: ctx, whose error is reported as a timeout whatever it is
RetryCutShort ==
    /\ pc = "backoff"
    /\ CtxEnded
    /\ Return(Failure("ingest_timeout", reply.status, TRUE))
    /\ UNCHANGED <<now, ctxVars, reply, seen, serverVars>>

SendStep ==
    \/ Post \/ ExchangeCutShort \/ ExchangeFails \/ RetryTimerFires
    \/ RetryCutShort
    \/ \E r \in Reply : ResponseArrives(r) \/ ReadBody(r)

-----------------------------------------------------------------------------
(* The world around it *)

\* The server handles a request, at once or long after.  It is honest, except
\* that a 2xx without an ingestResponse may come from something in between.
ServerAnswers(a, r) ==
    /\ a \in underway
    /\ underway' = underway \ {a}
    /\ answers' = answers \cup {<<a, r>>}
    /\ \/ r.status = "ok" /\ r.body \in {"accepted", "opaque"} /\ kept' = kept \cup {a}
       \/ r.body # "accepted" /\ UNCHANGED kept
    /\ UNCHANGED <<timeVars, ctxVars, clientVars>>

\* The caller cancels its own context.
Cancel ==
    /\ pc # "returned"
    /\ ~CtxEnded
    /\ deadline # Budget
    /\ cancelled' = TRUE
    /\ UNCHANGED <<timeVars, deadline, events, clientVars, serverVars>>

\* A timer that has expired, or a context that is over, is served first.
Waiting ==
    /\ pc \in {"exchange", "body", "backoff"}
    /\ now < alarm
    /\ ~CtxEnded

Tick ==
    /\ Waiting
    /\ now' = now + 1
    /\ UNCHANGED <<alarm, ctxVars, clientVars, serverVars>>

Rest == pc = "returned" /\ underway = {} /\ UNCHANGED vars

Next ==
    \/ SendStep
    \/ \E a \in Attempt, r \in Reply : ServerAnswers(a, r)
    \/ Cancel
    \/ Tick
    \/ Rest

Spec == Init /\ [][Next]_vars

-----------------------------------------------------------------------------
(* Properties *)

TypeOK ==
    /\ {now, deadline, alarm, events} \subseteq Nat
    /\ cancelled \in BOOLEAN
    /\ pc \in {"post", "exchange", "body", "backoff", "returned"}
    /\ attempt \in Attempt
    /\ reply \in Reply \cup {NoReply}
    /\ outcome \in Result
    /\ {underway, kept, seen} \subseteq SUBSET Attempt
    /\ answers \subseteq Attempt \X Reply

\* deliveryBudget: the deadline the recorder sets leaves room for every
\* attempt.  Whatever is lost and however late it comes, an error that a retry
\* might have cured is reported only after the last attempt, and an attempt
\* that timed out had its full Timeout.
BudgetCoversRetry ==
    deadline = Budget /\ outcome.kind = "delivery" /\ outcome.retryable
        => /\ outcome.attempts = MaxAttempts
           /\ outcome.code = "ingest_timeout" => now >= alarm

\* Send returns by the end of its context, and within the budget even if the
\* context has no deadline worth the name (time stops when Send returns).
ReturnsInTime == now <= deadline /\ now <= Budget

\* What Send tells Config.OnError is true of the server.  A batch reported as
\* delivered was stored, unless the part of the answer that says otherwise was
\* unreadable or the batch was empty; one reported as refused was not stored
\* whole; and if a failed delivery was stored after all, the answer that said
\* so never came: nothing is sent again after an answer that settles it.
ReportIsTrue ==
    /\ outcome.kind = "nil" =>
           attempt \in kept \/ reply.body = "opaque" \/ events = 0
    /\ outcome.kind = "rejection" => attempt \notin kept
    /\ outcome.kind = "delivery" => kept \cap seen = {}
=============================================================================
