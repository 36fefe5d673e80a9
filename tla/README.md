# A verification of mcp-analytics-go

`src/` is the Go SDK that instruments MCP servers and ships analytics events
to an ingest service. This directory holds TLA+ models of its concurrent core,
the TLC runs that check them on small instances, and TLAPS proofs of the
properties that matter most for every instance.

## 1. Inventory

| Component | Source | State | Operations | Hard behaviour |
|---|---|---|---|---|
| Privacy queue | `queue.go` | `pending`, `running`, `accepting`, `signal`, a `done` channel per item | `enqueue` (background or await), `run`, `flush`, `close` | a worker that retires while callers decide whether to start one; a broadcast channel that is replaced; overflow; contexts that end anywhere |
| Recorder lifecycle | `recorder.go` | `pendingCalls`, `closed`, `closeMu`, `inflight`, `dropped` | `onBeforeAny`, `onSuccess`, `onError`, `onAbandonedCall`, `RecordToolCall`, `ReserveCapabilityRequest`, `RecordReservedCapability`, `Release`, `Flush`, `Close` | completion against abandonment, registration against the sweep of Close, reservations held across a shutdown, reuse of a WaitGroup |
| Session deduplication, identity | `bounded_keys.go`, `recorder.go` | `lazySessions`, `emittedSession`, `sessionInfo`, `actorIdentifiers` | `Add`, `Delete`, `buildToolCallEvents`, `RecordSessionInit`, `identityEventFor` | marked before delivery; eviction; two goroutines that build events of one session |
| Ingest client | `ingest.go` | none between calls | `Send` | retry after a lost answer, a timeout that races the delivery budget |
| send_feedback | `send_feedback.go`, `official/send_feedback.go` | reservation in a result or a context | handler, `markCapabilityResult`, `attach`, `take` | a reservation must be settled once on every path |
| Official adapter | `official/official.go`, `official/modern_protocol.go` | `sessions`, `installed` | `middleware`, `rememberSession`, `forgetSessionWhenClosed` | a cleanup goroutine per session against reuse of the key |
| Stateless HTTP | `stateless_http*.go` | request context and headers | `WrapStatelessHTTPHandler`, `ResolveStatelessHTTPSession` | mint twice, header attached before the first write, session_init recorded after the answer |
| Telemetry capture | `tools.go`, `server.go` | `ownedTelemetryTools`, `serverTelemetryConfigs` | decoration, `WrapHandler`, extraction | ownership read at two moments; precedence of spellings through repeated normalization |
| Events, redaction | `event.go`, `sanitize.go`, `secrets.go` | the budget and the set of visited references of one walk | `FinalizeToolCallEvent`, `SanitizeValue`, `RedactSecretsInValue` | fail-closed hooks, budgets and truncation, shared and cyclic values |

How they interact. Hook goroutines register a call in `pendingCalls` and take
it again when it completes; they hand a *candidate* (a closure) to the queue.
One worker goroutine finalizes candidates (identity, session_init, redaction)
and calls `send`. A `send_feedback` call bypasses the queue: its handler takes a
reservation, which `inflight` counts, and its completion hook builds and posts
the event itself. `Flush` waits for both paths; `Close` first shuts both.

Tools are registered beside this, at any time: registration decorates a schema,
notes in a process-wide registry whose `telemetry` field it is, and adds the tool
to a server. On stateless HTTP servers a wrapper around the transport gives
clients of the older protocol a session id and records their session_init.

What makes each part correct is listed with the runs in section 3; what is hard
to test, line by line, in `PROJECT.json` under `hazards`.

## 2. Modules

| Module | What it is |
|---|---|
| `PrivacyQueue` | `queue.go`, every critical section of `q.mu` one action, every unlocked stretch actions of its own |
| `DeliveryPipe` | the abstract specification of the queue: admit, take in hand, ship, settle, shut. `PrivacyQueue` implements it (`ImplementsPipe`) |
| `Recorder` | the life of tool calls and reservations in `recorder.go`, over `DeliveryPipe` |
| `OfficialCall` | a tools/call in the official-SDK adapter: the middleware of `official.go`, the handler of `official/send_feedback.go`, the reservation between them |
| `Reservations` | the abstract ledger of reservations: take, claim, release, deliver, abandon, refuse, drain. `Recorder` and `OfficialCall` implement it (`ImplementsReservations`) |
| `BoundedKeySet` | `bounded_keys.go` as operators on a value |
| `SessionEvents` | which session_init, actor_identity and tool-call events are built and reach ingest, over `BoundedKeySet` and `DeliveryPipe` |
| `OfficialSessions` | the session cache of the official adapter: the middleware of a request as far as it resolves and remembers sessions, the end of sessions, the cleanup goroutines |
| `StatelessSession` | session identity on stateless HTTP servers: the wrapper, its response writer, the four ways a server may be built behind it, a client that echoes what it was given |
| `CallEvent` | pure: extraction and normalization of telemetry, the field map, the privacy stages, the event they make |
| `ToolTelemetry` | registration of tools, the ownership registry, the two readings of it for each call, over `CallEvent` |
| `SanitizeWalk` | the walks of `sanitize.go` and `secrets.go` over a heap of values |
| `IngestClient` | one `Client.Send` with time: attempts, the pause between them, the context it runs under, a lossy network and the server |
| `MCPrivacyQueue`, `MCRecorder`, `MCOfficialCall`, `MCOfficialSessions`, `MCSessionEvents`, `MCStatelessSession`, `MCToolTelemetry`, `MCSanitizeWalk` | instances for TLC (`IngestClient` has only numbers as constants and needs none) |
| `PrivacyQueueProofs` | types, one worker, nothing stranded, bounded, no lost wakeup, quiet after close, completeness of a drain, custody of items, honest await, counted drops, the pipe is implemented |
| `RecorderProofs` | types, exact counter, calls taken once, nothing retained, clean close, counted losses, the ledger is implemented |
| `OfficialCallProofs` | types, exact counter, the ledger is implemented, who settles what |
| `OfficialSessionsProofs` | types, one goroutine per entry, calls join their session |
| `IngestClientProofs` | types, the delivery budget, true reports |
| `SessionEventsProofs` | lemmas about `boundedKeySet`, exact deduplication |
| `StatelessSessionProofs` | types, answers name their session, calls join their handshake, seeds |
| `ToolTelemetryProofs` | lemmas about the functions of `CallEvent`, types, ownership, capture, the ruling registration, what a call says wins, failing closed; in its last part the walks of `SanitizeWalk`: types, the budget, payloads, cycles |

**PrivacyQueue.** `pc[g]` is the place of a goroutine inside `enqueue`, `flush`
or `close`; `workerAt[w]` the place of a goroutine inside `run`. `notifyLocked`
closes `q.signal` and replaces it: the set `listening` holds the goroutines that
hold the *current* channel, so `Notify` empties it, and a waiting goroutine
outside the set can run. `run` is Claim, Finalize (per item), StartSend or
SkipSend, SendReturns, FinishItem (per item), Announce, and Retire. `ticket`,
`clock`, `sent` and `owed` are history variables. One candidate yields at most
one entry of `sent` (its events travel together).

**Recorder.** Each call has two threads: its hooks, and the goroutine that
`context.AfterFunc` starts when its context ends. The two `active()` checks, the
take from `pendingCalls`, the reservation and the enqueue are separate steps, as
nothing in the code makes them atomic. The WaitGroup is modelled with the
window between the wake-up of `Wait` and its second look at the counter
(`waiter = "woken"`), where the Go runtime panics if an `Add` slipped in. `Close`
is CallClose, ShutQueue, QueueDrained, AwaitInflight, InflightDrained, and a
Sweep one entry at a time; its second `queue.flush` is left out since the shut
queue is idle by then. Out of the model: what an event contains, `session_init`
and identity events (they are `SessionEvents`), `emit` (no caller is left in the
code).

**OfficialCall.** `pc[c]` is the place of the middleware of call `c`: in the
chain (`next`), before the argument `capabilityState.take()`, in
`recordToolCall`, in the core recorder, in the deferred take. Customer
middleware inside the chain may invoke the handler any number of times
(`Attempt`), concurrently, with its own context, and panic; the chain of a call in
`Straggler` may return before an invocation does, and for a call in `SeedPanics`
`Config.ActorSeed` may panic in `recordToolCall`. The other calls are `Tame`. `state[c]` is `capabilityCallState.reservation`,
`carried[c]` the parameter of `recordToolCall`. Only background delivery is
modelled; a panic is assumed to be recovered by customer middleware further
out. The session cache is `OfficialSessions`.

**OfficialSessions.** `at[q]` is the place of request `q` in the middleware:
entry (where a tools/call captures its client info), `recordModernSessionInit`,
the handler, `recordInitialize`, `recordToolCall`. What a request carries is a
constant record `Form[q]`; the ladder of `analyticsSessionID` picks the first
identifier given. `known[q]` is a history variable: the identifier the cache
held for the request's session when the request came in. As keys the code
stores values of three Go types (a session pointer, a string, a request
pointer); the assumption keeps them apart as the Go types do. Left out: the
registration of the server (`installed`) and of tools, the contents of events.

**IngestClient.** Time is a counter `now`; `alarm` is when the timer that `Send`
waits for expires: the timeout of the `http.Client`, which covers the exchange
and the body, or the retry timer. `Tick` is blocked while a timer or the
context is due, so what is ready happens before time passes. The server
handles a request or never, also after `Send` gave it up, and may be shadowed by
something that answers 2xx with a body that is no `ingestResponse`; `kept` is what
it really stored. `seen` are the attempts whose status line arrived.

**SessionEvents.** The worker builds the candidates in its hand one after the
other, a reserved call builds its own on its goroutine, and every look-up in
`emittedSession`, `lazySessions` and `actorIdentifiers` is a step. Events are
pairs of a kind and what they are about. `announced`, `evicted`, `identified`,
`forgotten`, `handshakes`, `released` are history counters, `mishap` says
whether something panicked or was lost. An identified actor's
ID is the hash of its identifier, so the map entry of an actor cannot change,
only vanish. `Panics` and `Lossy` are the two ways an event that was built may
not arrive.

**StatelessSession.** `at[r]` is the place of a request: in the wrapper, in the
server, at the write of the answer, behind `next.ServeHTTP`. `deployment` is the
kind of server: the official adapter behind the wrapper (`"repair"`), mark3labs
with the session of the request context (`"context"`), with a session resolved
for each request without the wrapper (`"resolve"`) or behind it (`"again"`).
`Resolve`, `AnalyticsSessionID` and `Attach` are the decisions of
`ResolveStatelessHTTPSession`, of the ladder of the official adapter and of
`WriteHeader`. A minted id is a pair of a client and a seed or of the request and
who minted it, so that two random ids never agree. `Hinted` requests are
answered by an informational status first, which the response writer takes for
the status of the answer (`stateless_http_handler.go:146`): they may lose their
id and their session_init, never get a wrong one. Official hosts without the
wrapper are not modelled, as `go.mod` pins a transport that mints no ids.

**ToolTelemetry, CallEvent.** All registrations and calls have one tool name, as
names do not interact. `Decorate` is `decorateToolSchema` up to its mark or
unmark, `AddTool` what follows on the server. `BeforeAny` and `RecordToolCall` are
where the two adapters read the arguments, before and after `Handle`; `Build` is
`buildToolCallEvents` for the tool event, on the worker, after any number of
registrations in between. A text is known by the key it came from, a field of an
event by marks: what each privacy stage is there to remove. The request's `_meta`
passes none of them and is in the event as it was sent (`event.go:103`,
`README.md:241`), so `FailsClosed` is about input, output, error and telemetry. Marks
stand for what the stages can see: what is inside a map with other keys than strings
bears none. `ruling` and `calm`
are history variables for `LatestRegistrationRules`: the last registration that
decorated, and whether a call met nothing else.

**SanitizeWalk.** The recursion of the code is `stack`, one frame per call that
has not returned; `focus` is the value about to be visited, `peek` the one
`reflectedString` has come to. `heap` is chosen in `WalkInit` from the constant `Heaps`.
Identity of references is as in the code: a pointer is known by what it points
to, a map by itself, a slice by where it begins (`Start`: a shorter slice may begin
where its `base` does), a struct or array not at all. A value may have a JSON form of
its own, which is text or another node (`wire`). `CopiedWhole` is what the code
returns without a look at it: booleans, numbers and, with whatever it holds, a map
whose keys are not strings (`"keyed"`). The type of an object is looked up when it
is opened (`Descend`, `TypeFound`), its members when they are come to
(`NextEntry`, `LookedAhead`). `copied` and `out` are history variables. Left out: what
the patterns match inside a text.

Each module has a section *Slips*: one-line faulty variants of its building
blocks. No specification uses them. They are the mutants of `PROJECT.json`.

## 3. Runs

| Run | Instance | Question |
|---|---|---|
| `QueueBackground` | 4 candidates, capacity 2, batch 2, 2 workers, flusher that may give up, closer | safety in background mode, with overflow and a second worker generation; `ImplementsPipe` |
| `QueueAwait` | 3 candidates for 1 place, one cancellable, 2 workers, closer, fairness | what a returning call may rely on, every call returns |
| `RecorderLifecycle` | a call and a feedback call with one request id, a context that ends, a reservation that may leak, a flusher that may expire, a closer without deadline, fairness | accounting at shutdown, keys that are reused; reservations keep to the ledger, Close returns, nothing lingers |
| `OfficialCalls` | 2 calls of 2 invocations, panics of the chain, a closer that may expire, fairness; the chain of the second call may leave its invocations behind and its `ActorSeed` panic | what is open or undelivered when the middleware returned, the ledger, Close returns |
| `SessionDedup` | 2 handshakes of one connection, a queued and a reserved call of two sessions that evict each other (sets of one entry), overflow, panics, failing POSTs, fairness | nothing is announced twice without an eviction in between; whoever ships first, the session and the actor of a delivered call are announced unless something panicked or was lost |
| `IngestDelivery` | timeout 2, retry delay 1, the budget of 5 or a caller's deadline of 0, 1, 3 or 9, batches of 0 and 2 events | the budget covers both attempts, `Send` returns in time, its report is true |
| `OfficialSessionCache` | a session without id, a session with one, a request without session; a handshake, two tool calls, two more modern requests, of which three share a conversation; sessions close at any moment; fairness of the cleanup | one goroutine per entry, calls join their session, closed sessions are forgotten |
| `StatelessHTTP` | 1 client, 2 handshakes, 1 call, 4 kinds of server, no seed, a seed that is a UUID or one that is not, one handshake with an informational status | events and answers of a handshake agree, calls join a handshake that was announced, a seed keeps one session |
| `Telemetry` | 2 registrations on 2 servers, 1 call of either adapter, 3 configurations, 3 blocks and none | whose field it is, what capture keeps back, which registration rules, which text wins, what fails closed |
| `Sanitize` | heaps of two inner nodes of up to two entries, of every kind and with JSON forms and slices of slices (18,475 heaps, 355,000 states), budget 12, payloads of 6 with a minimum of 4, fairness | the budget, payloads, cycles, and that the walks end |

Why the bounds are enough: capacity and batch matter through "full", "one more
than a batch" and "empty", which the instances reach; a second worker generation
needs one worker to retire and one to start; every race named in the hazards is
between at most three goroutines, and the instances have that many of the kinds
involved. Candidates, workers, calls and invocations are interchangeable, so
`QueueBackground` uses symmetry; runs with liveness use none. In `IngestDelivery` the deadlines lie before, in and after the phases of
`Send`. In `OfficialSessionCache` a key can be shared in each way there is: a
conversation as key of two sessions, a session as key of two requests; the
instance needs `CHECK_DEADLOCK FALSE` as all requests may be done. A set of one
entry reaches
every branch of `boundedKeySet` except the shift of several entries in Delete,
which the proofs cover for every size. Two invocations suffice for every
conflict over `capabilityCallState`, which holds one reservation. A name has one
mark, so two registrations are one that sets and one that undoes; the proofs
cover more. Two inner nodes make a cycle of one or two references, a value that is
shared, and the loops of pointers beside a map. `StatelessHTTP`, `Telemetry` and
`Sanitize` need `CHECK_DEADLOCK FALSE`: all requests, calls or visits may be done.

Two runs are expected to find a violation: each checks a sentence of the
repository that the code does not keep.

| Run | Sentence | Counterexample |
|---|---|---|
| `FeedbackLost` | `README.md:531` "every acknowledged request reaches the unmet-demand signal pipeline" | the ended context of the call takes the pending call before the completion hook, which then releases the reservation |
| `FlushPanics` | `recorder.go:277` Flush returns `ctx.Err()` or nil | `ReserveCapabilityRequest` adds to `inflight` while `Wait` of a Flush on a live recorder is waking up |

The models show more that has no run of its own:

* `recorder.go:296` says that after Close "no further ingest POSTs start". When
  Close returns its context's error, the worker may still hold a candidate, which
  it sends.
* `AcknowledgedIsDelivered` of `Recorder` fails without an ended context when a
  Close expires and its sweep takes the pending call.
* A call swept by Close is discarded by its hook without moving `Dropped`
  (`recorder.go:313` counts "events the recorder discarded because it was
  closed ... when the hook fired"). `LossesCounted`, which says what `Dropped` counts
  exactly, is about the other losses.
* With `Panics` set, a candidate may mark its session in `lazySessions` and panic
  while its tool event is built; its session_init is dropped with it, and later
  calls of the session announce nothing (`README.md:602`, "Each session emits one
  deduplicated session_init event"). Hence `mishap` in `EachCallIntroduced`.
* `official.go:208` takes client info before the handler so that the event
  "remains complete" if the connection ends meanwhile, but the session is
  resolved after it (`official.go:361`). Without its last disjunct
  `CallsJoinTheirSession` fails: the connection closes during the call, the
  cleanup drops the entry, and the event falls to another session.
* `recorder.go:276` says "Flush blocks until all in-flight ingest POSTs complete or
  ctx is cancelled". If `Config.ActorSeed` panics in `recordToolCall`
  (`official.go:373`), the reservation has left `capabilityCallState` and has no
  owner: Flush and Close then wait although no POST is in flight. `DrainReturns` of
  `OfficialCall` makes an exception for exactly these reservations.
* `SanitizeValue` "removes binary payloads" (`sanitize.go:47`, `README.md:559`), but a
  map whose keys are not strings is returned whole (`sanitize.go:224`), with the
  payloads in it; `NoPayloadSurvives` has this as its exception, without which it
  fails in the run. The secret rules do not read such a map
  either (`secrets.go:98`). Neither it nor a `json.Number` is charged to the budget, so
  `BudgetHolds` is about what is copied and not about all that is retained.
* A slice inside another one that begins at the same element and has the same type is
  called circular though it is not (`sanitize.go:245`): the exception of
  `CircularMeansCyclic`.
* A map or struct member that leads by pointers alone into a loop of pointers
  (`var x any; x = &x; map[string]any{"a": x}`) keeps `reflectedString`
  (`sanitize.go:385`) going for ever, beside "the reflective walk, which owns cycle
  detection" (`sanitize.go:120`). The look-up of the member `"type"` of a map or struct
  (`sanitize.go:278`, `sanitize.go:334`) is a second way in. `Finishes` has this as its
  exception.
* A blank `user_intent` does not keep the field map out, other than a blank
  `call_purpose` (`tools.go:203`, `tools.go:206`); `PurposeWins` speaks of non-blank
  intents only.
* Tools added with plain `AddTool` have a `telemetry` argument taken out by the
  hook all the same (`recorder.go:491`), although "Tools registered with the plain
  server.AddTool still emit events, just without intent metadata"
  (`tools.go:242`). In the model they are `"untouched"` registrations.
* Two servers that register one name with different contracts share the last
  one's (`tools.go:20`, documented). Hence `FieldStaysTheirs` is about names
  whose tools do not disagree.
* Error messages are screened for secrets but not for binary payloads
  (`event.go:328`); `FailsClosed` says so.
* `deliveryBudget` adds one retry delay, which is right for two attempts only;
  `IngestAssumption` says so.
* A caller's cancellation during the pause is reported as `ingest_timeout` and
  retryable (`ingest.go:156`, `ingest.go:177`), during an exchange as
  `ingest_cancelled`. A 2xx whose body cannot be read counts as delivered;
  `ReportIsTrue` makes an exception for it.

### Fairness

Every goroutine that is inside a call keeps running (weak fairness per
goroutine); calls, ends of contexts and expiry of drains need not happen. The
worker's send returns since it runs under a context with the delivery budget as
deadline; customer callbacks are assumed to return. A mutex is not modelled as a
state: every critical section is short and ends. `OfficialSessions` assumes
fairness only of the cleanup goroutines whose `session.Wait` has returned: requests
may hang, sessions may stay open. `IngestClient` states no fairness: `ReturnsInTime`
bounds `now`, which is enough because time passes only while `Send` waits.
A walk of `SanitizeWalk` is a computation on one goroutine, which goes on
once it is called. `StatelessSession` and `ToolTelemetry` state no fairness: what
they promise is safety. Liveness is checked for a
finite number of calls; under endless traffic `flush` may starve (see hazards).

## 4. Proofs

From `QueueAssumption` alone (positive capacity and batch size, distinct
goroutines), for any number of callers, items and workers:

* `TypeCorrect`: `Spec => []TypeOK`.
* `WorkerIsSingle`, `NothingIsStranded`, `QueueIsBounded`, `NoWakeupIsLost` from
  the invariant `Control`, the conjunction of the four. They need each other:
  a worker may retire only on an empty queue, which keeps items from being
  stranded only if there is no second worker, and a listener of the current
  signal is right to sleep only as long as `running` tells the truth.
* `CloseIsQuiet` (`QuietAfterClose`) from `Closing`: a called closer implies that
  nothing is admitted, so an idle queue stays idle, and without a worker no
  step touches `sent`.
* `DrainIsComplete` (`DrainCoversEarlier`) from `Cover`: every accepted item is
  pending, claimed, finished or pushed out, and a worker that is not between
  claim and finish has nothing in hand. When the queue is idle only the last two
  places are left. `Fresh` (a call before its append has no ticket) is what
  keeps `Accepted` and `Evicted` in step.
* `CustodyCorrect`: an accepted item is in one place, once. `Cover` alone says
  where an item may be; `Custody` adds that `pending` and the batch name it only
  once, and that what was finished or pushed out is in neither. It needs the one
  worker of `Control`. Without it an item could be pushed out while a worker
  finishes it.
* `AwaitIsHonest` (`AwaitedIsHandled`) from `Bounded` and `Awaited`: callers woken in a
  crowd for one free place never over-fill the queue, nothing is ever pushed out under
  DeliveryAwait, and a call that returned delivered has a finished item, which by
  `Custody` is in nobody's hands any more.
* `DropsAreCounted` (`DropsCounted`) from `Tally`: the counter is the number of
  items that were lost, but for the callers that are about to count theirs. The sets
  counted are finite though `Item` need not be, as each step lets at most one
  caller in, and `Custody` keeps what is pushed out from being counted twice.
* `QueueImplementsPipe` (`ImplementsPipe`) by step simulation. Claim is the taking
  in hand, StartSend is the shipping, FinishItem settles; the start and the end
  of a worker, waiting and waking are stutters. `Sending` says which of the batch are still to
  be sent, so the shipped ones are a subsequence of the hand in its order;
  `Custody` makes settled and lost disjoint, and `Tally` makes the clock the number of
  accepted items.

`RecorderProofs`, from `RecorderAssumption` (finitely many calls; no drainer both
flushes and closes), for any calls that share keys in any way, and any number of Flush and Close calls:

* `RecorderTypeCorrect` and `CounterIsExact` from `Base`, which says where a thread
  may hold a reservation (`Placed`) and that it has a call only after its
  LoadAndDelete (`Unclaimed`). Each step then moves `inflight` and the set of open
  reservations together; `inflight` is never negative because it is a cardinality.
* `CallsAreTakenOnce` (`TakenOnce`) with `Known`: an entry has the key of its call,
  and nobody has a call that was not stored. A later call with the same key
  replaces the entry, and this is what the hook of the earlier one may then find.
* `NothingStaysRetained`, `CloseDrainsClean` and `CloseWaitsSafely` from `Shutdown`: a
  Close that is past a stage keeps what the stage achieved. The closed flag keeps
  registrations and reservations out, so the counter only falls; the shut
  queue keeps candidates out, so once drained it stays idle. The last theorem is
  the counterpart of the run `FlushPanics`: an `Add` that meets the wake-up of `Wait` is possible under
  a Flush of a live recorder and never under a Close.
* `LossesAreCounted` (`LossesCounted`), an equality: each step that adds one to
  `Dropped` makes one of three sets larger by one (calls not registered, requests not
  reserved, taken calls not delivered), and no other step changes any of them. `Base`
  says which reservations were `posted` or `empty`, `Loaded` that a thread on its way
  to the queue has a call and no number yet, so that its loss is new.
* `RecorderImplements` (`ImplementsReservations`) by step simulation; that a Close
  that drained maps to `Drain` follows from `CounterIsExact` and `Shutdown`.

`OfficialCallProofs`, from finitely many calls and attempts:

* `CounterIsExact`, `OfficialTypeCorrect`: the invariant says who may hold an
  open reservation (the handler before attach, the state, `recordToolCall`), and
  that nobody else does; so every step that closes one closes exactly one.
  `inflight` never goes negative because it is a cardinality.
* `OfficialImplements`: the step simulation to `Reservations`. A drain maps to
  `Drain` because an empty counter means an empty ledger.
* `ReturnSettles`, `AcknowledgedDelivers` from `Followed`, which follows a
  reservation from the handler to its POST. Both are about the `Tame` calls,
  beside any others; without the second exception of `Tame` they are false.

`SessionEventsProofs`, from `SessionAssumption` (positive bounds): lemmas that
`Add` (also when it evicts) and `Delete` of a `boundedKeySet` keep map and order
in step, then the invariant `DedupInv`: for each of the three sets the history
counters balance with what is remembered. It needs the well-formedness: were the
order to name a key that the map does not hold, an eviction would be counted
that removes nothing. `DeduplicationIsExact` is the result.

`OfficialSessionsProofs`, from `SessionsAssumption`, for every set of sessions and
requests and whatever they carry: `SessionsTypeCorrect`; `EntriesAreWatched`, which
is inductive by itself; and `CallsStayTogether` from `JoinInv`. That invariant says
that an entry whose key is a session belongs to that session (`OwnKeys`), since
only its own handshake uses this key; with `WatchersMatch`, no goroutine of another
session can then remove it, so what a call knew on entry is kept (`Kept`) until
the call is recorded or its connection closes.

`IngestClientProofs`, from `IngestAssumption` (two attempts; any timeout, delay and
deadline):

* `IngestTypeCorrect`; `BudgetSuffices` and `SendReturnsInTime` from `Schedule`,
  which bounds the time at which each phase of each attempt can begin and its
  timer expire.
* `SendTellsTheTruth` from `Server` (one answer per request, which says what was
  done), `Order` (nothing is known of an attempt before it begins) and
  `Reading` (what Send has seen settles nothing while it goes on, except the
  answer whose body it is about to read).

`StatelessSessionProofs`, from `StatelessAssumption`, for any conversations, requests
and servers: `AnswersNameTheSession`, `CallsFollowTheirHandshake` and
`SeedsKeepOneSession` from one invariant. It says where each id in flight comes
from: what the wrapper resolved and the server used (`own`, `session`, `header`)
agree with what was recorded, and whatever a client was given was announced by a
handshake of its own conversation before the answer could reach it. That last
part is why a session_init that is recorded after the answer does no harm.

`ToolTelemetryProofs`, from `RegistrationAssumption`, for any registrations, servers,
calls, configurations and blocks: first lemmas about the functions of
`CallEvent` (normalizing twice changes nothing that is exported, a value without
texts of the agent stays one, every stage that is configured leaves its mark out
of every field), then the invariant `Inv`: a mark has an owner behind it
(`MarksHaveOwners`) and says what the ruling registration says
(`MarksFollowRuling`); a registration that serves calls has decorated before
(`ServersAreAdded`), so its mark is set when an event of a call it answered is
built, even if the hook read it earlier (`OwnersAreMarked`); and what was read of a
calm call is what the ruling registration wants (`CalmCallsMeetTheRuling`).
`FieldIsTheirs`, `CaptureOffIsSilent`, `LatestRules` and `RedactionFailsClosed` then
each look at the one step that builds an event (`NewIsBuilt`) and at the steps
that leave it alone (`BuiltStays`). `CallSpeaksForItself` (`PurposeWins`) needs one
more invariant, `ReadAsSent` (what a hook took is `Extract` of what was sent), and
three lemmas about `CallEvent`: extraction yields the stated intent and purpose
before any legacy spelling, the field map replaces neither, and a blank
`call_purpose` stays given through all of it.

The last part of the same module is about `SanitizeWalk`, from `WalkAssumption`, for
every heap that `HeapAssumption` allows, with whatever sharing and cycles, and every budget:

* `WalkTypeCorrect`: among others, that while a member is looked at its frame has
  moved on, so what `LookedAhead` visits next is an entry.
* `CopyIsBudgeted` (`BudgetHolds`) from `Spent`: what was copied and what remains are
  at most the budget. The sum, and not `copied` alone, is inductive.
* `PayloadsAreRemoved` (`NoPayloadSurvives`), inductive given the lemmas about what a
  string may write; what is returned whole is a leaf without text or a keyed map, the
  exception.
* `OnlyCyclesAreCircular` (`CircularMeansCyclic`) from `Nested` (each frame, and what is
  visited next, is inside every frame further out) and `Remembered` (`seen` names
  nothing but what a frame is visiting). A pointer is known by its target, so
  the frame with the same identity may be another pointer to the same value: both
  then have the same value inside. "Inside" is the least closed set
  (`Within`), which makes transitivity a fact about sets that needs no induction.

Only model-checked: the liveness properties `CallsReturn`, `DrainReturns`,
`NothingLingers`, `EachCallIntroduced`, `ClosedIsForgotten` and `Finishes` (fairness and
ENABLED are beyond the prover). Every invariant, action property and refinement
that a passing run checks is also the subject of a theorem.

## 5. Plan

What could follow, in this order:

1. `StatelessSession` composed with the session cache of `OfficialSessions`.
2. `DeliveryPipe` as the queue of `SessionEvents` and `Recorder` in one
   composition, so that accounting and deduplication are checked together.

## 6. Not modelled

The regular expressions of the secret patterns and of embedded payloads, version
and build-info lookup, the canary deployment and the examples: they keep no
state that several actors share. Of `event.go` the wire form of an event (names,
ids, previews, truncation of request metadata), of `tools.go` the texts of legacy
description hints and the schema fragments: they are layout. Of the official
adapter the snapshot of results and the deprecated wrappers.
