---------------------------- MODULE ToolTelemetry ----------------------------
(***************************************************************************)
(* Who owns the `telemetry` input of a tool, and what happens to it.       *)
(*                                                                         *)
(* Tools are registered through InstrumentTool (tools.go and official.go), *)
(* which decorates the schema with a `telemetry` object unless the tool    *)
(* already declares one: such a field is the customer's.  Whose it is goes *)
(* into a registry keyed by tool name, shared by all servers of a process, *)
(* that the recorder reads twice for each call: when it takes the          *)
(* telemetry out of the arguments and when it builds the event.  In        *)
(* between the handler runs and the call waits in the privacy queue, and   *)
(* registrations go on meanwhile.                                          *)
(*                                                                         *)
(* Names do not interact, so the model has the registrations and calls of  *)
(* one name.  Each registration and each call is a process; a call goes    *)
(* through the mark3labs hooks (arguments read before the handler) or the  *)
(* official middleware (after it).                                         *)
(***************************************************************************)
EXTENDS CallEvent

CONSTANTS Server, Registration, Call,
          Pending,   \* the event of a call before it is built
          Configs,   \* the recorder configurations a server may have
          Blocks     \* the telemetry arguments that calls may send

ASSUME RegistrationAssumption ==
  None \notin Registration /\ "nobody" \notin Registration

Contract == {"own",        \* declares its own top-level `telemetry`
             "ours",       \* decorated, and its handler wrapped
             "untouched"}  \* plain AddTool, or a schema nobody can parse

(* What a call sends: a block, or no `telemetry` argument at all.          *)
Sent == Blocks \cup {None}

VARIABLES
  contract,  \* contract[g]: what the tool that g registers declares
  site,      \* site[g]: the server g registers it on
  config,    \* config[s]: the configuration of the recorder of s
  owned,     \* ownedTelemetryTools has the name
  step,      \* step[g]: "todo", "decorated" or "added"
  handler,   \* handler[s]: the registration that serves the name on s
  request,   \* request[c]: the call as it arrived, None before that
  served,    \* served[c]: the registration that ran it, "nobody" yet
  read,      \* read[c]: the telemetry taken from it and what was left
  event,     \* event[c]: the event built, Pending before that
  ruling,    \* history: the last registration that decorated
  calm       \* history: all c met is the ruling registration

deployment == <<contract, site, config>>
registry == <<owned, step, handler, ruling>>
vars == <<contract, site, config, owned, step, handler, request, served,
          read, event, ruling, calm>>

(* Every text of a call holds something for each privacy stage to remove.  *)
Texts == {"blob", "secret", "private", "confidential"}

Arguments(c) == Texts \cup {m \in {"block"} : request[c].sends # None}

TypeOK ==
  /\ contract \in [Registration -> Contract]
  /\ site \in [Registration -> Server]
  /\ config \in [Server -> Configs]
  /\ owned \in BOOLEAN
  /\ step \in [Registration -> {"todo", "decorated", "added"}]
  /\ handler \in [Server -> Registration \cup {None}]
  /\ request \in [Call -> {None} \cup
                   [server: Server, official: BOOLEAN, sends: Sent]]
  /\ served \in [Call -> Registration \cup {None, "nobody"}]
  /\ read \in [Call -> {None} \cup [telemetry: Telemetry,
                                    args: SUBSET Mark]]
  /\ event \in [Call -> {Pending, Dropped} \cup Event]
  /\ ruling \in Registration \cup {None}
  /\ calm \in [Call -> BOOLEAN]

Init ==
  /\ contract \in [Registration -> Contract]
  /\ site \in [Registration -> Server]
  /\ config \in [Server -> Configs]
  /\ owned = FALSE
  /\ step = [g \in Registration |-> "todo"]
  /\ handler = [s \in Server |-> None]
  /\ request = [c \in Call |-> None]
  /\ served = [c \in Call |-> "nobody"]
  /\ read = [c \in Call |-> None]
  /\ event = [c \in Call |-> Pending]
  /\ ruling = None
  /\ calm = [c \in Call |-> FALSE]

-----------------------------------------------------------------------------
(* Slips: what these steps would do with a plausible mistake.              *)

MarkIsForever(g) == owned \/ contract[g] = "own"      \* nothing unmarks

OwnershipAtHookOnly(t, cfg) ==       \* ownership is not read again
  IF ~cfg.capture THEN NoTelemetry ELSE ApplyFieldMap(t, cfg.mapped)

MapWithoutCapture(t, cfg) ==         \* the map is not under the gate
  ApplyFieldMap(IF ~cfg.capture \/ owned THEN NoTelemetry ELSE t,
                cfg.mapped)

-----------------------------------------------------------------------------
(* Registration.                                                           *)

(* Decorating records whose field it is; the last registration wins.       *)
OwnedAfter(g) ==
  CASE contract[g] = "own" -> TRUE
    [] contract[g] = "ours" -> FALSE
    [] OTHER -> owned

Disturbed == [c \in Call |-> calm[c] /\ event[c] # Pending]

(* decorateToolSchema, or its official counterpart: mark or unmark.        *)
Decorate(g) ==
  /\ step[g] = "todo"
  /\ step' = [step EXCEPT ![g] = "decorated"]
  /\ owned' = OwnedAfter(g)
  /\ ruling' = g
  /\ calm' = Disturbed
  /\ UNCHANGED <<deployment, handler, request, served, read, event>>

(* AddTool on the server replaces whatever had the name there.             *)
AddTool(g) ==
  /\ step[g] = "decorated"
  /\ step' = [step EXCEPT ![g] = "added"]
  /\ handler' = [handler EXCEPT ![site[g]] = g]
  /\ calm' = Disturbed
  /\ UNCHANGED <<deployment, owned, ruling, request, served, read, event>>

-----------------------------------------------------------------------------
(* Calls.                                                                  *)

(* The environment: a client, with whatever schema it has, sends a call.   *)
Receive(c) ==
  /\ request[c] = None
  /\ \E s \in Server, official \in BOOLEAN, sends \in Sent :
       /\ request' = [request EXCEPT ![c] =
                         [server |-> s, official |-> official,
                          sends |-> sends]]
       /\ calm' = [calm EXCEPT ![c] =
                      handler[s] = ruling /\ ruling # None]
  /\ UNCHANGED <<deployment, registry, served, read, event>>

(* What is read of the arguments: of an owned name nothing is taken.       *)
Reading(c) ==
  IF owned \/ request[c].sends = None
  THEN [telemetry |-> NoTelemetry, args |-> Arguments(c)]
  ELSE [telemetry |-> Extract(request[c].sends),
        args |-> Arguments(c) \ {"block"}]

(* mark3labs: onBeforeAny reads the arguments before the handler has run.  *)
BeforeAny(c) ==
  /\ request[c] # None /\ read[c] = None
  /\ ~request[c].official
  /\ read' = [read EXCEPT ![c] = Reading(c)]
  /\ UNCHANGED <<deployment, registry, request, served, event, calm>>

(* The server dispatches to whoever has the name now; if nobody has, the   *)
(* call fails, and is recorded all the same.                               *)
Handle(c) ==
  /\ request[c] # None /\ served[c] = "nobody"
  /\ request[c].official \/ read[c] # None
  /\ served' = [served EXCEPT ![c] = handler[request[c].server]]
  /\ UNCHANGED <<deployment, registry, request, read, event, calm>>

(* official: the middleware reads them after the handler has run.          *)
RecordToolCall(c) ==
  /\ served[c] # "nobody" /\ read[c] = None
  /\ read' = [read EXCEPT ![c] = Reading(c)]
  /\ UNCHANGED <<deployment, registry, request, served, event, calm>>

(* The gate every event goes through: capture, then ownership as it is     *)
(* now, then the field map.                                                *)
Gated(t, cfg) ==
  IF ~cfg.capture THEN NoTelemetry
  ELSE ApplyFieldMap(IF owned THEN NoTelemetry ELSE t, cfg.mapped)

(* buildToolCallEvents, on the worker of the privacy queue or on the       *)
(* caller's goroutine.  Which fields Redact panics on, and what            *)
(* RedactEvent does, is the customer's.                                    *)
Build(c) ==
  /\ served[c] # "nobody" /\ read[c] # None /\ event[c] = Pending
  /\ \E panics \in SUBSET Field, failed \in BOOLEAN,
        verdict \in {"edits", "fails", "drops"} :
       LET cfg == config[request[c].server]
       IN  event' = [event EXCEPT ![c] =
                       FinalizeToolCallEvent(
                         read[c].args, Texts, Gated(read[c].telemetry, cfg),
                         failed \/ served[c] = None, cfg, panics, verdict)]
  /\ UNCHANGED <<deployment, registry, request, served, read, calm>>

RegistrationStep == \E g \in Registration : Decorate(g) \/ AddTool(g)

CallStep ==
  \E c \in Call : \/ Receive(c) \/ BeforeAny(c) \/ Handle(c)
                  \/ RecordToolCall(c) \/ Build(c)

Next == RegistrationStep \/ CallStep

Spec == Init /\ [][Next]_vars

-----------------------------------------------------------------------------
Exported(c) == event[c] # Pending /\ event[c] # Dropped

MappedTexts == {MappedText[key] : key \in DOMAIN MappedText}

(* The event says nothing that came from the telemetry argument.           *)
Silent(c) ==
  /\ event[c].userIntent \in MappedTexts \cup {""}
  /\ event[c].agentThinking \in MappedTexts \cup {""}

(* A telemetry field that a tool declares is the customer's: where the     *)
(* tools of a name either declare it or are not instrumented, no call that *)
(* one of the first kind answers has it exported as telemetry, even a call *)
(* that arrived before the first registration was over and was read by the *)
(* hook as if the field were the SDK's (tools.go:20, recorder.go:399).     *)
FieldStaysTheirs ==
  \A c \in Call :
    (/\ Exported(c)
     /\ \A g \in Registration : contract[g] # "ours"
     /\ served[c] \in Registration /\ contract[served[c]] = "own")
      => Silent(c)

(* With capture off nothing of the telemetry argument leaves the process:  *)
(* no intent and no purpose, not even a mapped one, and unless some tool   *)
(* owns the field not in the input preview either (recorder.go:389).       *)
NothingWithoutCapture ==
  \A c \in Call :
    (Exported(c) /\ ~config[request[c].server].capture)
      => /\ event[c].userIntent = "" /\ event[c].agentThinking = ""
         /\ "block" \in event[c].marks["input"]
              => \E g \in Registration : contract[g] = "own"

(* The last registration of a name rules: a call that meets no other has   *)
(* its telemetry collected if the field is the SDK's, however often the    *)
(* name was the customer's before, and left in place if it is the          *)
(* customer's, however often it was not (tools.go:20, 49).                 *)
LatestRegistrationRules ==
  \A c \in Call :
    (Exported(c) /\ calm[c] /\ request[c].sends # None)
      => LET cfg == config[request[c].server]
             told == IF cfg.capture
                     THEN ApplyFieldMap(Extract(request[c].sends), cfg.mapped)
                     ELSE NoTelemetry
         IN  /\ contract[served[c]] = "own"
                  => Silent(c) /\ "block" \in read[c].args
             /\ contract[served[c]] = "ours"
                  => /\ "block" \notin event[c].marks["input"]
                     /\ (~cfg.redact /\ ~cfg.redactEvent)
                          => /\ event[c].agentThinking
                                   = Normalize(told).agentThinking
                             /\ event[c].userIntent
                                   = Normalize(told).userIntent

(* The text a block gives under the first of some keys that is present.    *)
Said(block, key, older) ==
  IF block[key] # "absent" THEN Given(block, key)
  ELSE IF \E k \in older : block[k] = "given"
       THEN CHOOSE k \in older : block[k] = "given" ELSE ""

(* What the call says wins over what the field map finds, through all the  *)
(* passes of normalization: a non-blank intent or purpose is exported as   *)
(* sent or not at all, and a call_purpose that is explicitly blank lets    *)
(* neither a legacy spelling nor a mapped argument through                 *)
(* (tools.go:164, 182).                                                    *)
PurposeWins ==
  \A c \in Call :
    (/\ Exported(c) /\ request[c].sends # None
     /\ \A g \in Registration : contract[g] # "own")
      => LET block == request[c].sends
             aim == Said(block, "user_intent", {"intent"})
             purpose == Said(block, "call_purpose",
                             {k \in {"agent_thinking", "context"} :
                                k = "context" =>
                                  block["agent_thinking"] = "absent"})
         IN  /\ aim # "" => event[c].userIntent \in {aim, ""}
             /\ (purpose # "" \/ block["call_purpose"] = "blank")
                  => event[c].agentThinking \in {purpose, ""}

(* Failing closed: whatever Redact panics on and however RedactEvent       *)
(* fails, neither input nor output, error or telemetry of an exported      *)
(* event holds what a configured stage is there to remove (event.go:171).  *)
(* Binary payloads are removed from all of these but the error message.    *)
(* The request's _meta passes no stage and is not promised anything.       *)
FailsClosed ==
  \A c \in Call :
    Exported(c) =>
      LET cfg == config[request[c].server]
          marks == event[c].marks
      IN  \A f \in Field :
            /\ cfg.secrets => "secret" \notin marks[f]
            /\ cfg.redact => "private" \notin marks[f]
            /\ cfg.redactEvent => "confidential" \notin marks[f]
            /\ f # "error" => "blob" \notin marks[f]
=============================================================================
