------------------------- MODULE ToolTelemetryProofs -------------------------
(***************************************************************************)
(* Proofs about ToolTelemetry, for any number of servers, registrations    *)
(* and calls, any telemetry blocks and any recorder configurations; and,   *)
(* in the last part, about SanitizeWalk, which copies the values of the    *)
(* events built here, for any values and any budget.                       *)
(***************************************************************************)
EXTENDS ToolTelemetry, SanitizeWalk, TLAPS

-----------------------------------------------------------------------------
(* What the pure functions of CallEvent do.                                *)

Fields == {"userIntent", "intent", "callPurpose", "agentThinking", "context"}

(* A telemetry value with none of its texts from the telemetry argument.   *)
Mute(t) ==
  /\ t.userIntent \in MappedTexts \cup {""}
  /\ t.intent \in MappedTexts \cup {""}
  /\ t.callPurpose \in MappedTexts \cup {""}
  /\ t.agentThinking \in MappedTexts \cup {""}
  /\ t.context \in MappedTexts \cup {""}

LEMMA NormalizeKeepsMute ==
  ASSUME NEW t, Mute(t) PROVE Mute(Normalize(t))
  BY DEF Mute, Normalize, FirstNonEmpty

LEMMA NoTelemetryIsMute == Mute(NoTelemetry)
  BY DEF Mute, NoTelemetry

LEMMA MapIsMute ==
  ASSUME NEW mapped PROVE Mute(ApplyFieldMap(NoTelemetry, mapped))
<1> DEFINE at(key) == IF key \in mapped THEN MappedText[key] ELSE ""
<1> DEFINE t == ApplyFieldMap(NoTelemetry, mapped)
<1>1. \A key \in DOMAIN MappedText : at(key) \in MappedTexts \cup {""}
  BY DEF MappedTexts
<1>2. {"user_intent", "call_purpose", "agent_thinking"}
        \subseteq DOMAIN MappedText
  BY DEF MappedText
<1>3. /\ t.userIntent = at("user_intent")
      /\ t.callPurpose \in {"", at("call_purpose")}
      /\ t.agentThinking \in {"", at("agent_thinking")}
      /\ t.intent = "" /\ t.context = ""
  BY DEF ApplyFieldMap, NoTelemetry
<1> HIDE DEF at, t
<1>4. Mute(t)
  BY <1>1, <1>2, <1>3 DEF Mute
<1>5. QED
  BY <1>4 DEF t

(* What an assembled event says, in terms of the telemetry it was built    *)
(* from and the marks of the arguments.                                    *)
LEMMA FinalizeCases ==
  ASSUME NEW args, NEW sent, NEW t, NEW failed, NEW cfg, NEW panics,
         NEW verdict, NEW e,
         e = FinalizeToolCallEvent(args, sent, t, failed, cfg, panics,
                                   verdict),
         e # Dropped
  PROVE  /\ \/ e.userIntent = Normalize(Normalize(t)).userIntent
              /\ e.agentThinking = Normalize(Normalize(t)).agentThinking
            \/ e.userIntent = Normalize(NoTelemetry).userIntent
              /\ e.agentThinking = Normalize(NoTelemetry).agentThinking
         /\ \/ e.marks["input"] = {}
            \/ e.marks["input"] \subseteq args
<1> DEFINE cand == Candidate(args, sent, t, failed, cfg, panics)
<1> DEFINE after == AfterHook(cand, cfg.redactEvent, verdict)
<1>1. /\ e = Assemble(after, sent)
      /\ after # Dropped
  BY DEF FinalizeToolCallEvent, Assemble
<1>2. /\ e.userIntent = Normalize(after.telemetry).userIntent
      /\ e.agentThinking = Normalize(after.telemetry).agentThinking
      /\ e.marks = after.marks
  BY <1>1 DEF Assemble
<1>3. cand.telemetry \in {NoTelemetry, Normalize(t)}
  BY DEF Candidate, PrepareTelemetry
<1>4. cand.marks["input"] \subseteq args
  BY DEF Candidate, Field, PrepareForPreview, Screened
<1> HIDE DEF cand
<1>5. after.telemetry \in {NoTelemetry, cand.telemetry}
  BY <1>1 DEF AfterHook
<1>6. after.marks["input"] \subseteq cand.marks["input"]
  BY <1>1 DEF AfterHook, Field
<1>7. QED
  BY <1>2, <1>3, <1>4, <1>5, <1>6

LEMMA NormalizeTwice ==
  ASSUME NEW t
  PROVE  /\ Normalize(Normalize(t)).userIntent = Normalize(t).userIntent
         /\ Normalize(Normalize(t)).agentThinking
              = Normalize(t).agentThinking
  BY DEF Normalize, FirstNonEmpty

(* Without callbacks an event says what the telemetry says.                *)
LEMMA FinalizePlain ==
  ASSUME NEW args, NEW sent, NEW t, NEW failed, NEW cfg, NEW panics,
         NEW verdict, NEW e,
         e = FinalizeToolCallEvent(args, sent, t, failed, cfg, panics,
                                   verdict),
         e # Dropped, ~cfg.redact, ~cfg.redactEvent
  PROVE  /\ e.userIntent = Normalize(t).userIntent
         /\ e.agentThinking = Normalize(t).agentThinking
<1> DEFINE cand == Candidate(args, sent, t, failed, cfg, panics)
<1>1. e = Assemble(cand, sent) /\ cand # Dropped
  BY DEF FinalizeToolCallEvent, AfterHook, Assemble
<1>2. /\ e.userIntent = Normalize(cand.telemetry).userIntent
      /\ e.agentThinking = Normalize(cand.telemetry).agentThinking
  BY <1>1 DEF Assemble
<1>3. cand.telemetry = IF t = NoTelemetry THEN NoTelemetry ELSE Normalize(t)
  BY DEF Candidate, PrepareTelemetry
<1>4. QED
  BY <1>2, <1>3, NormalizeTwice

(* Every field the stages see has been through those that are configured.  *)
LEMMA FinalizeFailsClosed ==
  ASSUME NEW args, NEW sent, NEW t, NEW failed, NEW cfg, NEW panics,
         NEW verdict, NEW e,
         e = FinalizeToolCallEvent(args, sent, t, failed, cfg, panics,
                                   verdict),
         e # Dropped, NEW f \in Field
  PROVE  /\ cfg.secrets => "secret" \notin e.marks[f]
         /\ cfg.redact => "private" \notin e.marks[f]
         /\ cfg.redactEvent => "confidential" \notin e.marks[f]
         /\ f # "error" => "blob" \notin e.marks[f]
<1> DEFINE cand == Candidate(args, sent, t, failed, cfg, panics)
<1> DEFINE after == AfterHook(cand, cfg.redactEvent, verdict)
<1>1. e = Assemble(after, sent) /\ after # Dropped
  BY DEF FinalizeToolCallEvent, Assemble
<1>2. e.marks = after.marks
  BY <1>1 DEF Assemble
<1>3. \A m : /\ cfg.secrets => "secret" \notin Screened(m, f, cfg, panics)
             /\ cfg.redact => "private" \notin Screened(m, f, cfg, panics)
             /\ Screened(m, f, cfg, panics) \subseteq m
  BY DEF Screened
<1>4. /\ cfg.secrets => "secret" \notin cand.marks[f]
      /\ cfg.redact => "private" \notin cand.marks[f]
      /\ f # "error" => "blob" \notin cand.marks[f]
  <2>1. CASE f = "input"
    <3>1. cand.marks[f] = Screened(args \ {"blob"}, f, cfg, panics)
      BY <2>1 DEF Candidate, PrepareForPreview, Field
    <3>2. QED
      BY <1>3, <3>1
  <2>2. CASE f = "output"
    <3>1. cand.marks[f] = Screened(sent \ {"blob"}, f, cfg, panics)
      BY <2>2 DEF Candidate, PrepareForPreview, Field
    <3>2. QED
      BY <1>3, <3>1
  <2>3. CASE f = "error"
    <3>1. cand.marks[f] \in {{}, Screened(sent, f, cfg, panics)}
      BY <2>3 DEF Candidate, PrepareErrorMessage, Field
    <3>2. QED
      BY <1>3, <2>3, <3>1
  <2>4. CASE f = "telemetry"
    <3>1. cand.marks[f] \in {{}, Screened(sent \ {"blob"}, f, cfg, panics)}
      BY <2>4 DEF Candidate, PrepareForPreview, Field
    <3>2. QED
      BY <1>3, <3>1
  <2>5. QED
    BY <2>1, <2>2, <2>3, <2>4 DEF Field
<1> HIDE DEF cand
<1>5. /\ after.marks[f] \subseteq cand.marks[f]
      /\ cfg.redactEvent => "confidential" \notin after.marks[f]
  BY <1>1 DEF AfterHook
<1> HIDE DEF after
<1>6. QED
  BY <1>2, <1>4, <1>5

-----------------------------------------------------------------------------
(* The type invariant.                                                     *)

LEMMA NormalizeType ==
  ASSUME NEW t \in Telemetry PROVE Normalize(t) \in Telemetry
<1> DEFINE purpose == IF t.present \/ t.callPurpose # "" THEN t.callPurpose
                      ELSE FirstNonEmpty(t.agentThinking, t.context)
           aim == FirstNonEmpty(t.userIntent, t.intent)
           blank == t.present /\ t.callPurpose = ""
<1>1. purpose \in Text /\ aim \in Text /\ "" \in Text
  BY DEF Telemetry, FirstNonEmpty, Text
<1>2. blank \in BOOLEAN
  OBVIOUS
<1> DEFINE n == [userIntent |-> aim, intent |-> aim, callPurpose |-> "",
                 agentThinking |-> purpose, context |-> purpose,
                 present |-> blank]
<1>3. Normalize(t) = n
  BY DEF Normalize
<1> HIDE DEF purpose, aim, blank
<1>4. n \in Telemetry
  BY <1>1, <1>2 DEF Telemetry
<1>5. QED
  BY <1>3, <1>4

LEMMA NoTelemetryType == NoTelemetry \in Telemetry
  BY DEF NoTelemetry, Telemetry, Text

LEMMA ExtractType ==
  ASSUME NEW block PROVE Extract(block) \in Telemetry
<1>1. \A key \in Key : Given(block, key) \in Text
  BY DEF Given, Text
<1> DEFINE absent(key) == block[key] = "absent"
           older(key, newer) == IF \A n \in newer : absent(n)
                                THEN Given(block, key) ELSE ""
           t == [userIntent |-> Given(block, "user_intent"),
                 intent |-> older("intent", {"user_intent"}),
                 callPurpose |-> Given(block, "call_purpose"),
                 agentThinking |-> older("agent_thinking", {"call_purpose"}),
                 context |-> older("context",
                                   {"call_purpose", "agent_thinking"}),
                 present |-> ~absent("call_purpose")]
<1>2. t \in Telemetry
  BY <1>1 DEF Telemetry, Key, Text
<1>3. QED
  BY <1>2, NormalizeType DEF Extract

LEMMA MapType ==
  ASSUME NEW t \in Telemetry, NEW mapped
  PROVE  ApplyFieldMap(t, mapped) \in Telemetry
<1> DEFINE at(key) == IF key \in mapped THEN MappedText[key] ELSE ""
<1>1. /\ at("user_intent") \in Text /\ at("call_purpose") \in Text
      /\ at("agent_thinking") \in Text
  BY DEF MappedText, Text
<1> HIDE DEF at
<1> DEFINE aimed == t.userIntent # "" \/ t.intent # ""
           told == t.present \/ t.callPurpose # "" \/ t.agentThinking # ""
                     \/ t.context # ""
           purpose == ~told /\ "call_purpose" \in mapped
           filled ==
             [userIntent |-> IF aimed THEN t.userIntent ELSE at("user_intent"),
              intent |-> t.intent,
              callPurpose |-> IF purpose THEN at("call_purpose")
                              ELSE t.callPurpose,
              agentThinking |-> IF told \/ purpose THEN t.agentThinking
                                ELSE at("agent_thinking"),
              context |-> t.context,
              present |-> t.present \/ purpose]
<1>2. filled \in Telemetry
  BY <1>1 DEF Telemetry
<1>3. ApplyFieldMap(t, mapped) = filled
  BY DEF ApplyFieldMap, at
<1>4. QED
  BY <1>2, <1>3

LEMMA FinalizeType ==
  ASSUME NEW args \in SUBSET Mark, NEW sent \in SUBSET Mark,
         NEW t \in Telemetry, NEW failed, NEW cfg, NEW panics, NEW verdict
  PROVE  FinalizeToolCallEvent(args, sent, t, failed, cfg, panics, verdict)
           \in {Dropped} \cup Event
<1> DEFINE cand == Candidate(args, sent, t, failed, cfg, panics)
<1> DEFINE after == AfterHook(cand, cfg.redactEvent, verdict)
<1>1. \A m \in SUBSET Mark : \A f : Screened(m, f, cfg, panics) \in SUBSET Mark
  BY DEF Screened
<1>2. cand.marks \in [Field -> SUBSET Mark]
  BY <1>1 DEF Candidate, PrepareForPreview, PrepareErrorMessage, Field
<1>3. cand.telemetry \in Telemetry
  BY NormalizeType, NoTelemetryType DEF Candidate, PrepareTelemetry
<1> HIDE DEF cand
<1>4. CASE after = Dropped
  BY <1>4 DEF FinalizeToolCallEvent, Assemble, cand
<1>5. CASE after # Dropped
  <2>1. after.marks \in [Field -> SUBSET Mark]
    BY <1>2, <1>5 DEF AfterHook
  <2>2. after.telemetry \in Telemetry
    BY <1>3, <1>5, NoTelemetryType DEF AfterHook
  <2> HIDE DEF after
  <2>3. /\ Normalize(after.telemetry).userIntent \in Text
        /\ Normalize(after.telemetry).agentThinking \in Text
    BY <2>2, NormalizeType DEF Telemetry
  <2>4. Assemble(after, sent) \in Event
    BY <1>5, <2>1, <2>3 DEF Assemble, Event
  <2>5. QED
    BY <2>4 DEF FinalizeToolCallEvent, after, cand
<1>6. QED
  BY <1>4, <1>5

LEMMA GatedType ==
  ASSUME NEW t \in Telemetry, NEW cfg PROVE Gated(t, cfg) \in Telemetry
  BY NoTelemetryType, MapType DEF Gated

LEMMA TypeInit == Init => TypeOK
  BY DEF Init, TypeOK

LEMMA TypeNext == TypeOK /\ [Next]_vars => TypeOK'
<1> SUFFICES ASSUME TypeOK, [Next]_vars PROVE TypeOK'
  OBVIOUS
<1>1. CASE UNCHANGED vars
  BY <1>1 DEF TypeOK, vars
<1>2. ASSUME NEW g \in Registration, Decorate(g) PROVE TypeOK'
  BY <1>2 DEF TypeOK, Decorate, OwnedAfter, Contract, Disturbed, deployment
<1>3. ASSUME NEW g \in Registration, AddTool(g) PROVE TypeOK'
  BY <1>3 DEF TypeOK, AddTool, Disturbed, deployment
<1>4. ASSUME NEW c \in Call, Receive(c) PROVE TypeOK'
  BY <1>4 DEF TypeOK, Receive, deployment, registry
<1>5. ASSUME NEW c \in Call, read' = [read EXCEPT ![c] = Reading(c)],
             UNCHANGED <<deployment, registry, request, served, event, calm>>
      PROVE  TypeOK'
  <2>1. Reading(c) \in [telemetry: Telemetry, args: SUBSET Mark]
    BY ExtractType, NoTelemetryType DEF Reading, Arguments, Texts, Mark
  <2>2. QED
    BY <1>5, <2>1 DEF TypeOK, deployment, registry
<1>6. ASSUME NEW c \in Call, Handle(c) PROVE TypeOK'
  BY <1>6 DEF TypeOK, Handle, deployment, registry
<1>7. ASSUME NEW c \in Call, Build(c) PROVE TypeOK'
  <2>1. read[c].telemetry \in Telemetry /\ read[c].args \in SUBSET Mark
    BY <1>7 DEF Build, TypeOK
  <2>2. PICK failed \in BOOLEAN, panics \in SUBSET Field,
             verdict \in {"edits", "fails", "drops"} :
          event' = [event EXCEPT ![c] =
                      FinalizeToolCallEvent(
                        read[c].args, Texts,
                        Gated(read[c].telemetry, config[request[c].server]),
                        failed \/ served[c] = None,
                        config[request[c].server], panics, verdict)]
    BY <1>7 DEF Build
  <2>3. Texts \in SUBSET Mark
    BY DEF Texts, Mark
  <2> DEFINE broken == failed \/ served[c] = None
  <2> DEFINE cfg == config[request[c].server]
  <2> DEFINE t == Gated(read[c].telemetry, cfg)
  <2>4. t \in Telemetry
    BY <2>1, GatedType
  <2>5. event' = [event EXCEPT ![c] =
                    FinalizeToolCallEvent(read[c].args, Texts, t, broken, cfg,
                                          panics, verdict)]
    BY <2>2
  <2> HIDE DEF broken, cfg, t
  <2>6. FinalizeToolCallEvent(read[c].args, Texts, t, broken, cfg, panics,
                              verdict) \in {Dropped} \cup Event
    BY <2>1, <2>3, <2>4, FinalizeType
  <2>7. event' \in [Call -> {Pending, Dropped} \cup Event]
    BY <2>5, <2>6 DEF TypeOK
  <2>8. QED
    BY <1>7, <2>7 DEF TypeOK, Build, deployment, registry
<1>8. QED
  BY <1>1, <1>2, <1>3, <1>4, <1>5, <1>6, <1>7
     DEF Next, RegistrationStep, CallStep, BeforeAny, RecordToolCall

(* The types of the registry, the calls and what was read of them.         *)
THEOREM TelemetryTypeCorrect == Spec => []TypeOK
<1>1. QED
  BY TypeInit, TypeNext, PTL DEF Spec

-----------------------------------------------------------------------------
(* The inductive invariant.  A mark has an owning registration behind it,  *)
(* and says what the ruling one says; a registration that serves calls has *)
(* been through both steps; what was read of a call has its `telemetry`    *)
(* argument only if some tool owns it; and a calm call that is not built   *)
(* yet has met the ruling registration and nothing else.                   *)

MarksHaveOwners == owned => \E g \in Registration : contract[g] = "own"

MarksFollowRuling ==
  ruling # None => /\ contract[ruling] = "own" => owned
                   /\ contract[ruling] = "ours" => ~owned

OwnersAreMarked ==
  (\A g \in Registration : contract[g] # "ours")
    => \A g \in Registration :
         (step[g] # "todo" /\ contract[g] = "own") => owned

ServersAreAdded ==
  /\ \A s \in Server : handler[s] # None => step[handler[s]] = "added"
  /\ \A c \in Call : served[c] \in Registration => step[served[c]] = "added"

StepsInOrder ==
  \A c \in Call :
    /\ request[c] = None => served[c] = "nobody" /\ read[c] = None
    /\ event[c] # Pending => served[c] # "nobody" /\ read[c] # None

BlocksHaveOwners ==
  \A c \in Call :
    (read[c] # None /\ "block" \in read[c].args)
      => \E g \in Registration : contract[g] = "own"

CalmCallsMeetTheRuling ==
  \A c \in Call :
    (calm[c] /\ event[c] = Pending) =>
      /\ ruling # None
      /\ handler[request[c].server] = ruling
      /\ served[c] \in {"nobody", ruling}
      /\ (read[c] # None /\ request[c].sends # None) =>
           /\ contract[ruling] = "own" => "block" \in read[c].args
           /\ contract[ruling] = "ours" =>
                /\ "block" \notin read[c].args
                /\ read[c].telemetry = Extract(request[c].sends)

RegistryInv == MarksHaveOwners /\ MarksFollowRuling /\ OwnersAreMarked

CallInv ==
  /\ ServersAreAdded /\ StepsInOrder /\ BlocksHaveOwners
  /\ CalmCallsMeetTheRuling

Inv == TypeOK /\ RegistryInv /\ CallInv

LEMMA InvInit == Init => Inv
<1>1. Init => RegistryInv
  BY DEF Init, RegistryInv, MarksHaveOwners, MarksFollowRuling,
         OwnersAreMarked
<1>2. Init => CallInv
  BY RegistrationAssumption
     DEF Init, CallInv, ServersAreAdded, StepsInOrder, BlocksHaveOwners,
         CalmCallsMeetTheRuling
<1>3. QED
  BY <1>1, <1>2, TypeInit DEF Inv

LEMMA DecorateKeepsInv ==
  ASSUME Inv, NEW g \in Registration, Decorate(g)
  PROVE  RegistryInv' /\ CallInv'
<1> USE DEF Inv
<1>1. MarksHaveOwners'
  BY DEF Decorate, OwnedAfter, RegistryInv, MarksHaveOwners, deployment
<1>2. MarksFollowRuling'
  BY DEF Decorate, OwnedAfter, RegistryInv, MarksFollowRuling, deployment
<1>3. OwnersAreMarked'
  BY DEF Decorate, OwnedAfter, RegistryInv, OwnersAreMarked, deployment,
         TypeOK
<1>4. ServersAreAdded'
  BY DEF Decorate, CallInv, ServersAreAdded, TypeOK
<1>5. StepsInOrder' /\ BlocksHaveOwners'
  BY DEF Decorate, CallInv, StepsInOrder, BlocksHaveOwners, deployment
<1>6. CalmCallsMeetTheRuling'
  BY DEF Decorate, Disturbed, CalmCallsMeetTheRuling
<1>7. QED
  BY <1>1, <1>2, <1>3, <1>4, <1>5, <1>6 DEF RegistryInv, CallInv

LEMMA AddToolKeepsInv ==
  ASSUME Inv, NEW g \in Registration, AddTool(g)
  PROVE  RegistryInv' /\ CallInv'
<1> USE DEF Inv
<1>1. RegistryInv'
  BY DEF AddTool, RegistryInv, MarksHaveOwners, MarksFollowRuling,
         OwnersAreMarked, deployment, TypeOK
<1>2. ServersAreAdded'
  BY DEF AddTool, CallInv, ServersAreAdded, TypeOK
<1>3. StepsInOrder' /\ BlocksHaveOwners'
  BY DEF AddTool, CallInv, StepsInOrder, BlocksHaveOwners, deployment
<1>4. CalmCallsMeetTheRuling'
  BY DEF AddTool, Disturbed, CalmCallsMeetTheRuling
<1>5. QED
  BY <1>1, <1>2, <1>3, <1>4 DEF CallInv

(* A step of a call leaves the registry alone.                             *)
LEMMA RegistryStays ==
  ASSUME RegistryInv, UNCHANGED <<deployment, registry>>
  PROVE  RegistryInv'
  BY DEF RegistryInv, MarksHaveOwners, MarksFollowRuling, OwnersAreMarked,
         deployment, registry

LEMMA ReceiveKeepsInv ==
  ASSUME Inv, NEW c \in Call, Receive(c) PROVE RegistryInv' /\ CallInv'
<1> USE DEF Inv
<1>1. RegistryInv'
  BY RegistryStays DEF Receive
<1>2. ServersAreAdded' /\ BlocksHaveOwners'
  BY DEF Receive, CallInv, ServersAreAdded, BlocksHaveOwners, registry,
         deployment
<1>3. /\ request[c] = None /\ served[c] = "nobody" /\ read[c] = None
      /\ event[c] = Pending
  BY DEF Receive, CallInv, StepsInOrder
<1>4. StepsInOrder'
  BY <1>3 DEF Receive, CallInv, StepsInOrder, TypeOK
<1>5. PICK s \in Server, official \in BOOLEAN, sends \in Sent :
        /\ request' = [request EXCEPT ![c] = [server |-> s,
                         official |-> official, sends |-> sends]]
        /\ calm' = [calm EXCEPT ![c] =
                      handler[s] = ruling /\ ruling # None]
  BY DEF Receive
<1>6. CalmCallsMeetTheRuling'
  BY <1>3, <1>5 DEF Receive, CallInv, CalmCallsMeetTheRuling, TypeOK,
                    registry, deployment
<1>7. QED
  BY <1>1, <1>2, <1>4, <1>6 DEF CallInv

LEMMA ReadKeepsInv ==
  ASSUME Inv, NEW c \in Call, request[c] # None,
         read[c] = None, read' = [read EXCEPT ![c] = Reading(c)],
         UNCHANGED <<deployment, registry, request, served, event, calm>>
  PROVE  RegistryInv' /\ CallInv'
<1> USE DEF Inv
<1>1. RegistryInv'
  BY RegistryStays
<1>2. ServersAreAdded'
  BY DEF CallInv, ServersAreAdded, registry
<1>3. StepsInOrder'
  BY DEF CallInv, StepsInOrder, TypeOK
<1>4. /\ owned => Reading(c).args = Arguments(c)
      /\ ~owned => "block" \notin Reading(c).args
      /\ (~owned /\ request[c].sends # None)
           => Reading(c).telemetry = Extract(request[c].sends)
      /\ request[c].sends # None => "block" \in Arguments(c)
  BY DEF Reading, Arguments, Texts
<1>5. BlocksHaveOwners'
  BY <1>4 DEF CallInv, BlocksHaveOwners, RegistryInv, MarksHaveOwners,
              TypeOK, deployment
<1>6. CalmCallsMeetTheRuling'
  BY <1>4 DEF CallInv, CalmCallsMeetTheRuling, RegistryInv,
              MarksFollowRuling, TypeOK, deployment, registry
<1>7. QED
  BY <1>1, <1>2, <1>3, <1>5, <1>6 DEF CallInv

LEMMA HandleKeepsInv ==
  ASSUME Inv, NEW c \in Call, Handle(c) PROVE RegistryInv' /\ CallInv'
<1> USE DEF Inv
<1>1. RegistryInv'
  BY RegistryStays DEF Handle
<1>2. request[c] \in [server: Server, official: BOOLEAN, sends: Sent]
  BY DEF Handle, TypeOK
<1>3. ServersAreAdded'
  BY <1>2, RegistrationAssumption
     DEF Handle, CallInv, ServersAreAdded, registry, TypeOK
<1>4. StepsInOrder' /\ BlocksHaveOwners'
  BY DEF Handle, CallInv, StepsInOrder, BlocksHaveOwners, TypeOK, deployment
<1>5. CalmCallsMeetTheRuling'
  BY DEF Handle, CallInv, CalmCallsMeetTheRuling, TypeOK, deployment,
         registry
<1>6. QED
  BY <1>1, <1>3, <1>4, <1>5 DEF CallInv

LEMMA BuildKeepsInv ==
  ASSUME Inv, NEW c \in Call, Build(c) PROVE RegistryInv' /\ CallInv'
<1> USE DEF Inv
<1>1. RegistryInv'
  BY RegistryStays DEF Build
<1>2. ServersAreAdded' /\ BlocksHaveOwners'
  BY DEF Build, CallInv, ServersAreAdded, BlocksHaveOwners, registry,
         deployment
<1>3. PICK e : event' = [event EXCEPT ![c] = e]
  BY DEF Build
<1>4. StepsInOrder'
  BY <1>3 DEF Build, CallInv, StepsInOrder, TypeOK
<1>5. CalmCallsMeetTheRuling'
  BY <1>3 DEF Build, CallInv, CalmCallsMeetTheRuling, TypeOK, deployment,
              registry
<1>6. QED
  BY <1>1, <1>2, <1>4, <1>5 DEF CallInv

LEMMA InvNext == Inv /\ [Next]_vars => Inv'
<1> SUFFICES ASSUME Inv, [Next]_vars PROVE Inv'
  OBVIOUS
<1>1. TypeOK'
  BY TypeNext DEF Inv
<1>2. CASE UNCHANGED vars
  BY <1>1, <1>2
     DEF Inv, vars, RegistryInv, CallInv, MarksHaveOwners,
         MarksFollowRuling, OwnersAreMarked, ServersAreAdded, StepsInOrder,
         BlocksHaveOwners, CalmCallsMeetTheRuling
<1>3. ASSUME NEW c \in Call, BeforeAny(c) PROVE RegistryInv' /\ CallInv'
  BY <1>3, ReadKeepsInv DEF BeforeAny
<1>4. ASSUME NEW c \in Call, RecordToolCall(c)
      PROVE  RegistryInv' /\ CallInv'
  <2>1. request[c] # None
    BY <1>4 DEF RecordToolCall, Inv, CallInv, StepsInOrder
  <2>2. QED
    BY <1>4, <2>1, ReadKeepsInv DEF RecordToolCall
<1>5. QED
  BY <1>1, <1>2, <1>3, <1>4, DecorateKeepsInv, AddToolKeepsInv,
     ReceiveKeepsInv, HandleKeepsInv, BuildKeepsInv
     DEF Inv, Next, RegistrationStep, CallStep

LEMMA Invariance == Spec => []Inv
  BY InvInit, InvNext, PTL DEF Spec

-----------------------------------------------------------------------------
(* The properties.  Each is about events that are built: the step that     *)
(* builds one establishes it, and no later step changes what it speaks of. *)

(* What no step changes once the event of a call is there.                 *)
LEMMA BuiltStays ==
  ASSUME Inv, [Next]_vars, NEW c \in Call, event[c] # Pending,
         event'[c] = event[c]
  PROVE  /\ UNCHANGED deployment
         /\ request'[c] = request[c] /\ served'[c] = served[c]
         /\ read'[c] = read[c] /\ calm'[c] = calm[c]
<1>1. request[c] # None /\ served[c] # "nobody" /\ read[c] # None
  BY DEF Inv, CallInv, StepsInOrder
<1>2. CASE UNCHANGED vars
  BY <1>2 DEF vars, deployment
<1>3. ASSUME NEW g \in Registration, Decorate(g) \/ AddTool(g)
      PROVE  /\ UNCHANGED <<deployment, request, served, read>>
             /\ calm'[c] = calm[c]
  BY <1>3 DEF Decorate, AddTool, Disturbed, Inv, TypeOK
<1>4. ASSUME NEW d \in Call, Receive(d)
      PROVE  /\ UNCHANGED <<deployment, served, read>>
             /\ request'[c] = request[c] /\ calm'[c] = calm[c]
  BY <1>1, <1>4 DEF Receive, Inv, TypeOK
<1>5. ASSUME NEW d \in Call, BeforeAny(d) \/ RecordToolCall(d)
      PROVE  /\ UNCHANGED <<deployment, request, served, calm>>
             /\ read'[c] = read[c]
  BY <1>1, <1>5 DEF BeforeAny, RecordToolCall, Inv, TypeOK
<1>6. ASSUME NEW d \in Call, Handle(d)
      PROVE  /\ UNCHANGED <<deployment, request, read, calm>>
             /\ served'[c] = served[c]
  BY <1>1, <1>6 DEF Handle, Inv, TypeOK
<1>7. ASSUME NEW d \in Call, Build(d)
      PROVE  UNCHANGED <<deployment, request, served, read, calm>>
  BY <1>7 DEF Build
<1>8. QED
  BY <1>2, <1>3, <1>4, <1>5, <1>6, <1>7
     DEF Next, RegistrationStep, CallStep

(* The events that building the one of a call may give.                    *)
Outcomes(c) ==
  {FinalizeToolCallEvent(
     read[c].args, Texts,
     Gated(read[c].telemetry, config[request[c].server]),
     failed \/ served[c] = None, config[request[c].server], panics, verdict) :
   panics \in SUBSET Field, failed \in BOOLEAN,
   verdict \in {"edits", "fails", "drops"}}

(* An event that is new has just been built.                               *)
LEMMA NewIsBuilt ==
  ASSUME Inv, [Next]_vars, NEW c \in Call,
         ~(event[c] # Pending /\ event'[c] = event[c]), event'[c] # Pending
  PROVE  /\ Build(c)
         /\ event'[c] \in Outcomes(c)
<1>1. event'[c] # event[c]
  OBVIOUS
<1>2. \A d \in Call : Build(d) => d = c
  BY <1>1 DEF Build, Inv, TypeOK
<1>3. \E d \in Call : Build(d)
  BY <1>1 DEF Next, RegistrationStep, CallStep, Decorate, AddTool, Receive,
              BeforeAny, Handle, RecordToolCall, vars
<1>4. Build(c)
  BY <1>2, <1>3
<1>5. PICK panics \in SUBSET Field, failed \in BOOLEAN,
           verdict \in {"edits", "fails", "drops"} :
        event' = [event EXCEPT ![c] =
                    FinalizeToolCallEvent(
                      read[c].args, Texts,
                      Gated(read[c].telemetry, config[request[c].server]),
                      failed \/ served[c] = None, config[request[c].server],
                      panics, verdict)]
  BY <1>4 DEF Build
<1>6. event'[c] = FinalizeToolCallEvent(
                    read[c].args, Texts,
                    Gated(read[c].telemetry, config[request[c].server]),
                    failed \/ served[c] = None, config[request[c].server],
                    panics, verdict)
  BY <1>5 DEF Inv, TypeOK
<1>7. QED
  BY <1>4, <1>6 DEF Outcomes

(* What any outcome that is not dropped says and holds.                    *)
LEMMA OutcomeCases ==
  ASSUME NEW c \in Call, NEW e \in Outcomes(c), e # Dropped,
         NEW t, t = Gated(read[c].telemetry, config[request[c].server])
  PROVE  /\ \/ e.userIntent = Normalize(Normalize(t)).userIntent
              /\ e.agentThinking = Normalize(Normalize(t)).agentThinking
            \/ e.userIntent = Normalize(NoTelemetry).userIntent
              /\ e.agentThinking = Normalize(NoTelemetry).agentThinking
         /\ e.marks["input"] \subseteq read[c].args
<1>1. PICK panics \in SUBSET Field, failed \in BOOLEAN,
           verdict \in {"edits", "fails", "drops"} :
        e = FinalizeToolCallEvent(
              read[c].args, Texts, t, failed \/ served[c] = None,
              config[request[c].server], panics, verdict)
  BY DEF Outcomes
<1> DEFINE broken == failed \/ served[c] = None
<1> DEFINE cfg == config[request[c].server]
<1>2. e = FinalizeToolCallEvent(read[c].args, Texts, t, broken, cfg, panics,
                                verdict)
  BY <1>1
<1> HIDE DEF broken, cfg
<1>3. /\ \/ e.userIntent = Normalize(Normalize(t)).userIntent
           /\ e.agentThinking = Normalize(Normalize(t)).agentThinking
         \/ e.userIntent = Normalize(NoTelemetry).userIntent
           /\ e.agentThinking = Normalize(NoTelemetry).agentThinking
      /\ \/ e.marks["input"] = {}
         \/ e.marks["input"] \subseteq read[c].args
  BY <1>2, FinalizeCases
<1>4. QED
  BY <1>3

LEMMA OutcomePlain ==
  ASSUME NEW c \in Call, NEW e \in Outcomes(c), e # Dropped,
         ~config[request[c].server].redact,
         ~config[request[c].server].redactEvent,
         NEW t, t = Gated(read[c].telemetry, config[request[c].server])
  PROVE  /\ e.userIntent = Normalize(t).userIntent
         /\ e.agentThinking = Normalize(t).agentThinking
<1>1. PICK panics \in SUBSET Field, failed \in BOOLEAN,
           verdict \in {"edits", "fails", "drops"} :
        e = FinalizeToolCallEvent(
              read[c].args, Texts, t, failed \/ served[c] = None,
              config[request[c].server], panics, verdict)
  BY DEF Outcomes
<1> DEFINE broken == failed \/ served[c] = None
<1> DEFINE cfg == config[request[c].server]
<1>2. e = FinalizeToolCallEvent(read[c].args, Texts, t, broken, cfg, panics,
                                verdict)
  BY <1>1
<1>3. ~cfg.redact /\ ~cfg.redactEvent
  OBVIOUS
<1> HIDE DEF broken, cfg
<1>4. QED
  BY <1>2, <1>3, FinalizePlain

(* What an event says of a telemetry value that is mute is not telemetry.  *)
LEMMA MuteIsSilent ==
  ASSUME NEW c \in Call, NEW e \in Outcomes(c), e # Dropped,
         Mute(Gated(read[c].telemetry, config[request[c].server]))
  PROVE  /\ e.userIntent \in MappedTexts \cup {""}
         /\ e.agentThinking \in MappedTexts \cup {""}
<1> DEFINE t == Gated(read[c].telemetry, config[request[c].server])
<1>1. Mute(Normalize(Normalize(t))) /\ Mute(Normalize(NoTelemetry))
  BY NormalizeKeepsMute, NoTelemetryIsMute
<1>2. \/ e.userIntent = Normalize(Normalize(t)).userIntent
         /\ e.agentThinking = Normalize(Normalize(t)).agentThinking
      \/ e.userIntent = Normalize(NoTelemetry).userIntent
         /\ e.agentThinking = Normalize(NoTelemetry).agentThinking
  BY OutcomeCases
<1>3. QED
  BY <1>1, <1>2 DEF Mute

LEMMA OwnedIsMute ==
  ASSUME owned, NEW t, NEW cfg PROVE Mute(Gated(t, cfg))
  BY NoTelemetryIsMute, MapIsMute DEF Gated

(* A field that the tools of a name declare themselves is never exported   *)
(* as telemetry of a call that such a tool answered.                       *)
THEOREM FieldIsTheirs == Spec => []FieldStaysTheirs
<1>1. Init => FieldStaysTheirs
  BY DEF Init, FieldStaysTheirs, Exported
<1>2. ASSUME Inv, FieldStaysTheirs, [Next]_vars PROVE FieldStaysTheirs'
  <2> SUFFICES ASSUME NEW c \in Call, Exported(c)',
                      (\A g \in Registration : contract[g] # "ours")',
                      (served[c] \in Registration)',
                      (contract[served[c]] = "own")'
               PROVE  Silent(c)'
    BY DEF FieldStaysTheirs
  <2>1. CASE event[c] # Pending /\ event'[c] = event[c]
    BY <1>2, <2>1, BuiltStays
       DEF FieldStaysTheirs, Exported, Silent, deployment
  <2>2. CASE ~(event[c] # Pending /\ event'[c] = event[c])
    <3>1. Build(c) /\ event'[c] \in Outcomes(c) /\ event'[c] # Dropped
      BY <1>2, <2>2, NewIsBuilt DEF Exported
    <3>2. owned
      BY <1>2, <3>1
         DEF Build, Inv, RegistryInv, CallInv, OwnersAreMarked,
             ServersAreAdded, deployment, registry
    <3>3. QED
      BY <3>1, <3>2, OwnedIsMute, MuteIsSilent DEF Silent
  <2>3. QED
    BY <2>1, <2>2
<1>3. QED
  BY <1>1, <1>2, Invariance, PTL DEF Spec

(* With capture off nothing of the telemetry argument is exported.         *)
THEOREM CaptureOffIsSilent == Spec => []NothingWithoutCapture
<1>1. Init => NothingWithoutCapture
  BY DEF Init, NothingWithoutCapture, Exported
<1>2. ASSUME Inv, NothingWithoutCapture, [Next]_vars
      PROVE  NothingWithoutCapture'
  <2> SUFFICES ASSUME NEW c \in Call, Exported(c)',
                      (~config[request[c].server].capture)'
               PROVE  (/\ event[c].userIntent = ""
                       /\ event[c].agentThinking = ""
                       /\ "block" \in event[c].marks["input"]
                            => \E g \in Registration : contract[g] = "own")'
    BY DEF NothingWithoutCapture
  <2>1. CASE event[c] # Pending /\ event'[c] = event[c]
    BY <1>2, <2>1, BuiltStays
       DEF NothingWithoutCapture, Exported, deployment
  <2>2. CASE ~(event[c] # Pending /\ event'[c] = event[c])
    <3>1. Build(c) /\ event'[c] \in Outcomes(c) /\ event'[c] # Dropped
      BY <1>2, <2>2, NewIsBuilt DEF Exported
    <3>2. /\ UNCHANGED <<deployment, request, read>>
          /\ read[c] # None
      BY <3>1 DEF Build
    <3>3. Gated(read[c].telemetry, config[request[c].server]) = NoTelemetry
      BY <3>2 DEF Gated, deployment
    <3>4. /\ Normalize(NoTelemetry).userIntent = ""
          /\ Normalize(NoTelemetry).agentThinking = ""
          /\ Normalize(Normalize(NoTelemetry)).userIntent = ""
          /\ Normalize(Normalize(NoTelemetry)).agentThinking = ""
      BY DEF Normalize, NoTelemetry, FirstNonEmpty
    <3>5. /\ event'[c].userIntent = "" /\ event'[c].agentThinking = ""
          /\ event'[c].marks["input"] \subseteq read[c].args
      BY <3>1, <3>3, <3>4, OutcomeCases
    <3>6. QED
      BY <1>2, <3>2, <3>5
         DEF Inv, CallInv, BlocksHaveOwners, deployment
  <2>3. QED
    BY <2>1, <2>2
<1>3. QED
  BY <1>1, <1>2, Invariance, PTL DEF Spec

(* The registration that decorated last decides about the calls that meet  *)
(* no other.                                                               *)
THEOREM LatestRules == Spec => []LatestRegistrationRules
<1>1. Init => LatestRegistrationRules
  BY DEF Init, LatestRegistrationRules, Exported
<1>2. ASSUME Inv, LatestRegistrationRules, [Next]_vars
      PROVE  LatestRegistrationRules'
  <2> DEFINE
        cfg(c) == config[request[c].server]
        told(c) == IF cfg(c).capture
                   THEN ApplyFieldMap(Extract(request[c].sends),
                                      cfg(c).mapped)
                   ELSE NoTelemetry
        Theirs(c) == contract[served[c]] = "own"
                       => Silent(c) /\ "block" \in read[c].args
        Ours(c) ==
          contract[served[c]] = "ours"
            => /\ "block" \notin event[c].marks["input"]
               /\ (~cfg(c).redact /\ ~cfg(c).redactEvent)
                    => /\ event[c].agentThinking
                            = Normalize(told(c)).agentThinking
                       /\ event[c].userIntent
                            = Normalize(told(c)).userIntent
  <2> SUFFICES ASSUME NEW c \in Call, Exported(c)', calm'[c],
                      request'[c].sends # None
               PROVE  Theirs(c)' /\ Ours(c)'
    BY DEF LatestRegistrationRules
  <2>1. CASE event[c] # Pending /\ event'[c] = event[c]
    <3>1. /\ UNCHANGED deployment
          /\ request'[c] = request[c] /\ served'[c] = served[c]
          /\ read'[c] = read[c] /\ calm'[c] = calm[c]
      BY <1>2, <2>1, BuiltStays
    <3>2. Theirs(c) /\ Ours(c)
      BY <1>2, <2>1, <3>1 DEF LatestRegistrationRules, Exported
    <3>3. QED
      BY <2>1, <3>1, <3>2 DEF Silent, deployment
  <2>2. CASE ~(event[c] # Pending /\ event'[c] = event[c])
    <3>1. Build(c) /\ event'[c] \in Outcomes(c) /\ event'[c] # Dropped
      BY <1>2, <2>2, NewIsBuilt DEF Exported
    <3>2. /\ UNCHANGED <<contract, config, request, served, read, calm>>
          /\ read[c] # None /\ served[c] # "nobody" /\ event[c] = Pending
      BY <3>1 DEF Build, deployment, registry
    <3>3. /\ ruling # None /\ served[c] = ruling
          /\ contract[ruling] = "own" => "block" \in read[c].args
          /\ contract[ruling] = "ours" =>
               /\ "block" \notin read[c].args
               /\ read[c].telemetry = Extract(request[c].sends)
      BY <1>2, <3>2 DEF Inv, CallInv, CalmCallsMeetTheRuling
    <3>4. /\ contract[ruling] = "own" => owned
          /\ contract[ruling] = "ours" => ~owned
      BY <1>2, <3>3 DEF Inv, RegistryInv, MarksFollowRuling
    <3>5. Theirs(c)'
      BY <3>1, <3>2, <3>3, <3>4, OwnedIsMute, MuteIsSilent DEF Silent
    <3>6. ASSUME contract[ruling] = "ours"
          PROVE  Gated(read[c].telemetry, cfg(c)) = told(c)
      BY <3>3, <3>4, <3>6 DEF Gated
    <3>7. contract[ruling] = "ours"
            => "block" \notin event'[c].marks["input"]
      BY <3>1, <3>3, OutcomeCases
    <3>8. (/\ contract[ruling] = "ours"
           /\ ~cfg(c).redact /\ ~cfg(c).redactEvent)
            => /\ event'[c].agentThinking = Normalize(told(c)).agentThinking
               /\ event'[c].userIntent = Normalize(told(c)).userIntent
      BY <3>1, <3>6, OutcomePlain
    <3>9. QED
      BY <3>2, <3>3, <3>5, <3>7, <3>8
  <2>3. QED
    BY <2>1, <2>2
<1>3. QED
  BY <1>1, <1>2, Invariance, PTL DEF Spec

(* Whatever the callbacks do, the input, output, error and telemetry of an *)
(* exported event have been through every stage that is configured.        *)
THEOREM RedactionFailsClosed == Spec => []FailsClosed
<1>1. Init => FailsClosed
  BY DEF Init, FailsClosed, Exported
<1>2. ASSUME Inv, FailsClosed, [Next]_vars PROVE FailsClosed'
  <2> DEFINE cfg(c) == config[request[c].server]
             Clean(c, f) ==
               /\ cfg(c).secrets => "secret" \notin event[c].marks[f]
               /\ cfg(c).redact => "private" \notin event[c].marks[f]
               /\ cfg(c).redactEvent
                    => "confidential" \notin event[c].marks[f]
               /\ f # "error" => "blob" \notin event[c].marks[f]
  <2> SUFFICES ASSUME NEW c \in Call, Exported(c)', NEW f \in Field
               PROVE  Clean(c, f)'
    BY DEF FailsClosed
  <2>1. CASE event[c] # Pending /\ event'[c] = event[c]
    <3>1. UNCHANGED deployment /\ request'[c] = request[c]
      BY <1>2, <2>1, BuiltStays
    <3>2. Clean(c, f)
      BY <1>2, <2>1 DEF FailsClosed, Exported
    <3>3. QED
      BY <2>1, <3>1, <3>2 DEF deployment
  <2>2. CASE ~(event[c] # Pending /\ event'[c] = event[c])
    <3>1. Build(c) /\ event'[c] \in Outcomes(c) /\ event'[c] # Dropped
      BY <1>2, <2>2, NewIsBuilt DEF Exported
    <3>2. UNCHANGED <<config, request>>
      BY <3>1 DEF Build, deployment
    <3>3. PICK panics \in SUBSET Field, failed \in BOOLEAN,
               verdict \in {"edits", "fails", "drops"} :
            event'[c] =
              FinalizeToolCallEvent(
                read[c].args, Texts, Gated(read[c].telemetry, cfg(c)),
                failed \/ served[c] = None, cfg(c), panics, verdict)
      BY <3>1 DEF Outcomes
    <3>4. /\ cfg(c).secrets => "secret" \notin event'[c].marks[f]
          /\ cfg(c).redact => "private" \notin event'[c].marks[f]
          /\ cfg(c).redactEvent => "confidential" \notin event'[c].marks[f]
          /\ f # "error" => "blob" \notin event'[c].marks[f]
      BY <3>1, <3>3, FinalizeFailsClosed
    <3>5. QED
      BY <3>2, <3>4
  <2>3. QED
    BY <2>1, <2>2
<1>3. QED
  BY <1>1, <1>2, Invariance, PTL DEF Spec

-----------------------------------------------------------------------------
(* What a block says of intent and purpose, and that it survives reading,  *)
(* the field map and every pass of normalization.                          *)

Aim(block) == Said(block, "user_intent", {"intent"})

Purpose(block) ==
  Said(block, "call_purpose",
       {k \in {"agent_thinking", "context"} :
          k = "context" => block["agent_thinking"] = "absent"})

(* A call_purpose that is there and has no text.                           *)
Blank(block) ==
  block["call_purpose"] # "absent" /\ block["call_purpose"] # "given"

LEMMA AimIs ==
  ASSUME NEW block
  PROVE  Aim(block) =
           IF block["user_intent"] # "absent" THEN Given(block, "user_intent")
           ELSE Given(block, "intent")
<1>1. CASE block["user_intent"] # "absent"
  BY <1>1 DEF Aim, Said
<1>2. CASE block["user_intent"] = "absent" /\ block["intent"] = "given"
  <2>1. (CHOOSE k \in {"intent"} : block[k] = "given") = "intent"
    BY <1>2
  <2>2. QED
    BY <1>2, <2>1 DEF Aim, Said, Given
<1>3. CASE block["user_intent"] = "absent" /\ block["intent"] # "given"
  BY <1>3 DEF Aim, Said, Given
<1>4. QED
  BY <1>1, <1>2, <1>3

LEMMA PurposeIs ==
  ASSUME NEW block
  PROVE  Purpose(block) =
           IF block["call_purpose"] # "absent"
           THEN Given(block, "call_purpose")
           ELSE IF block["agent_thinking"] # "absent"
                THEN Given(block, "agent_thinking")
                ELSE Given(block, "context")
<1> DEFINE older == {k \in {"agent_thinking", "context"} :
                       k = "context" => block["agent_thinking"] = "absent"}
<1>1. CASE block["call_purpose"] # "absent"
  BY <1>1 DEF Purpose, Said
<1>2. CASE /\ block["call_purpose"] = "absent"
           /\ block["agent_thinking"] # "absent"
  <2>1. older = {"agent_thinking"}
    BY <1>2
  <2>2. CASE block["agent_thinking"] = "given"
    <3>1. (CHOOSE k \in {"agent_thinking"} : block[k] = "given")
            = "agent_thinking"
      BY <2>2
    <3>2. QED
      BY <1>2, <2>1, <2>2, <3>1 DEF Purpose, Said, Given
  <2>3. CASE block["agent_thinking"] # "given"
    BY <1>2, <2>1, <2>3 DEF Purpose, Said, Given
  <2>4. QED
    BY <2>2, <2>3
<1>3. CASE /\ block["call_purpose"] = "absent"
           /\ block["agent_thinking"] = "absent"
  <2>1. older = {"agent_thinking", "context"}
    BY <1>3
  <2>2. CASE block["context"] = "given"
    <3>1. (CHOOSE k \in {"agent_thinking", "context"} : block[k] = "given")
            = "context"
      BY <1>3, <2>2
    <3>2. QED
      BY <1>3, <2>1, <2>2, <3>1 DEF Purpose, Said, Given
  <2>3. CASE block["context"] # "given"
    <3>1. ~\E k \in {"agent_thinking", "context"} : block[k] = "given"
      BY <1>3, <2>3
    <3>2. QED
      BY <1>3, <2>1, <2>3, <3>1 DEF Purpose, Said, Given
  <2>4. QED
    BY <2>2, <2>3
<1>4. QED
  BY <1>1, <1>2, <1>3

LEMMA ExtractSays ==
  ASSUME NEW block
  PROVE  /\ Extract(block).userIntent = Aim(block)
         /\ Extract(block).agentThinking = Purpose(block)
         /\ Extract(block).context = Purpose(block)
         /\ Extract(block).callPurpose = ""
         /\ Extract(block).present = Blank(block)
<1> DEFINE absent(key) == block[key] = "absent"
           older(key, newer) == IF \A n \in newer : absent(n)
                                THEN Given(block, key) ELSE ""
           t == [userIntent |-> Given(block, "user_intent"),
                 intent |-> older("intent", {"user_intent"}),
                 callPurpose |-> Given(block, "call_purpose"),
                 agentThinking |-> older("agent_thinking", {"call_purpose"}),
                 context |-> older("context",
                                   {"call_purpose", "agent_thinking"}),
                 present |-> ~absent("call_purpose")]
<1>1. Extract(block) = Normalize(t)
  BY DEF Extract
<1>2. /\ t.userIntent = Given(block, "user_intent")
      /\ t.intent = IF absent("user_intent") THEN Given(block, "intent")
                    ELSE ""
      /\ t.callPurpose = Given(block, "call_purpose")
      /\ t.agentThinking = IF absent("call_purpose")
                           THEN Given(block, "agent_thinking") ELSE ""
      /\ t.context = IF absent("call_purpose") /\ absent("agent_thinking")
                     THEN Given(block, "context") ELSE ""
      /\ t.present = ~absent("call_purpose")
  OBVIOUS
<1> HIDE DEF t
<1>3. Normalize(t).userIntent = Aim(block)
  BY <1>2, AimIs DEF Normalize, FirstNonEmpty, Given
<1>4. /\ Normalize(t).agentThinking = Purpose(block)
      /\ Normalize(t).context = Purpose(block)
  BY <1>2, PurposeIs DEF Normalize, FirstNonEmpty, Given
<1>5. /\ Normalize(t).callPurpose = ""
      /\ Normalize(t).present = Blank(block)
  BY <1>2 DEF Normalize, Given, Blank
<1>6. QED
  BY <1>1, <1>3, <1>4, <1>5

(* What the call says is not replaced by what the map finds.               *)
LEMMA MapDoesNotReplace ==
  ASSUME NEW block, NEW mapped
  PROVE  LET n == Normalize(ApplyFieldMap(Extract(block), mapped))
         IN  /\ Aim(block) # "" => n.userIntent = Aim(block)
             /\ (Purpose(block) # "" \/ Blank(block))
                  => n.agentThinking = Purpose(block)
<1> DEFINE t == Extract(block)
           m == ApplyFieldMap(t, mapped)
<1>1. /\ t.userIntent = Aim(block) /\ t.agentThinking = Purpose(block)
      /\ t.context = Purpose(block) /\ t.callPurpose = ""
      /\ t.present = Blank(block)
  BY ExtractSays
<1>2. Blank(block) => Purpose(block) = ""
  BY PurposeIs DEF Blank, Given
<1> HIDE DEF t
<1>3. ASSUME Aim(block) # "" PROVE Normalize(m).userIntent = Aim(block)
  <2>1. m.userIntent = Aim(block)
    BY <1>1, <1>3 DEF ApplyFieldMap
  <2>2. QED
    BY <1>3, <2>1 DEF Normalize, FirstNonEmpty
<1>4. ASSUME Purpose(block) # "" \/ Blank(block)
      PROVE  Normalize(m).agentThinking = Purpose(block)
  <2>1. t.present \/ t.agentThinking # ""
    BY <1>1, <1>4
  <2>2. /\ m.callPurpose = "" /\ m.agentThinking = Purpose(block)
        /\ m.context = Purpose(block)
    BY <1>1, <2>1 DEF ApplyFieldMap
  <2>3. m.present => Blank(block)
    BY <1>1, <2>1 DEF ApplyFieldMap
  <2> HIDE DEF m
  <2>4. QED
    BY <1>2, <2>2, <2>3 DEF Normalize, FirstNonEmpty
<1>5. QED
  BY <1>3, <1>4 DEF t

(* Where no tool owns the field, what was read of a call is what it sent.  *)
ReadAsSent ==
  \A c \in Call :
    (/\ read[c] # None /\ request[c].sends # None
     /\ \A g \in Registration : contract[g] # "own")
      => read[c].telemetry = Extract(request[c].sends)

LEMMA NextReadAsSent == Inv /\ ReadAsSent /\ [Next]_vars => ReadAsSent'
<1> SUFFICES ASSUME Inv, ReadAsSent, [Next]_vars, NEW c \in Call,
                    read'[c] # None, request'[c].sends # None,
                    \A g \in Registration : contract'[g] # "own"
             PROVE  read'[c].telemetry = Extract(request'[c].sends)
  BY DEF ReadAsSent
<1>1. UNCHANGED contract
  BY DEF Next, RegistrationStep, CallStep, Decorate, AddTool, Receive,
         BeforeAny, Handle, RecordToolCall, Build, deployment, vars
<1>2. ~owned
  BY <1>1 DEF Inv, RegistryInv, MarksHaveOwners
<1>3. CASE read[c] # None
  <2>1. request[c] # None
    BY <1>3 DEF Inv, CallInv, StepsInOrder
  <2>2. request'[c] = request[c] /\ read'[c] = read[c]
    BY <1>3, <2>1
       DEF Next, RegistrationStep, CallStep, Decorate, AddTool, Receive,
           BeforeAny, Handle, RecordToolCall, Build, vars, Inv, TypeOK
  <2>3. QED
    BY <1>1, <1>3, <2>2 DEF ReadAsSent
<1>4. CASE read[c] = None
  <2>1. /\ read'[c] = Reading(c) /\ request' = request
    BY <1>4
       DEF Next, RegistrationStep, CallStep, Decorate, AddTool, Receive,
           BeforeAny, Handle, RecordToolCall, Build, vars, Inv, TypeOK
  <2>2. QED
    BY <1>2, <2>1 DEF Reading
<1>5. QED
  BY <1>3, <1>4

(* What the call says of its intent and purpose wins over the field map,   *)
(* through all the passes of normalization, and a call_purpose that is     *)
(* explicitly blank lets nothing else speak for the call.                  *)
THEOREM CallSpeaksForItself == Spec => []PurposeWins
<1>1. Init => ReadAsSent /\ PurposeWins
  BY DEF Init, ReadAsSent, PurposeWins, Exported
<1>2. ASSUME Inv, ReadAsSent, PurposeWins, [Next]_vars PROVE PurposeWins'
  <2> DEFINE Wins(c) ==
        /\ Aim(request[c].sends) # ""
             => event[c].userIntent \in {Aim(request[c].sends), ""}
        /\ (\/ Purpose(request[c].sends) # ""
            \/ request[c].sends["call_purpose"] = "blank")
             => event[c].agentThinking \in {Purpose(request[c].sends), ""}
  <2>1. PurposeWins <=>
          \A c \in Call :
            (/\ Exported(c) /\ request[c].sends # None
             /\ \A g \in Registration : contract[g] # "own") => Wins(c)
    BY DEF PurposeWins, Aim, Purpose
  <2>2. PurposeWins' <=>
          \A c \in Call :
            (/\ Exported(c)' /\ request'[c].sends # None
             /\ \A g \in Registration : contract'[g] # "own") => Wins(c)'
    BY DEF PurposeWins, Aim, Purpose
  <2> SUFFICES ASSUME NEW c \in Call, Exported(c)', request'[c].sends # None,
                      \A g \in Registration : contract'[g] # "own"
               PROVE  Wins(c)'
    BY <2>2
  <2>3. CASE event[c] # Pending /\ event'[c] = event[c]
    <3>1. UNCHANGED contract /\ request'[c] = request[c]
      BY <1>2, <2>3, BuiltStays DEF deployment
    <3>2. Wins(c)
      BY <1>2, <2>1, <2>3, <3>1 DEF Exported
    <3>3. QED
      BY <2>3, <3>1, <3>2
  <2>4. CASE ~(event[c] # Pending /\ event'[c] = event[c])
    <3>1. Build(c) /\ event'[c] \in Outcomes(c) /\ event'[c] # Dropped
      BY <1>2, <2>4, NewIsBuilt DEF Exported
    <3>2. UNCHANGED <<contract, request>> /\ read[c] # None
      BY <3>1 DEF Build, deployment
    <3>3. ~owned
      BY <1>2, <3>2 DEF Inv, RegistryInv, MarksHaveOwners
    <3> DEFINE cfg == config[request[c].server]
               block == request[c].sends
               t == Gated(read[c].telemetry, cfg)
    <3>4. read[c].telemetry = Extract(block)
      BY <1>2, <3>2 DEF ReadAsSent
    <3>5. t = NoTelemetry \/ t = ApplyFieldMap(Extract(block), cfg.mapped)
      BY <3>3, <3>4 DEF Gated
    <3>6. /\ Normalize(NoTelemetry).userIntent = ""
          /\ Normalize(NoTelemetry).agentThinking = ""
      BY DEF Normalize, NoTelemetry, FirstNonEmpty
    <3>7. /\ event'[c].userIntent \in {Normalize(t).userIntent, ""}
          /\ event'[c].agentThinking \in {Normalize(t).agentThinking, ""}
      <4>1. \/ event'[c].userIntent = Normalize(Normalize(t)).userIntent
               /\ event'[c].agentThinking
                    = Normalize(Normalize(t)).agentThinking
            \/ event'[c].userIntent = Normalize(NoTelemetry).userIntent
               /\ event'[c].agentThinking
                    = Normalize(NoTelemetry).agentThinking
        BY <3>1, OutcomeCases
      <4> HIDE DEF t
      <4>2. QED
        BY <3>6, <4>1, NormalizeTwice
    <3> HIDE DEF t
    <3>8. /\ Aim(block) # "" => event'[c].userIntent \in {Aim(block), ""}
          /\ (Purpose(block) # "" \/ Blank(block))
               => event'[c].agentThinking \in {Purpose(block), ""}
      <4>1. CASE t = NoTelemetry
        BY <3>6, <3>7, <4>1
      <4>2. CASE t = ApplyFieldMap(Extract(block), cfg.mapped)
        <5>1. /\ Aim(block) # "" => Normalize(t).userIntent = Aim(block)
              /\ (Purpose(block) # "" \/ Blank(block))
                   => Normalize(t).agentThinking = Purpose(block)
          BY <4>2, MapDoesNotReplace
        <5>2. QED
          BY <3>7, <5>1
      <4>3. QED
        BY <3>5, <4>1, <4>2
    <3>9. block["call_purpose"] = "blank" => Blank(block)
      BY DEF Blank
    <3>10. QED
      BY <3>2, <3>8, <3>9
  <2>5. QED
    BY <2>3, <2>4
<1>3. QED
  BY <1>1, <1>2, NextReadAsSent, Invariance, PTL DEF Spec

-----------------------------------------------------------------------------
(* The walk over the values of an event.                                   *)

(* A call that has not returned, with the entry it comes to next.          *)
Frame == [node: Inner, next: Nat \ {0}]

(* What a step may rely on: a frame is at one of its entries or behind     *)
(* them, and while a member is looked at its frame has moved on.           *)
WalkTypeOK ==
  /\ heap \in Heaps /\ pass \in Pass
  /\ focus \in Node \cup {NoNode} /\ peek \in Node \cup {NoNode}
  /\ stack \in Seq(Frame)
  /\ remaining \in Nat /\ copied \in Nat
  /\ peek # NoNode => /\ focus = NoNode /\ stack # <<>>
                    /\ \/ Top.next = 1
                       \/ Top.next - 1 \in DOMAIN Entries(Top.node)

(* What is copied and what remains make up the budget at most.             *)
Spent == pass = "sanitize" => copied + remaining <= Budget

(* A frame is inside every frame further out, and so is what comes next;   *)
(* what it goes on to are its entries, not a JSON form.                    *)
Nested ==
  /\ \A i \in DOMAIN stack : ~HasWireForm(stack[i].node)
  /\ \A i, j \in DOMAIN stack :
       i < j => stack[j].node \in Within(stack[i].node)
  /\ focus \in Inner =>
       \A i \in DOMAIN stack : focus \in Within(stack[i].node)

(* The walk remembers nothing but what it is in the middle of visiting.    *)
Remembered ==
  /\ NoNode \notin seen
  /\ \A s \in seen : \E i \in DOMAIN stack : s = Identity(stack[i].node)

-----------------------------------------------------------------------------
(* What WalkAssumption says of an inner node.                              *)
LEMMA HeapTyped ==
  ASSUME heap \in Heaps, NEW n \in Inner
  PROVE  /\ heap[n] \in Shape
         /\ heap[n].kind \in InnerKind
         /\ Entries(n) \in Seq([name: Name, to: Node])
         /\ heap[n].wire \in Node \cup {NoNode}
         /\ heap[n].kind = "pointer" => Len(Entries(n)) = 1
<1>1. heap \in [Inner -> Shape]
  BY WalkAssumption
<1>2. heap[n] \in Shape
  BY <1>1
<1>3. heap[n].kind = "pointer" => Len(heap[n].entries) = 1
  BY HeapAssumption
<1>4. QED
  BY <1>2, <1>3 DEF Shape, Entries

(* What it says of a leaf.                                                 *)
LEMMA LeafTyped ==
  ASSUME NEW n \in Leaf
  PROVE  /\ LeafOf[n].kind \in LeafKind
         /\ LeafOf[n].length \in Nat
         /\ KindOf(n) = LeafOf[n].kind
BY WalkAssumption DEF KindOf

(* An entry leads to a node, which the container refers to.                *)
LEMMA TargetTyped ==
  ASSUME heap \in Heaps,
         NEW n \in Inner, NEW i \in DOMAIN Entries(n)
  PROVE  /\ Entries(n)[i].to \in Node
         /\ ~HasWireForm(n) => Entries(n)[i].to \in References(n)
<1>1. Entries(n) \in Seq([name: Name, to: Node])
  BY HeapTyped
<1> DEFINE e == Entries(n)
           E == [name: Name, to: Node]
<1> HIDE DEF E
<1>2. e \in Seq(E) /\ i \in DOMAIN e
  BY <1>1 DEF E
<1> HIDE DEF e
<1>4. DOMAIN e = 1 .. Len(e)
  BY <1>2
<1>5. e[i] \in E
  BY <1>2, <1>4
<1>6. Entries(n)[i] \in [name: Name, to: Node]
  BY <1>5 DEF e, E
<1>3. QED
  BY <1>6 DEF References

(* What a node refers to is inside it.                                     *)
LEMMA WithinNear ==
  ASSUME heap \in Heaps,
         NEW n \in Inner, NEW m \in References(n)
  PROVE  m \in Within(n)
<1>1. m \in Node
  BY HeapTyped, TargetTyped DEF References, HasWireForm
<1>2. QED
  BY <1>1 DEF Within

(* What is inside something inside is inside.                              *)
LEMMA WithinFar ==
  ASSUME NEW n \in Inner, NEW m \in Inner, NEW k,
         m \in Within(n), k \in Within(m)
  PROVE  k \in Within(n)
<1>1. k \in Node
  BY DEF Within
<1>2. SUFFICES ASSUME NEW S \in SUBSET Node,
                      Closed(S), References(n) \subseteq S
               PROVE  k \in S
  BY <1>1 DEF Within
<1>3. m \in S
  BY <1>2 DEF Within
<1>4. References(m) \subseteq S
  BY <1>2, <1>3 DEF Closed
<1>5. QED
  BY <1>2, <1>4 DEF Within

(* Two nodes that refer to the same have the same inside.                  *)
LEMMA WithinSame ==
  ASSUME NEW n, NEW m, References(n) = References(m)
  PROVE  Within(n) = Within(m)
BY DEF Within

(* The value does not change while it is walked over.                      *)
LEMMA WithinKept ==
  ASSUME heap' = heap, pass' = pass, NEW n
  PROVE  /\ Within(n)' = Within(n) /\ Identity(n)' = Identity(n)
         /\ KindOf(n)' = KindOf(n) /\ Entries(n)' = Entries(n)
         /\ HasWireForm(n)' = HasWireForm(n) /\ Start(n)' = Start(n)
<1>1. \A m : /\ Entries(m)' = Entries(m) /\ HasWireForm(m)' = HasWireForm(m)
            /\ References(m)' = References(m)
  BY DEF References, Entries, HasWireForm
<1>2. Within(n)' = Within(n)
  BY <1>1 DEF Within, Closed
<1>3. QED
  BY <1>1, <1>2 DEF Identity, KindOf, Start, Entries

(* Equal pairs have equal parts.                                           *)
LEMMA SamePair ==
  ASSUME NEW a, NEW b, NEW c, NEW d, <<a, b>> = <<c, d>>
  PROVE  a = c /\ b = d
OBVIOUS

(* What has the identity of something further out contains itself, or is a *)
(* slice of it.                                                            *)
LEMMA AgainIsCyclic ==
  ASSUME heap \in Heaps, NEW n \in Inner, NEW m \in Inner,
         ~HasWireForm(n), ~HasWireForm(m),
         n \in Within(m), Identity(n) = Identity(m),
         Identity(n) # NoNode
  PROVE  n \in Within(n) \/ BeginsOuter(n)
<1>1. heap[n].kind \in InnerKind /\ heap[m].kind \in InnerKind
  BY HeapTyped
<1>2. heap[n].kind # "struct" /\ heap[m].kind # "struct"
  BY DEF Identity
<1>3. CASE heap[n].kind = "pointer"
  <2>1. Identity(n) = <<"pointer", Entries(n)[1].to>>
    BY <1>3 DEF Identity
  <2>2. heap[m].kind = "pointer"
    <3>1. SUFFICES ASSUME heap[m].kind # "pointer" PROVE FALSE
      OBVIOUS
    <3>2. Identity(m) = <<heap[m].kind, Start(m)>>
      BY <1>2, <3>1 DEF Identity
    <3>3. <<"pointer", Entries(n)[1].to>> = <<heap[m].kind, Start(m)>>
      BY <2>1, <3>2, Zenon
    <3>4. QED
      BY <3>1, <3>3, SamePair, Zenon
  <2>3. Identity(m) = <<"pointer", Entries(m)[1].to>>
    BY <2>2 DEF Identity
  <2>4. /\ References(n) = {Entries(n)[1].to}
        /\ References(m) = {Entries(m)[1].to}
    <3>1. DOMAIN Entries(n) = {1} /\ DOMAIN Entries(m) = {1}
      BY <1>3, <2>2, HeapTyped
    <3>2. QED
      BY <3>1 DEF References
  <2>5. Entries(n)[1].to = Entries(m)[1].to
    <3>1. <<"pointer", Entries(n)[1].to>>
            = <<"pointer", Entries(m)[1].to>>
      BY <2>1, <2>3, Zenon
    <3>2. QED
      BY <3>1, SamePair, Zenon
  <2>6. References(n) = References(m)
    BY <2>4, <2>5
  <2>7. QED
    BY <2>6, WithinSame
<1>4. CASE heap[n].kind # "pointer"
  <2>1. Identity(n) = <<heap[n].kind, Start(n)>>
    BY <1>2, <1>4 DEF Identity
  <2>2. heap[m].kind # "pointer"
    <3>1. SUFFICES ASSUME heap[m].kind = "pointer" PROVE FALSE
      OBVIOUS
    <3>2. Identity(m) = <<"pointer", Entries(m)[1].to>>
      BY <3>1 DEF Identity
    <3>3. <<heap[n].kind, Start(n)>> = <<"pointer", Entries(m)[1].to>>
      BY <2>1, <3>2, Zenon
    <3>4. QED
      BY <1>4, <3>3, SamePair, Zenon
  <2>3. Identity(m) = <<heap[m].kind, Start(m)>>
    BY <1>2, <2>2 DEF Identity
  <2>4. heap[n].kind = heap[m].kind /\ Start(n) = Start(m)
    <3>1. <<heap[n].kind, Start(n)>> = <<heap[m].kind, Start(m)>>
      BY <2>1, <2>3, Zenon
    <3>2. QED
      BY <3>1, SamePair, Zenon
  <2>5. CASE heap[n].kind = "list"
    BY <2>4, <2>5 DEF BeginsOuter, KindOf
  <2>6. CASE heap[n].kind # "list"
    <3>1. heap[n].base = NoNode /\ heap[m].base = NoNode
      BY <2>4, <2>6, HeapAssumption
    <3>2. n = m
      BY <2>4, <3>1 DEF Start
    <3>3. QED
      BY <3>2
  <2>7. QED
    BY <2>5, <2>6
<1>5. QED
  BY <1>3, <1>4

-----------------------------------------------------------------------------
(* The innermost frame.                                                    *)
LEMMA TopTyped ==
  ASSUME WalkTypeOK, stack # <<>>
  PROVE  /\ Len(stack) \in DOMAIN stack /\ Top = stack[Len(stack)]
         /\ Top \in Frame /\ Top.node \in Inner /\ Top.next \in Nat \ {0}
         /\ Len(Entries(Top.node)) \in Nat
         /\ DOMAIN Entries(Top.node) = 1 .. Len(Entries(Top.node))
<1>1. stack \in Seq(Frame) /\ heap \in Heaps
  BY DEF WalkTypeOK, Frame
<1> HIDE DEF Frame
<1>2. Len(stack) \in DOMAIN stack /\ Top = stack[Len(stack)]
  BY <1>1 DEF Top, Last
<1>3. Top \in Frame
  BY <1>1, <1>2
<1>4. Top.node \in Inner /\ Top.next \in Nat \ {0}
  BY <1>3 DEF Frame
<1>5. Entries(Top.node) \in Seq([name: Name, to: Node])
  BY <1>1, <1>4, HeapTyped
<1>6. QED
  BY <1>2, <1>3, <1>4, <1>5

(* What the bytes of a text, or of a placeholder, do to the budget.        *)
LEMMA WriteSpends ==
  ASSUME WalkTypeOK, NEW n, NEW how, NEW length \in Nat,
         Write(n, how, length)
  PROVE  /\ Kept(length) \in Nat /\ Kept(length) <= length
         /\ remaining' \in Nat /\ copied' \in Nat
         /\ pass = "sanitize" => copied' + remaining' = copied + remaining
BY DEF WalkTypeOK, Write, Kept, Smaller

(* The numbers that are spent.                                             *)
LEMMA LengthsAreNumbers ==
    /\ Placeholder \in Nat /\ Budget \in Nat /\ PayloadMin \in Nat
  /\ \A n \in Leaf : LeafOf[n].length \in Nat
BY WalkAssumption, LeafTyped

(* The price of an entry.                                                  *)
LEMMA CostIsNumber == ASSUME NEW n PROVE Cost(n) \in Nat
BY DEF Cost

(* Every text of sanitizeString: the placeholder, or one that is cut.      *)
LEMMA StringWrites ==
  ASSUME WalkTypeOK, NEW n \in Leaf, SanitizeString(n)
  PROVE  \/ Write(n, "placeholder", Placeholder)
         \/ \E cut \in Nat :
              /\ Write(n, "text", cut)
              /\ LeafOf[n].kind = "payload" => cut < PayloadMin
<1>1. /\ Smaller(LeafOf[n].length, remaining) \in Nat
      /\ PayloadMin \in Nat
  BY LengthsAreNumbers DEF Smaller, WalkTypeOK
<1>2. QED
  BY <1>1 DEF SanitizeString, LongEnough

(* A step either writes what one leaf or one placeholder takes, or pays    *)
(* for an entry, or leaves budget and output as they are.                  *)
LEMMA TextWrites ==
  ASSUME WalkTypeOK, VisitText
  PROVE  \E how \in {"text", "placeholder"}, length \in Nat :
           /\ Write(focus, how, length)
           /\ pass = "sanitize" /\ how = "text" /\ KindOf(focus) = "payload"
                => length < PayloadMin
<1>1. focus \in Leaf
  BY DEF VisitText
<1>2. CASE pass = "sanitize"
  BY <1>1, <1>2, StringWrites, LengthsAreNumbers, LeafTyped DEF VisitText
<1>3. CASE pass # "sanitize"
  BY <1>1, <1>3, LengthsAreNumbers DEF VisitText
<1>4. QED
  BY <1>2, <1>3

-----------------------------------------------------------------------------
(* Every step finds and leaves what it may rely on.                        *)
LEMMA WalkTyped ==
  ASSUME WalkTypeOK, [WalkNext]_walkVars
  PROVE  WalkTypeOK'
<1> USE DEF WalkTypeOK
<1>0. focus \in Node => peek = NoNode
  BY WalkAssumption
<1>1. CASE VisitText
  <2>1. remaining' \in Nat /\ copied' \in Nat
    BY <1>1, TextWrites, WriteSpends
  <2>2. QED
    BY <1>0, <1>1, <2>1 DEF VisitText, Node
<1>2. CASE VisitOther
  BY <1>0, <1>2 DEF VisitOther
<1>3. CASE VisitWire
  <2>1. heap[focus].wire \in Node \cup {NoNode}
    BY <1>3, HeapTyped DEF VisitWire
  <2>2. peek = NoNode
    BY <1>0, <1>3 DEF VisitWire, Node
  <2>3. QED
    BY <1>3, <2>1, <2>2 DEF VisitWire
<1>4. CASE VisitAgain
  <2>1. remaining' \in Nat /\ copied' \in Nat
    BY <1>4, WriteSpends, LengthsAreNumbers DEF VisitAgain
  <2>2. QED
    BY <1>0, <1>4, <2>1 DEF VisitAgain, Opens, Node
<1>5. CASE Descend
  <2>1. peek = NoNode /\ focus \in Inner
    BY <1>0, <1>5 DEF Descend, Opens, Node
  <2>2. stack' \in Seq(Frame) /\ stack' # <<>> /\ Top'.next = 1
    <3> DEFINE frame == [node |-> focus, next |-> 1]
    <3>1. frame \in Frame /\ frame.next = 1
      BY <2>1 DEF Frame
    <3>2. stack' = Append(stack, frame)
      BY <1>5 DEF Descend
    <3> HIDE DEF Frame, frame
    <3>3. /\ stack' \in Seq(Frame) /\ Len(stack') = Len(stack) + 1
          /\ Len(stack) \in Nat /\ stack'[Len(stack')] = frame
      BY <3>1, <3>2
    <3>4. QED
      BY <3>1, <3>3 DEF Top, Last
  <2>3. peek' \in Node \cup {NoNode}
    <3>1. TypeMembers(focus) \subseteq Node
      BY <2>1, TargetTyped DEF TypeMembers
    <3>2. QED
      BY <1>5, <2>1, <3>1 DEF Descend
  <2>4. UNCHANGED <<heap, pass, remaining, copied>> /\ focus' = NoNode
    BY <1>5 DEF Descend
  <2>5. QED
    BY <2>2, <2>3, <2>4
<1>6. CASE NextEntry
  <2>1. /\ stack # <<>> /\ focus = NoNode /\ peek = NoNode
        /\ Top.next <= Len(Entries(Top.node))
        /\ Cost(Top.node) <= remaining
        /\ stack' = [stack EXCEPT ![Len(stack)].next = @ + 1]
        /\ UNCHANGED <<heap, pass>>
    BY <1>6 DEF NextEntry
  <2>2. Top.next \in DOMAIN Entries(Top.node)
    BY <2>1, TopTyped
  <2>3. Current.to \in Node
    BY <2>1, <2>2, TopTyped, TargetTyped DEF Current
  <2> DEFINE top == [Top EXCEPT !.next = @ + 1]
  <2>4. /\ stack \in Seq(Frame) /\ Len(stack) \in DOMAIN stack
         /\ stack[Len(stack)] = Top /\ Top \in Frame
    BY <2>1, TopTyped DEF Frame
  <2>5. top \in Frame
    BY <2>4 DEF Frame
  <2>6. stack' = [stack EXCEPT ![Len(stack)] = top]
    BY <2>1, <2>4
  <2>7. stack' \in Seq(Frame) /\ Len(stack') = Len(stack)
    <3> HIDE DEF Frame, top
    <3>1. QED
      BY <2>4, <2>5, <2>6
  <2>8. stack' # <<>> /\ Top' = top
    <3> HIDE DEF Frame, top
    <3>1. QED
      BY <2>7, <2>4, <2>6 DEF Top, Last
  <2>9. Top'.next - 1 = Top.next /\ Top'.node = Top.node
    BY <2>1, <2>8, TopTyped DEF Frame
  <2>10. (Top.next - 1)' \in (DOMAIN Entries(Top.node))'
    BY <2>1, <2>2, <2>9 DEF Entries
  <2>11. remaining' \in Nat /\ copied' \in Nat
    BY <1>6, CostIsNumber DEF NextEntry
  <2>12. focus' \in Node \cup {NoNode} /\ peek' \in Node \cup {NoNode}
         /\ (peek' # NoNode => focus' = NoNode)
    BY <1>6, <2>1, <2>3 DEF NextEntry
  <2>13. (peek # NoNode => /\ focus = NoNode /\ stack # <<>>
                         /\ \/ Top.next = 1
                            \/ Top.next - 1 \in DOMAIN Entries(Top.node))'
    BY <2>8, <2>10, <2>12
  <2>14. heap' \in Heaps /\ pass' \in Pass
    BY <2>1
  <2>15. QED
    BY <2>7, <2>11, <2>12, <2>13, <2>14
<1>7. CASE OutOfBudget
  <2>1. stack' \in Seq(Frame)
    <3> DEFINE k == Len(Entries(Top.node)) + 1
               top == [Top EXCEPT !.next = k]
    <3>1. /\ stack \in Seq(Frame) /\ Len(stack) \in DOMAIN stack
          /\ stack[Len(stack)] = Top /\ Top \in Frame
          /\ k \in Nat \ {0}
      BY <1>7, TopTyped DEF OutOfBudget
    <3>2. stack' = [stack EXCEPT ![Len(stack)].next = k]
      BY <1>7 DEF OutOfBudget
    <3> HIDE DEF k
    <3>3. top \in Frame
      BY <3>1 DEF Frame
    <3>4. stack' = [stack EXCEPT ![Len(stack)] = top]
      BY <3>1, <3>2
    <3> HIDE DEF top
    <3>5. QED
      BY <3>1, <3>3, <3>4
  <2>2. QED
    BY <1>7, <2>1 DEF OutOfBudget, Frame
<1>8. CASE LookThrough
  <2>1. Entries(peek)[1].to \in Node
    <3>1. /\ Len(Entries(peek)) = 1
          /\ Entries(peek) \in Seq([name: Name, to: Node])
      BY <1>8, HeapTyped DEF LookThrough, KindOf
    <3>2. 1 \in DOMAIN Entries(peek)
      BY <3>1
    <3>3. QED
      BY <1>8, <3>2, TargetTyped DEF LookThrough
  <2>2. peek # NoNode
    BY WalkAssumption, <1>8 DEF LookThrough, Node
  <2>3. QED
    BY <1>8, <2>1, <2>2 DEF LookThrough, Top, Entries
<1>9. CASE LookedAhead
  <2>1. Ahead.to \in Node
    BY <1>9, TopTyped, TargetTyped DEF LookedAhead, Ahead
  <2>2. QED
    BY <1>9, <2>1, WriteSpends, LengthsAreNumbers DEF LookedAhead
<1>10. CASE Return
  <2>1. stack' \in Seq(Frame)
    <3>1. stack \in Seq(Frame) /\ stack # <<>>
      BY <1>10 DEF Return, Frame
    <3>2. stack' = SubSeq(stack, 1, Len(stack) - 1)
      BY <1>10 DEF Return, Front
    <3> HIDE DEF Frame
    <3>3. QED
      BY <3>1, <3>2
  <2>2. QED
    BY <1>10, <2>1 DEF Return, Frame
<1>11. CASE TypeFound
  BY <1>11 DEF TypeFound
<1>12. CASE UNCHANGED walkVars
  BY <1>12 DEF walkVars, Top, Entries
<1>13. QED
  BY <1>1, <1>2, <1>3, <1>4, <1>5, <1>6, <1>7, <1>8, <1>9, <1>10, <1>11,
     <1>12 DEF WalkNext, Visit

(* Every step pays for what it copies.                                     *)
LEMMA WalkSpent ==
  ASSUME WalkTypeOK, Spent, [WalkNext]_walkVars
  PROVE  Spent'
<1>1. copied \in Nat /\ remaining \in Nat /\ Budget \in Nat
  BY LengthsAreNumbers DEF WalkTypeOK
<1> DEFINE Kind == pass' = pass
           Same == UNCHANGED <<pass, remaining, copied>>
           Paid == UNCHANGED pass
                   /\ \E cost \in Nat : /\ remaining' = remaining - cost
                                        /\ copied' = copied + cost
           Moved == UNCHANGED pass /\ \E n, how : \E length \in Nat :
                                        Write(n, how, length)
<1>2. CASE Same
  BY <1>2 DEF Spent
<1>3. CASE Paid
  BY <1>1, <1>3 DEF Spent
<1>4. CASE Moved
  <2>1. pass = "sanitize" => copied' + remaining' = copied + remaining
    BY <1>4, WriteSpends
  <2>2. QED
    BY <1>4, <2>1 DEF Spent
<1>5. CASE OutOfBudget
  BY <1>1, <1>5 DEF OutOfBudget, Spent
<1>6. VisitText => Moved
  BY TextWrites DEF VisitText
<1>7. VisitAgain => Moved
  BY LengthsAreNumbers DEF VisitAgain
<1>8. LookedAhead => Moved \/ Same
  BY LengthsAreNumbers DEF LookedAhead
<1>9. NextEntry => Paid
  BY CostIsNumber DEF NextEntry
<1>10. VisitOther \/ VisitWire \/ Descend \/ LookThrough \/ TypeFound
         \/ Return => Same
  BY DEF VisitOther, VisitWire, Descend, LookThrough, TypeFound, Return
<1>11. UNCHANGED walkVars => Same
  BY DEF walkVars
<1> HIDE DEF Same, Paid, Moved
<1>12. Same \/ Paid \/ Moved \/ OutOfBudget
  BY <1>6, <1>7, <1>8, <1>9, <1>10, <1>11 DEF WalkNext, Visit
<1>13. QED
  BY <1>2, <1>3, <1>4, <1>5, <1>12

-----------------------------------------------------------------------------
(* What a step writes at most.                                             *)
Wrote ==
  \/ out' = out
  \/ \E n \in Node, length \in Nat,
         how \in {"text", "placeholder", "whole", "circular"} :
       /\ out' = out \cup {[node |-> n, how |-> how, length |-> length]}
       /\ pass = "sanitize" /\ how = "text" /\ KindOf(n) = "payload"
            => length < PayloadMin
       /\ how = "whole" => KindOf(n) \in CopiedWhole
       /\ how = "circular" => n = focus /\ VisitAgain

(* No step writes more, or changes the value or the kind of walk.          *)
LEMMA WalkWrites ==
  ASSUME WalkTypeOK, [WalkNext]_walkVars
  PROVE  Wrote /\ UNCHANGED <<heap, pass>>
<1>1. CASE VisitText
  <2>1. PICK how \in {"text", "placeholder"}, length \in Nat :
          /\ Write(focus, how, length)
          /\ pass = "sanitize" /\ how = "text" /\ KindOf(focus) = "payload"
               => length < PayloadMin
    BY <1>1, TextWrites
  <2>2. /\ out' = out \cup {[node |-> focus, how |-> how,
                              length |-> Kept(length)]}
        /\ Kept(length) \in Nat /\ Kept(length) <= length
        /\ PayloadMin \in Nat
    BY <2>1, WriteSpends, LengthsAreNumbers DEF Write
  <2>3. /\ pass = "sanitize" /\ how = "text" /\ KindOf(focus) = "payload"
             => Kept(length) < PayloadMin
        /\ focus \in Node /\ how # "circular" /\ how # "whole"
    BY <1>1, <2>1, <2>2 DEF VisitText, Node
  <2>4. QED
    BY <1>1, <2>2, <2>3 DEF Wrote, VisitText
<1>2. CASE VisitOther
  <2>1. /\ focus \in Node /\ UNCHANGED <<heap, pass>>
        /\ KindOf(focus) \in CopiedWhole
        /\ out' = out \cup {[node |-> focus, how |-> "whole", length |-> 0]}
    BY <1>2 DEF VisitOther, WalkTypeOK
  <2>2. "whole" # "text" /\ "whole" # "circular"
    OBVIOUS
  <2>3. QED
    BY <2>1, <2>2 DEF Wrote
<1>3. CASE VisitAgain
  <2>1. /\ out' = out \cup {[node |-> focus, how |-> "circular",
                            length |-> Kept(Placeholder)]}
        /\ Kept(Placeholder) \in Nat
    BY <1>3, WriteSpends, LengthsAreNumbers DEF VisitAgain, Write
  <2>2. /\ focus \in Node /\ "circular" # "text" /\ "circular" # "whole"
        /\ UNCHANGED <<heap, pass>>
    BY <1>3 DEF VisitAgain, Opens, Node
  <2>3. QED
    BY <1>3, <2>1, <2>2 DEF Wrote
<1>4. CASE LookedAhead
  <2>1. \/ out' = out
        \/ /\ out' = out \cup {[node |-> peek, how |-> "placeholder",
                                length |-> Kept(Placeholder)]}
           /\ Kept(Placeholder) \in Nat
    BY <1>4, WriteSpends, LengthsAreNumbers DEF LookedAhead, Write
  <2>2. peek \in Node /\ UNCHANGED <<heap, pass>>
    BY <1>4 DEF LookedAhead, WalkTypeOK
  <2>3. /\ "placeholder" # "text" /\ "placeholder" # "circular"
        /\ "placeholder" # "whole"
    OBVIOUS
  <2>4. QED
    BY <2>1, <2>2, <2>3 DEF Wrote
<1>5. CASE VisitWire \/ Descend \/ NextEntry \/ OutOfBudget
             \/ LookThrough \/ TypeFound \/ Return \/ UNCHANGED walkVars
  BY <1>5 DEF VisitWire, Descend, NextEntry, OutOfBudget,
              LookThrough, TypeFound, Return, walkVars, Wrote
<1>6. QED
  BY <1>1, <1>2, <1>3, <1>4, <1>5 DEF WalkNext, Visit

(* What was written is not changed by what is written later.               *)
LEMMA CarriedKept ==
  ASSUME heap' = heap, pass' = pass, NEW w
  PROVE  Carried(w)' = Carried(w) /\ KindOf(w.node)' = KindOf(w.node)
<1>1. \A n : KindOf(n)' = KindOf(n) /\ Within(n)' = Within(n)
  BY WithinKept
<1>2. \A S : Payloads(S)' = Payloads(S)
  BY <1>1 DEF Payloads
<1>3. QED
  BY <1>1, <1>2 DEF Carried

(* No step lets a payload through, but in a map with other keys.           *)
LEMMA WalkNoPayload ==
  ASSUME WalkTypeOK, NoPayloadSurvives,
         [WalkNext]_walkVars
  PROVE  NoPayloadSurvives'
<1>1. Wrote /\ UNCHANGED <<heap, pass>>
  BY WalkWrites
<1>2. SUFFICES ASSUME NEW w \in out', pass = "sanitize", Carried(w) # {}
               PROVE  KindOf(w.node) = "keyed"
  BY <1>1, CarriedKept DEF NoPayloadSurvives
<1>3. CASE w \in out
  BY <1>2, <1>3 DEF NoPayloadSurvives
<1>4. CASE w \notin out
  <2>1. PICK n \in Node, length \in Nat,
             how \in {"text", "placeholder", "whole", "circular"} :
          /\ w = [node |-> n, how |-> how, length |-> length]
          /\ pass = "sanitize" /\ how = "text" /\ KindOf(n) = "payload"
               => length < PayloadMin
          /\ how = "whole" => KindOf(n) \in CopiedWhole
          /\ out' = out \cup {w}
    BY <1>1, <1>2, <1>4 DEF Wrote
  <2>2. w.node = n /\ w.how = how /\ w.length = length
    BY <2>1
  <2>3. how # "text"
    <3>1. SUFFICES ASSUME how = "text" PROVE FALSE
      OBVIOUS
    <3>2. length >= PayloadMin /\ Payloads({n}) # {} /\ PayloadMin \in Nat
      BY <1>2, <2>2, <3>1, LengthsAreNumbers DEF Carried
    <3>3. KindOf(n) = "payload"
      BY <3>2 DEF Payloads
    <3>4. length < PayloadMin
      BY <1>2, <2>1, <3>1, <3>3
    <3>5. QED
      BY <3>2, <3>4
  <2>4. how = "whole"
    BY <1>2, <2>2, <2>3 DEF Carried
  <2>5. n \in Inner
    <3>1. SUFFICES ASSUME n \notin Inner PROVE FALSE
      OBVIOUS
    <3>2. Payloads({n}) # {}
      BY <1>2, <2>2, <2>4, <3>1 DEF Carried
    <3>3. KindOf(n) = "payload"
      BY <3>2 DEF Payloads
    <3>4. QED
      BY <2>1, <2>4, <3>3 DEF CopiedWhole
  <2>6. KindOf(n) \in InnerKind
    BY <2>5, HeapTyped DEF KindOf, WalkTypeOK
  <2>7. QED
    BY <2>1, <2>2, <2>4, <2>6 DEF InnerKind, CopiedWhole
<1>5. QED
  BY <1>3, <1>4

-----------------------------------------------------------------------------
(* Frames stay inside each other.                                          *)
LEMMA WalkNested ==
  ASSUME WalkTypeOK, Nested, [WalkNext]_walkVars
  PROVE  Nested'
<1>1. UNCHANGED <<heap, pass>> /\ heap \in Heaps
  BY WalkWrites DEF WalkTypeOK
<1>2. \A n : Within(n)' = Within(n) /\ HasWireForm(n)' = HasWireForm(n)
  BY <1>1, WithinKept
<1>3. stack \in Seq(Frame)
  BY DEF WalkTypeOK, Frame
<1> HIDE DEF Frame
<1> DEFINE Inside(n) ==
             \A i \in DOMAIN stack : n \in Within(stack[i].node)
(* What the innermost frame has at one of its entries is inside all.       *)
<1>4. ASSUME stack # <<>>, NEW k \in DOMAIN Entries(Top.node),
             Entries(Top.node)[k].to \in Inner
      PROVE  Inside(Entries(Top.node)[k].to)
  <2> DEFINE m == Entries(Top.node)[k].to
  <2>1. /\ Top = stack[Len(stack)] /\ Top.node \in Inner
        /\ Len(stack) \in DOMAIN stack /\ ~HasWireForm(Top.node)
    BY <1>4, TopTyped DEF Nested
  <2>2. m \in Within(Top.node)
    BY <1>1, <1>4, <2>1, TargetTyped, WithinNear
  <2> HIDE DEF m
  <2>3. SUFFICES ASSUME NEW i \in DOMAIN stack
                 PROVE  m \in Within(stack[i].node)
    BY DEF m
  <2>4. CASE i = Len(stack)
    BY <2>1, <2>2, <2>4
  <2>5. CASE i # Len(stack)
    <3>1. i < Len(stack) /\ stack[i] \in Frame
      BY <1>3, <2>1, <2>5
    <3>2. Top.node \in Within(stack[i].node) /\ stack[i].node \in Inner
      BY <2>1, <3>1 DEF Nested, Frame
    <3>3. QED
      BY <2>1, <2>2, <3>2, WithinFar
  <2>6. QED
    BY <2>4, <2>5
(* A step that keeps the nodes of all frames.                              *)
<1>5. ASSUME DOMAIN stack' = DOMAIN stack,
             \A i \in DOMAIN stack : stack'[i].node = stack[i].node,
             focus' \in Inner => Inside(focus')
      PROVE  Nested'
  BY <1>2, <1>5 DEF Nested
<1>6. CASE \/ VisitText \/ VisitOther \/ VisitAgain
           \/ LookThrough \/ TypeFound \/ UNCHANGED walkVars
  <2>1. stack' = stack
    BY <1>6 DEF VisitText, VisitOther, VisitAgain,
           LookThrough, TypeFound, walkVars
  <2>2. focus' = focus \/ focus' = NoNode
    BY <1>6 DEF VisitText, VisitOther, VisitAgain,
           LookThrough, TypeFound, walkVars
  <2>3. focus' \in Inner => Inside(focus')
    BY WalkAssumption, <2>2 DEF Nested, Node
  <2>4. QED
    BY <1>5, <2>1, <2>3
<1>7. CASE Descend
  <2>1. /\ focus \in Inner /\ ~HasWireForm(focus) /\ focus' = NoNode
        /\ stack' = Append(stack, [node |-> focus, next |-> 1])
    BY <1>7 DEF Descend, Opens
  <2>2. /\ DOMAIN stack = 1 .. Len(stack) /\ Len(stack) \in Nat
        /\ DOMAIN stack' = 1 .. Len(stack) + 1
        /\ \A i \in DOMAIN stack : stack'[i] = stack[i]
        /\ stack'[Len(stack) + 1].node = focus
    BY <1>3, <2>1
  <2>3. ASSUME NEW i \in DOMAIN stack', NEW j \in DOMAIN stack', i < j
        PROVE  stack'[j].node \in Within(stack'[i].node)
    <3>1. i \in DOMAIN stack /\ (j \in DOMAIN stack \/ j = Len(stack) + 1)
      BY <2>2, <2>3
    <3>2. QED
      BY <2>1, <2>2, <2>3, <3>1 DEF Nested
  <2>4. focus' \notin Inner
    BY WalkAssumption, <2>1 DEF Node
  <2>5. \A i \in DOMAIN stack' : ~HasWireForm(stack'[i].node)
    BY <2>1, <2>2 DEF Nested
  <2>6. QED
    BY <1>2, <2>3, <2>4, <2>5 DEF Nested
<1>8. CASE NextEntry
  <2>1. /\ stack # <<>> /\ Top.next <= Len(Entries(Top.node))
        /\ stack' = [stack EXCEPT ![Len(stack)].next = @ + 1]
        /\ focus' = focus \/ focus' = Current.to
        /\ focus = NoNode
    BY <1>8 DEF NextEntry
  <2>2. Top.next \in DOMAIN Entries(Top.node)
    BY <2>1, TopTyped
  <2>3. focus' \in Inner => Inside(focus')
    BY WalkAssumption, <1>4, <2>1, <2>2 DEF Current, Node
  <2>4. /\ DOMAIN stack' = DOMAIN stack
        /\ \A i \in DOMAIN stack : stack'[i].node = stack[i].node
    BY <1>3, <2>1 DEF Frame
  <2>5. QED
    BY <1>5, <2>3, <2>4
<1>9. CASE OutOfBudget
  <2>1. /\ DOMAIN stack' = DOMAIN stack
        /\ \A i \in DOMAIN stack : stack'[i].node = stack[i].node
    BY <1>3, <1>9 DEF OutOfBudget, Frame
  <2>2. focus' \in Inner => Inside(focus')
    BY WalkAssumption, <1>9 DEF OutOfBudget, Node
  <2>3. QED
    BY <1>5, <2>1, <2>2
<1>10. CASE LookedAhead
  <2>1. /\ peek # NoNode /\ stack' = stack /\ focus' \in {focus, Ahead.to}
        /\ Top.next # 1
    BY <1>10, TopTyped DEF LookedAhead, WalkTypeOK
  <2>2. /\ stack # <<>> /\ focus = NoNode
        /\ Top.next - 1 \in DOMAIN Entries(Top.node)
    BY <2>1 DEF WalkTypeOK
  <2>3. focus' \in Inner => Inside(focus')
    BY WalkAssumption, <1>4, <2>1, <2>2 DEF Ahead, Node
  <2>4. QED
    BY <1>5, <2>1, <2>3
<1>11. CASE Return
  <2>1. /\ focus' = NoNode /\ stack # <<>>
        /\ stack' = SubSeq(stack, 1, Len(stack) - 1)
    BY <1>11 DEF Return, Front
  <2>2. /\ DOMAIN stack' \subseteq DOMAIN stack
        /\ \A i \in DOMAIN stack' : stack'[i] = stack[i]
    BY <1>3, <2>1
  <2>3. focus' \notin Inner
    BY WalkAssumption, <2>1 DEF Node
  <2>4. QED
    BY <1>2, <2>2, <2>3 DEF Nested
<1>12. CASE VisitWire
  <2>1. focus \in Inner /\ HasWireForm(focus) /\ stack' = stack
        /\ focus' = heap[focus].wire
    BY <1>12 DEF VisitWire
  <2>2. focus' \in Within(focus)
    BY <1>1, <2>1, WithinNear DEF References
  <2>3. ASSUME NEW i \in DOMAIN stack
        PROVE  focus' \in Within(stack[i].node)
    <3>1. stack[i] \in Frame
      BY <1>3
    <3>2. stack[i].node \in Inner /\ focus \in Within(stack[i].node)
      BY <2>1, <3>1 DEF Nested, Frame
    <3>3. QED
      BY <2>1, <2>2, <3>2, WithinFar
  <2>4. QED
    BY <1>5, <2>1, <2>3
<1>13. QED
  BY <1>6, <1>7, <1>8, <1>9, <1>10, <1>11, <1>12 DEF WalkNext, Visit

(* What is remembered has a frame.                                         *)
LEMMA WalkRemembered ==
  ASSUME WalkTypeOK, Remembered, [WalkNext]_walkVars
  PROVE  Remembered'
<1>1. UNCHANGED <<heap, pass>> /\ heap \in Heaps
  BY WalkWrites DEF WalkTypeOK
<1>2. \A n : Identity(n)' = Identity(n)
  BY <1>1, WithinKept
<1>3. stack \in Seq(Frame)
  BY DEF WalkTypeOK, Frame
<1> HIDE DEF Frame
<1>4. CASE VisitText \/ VisitOther \/ VisitWire \/ VisitAgain
             \/ NextEntry \/ OutOfBudget \/ LookThrough
             \/ TypeFound \/ LookedAhead \/ UNCHANGED walkVars
  <2>1. /\ seen' = seen
        /\ \/ stack' = stack
           \/ \E k : stack' = [stack EXCEPT ![Len(stack)].next = k]
    BY <1>4 DEF VisitText, VisitOther, VisitWire, VisitAgain,
                NextEntry, OutOfBudget, LookThrough, TypeFound,
                LookedAhead, walkVars
  <2>2. /\ DOMAIN stack' = DOMAIN stack
        /\ \A i \in DOMAIN stack : stack'[i].node = stack[i].node
    <3>1. CASE stack' = stack
      BY <3>1
    <3>2. ASSUME NEW k, stack' = [stack EXCEPT ![Len(stack)].next = k]
          PROVE  /\ DOMAIN stack' = DOMAIN stack
                 /\ \A i \in DOMAIN stack : stack'[i].node = stack[i].node
      BY <1>3, <3>2 DEF Frame
    <3>3. QED
      BY <2>1, <3>1, <3>2
  <2>3. QED
    BY <1>2, <2>1, <2>2 DEF Remembered
<1>5. CASE Descend
  <2>1. /\ stack' = Append(stack, [node |-> focus, next |-> 1])
        /\ seen' = seen \cup ({Identity(focus)} \ {NoNode})
    BY <1>5 DEF Descend
  <2>2. /\ DOMAIN stack \subseteq DOMAIN stack'
        /\ Len(stack) + 1 \in DOMAIN stack'
        /\ \A i \in DOMAIN stack : stack'[i] = stack[i]
        /\ stack'[Len(stack) + 1].node = focus
    BY <1>3, <2>1
  <2>3. QED
    BY <1>2, <2>1, <2>2 DEF Remembered
<1>6. CASE Return
  <2>1. /\ stack # <<>> /\ stack' = SubSeq(stack, 1, Len(stack) - 1)
        /\ seen' = seen \ {Identity(Top.node)}
    BY <1>6 DEF Return, Front, Forget
  <2>2. /\ \A i \in DOMAIN stack : i # Len(stack) =>
             i \in DOMAIN stack' /\ stack'[i] = stack[i]
        /\ Top = stack[Len(stack)]
    BY <1>3, <2>1, TopTyped
  <2>3. NoNode \notin seen'
    BY <2>1 DEF Remembered
  <2>4. ASSUME NEW s \in seen'
        PROVE  \E i \in DOMAIN stack' : s = Identity(stack[i].node)'
    <3>1. PICK i \in DOMAIN stack : s = Identity(stack[i].node)
      BY <2>1, <2>4 DEF Remembered
    <3>2. i # Len(stack)
      BY <2>1, <2>2, <2>4, <3>1
    <3>3. QED
      BY <1>2, <2>2, <3>1, <3>2
  <2>5. QED
    BY <2>3, <2>4 DEF Remembered
<1>7. QED
  BY <1>4, <1>5, <1>6 DEF WalkNext, Visit

(* A step that says circular says it of a cycle.                           *)
LEMMA WalkCircular ==
  ASSUME WalkTypeOK, Nested, Remembered,
         CircularMeansCyclic, [WalkNext]_walkVars
  PROVE  CircularMeansCyclic'
<1>1. Wrote /\ UNCHANGED <<heap, pass>>
  BY WalkWrites
<1>2. \A n : /\ Within(n)' = Within(n) /\ KindOf(n)' = KindOf(n)
            /\ Start(n)' = Start(n)
  BY <1>1, WithinKept
<1> DEFINE Justified(n) == n \in Within(n) \/ BeginsOuter(n)
<1>3. VisitAgain => Justified(focus)
  <2> SUFFICES ASSUME VisitAgain PROVE Justified(focus)
    OBVIOUS
  <2>1. /\ focus \in Inner /\ ~HasWireForm(focus)
        /\ Identity(focus) \in seen
    BY DEF VisitAgain, Opens
  <2>2. PICK i \in DOMAIN stack : Identity(focus) = Identity(stack[i].node)
    BY <2>1 DEF Remembered
  <2>3. Identity(focus) # NoNode
    BY <2>1 DEF Remembered
  <2>4. focus \in Within(stack[i].node) /\ ~HasWireForm(stack[i].node)
    BY <2>1 DEF Nested
  <2>5. stack[i].node \in Inner /\ heap \in Heaps
    <3>1. stack \in Seq(Frame) /\ heap \in Heaps
      BY DEF WalkTypeOK, Frame
    <3>2. stack[i] \in Frame
      BY <3>1, <2>2
    <3>3. QED
      BY <3>1, <3>2 DEF Frame
  <2>6. QED
    BY <2>1, <2>2, <2>3, <2>4, <2>5, AgainIsCyclic
<1>4. SUFFICES ASSUME NEW w \in out', w.how = "circular"
               PROVE  Justified(w.node)
  BY <1>2 DEF CircularMeansCyclic, BeginsOuter
<1>5. CASE w \in out
  BY <1>4, <1>5 DEF CircularMeansCyclic
<1>6. CASE w \notin out
  BY <1>1, <1>3, <1>4, <1>6 DEF Wrote
<1>7. QED
  BY <1>5, <1>6

(* The walk begins with all of this.                                       *)
LEMMA InitWalk ==
  ASSUME WalkInit
  PROVE  /\ WalkTypeOK /\ Spent /\ Nested /\ Remembered
         /\ NoPayloadSurvives /\ CircularMeansCyclic
<1>1. stack = <<>> /\ DOMAIN stack = {} /\ seen = {} /\ out = {}
  BY DEF WalkInit
<1>2. WalkTypeOK
  BY WalkAssumption, <1>1 DEF WalkInit, WalkTypeOK, Node
<1>3. Spent
  BY LengthsAreNumbers DEF WalkInit, Spent
<1>4. Nested /\ Remembered /\ NoPayloadSurvives /\ CircularMeansCyclic
  BY <1>1 DEF Nested, Remembered, NoPayloadSurvives, CircularMeansCyclic
<1>5. QED
  BY <1>2, <1>3, <1>4

-----------------------------------------------------------------------------
(* Every step of a walk finds what it reads: a frame at one of its entries *)
(* or behind them, a budget that is not negative, a value it knows.        *)
THEOREM WalkTypeCorrect ==
  WalkSpec => []WalkTypeOK
<1>1. WalkInit => WalkTypeOK
  BY InitWalk
<1>2. WalkTypeOK /\ [WalkNext]_walkVars => WalkTypeOK'
  BY WalkTyped
<1>3. QED
  BY <1>1, <1>2, PTL DEF WalkSpec

(* Sanitizing copies no more than the budget, for every value, every       *)
(* budget and every length of texts and placeholders (sanitize.go:48).     *)
THEOREM CopyIsBudgeted ==
  WalkSpec => []BudgetHolds
<1>1. WalkInit => Spent
  BY InitWalk
<1>2. WalkTypeOK /\ Spent /\ [WalkNext]_walkVars => Spent'
  BY WalkSpent
<1>3. WalkTypeOK /\ Spent => BudgetHolds
  BY LengthsAreNumbers DEF WalkTypeOK, Spent, BudgetHolds
<1>4. QED
  BY <1>1, <1>2, <1>3, WalkTypeCorrect, PTL DEF WalkSpec

(* For every value, budget and length: a binary payload that sanitizing    *)
(* does not replace is cut below what counts as one, or is inside a map    *)
(* whose keys are not strings (sanitize.go:47, 224).                       *)
THEOREM PayloadsAreRemoved ==
  WalkSpec => []NoPayloadSurvives
<1>1. WalkInit => NoPayloadSurvives
  BY InitWalk
<1>2. WalkTypeOK /\ NoPayloadSurvives /\ [WalkNext]_walkVars
        => NoPayloadSurvives'
  BY WalkNoPayload
<1>3. QED
  BY <1>1, <1>2, WalkTypeCorrect, PTL DEF WalkSpec

(* What the walks call circular contains itself, or is a slice at the      *)
(* start of one that contains it, for every value: seen holds only what is *)
(* being visited further out (sanitize.go:214).                            *)
THEOREM OnlyCyclesAreCircular ==
  WalkSpec => []CircularMeansCyclic
<1> DEFINE WalkInv == Nested /\ Remembered /\ CircularMeansCyclic
<1>1. WalkInit => WalkInv
  BY InitWalk
<1>2. WalkTypeOK /\ WalkInv /\ [WalkNext]_walkVars => WalkInv'
  BY WalkNested, WalkRemembered, WalkCircular
<1>3. QED
  BY <1>1, <1>2, WalkTypeCorrect, PTL DEF WalkSpec
=============================================================================
