------------------------------ MODULE CallEvent ------------------------------
(***************************************************************************)
(* How the event of one tool call is made from the call (event.go), and    *)
(* how the telemetry an agent sends is read, merged and normalized         *)
(* (tools.go).                                                             *)
(*                                                                         *)
(* A text is known by the key it came from, "" being both the blank and    *)
(* the absent one, as in the Telemetry struct.  A field of an event is     *)
(* known by its marks: one mark for what each privacy stage is there to    *)
(* remove, and "block" when it still holds the `telemetry` argument.       *)
(* Placeholders, like "[redaction failed]", carry no mark.  A payload or a *)
(* secret inside a map whose keys are not strings bears no mark either:    *)
(* SanitizeValue and the secret rules return such a map as it is, which    *)
(* SanitizeWalk models.                                                    *)
(***************************************************************************)
CONSTANTS None,      \* no value
          Dropped    \* the event a RedactEvent hook dropped

Key == {"user_intent", "intent", "call_purpose", "agent_thinking", "context"}

(* The `telemetry` argument: what it holds under each key.  "absent" is    *)
(* also a value of a type other than string.                               *)
Block == [Key -> {"absent", "blank", "given"}]

(* The fields TelemetryFieldMap can fill, each with the text of the        *)
(* customer's argument that it leads to.                                   *)
MappedText == [user_intent |-> "intent argument",
               call_purpose |-> "purpose argument",
               agent_thinking |-> "thinking argument"]

Text == Key \cup {"", "intent argument", "purpose argument",
                 "thinking argument"}

Telemetry == [userIntent: Text, intent: Text, callPurpose: Text,
              agentThinking: Text, context: Text, present: BOOLEAN]

NoTelemetry == [userIntent |-> "", intent |-> "", callPurpose |-> "",
                agentThinking |-> "", context |-> "", present |-> FALSE]

Mark == {"blob", "secret", "private", "confidential", "block"}
Field == {"input", "output", "error", "telemetry"}

(* What the privacy stages see, and the request's _meta, which they do not *)
(* see: it is exported as the client sent it.                              *)
Event == [marks: [Field -> SUBSET Mark], requestMeta: SUBSET Mark,
          userIntent: Text, agentThinking: Text]

FirstNonEmpty(a, b) == IF a # "" THEN a ELSE b

-----------------------------------------------------------------------------
(* Slips: what these functions would do with a plausible mistake.          *)

BlankForgotten(t) ==       \* a blank call_purpose loses its presence
  LET purpose == IF t.present \/ t.callPurpose # "" THEN t.callPurpose
                 ELSE FirstNonEmpty(t.agentThinking, t.context)
      aim == FirstNonEmpty(t.userIntent, t.intent)
  IN  [userIntent |-> aim, intent |-> aim, callPurpose |-> "",
       agentThinking |-> purpose, context |-> purpose, present |-> FALSE]

KeepCandidate(candidate, hook, verdict) ==  \* a failing hook is ignored
  CASE hook /\ verdict = "drops" -> Dropped
    [] verdict = "fails" \/ ~hook -> candidate
    [] OTHER ->
         [marks |-> [f \in Field |-> candidate.marks[f] \ {"confidential"}],
          telemetry |-> candidate.telemetry]

-----------------------------------------------------------------------------
(* Reading the telemetry argument.                                         *)

Given(block, key) == IF block[key] = "given" THEN key ELSE ""

(* NormalizeTelemetry: one intent, one purpose, the legacy mirrors, and a  *)
(* blank call_purpose that still counts as given.                          *)
Normalize(t) ==
  LET purpose == IF t.present \/ t.callPurpose # "" THEN t.callPurpose
                 ELSE FirstNonEmpty(t.agentThinking, t.context)
      aim == FirstNonEmpty(t.userIntent, t.intent)
  IN  [userIntent |-> aim, intent |-> aim, callPurpose |-> "",
       agentThinking |-> purpose, context |-> purpose,
       present |-> t.present /\ t.callPurpose = ""]

(* A key that is present shadows its older spellings even when blank.  A   *)
(* block sent as a JSON string is decoded and read the same way.           *)
Extract(block) ==
  LET absent(key) == block[key] = "absent"
      older(key, newer) == IF \A n \in newer : absent(n)
                           THEN Given(block, key) ELSE ""
  IN  Normalize(
        [userIntent |-> Given(block, "user_intent"),
         intent |-> older("intent", {"user_intent"}),
         callPurpose |-> Given(block, "call_purpose"),
         agentThinking |-> older("agent_thinking", {"call_purpose"}),
         context |-> older("context", {"call_purpose", "agent_thinking"}),
         present |-> ~absent("call_purpose")])

(* The opt-in field map fills what the call did not provide; `mapped` are  *)
(* the fields it leads to an argument with a non-blank text.               *)
ApplyFieldMap(t, mapped) ==
  LET at(key) == IF key \in mapped THEN MappedText[key] ELSE ""
      aimed == t.userIntent # "" \/ t.intent # ""
      told == t.present \/ t.callPurpose # "" \/ t.agentThinking # ""
                \/ t.context # ""
      purpose == ~told /\ "call_purpose" \in mapped
  IN  [userIntent |-> IF aimed THEN t.userIntent ELSE at("user_intent"),
       intent |-> t.intent,
       callPurpose |-> IF purpose THEN at("call_purpose") ELSE t.callPurpose,
       agentThinking |-> IF told \/ purpose THEN t.agentThinking
                         ELSE at("agent_thinking"),
       context |-> t.context,
       present |-> t.present \/ purpose]

-----------------------------------------------------------------------------
(* The privacy stages.  `cfg` says which are configured; `panics` are the  *)
(* fields the legacy Redact callback panics on, and a Redact that returns  *)
(* removes what it is there for.                                           *)

(* SanitizeValue has run; then the secret rules, then Redact.              *)
Screened(marks, field, cfg, panics) ==
  CASE cfg.redact /\ field \in panics -> {}
    [] OTHER -> marks \ ({m \in {"secret"} : cfg.secrets}
                            \cup {m \in {"private"} : cfg.redact})

PrepareForPreview(marks, field, cfg, panics) ==
  Screened(marks \ {"blob"}, field, cfg, panics)

(* An error message is not sanitized, only screened.                       *)
PrepareErrorMessage(marks, cfg, panics) ==
  Screened(marks, "error", cfg, panics)

(* Telemetry that Redact panics on is left out altogether.                 *)
PrepareTelemetry(t, cfg, panics) ==
  IF t = NoTelemetry \/ (cfg.redact /\ "telemetry" \in panics)
  THEN NoTelemetry ELSE Normalize(t)

(* The candidate of a call: `args` and `sent` are the marks of its         *)
(* arguments and of every other text in it.                                *)
Candidate(args, sent, t, failed, cfg, panics) ==
  [marks |->
     [f \in Field |->
        CASE f = "input" -> PrepareForPreview(args, f, cfg, panics)
          [] f = "output" -> PrepareForPreview(sent, f, cfg, panics)
          [] f = "error" -> IF failed
                            THEN PrepareErrorMessage(sent, cfg, panics)
                            ELSE {}
          [] f = "telemetry" ->
               IF PrepareTelemetry(t, cfg, panics) = NoTelemetry THEN {}
               ELSE PrepareForPreview(sent, f, cfg, panics)],
   telemetry |-> PrepareTelemetry(t, cfg, panics)]

(* RedactEvent over the whole candidate: it edits it, drops it, or returns *)
(* an error or panics, and then every field is withheld.                   *)
AfterHook(candidate, hook, verdict) ==
  CASE ~hook -> candidate
    [] hook /\ verdict = "drops" -> Dropped
    [] hook /\ verdict = "fails" ->
         [marks |-> [f \in Field |-> {}], telemetry |-> NoTelemetry]
    [] OTHER ->
         [marks |-> [f \in Field |-> candidate.marks[f] \ {"confidential"}],
          telemetry |-> candidate.telemetry]

(* The assembled event: what is left of the candidate, the intent and the  *)
(* purpose its telemetry states, and the request's _meta.                  *)
Assemble(candidate, meta) ==
  IF candidate = Dropped THEN Dropped
  ELSE LET t == Normalize(candidate.telemetry)
       IN  [marks |-> candidate.marks, requestMeta |-> meta,
            userIntent |-> t.userIntent, agentThinking |-> t.agentThinking]

FinalizeToolCallEvent(args, sent, t, failed, cfg, panics, verdict) ==
  Assemble(AfterHook(Candidate(args, sent, t, failed, cfg, panics),
                     cfg.redactEvent, verdict), sent)
=============================================================================
