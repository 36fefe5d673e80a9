--------------------------- MODULE MCToolTelemetry ---------------------------
EXTENDS ToolTelemetry

(* Recorders that differ in what they collect and which stages they have.  *)
MCConfigs ==
  {[capture |-> TRUE, secrets |-> FALSE, redact |-> FALSE,
    redactEvent |-> FALSE, mapped |-> {"call_purpose", "user_intent"}],
   [capture |-> FALSE, secrets |-> TRUE, redact |-> FALSE,
    redactEvent |-> TRUE, mapped |-> {"agent_thinking"}],
   [capture |-> TRUE, secrets |-> TRUE, redact |-> TRUE,
    redactEvent |-> TRUE, mapped |-> {"agent_thinking"}]}

Silence == [key \in Key |-> "absent"]

(* A current client, one that leaves the purpose blank, and one with the   *)
(* legacy spellings.                                                       *)
MCBlocks ==
  {[Silence EXCEPT !["call_purpose"] = "given", !["context"] = "given",
                   !["user_intent"] = "given"],
   [Silence EXCEPT !["call_purpose"] = "blank", !["context"] = "given"],
   [Silence EXCEPT !["agent_thinking"] = "given", !["context"] = "given",
                   !["intent"] = "given"]}
=============================================================================
