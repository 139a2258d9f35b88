---- MODULE HookEvents ----
(***************************************************************************)
(* The Hermes plugin's hooks: the canonical events that one observation of *)
(* an agent gives rise to (_pre_tool_call, _post_tool_call and the others).*)
(*                                                                         *)
(* An observation is a record: the hook; the tool; what the expressions    *)
(* over the selected parameters find (sensitive: a secret or a local path; *)
(* network; ip: a direct IPv4 destination); what those over the result     *)
(* find (secret, injection, malware); scheduled: a cronjob mutation whose  *)
(* result confirms it; messages: the length of an LLM call's message list. *)
(***************************************************************************)
EXTENDS Integers, Sequences, Attributes

CONSTANTS
  Tenant, Trace,      \* SKYNET_EDR_TENANT, HERMES_SESSION_ID
  DottedTools,        \* tool names of the form server.tool
  None

Hooks ==
  {"pre_tool_call", "post_tool_call", "pre_llm_call", "on_session_start", "on_session_end",
   "simulate", "register"}

Observation ==
  [hook : Hooks, tool : STRING, sensitive : BOOLEAN, network : BOOLEAN, ip : BOOLEAN,
   secret : BOOLEAN, injection : BOOLEAN, malware : BOOLEAN, scheduled : BOOLEAN,
   messages : {None, "zero", "few", "many", "more"}]

FileTools == {"read_file", "search_files", "write_file", "patch"}
PluginProcessTools == {"terminal", "execute_code", "shell", "bash", "python"}
PluginDeliveryTools ==
  {"send_message", "himalaya", "gmail", "telegram", "discord", "slack", "email"}

Says(bool) == IF bool THEN "yes" ELSE "no"

(* Mutant: a patch is not known to be a file tool. *)
ToolClassesWithoutPatch(tool) ==
  CASE tool = "read_file" -> <<"file_read", "read">>
    [] tool = "search_files" -> <<"file_enumerate", "enumerate">>
    [] tool = "write_file" -> <<"file_mutation", "mutation">>
    [] tool \in PluginProcessTools -> <<"process", "none">>
    [] tool \in PluginDeliveryTools -> <<"delivery", "none">>
    [] OTHER -> <<"mcp", "none">>

(* _tool_classes *)
ToolClassesOf(tool) ==
  CASE tool = "read_file" -> <<"file_read", "read">>
    [] tool = "search_files" -> <<"file_enumerate", "enumerate">>
    [] tool \in {"write_file", "patch"} -> <<"file_mutation", "mutation">>
    [] tool \in PluginProcessTools -> <<"process", "none">>
    [] tool \in PluginDeliveryTools -> <<"delivery", "none">>
    [] OTHER -> <<"mcp", "none">>

(* _classify_tool: the source kind. *)
SourceKind(tool) ==
  CASE tool \in FileTools -> "file"
    [] tool \in PluginProcessTools -> "process"
    [] tool \in PluginDeliveryTools -> "messaging"
    [] OTHER -> "mcp_tool"

(* _classify_tool: the indicators, from the tool and its parameters alone. *)
Indicators(o) ==
  [tool_name |-> o.tool,
   tool_class |-> ToolClassesOf(o.tool)[1],
   access_class |-> ToolClassesOf(o.tool)[2],
   network_indicator |-> Says(o.network),
   direct_ip |-> Says(o.network /\ o.ip),
   delivery_indicator |-> Says(o.tool \in PluginDeliveryTools),
   sensitive_access |-> Says(o.sensitive),
   classification_truncated |-> "no"]

(* _artifact_kind *)
ArtifactKind(tool) ==
  CASE tool \in {"gmail", "himalaya", "email"} -> "email"
    [] tool = "web_search" -> "url"
    [] tool = "execute_code" -> "code"
    [] tool \in FileTools -> "file"
    [] tool \in {"send_message", "telegram", "discord", "slack"} -> "message"
    [] tool \in PluginProcessTools \ {"execute_code"} -> "terminal"
    [] tool \in DottedTools -> "mcp"
    [] OTHER -> "unknown"

PluginProvider ==
  [email |-> "email", url |-> "browser", code |-> "code", file |-> "file",
   message |-> "messaging", mcp |-> "mcp", terminal |-> "terminal", unknown |-> None]

(* _artifact_for_tool *)
ArtifactFor(o, trust) ==
  [kind |-> ArtifactKind(o.tool), provider |-> PluginProvider[ArtifactKind(o.tool)],
   label |-> "short", locator |-> IF ArtifactKind(o.tool) = "url" THEN "hash" ELSE None,
   trust |-> trust]

(* _write_event, but for the identifier and the time: the plugin's profile, *)
(* its tenant and trace; the event is its own source event and span.        *)
Event(type, kind, trust, attributes, artifact, redacted) ==
  [id |-> 0, time |-> 0, type |-> type, kind |-> kind, trust |-> trust,
   severity |-> "producer", profile |-> "plugin",
   tenant |-> Tenant, trace |-> Trace, parent |-> None, session |-> None,
   source_event |-> 0, span |-> 0, artifact |-> artifact,
   title |-> "short", details |-> None, attributes |-> attributes, redacted |-> redacted]

(* A secret goes before a local path. *)
RedactedField(path, reason, replacement) ==
  [path |-> path, reason |-> reason, replacement |-> replacement]

RequestType(o) ==
  LET class == ToolClassesOf(o.tool)[1]
  IN  IF class = "mcp" THEN "agent.mcp.tool.requested"
      ELSE IF class = "process" /\ o.network /\ o.ip THEN "agent.network.egress"
      ELSE "agent.tool.requested"

RequestAttributes(o) ==
  With(With(Indicators(o), IF o.network THEN [command_class |-> "network_egress"] ELSE Nothing),
       [hook |-> "pre_tool_call", params_preview |-> "<omitted>",
        params_length |-> "few", params_examined_chars |-> "few"])

(* The parameters' preview is stored as an omission marker, and declared to *)
(* be one when the parameters were sensitive.                               *)
PreTool(o) ==
  <<Event(RequestType(o), SourceKind(o.tool), "agent_action", RequestAttributes(o),
          ArtifactFor(o, "agent_action"),
          IF o.sensitive THEN {RedactedField("params_preview", "policy", "<omitted>")} ELSE {})>>

ResultAttributes(o) ==
  With(With(Indicators(o),
            IF o.malware THEN [malware_signature |-> "skynet_fake_malware_test_string",
                               rule_id |-> "EDR-MALWARE-001"]
            ELSE Nothing),
       [hook |-> "post_tool_call", result_omitted |-> "yes",
        result_length |-> "few", result_examined_chars |-> "few",
        prompt_injection_indicator |-> Says(o.injection),
        malware_indicator |-> Says(o.malware)])

(* The result is omitted and has no preview; when it held a secret or a     *)
(* local path, a redaction of its preview is declared all the same.         *)
Completed(o) ==
  Event("agent.tool.completed", SourceKind(o.tool), "tool_output", ResultAttributes(o),
        ArtifactFor(o, "tool_output"),
        IF o.secret THEN {RedactedField("result_preview", "secret", "<secret>")} ELSE {})

Scheduled ==
  Event("agent.automation.scheduled", "scheduled_task", "agent_action",
        [persistence_indicator |-> "yes"], None, {})

Untrusted(o) ==
  Event("agent.content.ingested", "mcp_tool", "untrusted_content",
        [hook |-> "post_tool_call", tool_name |-> o.tool, content_omitted |-> "yes",
         content_length |-> "few", instruction_authority |-> "no",
         contains_instructional_attack |-> "yes", expected_disposition |-> "treat_as_data",
         rule_id |-> "EDR-PI-001"],
        ArtifactFor(o, "untrusted_content"), {})

(* The package's own simulation reports for itself; its result is no result. *)
PostTool(o) ==
  IF o.tool = "simulation" THEN <<>>
  ELSE <<Completed(o)>>
       \o (IF o.scheduled /\ o.tool = "cronjob" THEN <<Scheduled>> ELSE <<>>)
       \o (IF o.injection THEN <<Untrusted(o)>> ELSE <<>>)

Session(type) ==
  <<Event(type, "sensor", "sensor_observation",
          [plugin_version |-> "version", argument_count |-> "zero", keyword_count |-> "few"],
          None, {})>>

PreLlm(o) ==
  LET count == IF o.messages = None THEN Nothing ELSE [message_count |-> o.messages]
  IN  <<Event("agent.llm.call.requested", "sensor", "sensor_observation",
              With(count, [hook |-> "pre_llm_call", content_omitted |-> "yes",
                           argument_count |-> "zero", keyword_count |-> "few"]),
              None, {})>>

(* _safe_detection_simulation *)
Simulated ==
  <<Event("agent.tool.completed", "mcp_tool", "tool_output",
          [hook |-> "post_tool_call", tool_name |-> "simulation", result_omitted |-> "yes",
           result_length |-> "zero", network_indicator |-> "no", direct_ip |-> "no",
           delivery_indicator |-> "no", sensitive_access |-> "no",
           prompt_injection_indicator |-> "no", malware_indicator |-> "yes",
           malware_signature |-> "skynet_fake_malware_test_string", rule_id |-> "EDR-MALWARE-001"],
          None, {})>>

(* _queue_startup_canary_once *)
Canary ==
  <<Event("agent.telemetry.attestation", "sensor", "sensor_observation",
          [hook |-> "register", producer_bound |-> "yes", content_omitted |-> "yes",
           argument_count |-> "zero", keyword_count |-> "zero", message_count |-> "zero"],
          None, {})>>

EventsOf(o) ==
  CASE o.hook = "pre_tool_call" -> PreTool(o)
    [] o.hook = "post_tool_call" -> PostTool(o)
    [] o.hook = "pre_llm_call" -> PreLlm(o)
    [] o.hook = "on_session_start" -> Session("agent.session.started")
    [] o.hook = "on_session_end" -> Session("agent.session.ended")
    [] o.hook = "simulate" -> Simulated
    [] o.hook = "register" -> Canary

====
