---- MODULE Projection ----
(***************************************************************************)
(* What the daemon makes of one canonical event before it is committed:    *)
(* CanonicalEventEnvelope::validate, project_continuous_event, the         *)
(* sanitisation of the stored row, and what the row is to the correlation  *)
(* rules (the steps of the built-in sequence rules, the P1 classes).       *)
(*                                                                         *)
(* An attribute value is a tag for the values the code tells apart: "yes"  *)
(* and "no" are JSON's booleans, "zero" .. "more" are numbers, "<secret>"  *)
(* and its like the redaction markers, "text" a string no rule names.  The *)
(* four labels of a producer (sensor, integration, producer, collector)    *)
(* are one profile; the attribute session_id is the field session.         *)
(***************************************************************************)
EXTENDS Correlation, Attributes

CONSTANTS
  OtherTools,      \* safe tool names that have no class of their own
  BadIdentities    \* empty, longer than 256 bytes or with control characters

----
(* Attribute values.                                                       *)

Bools == {"yes", "no"}
Size == [zero |-> 0, few |-> 3, many |-> 20000, more |-> 300000]
UpTo(maximum) == {tag \in DOMAIN Size : Size[tag] <= maximum}

Replacement == [secret |-> "<secret>", local_context |-> "<local>",
                personal_data |-> "<personal>", policy |-> "<policy>"]

SensitiveKeys == {"token"}
UnsafeKeys == {"unsafe_key"}

(* redact_json_value on one attribute: the value of a sensitive key, and    *)
(* text that holds a secret or a local path.                               *)
RedactedValue(key, value) ==
  IF key \in SensitiveKeys \/ value = "secret_text" THEN "<secret>"
  ELSE IF value = "local_path" THEN "<local>"
  ELSE value

RedactedAttributes(attributes) ==
  [key \in DOMAIN attributes |-> RedactedValue(key, attributes[key])]

----
(* CanonicalEventEnvelope::validate                                        *)

(* A declared redaction has the canonical replacement of its reason, and    *)
(* that replacement is what is stored at its path.                          *)
RedactionHolds(event, field) ==
  /\ \/ field.replacement = Replacement[field.reason]
        /\ ~ (field.path = "params_preview" /\ field.reason = "policy")
     \/ /\ field.path = "params_preview" /\ field.reason = "policy"
        /\ field.replacement = "<omitted>"
  /\ \/ field.path = "details" /\ event.details = field.replacement
     \/ field.path # "details" /\ Has(event.attributes, field.path, field.replacement)

Valid(event) ==
  /\ event.title # "empty"
  /\ event.artifact # None => event.artifact.label # "empty" /\ event.artifact.locator # "bad"
  /\ DOMAIN event.attributes \intersect UnsafeKeys = {}
  /\ \A f, g \in event.redacted : f.path = g.path => f = g
  /\ \A f \in event.redacted : RedactionHolds(event, f)
  /\ RedactedAttributes(event.attributes) = event.attributes
  /\ \A key \in DOMAIN event.attributes \intersect SensitiveKeys :
       [path |-> key, reason |-> "secret", replacement |-> "<secret>"] \in event.redacted

----
(* The tools: class and access of a tool name.                             *)

ProcessTools == {"terminal", "execute_code", "shell", "bash", "python"}
DeliveryTools == {"send_message", "himalaya", "gmail", "telegram", "discord", "slack", "email"}
ToolNames ==
  {"read_file", "search_files", "write_file", "patch"}
    \union ProcessTools \union DeliveryTools \union OtherTools
ToolClasses == {"file_read", "file_enumerate", "file_mutation", "process", "delivery", "mcp", "other"}
FileClasses == {"file_read", "file_enumerate", "file_mutation"}

ToolMapping(tool, mcp) ==
  CASE tool = "read_file" -> [class |-> "file_read", access |-> "read"]
    [] tool = "search_files" -> [class |-> "file_enumerate", access |-> "enumerate"]
    [] tool \in {"write_file", "patch"} -> [class |-> "file_mutation", access |-> "mutation"]
    [] tool \in ProcessTools -> [class |-> "process", access |-> "none"]
    [] tool \in DeliveryTools -> [class |-> "delivery", access |-> "none"]
    [] OTHER -> [class |-> IF mcp THEN "mcp" ELSE "other", access |-> "none"]

(* The mapping of an event: requests go by their type, results by source. *)
Mapped(event) ==
  ToolMapping(event.attributes.tool_name,
              IF event.type = "agent.tool.completed" THEN event.kind = "mcp_tool"
              ELSE event.type = "agent.mcp.tool.requested")

----
(* Event types: the sources and the trust each may come with.              *)

Informational == {"agent.session.started", "agent.session.ended",
                  "agent.llm.call.requested", "agent.telemetry.attestation"}
Requests == {"agent.tool.requested", "agent.mcp.tool.requested", "agent.network.egress"}

Kinds(type) ==
  CASE type \in Informational \union {"agent.approval.granted"} -> {"sensor"}
    [] type \in {"agent.content.ingested", "agent.mcp.tool.requested"} -> {"mcp_tool"}
    [] type = "agent.tool.requested" -> {"file", "process", "messaging"}
    [] type = "agent.network.egress" -> {"process", "network"}
    [] type = "agent.tool.completed" -> {"file", "process", "messaging", "mcp_tool"}
    [] type = "agent.config.changed" -> {"configuration"}
    [] type = "agent.automation.scheduled" -> {"scheduled_task"}
    [] OTHER -> {}

Trust(type) ==
  CASE type \in Informational -> "sensor_observation"
    [] type = "agent.content.ingested" -> "untrusted_content"
    [] type = "agent.tool.completed" -> "tool_output"
    [] type = "agent.approval.granted" -> "authenticated_user"
    [] OTHER -> "agent_action"

----
(* Attribute shapes: required and optional keys with their values, the      *)
(* keys that are not stored, and whether a session may be named.           *)

NoKeys == [key \in {} |-> {}]
Calls == [argument_count |-> UpTo(1024), keyword_count |-> UpTo(1024)]

(* Exactly one reviewed producer sends its egress without a hook. *)
IsP0Exception(event) ==
  event.type = "agent.network.egress" /\ event.kind = "process" /\ event.profile = "p0"

RequestShape ==
  [required |->
     [hook |-> {"pre_tool_call"}, tool_name |-> ToolNames,
      network_indicator |-> Bools, direct_ip |-> Bools, delivery_indicator |-> Bools,
      sensitive_access |-> Bools, params_length |-> UpTo(262144),
      params_preview |-> {"<omitted>", "<secret>", "<local>"}],
   optional |->
     [command_class |-> {"network_egress"}, tool_class |-> ToolClasses,
      access_class |-> {"read", "enumerate", "mutation", "none"},
      classification_truncated |-> Bools, params_examined_chars |-> UpTo(16384)],
   dropped |-> {"hook", "tool_name", "params_length", "params_preview"},
   session |-> TRUE]

CompletedShape ==
  [required |->
     [hook |-> {"post_tool_call"}, tool_name |-> ToolNames,
      result_omitted |-> {"yes"}, result_length |-> UpTo(262144),
      network_indicator |-> Bools, direct_ip |-> Bools, delivery_indicator |-> Bools,
      sensitive_access |-> Bools, prompt_injection_indicator |-> Bools,
      malware_indicator |-> Bools],
   optional |->
     [tool_class |-> ToolClasses, access_class |-> RequestShape.optional.access_class,
      result_examined_chars |-> UpTo(16384), classification_truncated |-> Bools,
      malware_signature |-> {"eicar_test_string", "skynet_fake_malware_test_string"},
      rule_id |-> {"EDR-MALWARE-001"}],
   dropped |-> {"hook", "tool_name", "result_length", "rule_id"},
   session |-> TRUE]

SessionShape ==
  [required |-> With(Calls, [plugin_version |-> {"version"}]),
   optional |-> NoKeys, dropped |-> {}, session |-> FALSE]

LlmCallShape ==
  [required |-> With(Calls, [hook |-> {"pre_llm_call"}, content_omitted |-> {"yes"}]),
   optional |-> [message_count |-> UpTo(65536)], dropped |-> {"hook"}, session |-> FALSE]

AttestationShape ==
  [required |-> [hook |-> {"register"}, producer_bound |-> {"yes"}, content_omitted |-> {"yes"},
                 argument_count |-> UpTo(0), keyword_count |-> UpTo(0), message_count |-> UpTo(0)],
   optional |-> NoKeys,
   dropped |-> {"hook", "argument_count", "keyword_count", "message_count"},
   session |-> FALSE]

ContentShape ==
  [required |-> [hook |-> {"post_tool_call"}, tool_name |-> ToolNames,
                 content_omitted |-> {"yes"}, content_length |-> UpTo(262144),
                 instruction_authority |-> {"no"}, contains_instructional_attack |-> Bools,
                 expected_disposition |-> {"treat_as_data"}],
   optional |-> [rule_id |-> {"EDR-PI-001"}],
   dropped |-> {"hook", "tool_name", "content_length", "rule_id"}, session |-> TRUE]

ConfigShape ==
  [required |-> [approval_required |-> Bools, persistence_indicator |-> Bools],
   optional |-> NoKeys, dropped |-> {}, session |-> TRUE]

ScheduleShape ==
  [required |-> [persistence_indicator |-> Bools],
   optional |-> NoKeys, dropped |-> {}, session |-> TRUE]

ApprovalShape ==
  [required |-> [scope_expansion |-> Bools],
   optional |-> NoKeys, dropped |-> {}, session |-> TRUE]

OtherShape(type) ==
  CASE type \in {"agent.session.started", "agent.session.ended"} -> SessionShape
    [] type = "agent.llm.call.requested" -> LlmCallShape
    [] type = "agent.telemetry.attestation" -> AttestationShape
    [] type = "agent.content.ingested" -> ContentShape
    [] type = "agent.config.changed" -> ConfigShape
    [] type = "agent.automation.scheduled" -> ScheduleShape
    [] OTHER -> ApprovalShape

P0Shape ==
  [required |-> [command_class |-> {"network_egress"}, network_indicator |-> {"yes"},
                 direct_ip |-> {"yes"}, command |-> {"<local>"}, token |-> {"<secret>"}],
   optional |-> NoKeys, dropped |-> {"command", "token"}, session |-> FALSE]

Shape(event) ==
  CASE IsP0Exception(event) -> P0Shape
    [] ~ IsP0Exception(event) /\ event.type \in Requests -> RequestShape
    [] event.type = "agent.tool.completed" -> CompletedShape
    [] OTHER -> OtherShape(event.type)

Fits(event, shape) ==
  /\ DOMAIN shape.required \subseteq DOMAIN event.attributes
  /\ DOMAIN event.attributes \subseteq DOMAIN shape.required \union DOMAIN shape.optional
  /\ \A key \in DOMAIN event.attributes :
       event.attributes[key] \in With(shape.required, shape.optional)[key]
  /\ event.session # None => shape.session /\ event.session \notin BadIdentities

----
(* What a tool event says of itself has to agree.                          *)

ClassesAgree(event) ==
  /\ "tool_class" \in DOMAIN event.attributes => event.attributes.tool_class = Mapped(event).class
  /\ "access_class" \in DOMAIN event.attributes => event.attributes.access_class = Mapped(event).access
  /\ Yes(event.attributes, "direct_ip") => Yes(event.attributes, "network_indicator")

KindAgrees(event) ==
  LET class == Mapped(event).class
  IN  \/ event.kind = "file" /\ class \in FileClasses
      \/ event.kind = "process" /\ class = "process"
      \/ event.kind = "messaging" /\ class = "delivery"
      \/ event.kind = "mcp_tool" /\ class = "mcp"

RequestAgrees(event) ==
  CASE event.type = "agent.network.egress" ->
         /\ Yes(event.attributes, "network_indicator") /\ Yes(event.attributes, "direct_ip")
         /\ ~ Yes(event.attributes, "delivery_indicator")
         /\ Mapped(event).class = "process"
    [] event.type = "agent.tool.requested" /\ event.kind = "messaging" ->
         KindAgrees(event) /\ Yes(event.attributes, "delivery_indicator")
    [] OTHER -> KindAgrees(event)

SignatureAgrees(attributes) ==
  Yes(attributes, "malware_indicator") <=> "malware_signature" \in DOMAIN attributes

Consistent(event) ==
  CASE IsP0Exception(event) -> TRUE
    [] ~ IsP0Exception(event) /\ event.type \in Requests ->
         ClassesAgree(event) /\ RequestAgrees(event)
    [] event.type = "agent.tool.completed" ->
         ClassesAgree(event) /\ KindAgrees(event) /\ SignatureAgrees(event.attributes)
    [] OTHER -> TRUE

Provider ==
  [email |-> "email", url |-> "browser", git_repository |-> "github", code |-> "code",
   file |-> "file", message |-> "messaging", mcp |-> "mcp", terminal |-> "terminal",
   unknown |-> None]

ArtifactAgrees(artifact, trust) ==
  /\ artifact.trust = trust
  /\ artifact.label # "long"
  /\ artifact.provider = Provider[artifact.kind]
  /\ artifact.locator # "bad"

(* project_continuous_event returns no error. *)
Admissible(event) ==
  /\ Valid(event)
  /\ event.profile # "unsafe"
  /\ event.title # "long"
  /\ event.details = None
  /\ event.kind \in Kinds(event.type)
  /\ event.trust = Trust(event.type)
  /\ Fits(event, Shape(event))
  /\ Consistent(event)
  /\ {event.tenant, event.trace, event.parent, event.source_event, event.span}
       \intersect BadIdentities = {}
  /\ event.artifact # None => ArtifactAgrees(event.artifact, event.trust)

----
(* The projected event.                                                    *)

(* Mutant: the identity is not stored at all. *)
NoIdentity(domain, identity) == None

(* A digest under a domain of its own; it reveals equality and no more. *)
Pseudonym(domain, identity) ==
  IF identity = None THEN None ELSE [domain |-> domain, of |-> identity]

(* An identity that repeats the event's own is kept. *)
EventIdentity(domain, identity, id) ==
  IF identity = id THEN id ELSE Pseudonym(domain, identity)

(* Mutants: the wrong keys are taken for raw input. *)
StoredWithoutSensitive(event) ==
  [key \in DOMAIN event.attributes \ (Shape(event).dropped \union {"sensitive_access"}) |->
     event.attributes[key]]
StoredWithoutVerdict(event) ==
  [key \in DOMAIN event.attributes
             \ (Shape(event).dropped \union {"contains_instructional_attack"}) |->
     event.attributes[key]]
StoredAttributes(event) ==
  LET kept == [key \in DOMAIN event.attributes \ Shape(event).dropped |-> event.attributes[key]]
  IN  CASE IsP0Exception(event) ->
             With(kept, [tool_class |-> "process", access_class |-> "none",
                         delivery_indicator |-> "no", sensitive_access |-> "no"])
        [] ~ IsP0Exception(event) /\ event.type \in Requests \union {"agent.tool.completed"} ->
             With(kept, [tool_class |-> Mapped(event).class, access_class |-> Mapped(event).access])
        [] OTHER -> kept

ExactMalware(event) ==
  /\ event.type = "agent.tool.completed" /\ event.kind = "mcp_tool"
  /\ Yes(event.attributes, "malware_indicator")

(* The producer's own severity is not believed. *)
SeverityOf(event) ==
  LET says(indicator) == Yes(event.attributes, indicator)
  IN  CASE event.type \in Informational -> "informational"
        [] event.type = "agent.content.ingested" ->
             IF says("contains_instructional_attack") THEN "medium" ELSE "informational"
        [] event.type = "agent.tool.requested" ->
             IF says("sensitive_access") \/ says("network_indicator") \/ says("delivery_indicator")
             THEN "high" ELSE "low"
        [] event.type = "agent.mcp.tool.requested" -> IF says("network_indicator") THEN "high" ELSE "low"
        [] event.type = "agent.tool.completed" ->
             IF ExactMalware(event) \/ says("prompt_injection_indicator") THEN "high" ELSE "informational"
        [] OTHER -> "high"

Projected(event) ==
  [event EXCEPT
     !.severity = SeverityOf(event),
     !.kind = IF event.type = "agent.network.egress" THEN "network" ELSE @,
     !.tenant = Pseudonym("tenant", @),
     !.trace = Pseudonym("trace", @),
     !.parent = Pseudonym("parent", @),
     !.session = Pseudonym("session", @),
     !.source_event = EventIdentity("source-event", @, event.id),
     !.span = EventIdentity("span", @, event.id),
     !.artifact = IF @ = None THEN None ELSE [@ EXCEPT !.label = "fixed"],
     !.title = "fixed",
     !.attributes = StoredAttributes(event),
     !.redacted = {}]

----
(* The stored row: sanitize_event_for_storage redacts what it is given once *)
(* more, keeps the declared redactions that still hold and declares its own. *)

ReadBack(event) ==
  LET attributes == RedactedAttributes(event.attributes)
      generated == {[path |-> key, reason |-> IF key \in SensitiveKeys \/ attributes[key] = "<secret>"
                                              THEN "secret" ELSE "local_context",
                     replacement |-> attributes[key]] :
                      key \in {k \in DOMAIN attributes : k \in SensitiveKeys
                                 \/ attributes[k] # event.attributes[k]}}
      retained == {f \in event.redacted : /\ Has(attributes, f.path, f.replacement)
                                          /\ \A g \in generated : g.path # f.path}
  IN  [event EXCEPT !.attributes = attributes, !.redacted = retained \union generated]

----
(* What a stored event is to the rules.                                    *)

IsP1Profile(event) == event.profile = "plugin"

IsSensitiveRead(event) ==
  /\ IsP1Profile(event)
  /\ event.type = "agent.tool.requested" /\ event.kind = "file"
  /\ Yes(event.attributes, "sensitive_access")
  /\ event.attributes.tool_class \in {"file_read", "file_enumerate"}

IsEgress(event) ==
  LET says(indicator) == Yes(event.attributes, indicator)
      class == event.attributes.tool_class
  IN  /\ IsP1Profile(event)
      /\ event.type \in Requests
      /\ \/ /\ event.type = "agent.tool.requested" /\ event.kind = "process"
            /\ class = "process" /\ says("network_indicator") /\ ~ says("delivery_indicator")
         \/ /\ event.type = "agent.network.egress" /\ event.kind = "network"
            /\ class = "process" /\ says("network_indicator") /\ says("direct_ip")
            /\ ~ says("delivery_indicator")
         \/ /\ event.type = "agent.tool.requested" /\ event.kind = "messaging"
            /\ class = "delivery" /\ says("delivery_indicator")
         \/ /\ event.type = "agent.mcp.tool.requested" /\ event.kind = "mcp_tool"
            /\ class = "mcp" /\ says("network_indicator")

IsMalware(event) == IsP1Profile(event) /\ ExactMalware(event)

P1Class(event) ==
  CASE IsMalware(event) -> "malware"
    [] IsSensitiveRead(event) -> "sensitive"
    [] IsEgress(event) -> "egress"
    [] OTHER -> "benign"

(* The second steps of the built-in rules; they share their first step. *)
Action(rule) ==
  CASE rule = "EDR-MCP-001" -> [type |-> "agent.mcp.tool.requested", yes |-> {"network_indicator"}, no |-> {}]
    [] rule = "EDR-CONFIG-001" -> [type |-> "agent.config.changed", yes |-> {}, no |-> {"approval_required"}]
    [] rule = "EDR-CRON-001" -> [type |-> "agent.automation.scheduled", yes |-> {"persistence_indicator"}, no |-> {}]
    [] rule = "EDR-PI-001" -> [type |-> "agent.tool.requested",
                               yes |-> {"network_indicator", "sensitive_access"}, no |-> {}]
    [] rule = "EDR-MSG-001" -> [type |-> "agent.tool.requested",
                                yes |-> {"delivery_indicator", "sensitive_access"}, no |-> {}]
    [] rule = "EDR-NET-001" -> [type |-> "agent.network.egress",
                                yes |-> {"network_indicator", "direct_ip"}, no |-> {}]
    [] rule = "EDR-SCOPE-001" -> [type |-> "agent.approval.granted", yes |-> {"scope_expansion"}, no |-> {}]
    [] rule = "EDR-PERSIST-001" -> [type |-> "agent.config.changed", yes |-> {"persistence_indicator"}, no |-> {}]

BuiltInRules == {"EDR-MCP-001", "EDR-CONFIG-001", "EDR-CRON-001", "EDR-PI-001", "EDR-MSG-001",
                 "EDR-NET-001", "EDR-SCOPE-001", "EDR-PERSIST-001"}

Opens(event) ==
  /\ event.type = "agent.content.ingested" /\ event.trust = "untrusted_content"
  /\ Has(event.attributes, "instruction_authority", "no")
  /\ Yes(event.attributes, "contains_instructional_attack")

Closes(rule, event) ==
  /\ event.type = Action(rule).type /\ event.trust = "agent_action"
  /\ \A key \in Action(rule).yes : Yes(event.attributes, key)
  /\ \A key \in Action(rule).no : Has(event.attributes, key, "no")

ClassOf(event) ==
  [id |-> event.id, time |-> event.time, trace |-> event.trace, session |-> event.session,
   p1 |-> P1Class(event),
   opens |-> IF Opens(event) THEN BuiltInRules ELSE {},
   closes |-> {rule \in BuiltInRules : Closes(rule, event)}]

====
