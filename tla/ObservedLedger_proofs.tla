---- MODULE ObservedLedger_proofs ----
EXTENDS ObservedLedger, FiniteSetTheorems, SequenceTheorems, TLAPS

Correlated == INSTANCE CorrelatedLedger_proofs

----
(* What the case distinctions of the two programs come to.                  *)
LEMMA ClassesOfTools ==
  \A tool :
    ToolClassesOf(tool) =
      IF tool = "read_file" THEN <<"file_read", "read">>
      ELSE IF tool = "search_files" THEN <<"file_enumerate", "enumerate">>
      ELSE IF tool \in {"write_file", "patch"} THEN <<"file_mutation", "mutation">>
      ELSE IF tool \in PluginProcessTools THEN <<"process", "none">>
      ELSE IF tool \in PluginDeliveryTools THEN <<"delivery", "none">>
      ELSE <<"mcp", "none">>
BY Zenon DEF ToolClassesOf, PluginProcessTools, PluginDeliveryTools

LEMMA MappedTools ==
  \A tool, mcp :
    ToolMapping(tool, mcp) =
      IF tool = "read_file" THEN [class |-> "file_read", access |-> "read"]
      ELSE IF tool = "search_files" THEN [class |-> "file_enumerate", access |-> "enumerate"]
      ELSE IF tool \in {"write_file", "patch"} THEN [class |-> "file_mutation", access |-> "mutation"]
      ELSE IF tool \in ProcessTools THEN [class |-> "process", access |-> "none"]
      ELSE IF tool \in DeliveryTools THEN [class |-> "delivery", access |-> "none"]
      ELSE [class |-> IF mcp THEN "mcp" ELSE "other", access |-> "none"]
BY Zenon DEF ToolMapping, ProcessTools, DeliveryTools

LEMMA OtherToolsAreMcp ==
  ASSUME NEW tool, NEW mcp \in BOOLEAN, mcp,
         tool \notin ({"read_file", "search_files", "write_file", "patch"}
                      \union ProcessTools \union DeliveryTools)
  PROVE  ToolMapping(tool, mcp).class = "mcp"
<1>1. ToolMapping(tool, mcp) = [class |-> "mcp", access |-> "none"]
  <2>1. /\ tool # "read_file" /\ tool # "search_files" /\ tool \notin {"write_file", "patch"}
        /\ tool \notin ProcessTools /\ tool \notin DeliveryTools
    BY Zenon
  <2> QED
    BY <2>1, MappedTools, Zenon
<1>2. [class |-> "mcp", access |-> "none"].class = "mcp"
  BY Zenon
<1> QED
  BY <1>1, <1>2, Zenon

LEMMA SourceKinds ==
  \A tool :
    SourceKind(tool) =
      IF tool \in FileTools THEN "file"
      ELSE IF tool \in PluginProcessTools THEN "process"
      ELSE IF tool \in PluginDeliveryTools THEN "messaging"
      ELSE "mcp_tool"
BY Zenon DEF SourceKind, FileTools, PluginProcessTools, PluginDeliveryTools

(* The classes of a tool are the same to the plugin and to the daemon, and  *)
(* its source kind goes with its class.                                     *)
LEMMA ToolsAgree ==
  ASSUME NEW tool
  PROVE  LET class == ToolClassesOf(tool)[1]
         IN  /\ \A mcp \in BOOLEAN : (mcp <=> class = "mcp") =>
                  ToolMapping(tool, mcp) = [class |-> class, access |-> ToolClassesOf(tool)[2]]
             /\ class \in {"file_read", "file_enumerate", "file_mutation", "process", "delivery", "mcp"}
             /\ ToolClassesOf(tool)[2] \in {"read", "enumerate", "mutation", "none"}
             /\ class = "file_read" <=> tool = "read_file"
             /\ class = "file_enumerate" <=> tool = "search_files"
             /\ class = "delivery" <=> tool \in PluginDeliveryTools
             /\ SourceKind(tool) =
                  IF class \in FileClasses THEN "file"
                  ELSE IF class = "process" THEN "process"
                  ELSE IF class = "delivery" THEN "messaging" ELSE "mcp_tool"
<1> DEFINE class == ToolClassesOf(tool)[1]
<1>1. /\ class = "mcp" <=> tool \notin FileTools \union PluginProcessTools \union PluginDeliveryTools
      /\ PluginProcessTools = ProcessTools /\ PluginDeliveryTools = DeliveryTools
  BY ClassesOfTools DEF FileTools, PluginProcessTools, PluginDeliveryTools, ProcessTools, DeliveryTools
<1>2. ASSUME NEW mcp \in BOOLEAN, mcp <=> class = "mcp", NEW mapped, mapped = ToolMapping(tool, mcp)
      PROVE  mapped =
        IF tool = "read_file" THEN [class |-> "file_read", access |-> "read"]
        ELSE IF tool = "search_files" THEN [class |-> "file_enumerate", access |-> "enumerate"]
        ELSE IF tool \in {"write_file", "patch"} THEN [class |-> "file_mutation", access |-> "mutation"]
        ELSE IF tool \in ProcessTools THEN [class |-> "process", access |-> "none"]
        ELSE IF tool \in DeliveryTools THEN [class |-> "delivery", access |-> "none"]
        ELSE [class |-> IF class = "mcp" THEN "mcp" ELSE "other", access |-> "none"]
  BY <1>2, MappedTools, Zenon
<1>3. /\ \A t \in FileTools : t \notin PluginProcessTools \union PluginDeliveryTools
      /\ \A t \in PluginProcessTools : t \notin PluginDeliveryTools
  BY DEF FileTools, PluginProcessTools, PluginDeliveryTools
<1>4. ASSUME NEW mcp \in BOOLEAN, mcp <=> class = "mcp", NEW mapped, mapped = ToolMapping(tool, mcp)
      PROVE  mapped = [class |-> class, access |-> ToolClassesOf(tool)[2]]
  <2>1. CASE tool \in FileTools
    BY <2>1, <1>1, <1>2, <1>3, <1>4, ClassesOfTools DEF FileTools
  <2>2. CASE tool \notin FileTools
    BY <2>2, <1>1, <1>2, <1>3, <1>4, ClassesOfTools DEF FileTools
  <2> QED
    BY <2>1, <2>2
<1>5. /\ class \in {"file_read", "file_enumerate", "file_mutation", "process", "delivery", "mcp"}
      /\ ToolClassesOf(tool)[2] \in {"read", "enumerate", "mutation", "none"}
      /\ class = "file_read" <=> tool = "read_file"
      /\ class = "file_enumerate" <=> tool = "search_files"
      /\ class = "delivery" <=> tool \in PluginDeliveryTools
  BY <1>3, ClassesOfTools DEF FileTools
<1>6. SourceKind(tool) =
        IF class \in FileClasses THEN "file"
        ELSE IF class = "process" THEN "process"
        ELSE IF class = "delivery" THEN "messaging" ELSE "mcp_tool"
  BY <1>3, ClassesOfTools, SourceKinds DEF FileTools, FileClasses
<1> QED
  BY <1>4, <1>5, <1>6, Zenon

LEMMA EventsOfHooks ==
  \A o : o.hook \in Hooks =>
    EventsOf(o) =
      IF o.hook = "pre_tool_call" THEN PreTool(o)
      ELSE IF o.hook = "post_tool_call" THEN PostTool(o)
      ELSE IF o.hook = "pre_llm_call" THEN PreLlm(o)
      ELSE IF o.hook = "on_session_start" THEN Session("agent.session.started")
      ELSE IF o.hook = "on_session_end" THEN Session("agent.session.ended")
      ELSE IF o.hook = "simulate" THEN Simulated
      ELSE Canary
BY Zenon DEF EventsOf, Hooks

LEMMA KindsOfTypes ==
  \A type :
    Kinds(type) =
      IF type \in Informational \union {"agent.approval.granted"} THEN {"sensor"}
      ELSE IF type \in {"agent.content.ingested", "agent.mcp.tool.requested"} THEN {"mcp_tool"}
      ELSE IF type = "agent.tool.requested" THEN {"file", "process", "messaging"}
      ELSE IF type = "agent.network.egress" THEN {"process", "network"}
      ELSE IF type = "agent.tool.completed" THEN {"file", "process", "messaging", "mcp_tool"}
      ELSE IF type = "agent.config.changed" THEN {"configuration"}
      ELSE IF type = "agent.automation.scheduled" THEN {"scheduled_task"}
      ELSE {}
BY Zenon DEF Kinds, Informational

LEMMA TrustOfTypes ==
  \A type :
    Trust(type) =
      IF type \in Informational THEN "sensor_observation"
      ELSE IF type = "agent.content.ingested" THEN "untrusted_content"
      ELSE IF type = "agent.tool.completed" THEN "tool_output"
      ELSE IF type = "agent.approval.granted" THEN "authenticated_user"
      ELSE "agent_action"
BY Zenon DEF Trust, Informational

(* The plugin's events are no exceptions. *)
LEMMA ShapesOfTypes ==
  \A event : event.profile = "plugin" =>
    Shape(event) =
      IF event.type \in Requests THEN RequestShape
      ELSE IF event.type = "agent.tool.completed" THEN CompletedShape
      ELSE OtherShape(event.type)
BY Zenon DEF Shape, IsP0Exception, Requests

LEMMA ConsistencyOfTypes ==
  \A event : event.profile = "plugin" =>
    (Consistent(event) <=>
      IF event.type \in Requests THEN ClassesAgree(event) /\ RequestAgrees(event)
      ELSE IF event.type = "agent.tool.completed"
      THEN ClassesAgree(event) /\ KindAgrees(event) /\ SignatureAgrees(event.attributes)
      ELSE TRUE)
BY Zenon DEF Consistent, IsP0Exception, Requests

----
(* What the hooks send.                                                     *)
Among(s) == {s[i] : i \in DOMAIN s}

LEMMA Joined ==
  ASSUME NEW S, NEW a \in Seq(S), NEW b \in Seq(S)
  PROVE  a \o b \in Seq(S) /\ Among(a \o b) = Among(a) \union Among(b)
<1> DEFINE ab == a \o b
<1>1. /\ ab \in Seq(S) /\ Len(ab) = Len(a) + Len(b)
      /\ \A i \in 1 .. Len(a) + Len(b) : ab[i] = IF i <= Len(a) THEN a[i] ELSE b[i - Len(a)]
  BY ConcatProperties
<1>2. /\ Len(a) \in Nat /\ DOMAIN a = 1 .. Len(a)
      /\ Len(b) \in Nat /\ DOMAIN b = 1 .. Len(b)
  BY LenProperties
<1>3. DOMAIN ab = 1 .. Len(a) + Len(b)
  BY <1>1, LenProperties
<1> HIDE DEF ab
<1>4. ASSUME NEW i \in DOMAIN ab PROVE ab[i] \in Among(a) \union Among(b)
  <2>1. CASE i <= Len(a)
    BY <1>1, <1>2, <1>3, <2>1 DEF Among
  <2>2. CASE ~ (i <= Len(a))
    <3>1. i - Len(a) \in DOMAIN b /\ ab[i] = b[i - Len(a)]
      BY <1>1, <1>2, <1>3, <2>2
    <3> QED
      BY <3>1 DEF Among
  <2> QED
    BY <2>1, <2>2
<1>5. ASSUME NEW i \in DOMAIN a PROVE a[i] \in Among(ab)
  BY <1>1, <1>2, <1>3 DEF Among
<1>6. ASSUME NEW i \in DOMAIN b PROVE b[i] \in Among(ab)
  <2>1. Len(a) + i \in DOMAIN ab /\ ab[Len(a) + i] = b[i]
    BY <1>1, <1>2, <1>3
  <2> QED
    BY <2>1 DEF Among
<1>7. Among(ab) = Among(a) \union Among(b)
  BY <1>4, <1>5, <1>6 DEF Among
<1> QED
  BY <1>1, <1>7 DEF ab

LEMMA FewElements ==
  \A S : /\ <<>> \in Seq(S) /\ Among(<<>>) = {}
         /\ \A x \in S : <<x>> \in Seq(S) /\ Among(<<x>>) = {x}
BY DEF Among

LEMMA ResultsOfTools ==
  ASSUME NEW o
  PROVE  /\ PostTool(o) \in Seq({Completed(o), Scheduled, Untrusted(o)})
         /\ o.tool # "simulation" /\ o.injection => Untrusted(o) \in Among(PostTool(o))
         /\ o.tool = "cronjob" /\ o.scheduled => Scheduled \in Among(PostTool(o))
<1> DEFINE S == {Completed(o), Scheduled, Untrusted(o)}
           completed == <<Completed(o)>>
           scheduled == IF o.scheduled /\ o.tool = "cronjob" THEN <<Scheduled>> ELSE <<>>
           untrusted == IF o.injection THEN <<Untrusted(o)>> ELSE <<>>
<1>1. /\ completed \in Seq(S) /\ scheduled \in Seq(S) /\ untrusted \in Seq(S) /\ <<>> \in Seq(S)
      /\ o.scheduled /\ o.tool = "cronjob" => Among(scheduled) = {Scheduled}
      /\ o.injection => Among(untrusted) = {Untrusted(o)}
  BY FewElements, Zenon
<1>2. PostTool(o) = IF o.tool = "simulation" THEN <<>> ELSE completed \o scheduled \o untrusted
  BY Zenon DEF PostTool
<1> HIDE DEF S, completed, scheduled, untrusted
<1>3. completed \o scheduled \in Seq(S)
      /\ Among(completed \o scheduled) = Among(completed) \union Among(scheduled)
  BY <1>1, Joined
<1> DEFINE first == completed \o scheduled
<1>4. first \o untrusted \in Seq(S)
      /\ Among(first \o untrusted) = Among(first) \union Among(untrusted)
  <2> HIDE DEF first
  <2>1. first \in Seq(S)
    BY <1>3 DEF first
  <2> QED
    BY <1>1, <2>1, Joined
<1>5. "cronjob" # "simulation"
  OBVIOUS
<1>6. /\ PostTool(o) \in Seq(S)
      /\ o.tool # "simulation" /\ o.injection => Untrusted(o) \in Among(PostTool(o))
      /\ o.tool = "cronjob" /\ o.scheduled => Scheduled \in Among(PostTool(o))
  <2>1. Untrusted(o) \in {Untrusted(o)} /\ Scheduled \in {Scheduled}
    OBVIOUS
  <2>2. Among(first) = Among(completed) \union Among(scheduled)
    BY <1>3
  <2> QED
    BY <1>1, <1>2, <1>4, <1>5, <2>1, <2>2
<1> QED
  BY <1>6 DEF S

LEMMA HooksSendSequences ==
  ASSUME NEW o, o \in Observation
  PROVE  Len(EventsOf(o)) \in Nat /\ DOMAIN EventsOf(o) = 1 .. Len(EventsOf(o))
<1>1. o.hook \in Hooks
  BY DEF Observation
<1>2. PostTool(o) \in Seq({Completed(o), Scheduled, Untrusted(o)})
  BY ResultsOfTools
<1>3. \A e : Len(<<e>>) = 1 /\ DOMAIN <<e>> = 1 .. 1
  OBVIOUS
<1> QED
  BY <1>1, <1>2, <1>3, EventsOfHooks
     DEF PreTool, PreLlm, Session, Simulated, Canary, Hooks

(* Every kind of event of the plugin. *)
Reportable(e, o) ==
  \/ o.hook = "pre_tool_call" /\ e = PreTool(o)[1]
  \/ o.hook = "post_tool_call" /\ e \in {Completed(o), Scheduled, Untrusted(o)}
  \/ e = PreLlm(o)[1]
  \/ e = Session("agent.session.started")[1]
  \/ e = Session("agent.session.ended")[1]
  \/ e = Simulated[1]
  \/ e = Canary[1]

LEMMA HooksSendReportable ==
  ASSUME NEW o, o \in Observation, NEW i \in DOMAIN EventsOf(o)
  PROVE  Reportable(EventsOf(o)[i], o)
<1>1. o.hook \in Hooks
  BY DEF Observation
<1>2. PostTool(o) \in Seq({Completed(o), Scheduled, Untrusted(o)})
  BY ResultsOfTools
<1>3. o.hook = "post_tool_call" => EventsOf(o)[i] \in {Completed(o), Scheduled, Untrusted(o)}
  BY <1>1, <1>2, EventsOfHooks
<1>4. \A e, j : j \in DOMAIN <<e>> => <<e>>[j] = <<e>>[1]
  OBVIOUS
<1>5. /\ PreTool(o) = <<PreTool(o)[1]>> /\ PreLlm(o) = <<PreLlm(o)[1]>>
      /\ \A type : Session(type) = <<Session(type)[1]>>
      /\ Simulated = <<Simulated[1]>> /\ Canary = <<Canary[1]>>
  BY DEF PreTool, PreLlm, Session, Simulated, Canary
<1> QED
  BY <1>1, <1>3, <1>4, <1>5, EventsOfHooks DEF Reportable, Hooks

(* What an event holds, as the hooks make it and under its identifier, and   *)
(* what the daemon makes of it.                                             *)
LEMMA EventFields ==
  ASSUME NEW type, NEW kind, NEW trust, NEW attributes, NEW artifact, NEW redacted
  PROVE  LET e == Event(type, kind, trust, attributes, artifact, redacted)
         IN  /\ DOMAIN e = Fields
             /\ e.type = type /\ e.kind = kind /\ e.trust = trust
             /\ e.severity = "producer" /\ e.profile = "plugin"
             /\ e.tenant = Tenant /\ e.trace = Trace /\ e.parent = None /\ e.session = None
             /\ e.artifact = artifact /\ e.title = "short" /\ e.details = None
             /\ e.attributes = attributes /\ e.redacted = redacted
BY DEF Event, Fields

LEMMA StampedFields ==
  ASSUME NEW event, DOMAIN event = Fields, NEW id, NEW time
  PROVE  LET e == Stamped(event, id, time)
         IN  /\ DOMAIN e = Fields
             /\ e.id = id /\ e.time = time /\ e.source_event = id /\ e.span = id
             /\ e.type = event.type /\ e.kind = event.kind /\ e.trust = event.trust
             /\ e.severity = event.severity /\ e.profile = event.profile
             /\ e.tenant = event.tenant /\ e.trace = event.trace
             /\ e.parent = event.parent /\ e.session = event.session
             /\ e.artifact = event.artifact /\ e.title = event.title /\ e.details = event.details
             /\ e.attributes = event.attributes /\ e.redacted = event.redacted
BY DEF Stamped, Fields

LEMMA IdentifiedFields ==
  ASSUME NEW event, DOMAIN event = Fields, NEW id, NEW time
  PROVE  LET e == Identified(event, id, time)
         IN  /\ DOMAIN e = Fields
             /\ e.id = id /\ e.time = time /\ e.severity = event.severity
             /\ e.trace = event.trace /\ e.session = event.session
BY DEF Identified, Fields

LEMMA ProjectedFields ==
  ASSUME NEW event, DOMAIN event = Fields
  PROVE  LET e == Projected(event)
         IN  /\ DOMAIN e = Fields
             /\ e.id = event.id /\ e.time = event.time
             /\ e.type = event.type /\ e.trust = event.trust /\ e.profile = event.profile
             /\ e.kind = IF event.type = "agent.network.egress" THEN "network" ELSE event.kind
             /\ e.trace = Pseudonym("trace", event.trace)
             /\ e.session = Pseudonym("session", event.session)
             /\ e.attributes = StoredAttributes(event)
BY DEF Projected, Fields

LEMMA ReadBackFields ==
  ASSUME NEW event, DOMAIN event = Fields
  PROVE  LET e == ReadBack(event)
         IN  /\ e.id = event.id /\ e.time = event.time
             /\ e.type = event.type /\ e.trust = event.trust /\ e.profile = event.profile
             /\ e.kind = event.kind /\ e.trace = event.trace /\ e.session = event.session
             /\ e.attributes = RedactedAttributes(event.attributes)
BY DEF ReadBack, Fields

----
(* The attributes the hooks build, and the shapes the daemon holds them to.  *)

Plain(attributes) ==
  /\ attributes = [key \in DOMAIN attributes |-> attributes[key]]
  /\ DOMAIN attributes \intersect (SensitiveKeys \union UnsafeKeys) = {}
  /\ \A key \in DOMAIN attributes : attributes[key] \notin {"secret_text", "local_path"}

LEMMA PlainIsKept ==
  ASSUME NEW attributes, Plain(attributes)
  PROVE  RedactedAttributes(attributes) = attributes
<1>1. \A key \in DOMAIN attributes : RedactedValue(key, attributes[key]) = attributes[key]
  BY DEF Plain, RedactedValue
<1>2. RedactedAttributes(attributes) = [key \in DOMAIN attributes |-> attributes[key]]
  BY <1>1 DEF RedactedAttributes
<1> QED
  BY <1>2 DEF Plain

Keeps(attributes, shape) ==
  /\ DOMAIN shape.required \subseteq DOMAIN attributes
  /\ DOMAIN attributes \subseteq DOMAIN shape.required \union DOMAIN shape.optional
  /\ \A key \in DOMAIN attributes :
       attributes[key] \in With(shape.required, shape.optional)[key]

LEMMA Sizes ==
  /\ {"zero", "few"} \subseteq UpTo(1024) /\ "few" \in UpTo(16384)
  /\ {"zero", "few"} \subseteq UpTo(262144) /\ "zero" \in UpTo(0)
  /\ {"zero", "few", "many"} \subseteq UpTo(65536)
BY DEF UpTo, Size

LEMMA SaysBool == \A b : Says(b) \in Bools
BY Zenon DEF Says, Bools

LEMMA SaysYes == \A b : Says(b) = "yes" <=> b
BY Zenon DEF Says

IndicatorKeys == {"tool_name", "tool_class", "access_class", "network_indicator", "direct_ip",
                  "delivery_indicator", "sensitive_access", "classification_truncated"}

IndicatorsHold(a, o) ==
  /\ a = [key \in DOMAIN a |-> a[key]]
  /\ IndicatorKeys \subseteq DOMAIN a
  /\ a.tool_name = o.tool
  /\ a.tool_class = ToolClassesOf(o.tool)[1] /\ a.access_class = ToolClassesOf(o.tool)[2]
  /\ a.network_indicator = Says(o.network) /\ a.direct_ip = Says(o.network /\ o.ip)
  /\ a.delivery_indicator = Says(o.tool \in PluginDeliveryTools)
  /\ a.sensitive_access = Says(o.sensitive) /\ a.classification_truncated = "no"

LEMMA RequestAttributesAre ==
  ASSUME NEW o, NEW a, a = RequestAttributes(o)
  PROVE  /\ IndicatorsHold(a, o)
         /\ IndicatorKeys \union {"hook", "params_preview", "params_length", "params_examined_chars"}
              \subseteq DOMAIN a
         /\ DOMAIN a \subseteq IndicatorKeys \union {"hook", "params_preview", "params_length",
                                                    "params_examined_chars", "command_class"}
         /\ a.hook = "pre_tool_call" /\ a.params_preview = "<omitted>"
         /\ a.params_length = "few" /\ a.params_examined_chars = "few"
         /\ "command_class" \in DOMAIN a => a.command_class = "network_egress"
<1> DEFINE more == [hook |-> "pre_tool_call", params_preview |-> "<omitted>",
                    params_length |-> "few", params_examined_chars |-> "few"]
<1>1. CASE o.network
  <2>1. a = With(With(Indicators(o), [command_class |-> "network_egress"]), more)
    BY <1>1, Zenon DEF RequestAttributes
  <2> QED
    BY <2>1 DEF With, Indicators, IndicatorsHold, IndicatorKeys
<1>2. CASE ~ o.network
  <2>1. a = With(With(Indicators(o), Nothing), more)
    BY <1>2, Zenon DEF RequestAttributes
  <2> QED
    BY <2>1 DEF With, Indicators, IndicatorsHold, IndicatorKeys, Nothing
<1> QED
  BY <1>1, <1>2

LEMMA ResultAttributesAre ==
  ASSUME NEW o, NEW a, a = ResultAttributes(o)
  PROVE  /\ IndicatorsHold(a, o)
         /\ IndicatorKeys \union {"hook", "result_omitted", "result_length", "result_examined_chars",
                                  "prompt_injection_indicator", "malware_indicator"} \subseteq DOMAIN a
         /\ DOMAIN a \subseteq
              IndicatorKeys \union {"hook", "result_omitted", "result_length", "result_examined_chars",
                                    "prompt_injection_indicator", "malware_indicator",
                                    "malware_signature", "rule_id"}
         /\ a.hook = "post_tool_call" /\ a.result_omitted = "yes"
         /\ a.result_length = "few" /\ a.result_examined_chars = "few"
         /\ a.prompt_injection_indicator = Says(o.injection) /\ a.malware_indicator = Says(o.malware)
         /\ "malware_signature" \in DOMAIN a <=> o.malware
         /\ "malware_signature" \in DOMAIN a =>
              a.malware_signature = "skynet_fake_malware_test_string"
         /\ "rule_id" \in DOMAIN a => a.rule_id = "EDR-MALWARE-001"
<1> DEFINE more == [hook |-> "post_tool_call", result_omitted |-> "yes",
                    result_length |-> "few", result_examined_chars |-> "few",
                    prompt_injection_indicator |-> Says(o.injection),
                    malware_indicator |-> Says(o.malware)]
           signature == [malware_signature |-> "skynet_fake_malware_test_string",
                         rule_id |-> "EDR-MALWARE-001"]
<1>1. CASE o.malware
  <2>1. a = With(With(Indicators(o), signature), more)
    BY <1>1, Zenon DEF ResultAttributes
  <2>2. DOMAIN a = IndicatorKeys \union DOMAIN signature \union DOMAIN more
    BY <2>1 DEF With, Indicators, IndicatorKeys
  <2>3. IndicatorsHold(a, o)
    BY <2>1 DEF With, Indicators, IndicatorsHold, IndicatorKeys
  <2>4. /\ \A key \in DOMAIN signature : a[key] = signature[key]
        /\ \A key \in DOMAIN more : a[key] = more[key]
    BY <2>1 DEF With, Indicators
  <2> QED
    BY <1>1, <2>2, <2>3, <2>4
<1>2. CASE ~ o.malware
  <2>1. a = With(With(Indicators(o), Nothing), more)
    BY <1>2, Zenon DEF ResultAttributes
  <2> QED
    BY <1>2, <2>1 DEF With, Indicators, IndicatorsHold, IndicatorKeys, Nothing
<1> QED
  BY <1>1, <1>2

(* No shape admits what the daemon would redact. *)
Clean(set) == \A value \in set : value # "secret_text" /\ value # "local_path"
Harmless(attributes) ==
  \A key \in DOMAIN attributes : key # "token" /\ key # "unsafe_key" /\ Clean(attributes[key])

LEMMA CleanSets ==
  /\ Clean(ToolNames) /\ Clean(ToolClasses) /\ Clean(Bools) /\ \A n \in Nat : Clean(UpTo(n))
  /\ Clean({"read", "enumerate", "mutation", "none"})
  /\ Clean({"<omitted>", "<secret>", "<local>"})
<1>1. Clean(ToolNames)
  <2>1. Clean({"read_file", "search_files", "write_file", "patch"})
        /\ Clean(ProcessTools) /\ Clean(DeliveryTools)
    BY SMT DEF ProcessTools, DeliveryTools, Clean
  <2>2. Clean(OtherTools)
    BY ToolsAssumption, SMT DEF Clean
  <2> QED
    BY <2>1, <2>2, SMT DEF ToolNames, Clean
<1>2. /\ Clean(ToolClasses) /\ Clean(Bools)
      /\ Clean({"read", "enumerate", "mutation", "none"})
      /\ Clean({"<omitted>", "<secret>", "<local>"})
  BY SMT DEF ToolClasses, Bools, Clean
<1>3. \A n \in Nat : Clean(UpTo(n))
  <2>1. Clean({"zero", "few", "many", "more"})
    BY SMT DEF Clean
  <2> QED
    BY <2>1, SMT DEF UpTo, Size, Clean
<1> QED
  BY <1>1, <1>2, <1>3

LEMMA HarmlessShapes ==
  /\ Harmless(RequestShape.required) /\ Harmless(RequestShape.optional)
  /\ Harmless(CompletedShape.required) /\ Harmless(CompletedShape.optional)
<1>1. /\ \A word \in {"pre_tool_call", "post_tool_call", "network_egress", "yes", "EDR-MALWARE-001"} :
           Clean({word})
      /\ Clean({"eicar_test_string", "skynet_fake_malware_test_string"})
  BY SMT DEF Clean
<1>2. Harmless(RequestShape.required) /\ Harmless(RequestShape.optional)
  BY <1>1, CleanSets, SMTT(20) DEF RequestShape, Harmless
<1>3. Harmless(CompletedShape.required)
  <2>1. Clean({"post_tool_call"}) /\ Clean({"yes"}) /\ Clean(UpTo(262144))
    BY <1>1, CleanSets
  <2> QED
    BY <2>1, CleanSets, SMT DEF CompletedShape, Harmless
<1>4. Harmless(CompletedShape.optional)
  <2>1. RequestShape.optional.access_class = {"read", "enumerate", "mutation", "none"}
    BY SMT DEF RequestShape
  <2> QED
    BY <1>1, <2>1, CleanSets, SMT DEF CompletedShape, Harmless
<1> QED
  BY <1>2, <1>3, <1>4

LEMMA FittingIsPlain ==
  ASSUME NEW a, a = [key \in DOMAIN a |-> a[key]], NEW shape, Keeps(a, shape),
         Harmless(shape.required), Harmless(shape.optional)
  PROVE  Plain(a)
<1>1. ASSUME NEW key \in DOMAIN a
      PROVE  /\ key # "token" /\ key # "unsafe_key"
             /\ a[key] # "secret_text" /\ a[key] # "local_path"
  <2>1. a[key] \in With(shape.required, shape.optional)[key]
        /\ (key \in DOMAIN shape.required \/ key \in DOMAIN shape.optional)
    BY SMT DEF Keeps
  <2>2. CASE key \in DOMAIN shape.required
    BY <2>1, <2>2, SMT DEF With, Harmless, Clean
  <2>3. CASE key \notin DOMAIN shape.required
    BY <2>1, <2>3, SMT DEF With, Harmless, Clean
  <2> QED
    BY <2>2, <2>3
<1> QED
  BY <1>1, SMT DEF Plain, SensitiveKeys, UnsafeKeys

(* A request and a result fit the daemon's shape of them. *)
LEMMA RequestsFit ==
  ASSUME NEW o, o.tool \in ToolNames
  PROVE  Keeps(RequestAttributes(o), RequestShape) /\ Plain(RequestAttributes(o))
<1> DEFINE a == RequestAttributes(o)
           shape == With(RequestShape.required, RequestShape.optional)
<1>1. /\ DOMAIN RequestShape.required =
           {"tool_name", "network_indicator", "direct_ip", "delivery_indicator", "sensitive_access",
            "hook", "params_preview", "params_length"}
      /\ DOMAIN RequestShape.optional =
           {"tool_class", "access_class", "classification_truncated", "params_examined_chars",
            "command_class"}
  BY SMT DEF RequestShape
<1>2. /\ shape.hook = {"pre_tool_call"} /\ shape.tool_name = ToolNames
      /\ shape.network_indicator = Bools /\ shape.direct_ip = Bools
      /\ shape.delivery_indicator = Bools /\ shape.sensitive_access = Bools
      /\ shape.params_length = UpTo(262144)
      /\ shape.params_preview = {"<omitted>", "<secret>", "<local>"}
      /\ shape.tool_class = ToolClasses /\ shape.command_class = {"network_egress"}
      /\ shape.access_class = {"read", "enumerate", "mutation", "none"}
      /\ shape.classification_truncated = Bools /\ shape.params_examined_chars = UpTo(16384)
  BY SMT DEF With, RequestShape
<1>3. /\ ToolClassesOf(o.tool)[1] \in ToolClasses
      /\ ToolClassesOf(o.tool)[2] \in {"read", "enumerate", "mutation", "none"}
      /\ "no" \in Bools
  BY ClassesOfTools, SMT DEF ToolClasses, Bools
<1> HIDE DEF a, shape
<1>4. IndicatorsHold(a, o)
  BY RequestAttributesAre DEF a
<1>5. \A key \in IndicatorKeys : a[key] \in shape[key]
  BY <1>2, <1>3, <1>4, SaysBool, SMT DEF IndicatorsHold, IndicatorKeys
<1>6. \A key \in DOMAIN a \ IndicatorKeys : a[key] \in shape[key]
  BY <1>2, RequestAttributesAre, SaysBool, Sizes, SMT DEF a
<1>7. \A key \in DOMAIN a : a[key] \in shape[key]
  BY <1>5, <1>6
<1>8. /\ DOMAIN RequestShape.required \subseteq DOMAIN a
      /\ DOMAIN a \subseteq DOMAIN RequestShape.required \union DOMAIN RequestShape.optional
  BY <1>1, RequestAttributesAre, SMT DEF IndicatorKeys, a
<1>9. Keeps(a, RequestShape) /\ a = [key \in DOMAIN a |-> a[key]]
  BY <1>4, <1>7, <1>8 DEF Keeps, IndicatorsHold, shape
<1> QED
  BY <1>9, HarmlessShapes, FittingIsPlain DEF a

LEMMA ResultsFit ==
  ASSUME NEW o, o.tool \in ToolNames
  PROVE  Keeps(ResultAttributes(o), CompletedShape) /\ Plain(ResultAttributes(o))
<1> DEFINE a == ResultAttributes(o)
           shape == With(CompletedShape.required, CompletedShape.optional)
<1>1. /\ DOMAIN CompletedShape.required =
           {"hook", "tool_name", "result_omitted", "result_length", "network_indicator", "direct_ip",
            "delivery_indicator", "sensitive_access", "prompt_injection_indicator",
            "malware_indicator"}
      /\ DOMAIN CompletedShape.optional =
           {"tool_class", "access_class", "result_examined_chars", "classification_truncated",
            "malware_signature", "rule_id"}
  BY SMT DEF CompletedShape
<1>2. /\ shape.hook = {"post_tool_call"} /\ shape.tool_name = ToolNames
      /\ shape.result_omitted = {"yes"} /\ shape.result_length = UpTo(262144)
      /\ shape.network_indicator = Bools /\ shape.direct_ip = Bools
      /\ shape.delivery_indicator = Bools /\ shape.sensitive_access = Bools
      /\ shape.prompt_injection_indicator = Bools /\ shape.malware_indicator = Bools
      /\ shape.tool_class = ToolClasses
      /\ shape.access_class = {"read", "enumerate", "mutation", "none"}
      /\ shape.result_examined_chars = UpTo(16384) /\ shape.classification_truncated = Bools
      /\ shape.malware_signature = {"eicar_test_string", "skynet_fake_malware_test_string"}
      /\ shape.rule_id = {"EDR-MALWARE-001"}
  <2> DEFINE required == CompletedShape.required
             optional == CompletedShape.optional
  <2>1. RequestShape.optional.access_class = {"read", "enumerate", "mutation", "none"}
    BY SMT DEF RequestShape
  <2>2. /\ required.hook = {"post_tool_call"} /\ required.tool_name = ToolNames
        /\ required.result_omitted = {"yes"} /\ required.result_length = UpTo(262144)
        /\ required.network_indicator = Bools /\ required.direct_ip = Bools
        /\ required.delivery_indicator = Bools /\ required.sensitive_access = Bools
        /\ required.prompt_injection_indicator = Bools /\ required.malware_indicator = Bools
    BY SMT DEF CompletedShape
  <2>3. /\ optional.tool_class = ToolClasses
        /\ optional.access_class = {"read", "enumerate", "mutation", "none"}
        /\ optional.result_examined_chars = UpTo(16384)
        /\ optional.classification_truncated = Bools
        /\ optional.malware_signature = {"eicar_test_string", "skynet_fake_malware_test_string"}
        /\ optional.rule_id = {"EDR-MALWARE-001"}
    BY <2>1, SMT DEF CompletedShape
  <2>4. /\ \A key \in DOMAIN required : shape[key] = required[key]
        /\ \A key \in DOMAIN optional \ DOMAIN required : shape[key] = optional[key]
    BY SMT DEF With
  <2> HIDE DEF required, optional, shape
  <2> QED
    BY <1>1, <2>2, <2>3, <2>4, SMT DEF required, optional
<1>3. /\ ToolClassesOf(o.tool)[1] \in ToolClasses
      /\ ToolClassesOf(o.tool)[2] \in {"read", "enumerate", "mutation", "none"}
      /\ "no" \in Bools
  BY ClassesOfTools, SMT DEF ToolClasses, Bools
<1> HIDE DEF a, shape
<1>4. IndicatorsHold(a, o)
  BY ResultAttributesAre DEF a
<1>5. \A key \in IndicatorKeys : a[key] \in shape[key]
  BY <1>2, <1>3, <1>4, SaysBool, SMT DEF IndicatorsHold, IndicatorKeys
<1>6. \A key \in DOMAIN a \ IndicatorKeys : a[key] \in shape[key]
  BY <1>2, ResultAttributesAre, SaysBool, Sizes, SMT DEF a
<1>7. \A key \in DOMAIN a : a[key] \in shape[key]
  BY <1>5, <1>6
<1>8. /\ DOMAIN CompletedShape.required \subseteq DOMAIN a
      /\ DOMAIN a \subseteq DOMAIN CompletedShape.required \union DOMAIN CompletedShape.optional
  BY <1>1, ResultAttributesAre, SMT DEF IndicatorKeys, a
<1>9. Keeps(a, CompletedShape) /\ a = [key \in DOMAIN a |-> a[key]]
  BY <1>4, <1>7, <1>8 DEF Keeps, IndicatorsHold, shape
<1> QED
  BY <1>9, HarmlessShapes, FittingIsPlain DEF a

LEMMA OtherShapes ==
  /\ OtherShape("agent.session.started") = SessionShape
  /\ OtherShape("agent.session.ended") = SessionShape
  /\ OtherShape("agent.llm.call.requested") = LlmCallShape
  /\ OtherShape("agent.telemetry.attestation") = AttestationShape
  /\ OtherShape("agent.content.ingested") = ContentShape
  /\ OtherShape("agent.automation.scheduled") = ScheduleShape
BY Zenon DEF OtherShape

LEMMA SessionsFit ==
  ASSUME NEW a, a = [plugin_version |-> "version", argument_count |-> "zero", keyword_count |-> "few"]
  PROVE  Keeps(a, SessionShape) /\ Plain(a)
<1>1. Keeps(a, SessionShape)
  BY Sizes, SMT DEF Keeps, SessionShape, Calls, NoKeys, With
<1> QED
  BY <1>1, SMT DEF Plain, SensitiveKeys, UnsafeKeys

LEMMA LlmCallsFit ==
  ASSUME NEW o, o.messages \in {None, "zero", "few", "many"}, NEW a,
         a = PreLlm(o)[1].attributes
  PROVE  Keeps(a, LlmCallShape) /\ Plain(a)
<1> DEFINE base == [hook |-> "pre_llm_call", content_omitted |-> "yes",
                    argument_count |-> "zero", keyword_count |-> "few"]
<1>1. CASE o.messages = None
  <2>1. a = With(Nothing, base)
    BY <1>1, SMT DEF PreLlm, Event
  <2>2. Keeps(a, LlmCallShape)
    BY <2>1, Sizes, SMT DEF Keeps, LlmCallShape, Calls, NoKeys, With, Nothing
  <2> QED
    BY <2>1, <2>2, SMT DEF Plain, SensitiveKeys, UnsafeKeys, With, Nothing
<1>2. CASE o.messages # None
  <2>1. a = With([message_count |-> o.messages], base)
    BY <1>2, SMT DEF PreLlm, Event
  <2>2. Keeps(a, LlmCallShape)
    BY <1>2, <2>1, Sizes, SMT DEF Keeps, LlmCallShape, Calls, NoKeys, With
  <2> QED
    BY <1>2, <2>1, <2>2, SMT DEF Plain, SensitiveKeys, UnsafeKeys, With
<1> QED
  BY <1>1, <1>2

LEMMA SimulationsFit ==
  ASSUME NEW a, a = Simulated[1].attributes
  PROVE  Keeps(a, CompletedShape) /\ Plain(a)
<1>1. a = [hook |-> "post_tool_call", tool_name |-> "simulation", result_omitted |-> "yes",
           result_length |-> "zero", network_indicator |-> "no", direct_ip |-> "no",
           delivery_indicator |-> "no", sensitive_access |-> "no",
           prompt_injection_indicator |-> "no", malware_indicator |-> "yes",
           malware_signature |-> "skynet_fake_malware_test_string", rule_id |-> "EDR-MALWARE-001"]
  BY SMT DEF Simulated, Event
<1>2. "simulation" \in ToolNames
  BY ToolsAssumption, SMT DEF ToolNames
<1>3. Keeps(a, CompletedShape)
  BY <1>1, <1>2, Sizes, SMT DEF Keeps, CompletedShape, With, Bools
<1> QED
  BY <1>1, <1>3, SMT DEF Plain, SensitiveKeys, UnsafeKeys

LEMMA AttestationsFit ==
  ASSUME NEW a, a = Canary[1].attributes
  PROVE  Keeps(a, AttestationShape) /\ Plain(a)
<1>1. a = [hook |-> "register", producer_bound |-> "yes", content_omitted |-> "yes",
           argument_count |-> "zero", keyword_count |-> "zero", message_count |-> "zero"]
  BY SMT DEF Canary, Event
<1>2. Keeps(a, AttestationShape)
  BY <1>1, Sizes, SMT DEF Keeps, AttestationShape, With, NoKeys
<1> QED
  BY <1>1, <1>2, SMT DEF Plain, SensitiveKeys, UnsafeKeys

LEMMA ContentsFit ==
  ASSUME NEW o, o.tool \in ToolNames, NEW a, a = Untrusted(o).attributes
  PROVE  Keeps(a, ContentShape) /\ Plain(a)
<1>1. a = [hook |-> "post_tool_call", tool_name |-> o.tool, content_omitted |-> "yes",
           content_length |-> "few", instruction_authority |-> "no",
           contains_instructional_attack |-> "yes", expected_disposition |-> "treat_as_data",
           rule_id |-> "EDR-PI-001"]
  BY SMT DEF Untrusted, Event
<1>2. Keeps(a, ContentShape)
  BY <1>1, Sizes, SMT DEF Keeps, ContentShape, With, Bools
<1>3. o.tool # "secret_text" /\ o.tool # "local_path"
  BY CleanSets, SMT DEF Clean
<1> QED
  BY <1>1, <1>2, <1>3, SMT DEF Plain, SensitiveKeys, UnsafeKeys

LEMMA SchedulesFit ==
  ASSUME NEW a, a = [persistence_indicator |-> "yes"]
  PROVE  Keeps(a, ScheduleShape) /\ Plain(a)
BY SMT DEF Keeps, ScheduleShape, With, Bools, NoKeys, Plain, SensitiveKeys, UnsafeKeys

----
(* What the daemon admits.                                                  *)
LEMMA RequestTypes ==
  ASSUME NEW o
  PROVE  LET class == ToolClassesOf(o.tool)[1]
         IN  /\ RequestType(o) \in Requests
             /\ class = "mcp" <=> RequestType(o) = "agent.mcp.tool.requested"
             /\ class = "process" /\ o.network /\ o.ip <=> RequestType(o) = "agent.network.egress"
BY SMT DEF RequestType, Requests

LEMMA ToolEventsAgree ==
  ASSUME NEW o, NEW e, IndicatorsHold(e.attributes, o), e.kind = SourceKind(o.tool),
         e.type \in {RequestType(o), "agent.tool.completed"}
  PROVE  /\ Mapped(e) = [class |-> ToolClassesOf(o.tool)[1], access |-> ToolClassesOf(o.tool)[2]]
         /\ ClassesAgree(e) /\ KindAgrees(e)
<1> DEFINE class == ToolClassesOf(o.tool)[1]
           mcp == IF e.type = "agent.tool.completed" THEN e.kind = "mcp_tool"
                  ELSE e.type = "agent.mcp.tool.requested"
<1>1. /\ class \in {"file_read", "file_enumerate", "file_mutation", "process", "delivery", "mcp"}
      /\ SourceKind(o.tool) =
           IF class \in FileClasses THEN "file"
           ELSE IF class = "process" THEN "process"
           ELSE IF class = "delivery" THEN "messaging" ELSE "mcp_tool"
      /\ \A m \in BOOLEAN : (m <=> class = "mcp") =>
           ToolMapping(o.tool, m) = [class |-> class, access |-> ToolClassesOf(o.tool)[2]]
  BY ToolsAgree, Zenon
<1> DEFINE kindOf == IF class \in FileClasses THEN "file"
                     ELSE IF class = "process" THEN "process"
                     ELSE IF class = "delivery" THEN "messaging" ELSE "mcp_tool"
<1>a. e.kind = kindOf
  BY <1>1, Zenon
<1>b. /\ class \in {"file_read", "file_enumerate", "file_mutation", "process", "delivery", "mcp"}
      /\ class = "mcp" <=> RequestType(o) = "agent.mcp.tool.requested"
  BY <1>1, RequestTypes, Zenon
<1>c. RequestType(o) # "agent.tool.completed"
  BY RequestTypes, SMT DEF Requests
<1> HIDE DEF class
<1>2. mcp \in BOOLEAN /\ (mcp <=> class = "mcp")
  <2>1. class = "mcp" <=> e.kind = "mcp_tool"
    BY <1>a, <1>b, SMT DEF FileClasses
  <2> QED
    BY <1>b, <1>c, <2>1, Zenon
<1>3. Mapped(e) = ToolMapping(o.tool, mcp)
  BY Zenon DEF Mapped, IndicatorsHold
<1>4. Mapped(e) = [class |-> class, access |-> ToolClassesOf(o.tool)[2]]
  BY <1>1, <1>2, <1>3, Zenon DEF class
<1>5. \/ e.kind = "file" /\ class \in FileClasses
      \/ e.kind = "process" /\ class = "process"
      \/ e.kind = "messaging" /\ class = "delivery"
      \/ e.kind = "mcp_tool" /\ class = "mcp"
  BY <1>a, <1>b, SMT DEF FileClasses
<1>6. Mapped(e).class = class /\ Mapped(e).access = ToolClassesOf(o.tool)[2]
  BY <1>4
<1>7. Says(o.network /\ o.ip) = "yes" => Says(o.network) = "yes"
  BY SaysYes, Zenon
<1>8. ClassesAgree(e)
  BY <1>6, <1>7, Zenon DEF ClassesAgree, IndicatorsHold, IndicatorKeys, Yes, Has, class
<1>9. KindAgrees(e)
  BY <1>5, <1>6, Zenon DEF KindAgrees
<1> QED
  BY <1>4, <1>8, <1>9 DEF class

LEMMA RequestAgreement ==
  \A event :
    RequestAgrees(event) <=>
      IF event.type = "agent.network.egress"
      THEN /\ Yes(event.attributes, "network_indicator") /\ Yes(event.attributes, "direct_ip")
           /\ ~ Yes(event.attributes, "delivery_indicator")
           /\ Mapped(event).class = "process"
      ELSE IF event.type = "agent.tool.requested" /\ event.kind = "messaging"
      THEN KindAgrees(event) /\ Yes(event.attributes, "delivery_indicator")
      ELSE KindAgrees(event)
BY Zenon DEF RequestAgrees

LEMMA RequestsAgree ==
  ASSUME NEW o, NEW e, e.attributes = RequestAttributes(o), e.kind = SourceKind(o.tool),
         e.type = RequestType(o), e.profile = "plugin"
  PROVE  Consistent(e)
<1> DEFINE class == ToolClassesOf(o.tool)[1]
<1>1. IndicatorsHold(e.attributes, o)
  BY RequestAttributesAre
<1>2. /\ Mapped(e).class = class /\ ClassesAgree(e) /\ KindAgrees(e)
  BY <1>1, ToolEventsAgree
<1>3. /\ class = "delivery" <=> o.tool \in PluginDeliveryTools
      /\ SourceKind(o.tool) = "messaging" => class = "delivery"
      /\ e.type \in Requests
      /\ e.type = "agent.network.egress" => class = "process" /\ o.network /\ o.ip
  <2>1. SourceKind(o.tool) =
          IF class \in FileClasses THEN "file"
          ELSE IF class = "process" THEN "process"
          ELSE IF class = "delivery" THEN "messaging" ELSE "mcp_tool"
    BY ToolsAgree, Zenon
  <2>2. SourceKind(o.tool) = "messaging" => class = "delivery"
    BY <2>1, SMT
  <2> QED
    BY <2>2, ToolsAgree, RequestTypes, Zenon
<1>4. /\ Yes(e.attributes, "network_indicator") <=> o.network
      /\ Yes(e.attributes, "direct_ip") <=> o.network /\ o.ip
      /\ Yes(e.attributes, "delivery_indicator") <=> o.tool \in PluginDeliveryTools
  <2>1. /\ Yes(e.attributes, "network_indicator") <=> Says(o.network) = "yes"
        /\ Yes(e.attributes, "direct_ip") <=> Says(o.network /\ o.ip) = "yes"
        /\ Yes(e.attributes, "delivery_indicator") <=> Says(o.tool \in PluginDeliveryTools) = "yes"
    BY <1>1, SMT DEF IndicatorsHold, IndicatorKeys, Yes, Has
  <2>2. Says(o.network) = "yes" <=> o.network
    BY Zenon DEF Says
  <2>3. Says(o.network /\ o.ip) = "yes" <=> o.network /\ o.ip
    BY Zenon DEF Says
  <2>4. Says(o.tool \in PluginDeliveryTools) = "yes" <=> o.tool \in PluginDeliveryTools
    BY Zenon DEF Says
  <2> QED
    BY <2>1, <2>2, <2>3, <2>4, Zenon
<1>5. RequestAgrees(e)
  <2>1. "delivery" # "process"
    OBVIOUS
  <2> QED
    BY <1>2, <1>3, <1>4, <2>1, RequestAgreement, Zenon
<1> QED
  BY <1>2, <1>3, <1>5, ConsistencyOfTypes, Zenon

LEMMA ArtifactKinds ==
  \A tool : ArtifactKind(tool) \in {"email", "url", "code", "file", "message", "terminal", "mcp", "unknown"}
BY Zenon DEF ArtifactKind

LEMMA ArtifactsAgree ==
  ASSUME NEW o, NEW trust
  PROVE  ArtifactAgrees(ArtifactFor(o, trust), trust) /\ ArtifactFor(o, trust).label = "short"
<1>1. PluginProvider[ArtifactKind(o.tool)] = Provider[ArtifactKind(o.tool)]
  BY ArtifactKinds, SMT DEF PluginProvider, Provider
<1>2. None # "bad"
  BY IdentityAssumption
<1> QED
  BY <1>1, <1>2, SMT DEF ArtifactFor, ArtifactAgrees

(* An event of the plugin under its identifier: its type, source and trust   *)
(* belong together, it fits its shape, its parts agree.                     *)
LEMMA PluginAdmissible ==
  ASSUME NEW type, NEW kind, NEW trust, NEW attributes, NEW artifact, NEW redacted,
         NEW id \in Nat, NEW time, NEW e,
         e = Stamped(Event(type, kind, trust, attributes, artifact, redacted), id, time),
         kind \in Kinds(type), trust = Trust(type),
         Plain(attributes), Keeps(attributes, Shape(e)), Consistent(e),
         artifact # None => ArtifactAgrees(artifact, trust) /\ artifact.label = "short",
         \A f, g \in redacted : f = g,
         \A f \in redacted : f.path # "details" /\ RedactionHolds(e, f)
  PROVE  Admissible(e)
<1>1. /\ e.id = id /\ e.source_event = id /\ e.span = id
      /\ e.type = type /\ e.kind = kind /\ e.trust = trust
      /\ e.profile = "plugin" /\ e.tenant = Tenant /\ e.trace = Trace
      /\ e.parent = None /\ e.session = None /\ e.artifact = artifact
      /\ e.title = "short" /\ e.details = None
      /\ e.attributes = attributes /\ e.redacted = redacted
  BY EventFields, StampedFields, SMT
<1>2. Valid(e)
  <2>1. RedactedAttributes(attributes) = attributes
    BY PlainIsKept
  <2> QED
    BY <1>1, <2>1, SMT DEF Valid, Plain, ArtifactAgrees
<1>3. Fits(e, Shape(e))
  BY <1>1, Zenon DEF Fits, Keeps
<1>4. {e.tenant, e.trace, e.parent, e.source_event, e.span} \intersect BadIdentities = {}
  <2>1. Tenant \notin BadIdentities /\ Trace \notin BadIdentities
        /\ None \notin BadIdentities /\ id \notin BadIdentities
    BY IdentityAssumption, Zenon
  <2> QED
    BY <1>1, <2>1, SMT
<1> QED
  BY <1>1, <1>2, <1>3, <1>4, SMT DEF Admissible

LEMMA PluginShapes ==
  ASSUME NEW event, event.profile = "plugin"
  PROVE  /\ event.type \in Requests => Shape(event) = RequestShape
         /\ event.type = "agent.tool.completed" => Shape(event) = CompletedShape
         /\ event.type \notin Requests \union {"agent.tool.completed"} =>
              Shape(event) = OtherShape(event.type) /\ Consistent(event)
  BY ShapesOfTypes, ConsistencyOfTypes, Zenon DEF Requests

LEMMA RequestsAdmitted ==
  ASSUME NEW o, o.tool \in ToolNames, NEW id \in Nat, NEW time
  PROVE  Admissible(Stamped(PreTool(o)[1], id, time))
<1> DEFINE redacted == IF o.sensitive THEN {RedactedField("params_preview", "policy", "<omitted>")} ELSE {}
           e == Stamped(Event(RequestType(o), SourceKind(o.tool), "agent_action", RequestAttributes(o),
                              ArtifactFor(o, "agent_action"), redacted), id, time)
<1>1. PreTool(o)[1] = Event(RequestType(o), SourceKind(o.tool), "agent_action", RequestAttributes(o),
                            ArtifactFor(o, "agent_action"), redacted)
  BY SMT DEF PreTool
<1>2. /\ e.type = RequestType(o) /\ e.kind = SourceKind(o.tool) /\ e.profile = "plugin"
      /\ e.attributes = RequestAttributes(o)
  BY EventFields, StampedFields, SMT
<1>3. RequestType(o) \in Requests
  BY RequestTypes
<1>4. Trust(RequestType(o)) = "agent_action"
  BY <1>3, TrustOfTypes, SMT DEF Requests, Informational
<1>5. SourceKind(o.tool) \in Kinds(RequestType(o))
  <2>1. Kinds(RequestType(o)) =
          IF RequestType(o) = "agent.mcp.tool.requested" THEN {"mcp_tool"}
          ELSE IF RequestType(o) = "agent.tool.requested" THEN {"file", "process", "messaging"}
          ELSE {"process", "network"}
    BY <1>3, KindsOfTypes, SMT DEF Requests, Informational
  <2> DEFINE class == ToolClassesOf(o.tool)[1]
  <2>2. /\ class \in {"file_read", "file_enumerate", "file_mutation", "process", "delivery", "mcp"}
        /\ SourceKind(o.tool) =
             IF class \in FileClasses THEN "file"
             ELSE IF class = "process" THEN "process"
             ELSE IF class = "delivery" THEN "messaging" ELSE "mcp_tool"
    BY ToolsAgree, Zenon
  <2>3. /\ class = "mcp" <=> RequestType(o) = "agent.mcp.tool.requested"
        /\ RequestType(o) = "agent.network.egress" => class = "process"
    BY RequestTypes, Zenon
  <2> QED
    BY <1>3, <2>1, <2>2, <2>3, SMT DEF FileClasses, Requests
<1>6. \A f \in redacted : f.path # "details" /\ RedactionHolds(e, f)
  <2>1. /\ "params_preview" \in DOMAIN e.attributes /\ e.attributes.params_preview = "<omitted>"
    BY <1>2, RequestAttributesAre, SMT
  <2>2. ASSUME NEW f, f = RedactedField("params_preview", "policy", "<omitted>")
        PROVE  f.path # "details" /\ RedactionHolds(e, f)
    BY <2>1, <2>2, SMT DEF RedactedField, RedactionHolds, Has
  <2> QED
    BY <2>2, Zenon
<1>7. \A f, g \in redacted : f = g
  BY Zenon
<1>8. Keeps(RequestAttributes(o), Shape(e)) /\ Plain(RequestAttributes(o)) /\ Consistent(e)
  BY <1>2, <1>3, RequestsFit, RequestsAgree, PluginShapes, Zenon
<1> HIDE DEF redacted
<1> QED
  BY <1>1, <1>4, <1>5, <1>6, <1>7, <1>8, ArtifactsAgree, PluginAdmissible, Zenon

LEMMA ResultsAdmitted ==
  ASSUME NEW o, o.tool \in ToolNames, ~ o.secret, NEW id \in Nat, NEW time
  PROVE  Admissible(Stamped(Completed(o), id, time))
<1> DEFINE redacted == {}
           e == Stamped(Event("agent.tool.completed", SourceKind(o.tool), "tool_output",
                              ResultAttributes(o), ArtifactFor(o, "tool_output"), redacted), id, time)
<1>1. Completed(o) = Event("agent.tool.completed", SourceKind(o.tool), "tool_output",
                           ResultAttributes(o), ArtifactFor(o, "tool_output"), redacted)
  BY Zenon DEF Completed
<1>2. /\ e.type = "agent.tool.completed" /\ e.kind = SourceKind(o.tool) /\ e.profile = "plugin"
      /\ e.attributes = ResultAttributes(o)
  BY EventFields, StampedFields, SMT
<1>3. Trust("agent.tool.completed") = "tool_output"
  BY TrustOfTypes, SMT DEF Informational
<1>4. SourceKind(o.tool) \in Kinds("agent.tool.completed")
  <2>1. Kinds("agent.tool.completed") = {"file", "process", "messaging", "mcp_tool"}
    BY KindsOfTypes, SMT DEF Informational
  <2> QED
    BY <2>1, SourceKinds, SMT
<1>5. SignatureAgrees(e.attributes)
  <2>1. "malware_indicator" \in DOMAIN e.attributes /\ e.attributes.malware_indicator = Says(o.malware)
        /\ ("malware_signature" \in DOMAIN e.attributes <=> o.malware)
    BY <1>2, ResultAttributesAre, Zenon
  <2>2. Says(o.malware) = "yes" <=> o.malware
    BY Zenon DEF Says
  <2> QED
    BY <2>1, <2>2, Zenon DEF SignatureAgrees, Yes, Has
<1>6. ClassesAgree(e) /\ KindAgrees(e)
  <2>1. IndicatorsHold(e.attributes, o)
    BY <1>2, ResultAttributesAre, Zenon
  <2>2. e.type \in {RequestType(o), "agent.tool.completed"}
    BY <1>2, Zenon
  <2> HIDE DEF e
  <2> QED
    BY <1>2, <2>1, <2>2, ToolEventsAgree, Zenon
<1>7. "agent.tool.completed" \notin Requests
  BY SMT DEF Requests
<1>8. Keeps(ResultAttributes(o), Shape(e)) /\ Plain(ResultAttributes(o)) /\ Consistent(e)
  BY <1>2, <1>5, <1>6, <1>7, ResultsFit, PluginShapes, ConsistencyOfTypes, Zenon
<1>9. /\ \A f, g \in redacted : f = g
      /\ \A f \in redacted : f.path # "details" /\ RedactionHolds(e, f)
  OBVIOUS
<1> HIDE DEF redacted
<1> QED
  BY <1>1, <1>3, <1>4, <1>8, <1>9, ArtifactsAgree, PluginAdmissible, Zenon

(* The events that no tool gives its class.                                 *)
LEMMA UnclassifiedAdmitted ==
  ASSUME NEW type, NEW kind, NEW trust, NEW attributes, NEW artifact, NEW id \in Nat, NEW time,
         type \notin Requests \union {"agent.tool.completed"},
         kind \in Kinds(type), trust = Trust(type),
         Plain(attributes), Keeps(attributes, OtherShape(type)),
         artifact # None => ArtifactAgrees(artifact, trust) /\ artifact.label = "short"
  PROVE  Admissible(Stamped(Event(type, kind, trust, attributes, artifact, {}), id, time))
<1> DEFINE redacted == {}
           e == Stamped(Event(type, kind, trust, attributes, artifact, redacted), id, time)
<1>1. e.type = type /\ e.profile = "plugin"
  BY EventFields, StampedFields, SMT
<1>2. Shape(e) = OtherShape(type) /\ Consistent(e)
  BY <1>1, PluginShapes, Zenon
<1>3. /\ \A f, g \in redacted : f = g
      /\ \A f \in redacted : f.path # "details" /\ RedactionHolds(e, f)
  OBVIOUS
<1>4. Admissible(e)
  <2> HIDE DEF redacted
  <2> QED
    BY <1>2, <1>3, PluginAdmissible, Zenon
<1> QED
  BY <1>4

LEMMA UnclassifiedTypes ==
  /\ \A type \in {"agent.session.started", "agent.session.ended", "agent.llm.call.requested",
                  "agent.telemetry.attestation"} :
       "sensor" \in Kinds(type) /\ Trust(type) = "sensor_observation"
  /\ "mcp_tool" \in Kinds("agent.content.ingested")
  /\ Trust("agent.content.ingested") = "untrusted_content"
  /\ "scheduled_task" \in Kinds("agent.automation.scheduled")
  /\ Trust("agent.automation.scheduled") = "agent_action"
  /\ \A type \in {"agent.session.started", "agent.session.ended", "agent.llm.call.requested",
                  "agent.telemetry.attestation", "agent.content.ingested",
                  "agent.automation.scheduled"} : type \notin Requests \union {"agent.tool.completed"}
<1>1. \A type \in {"agent.session.started", "agent.session.ended", "agent.llm.call.requested",
                   "agent.telemetry.attestation"} :
        "sensor" \in Kinds(type) /\ Trust(type) = "sensor_observation"
  BY KindsOfTypes, TrustOfTypes, SMT DEF Informational
<1>2. /\ Kinds("agent.content.ingested") = {"mcp_tool"}
      /\ Kinds("agent.automation.scheduled") = {"scheduled_task"}
  BY KindsOfTypes, SMT DEF Informational
<1>3. /\ Trust("agent.content.ingested") = "untrusted_content"
      /\ Trust("agent.automation.scheduled") = "agent_action"
  BY TrustOfTypes, SMT DEF Informational
<1> QED
  BY <1>1, <1>2, <1>3, SMT DEF Requests

LEMMA UnclassifiedAreAdmitted ==
  ASSUME NEW id \in Nat, NEW time
  PROVE  /\ \A o : o.messages \in {None, "zero", "few", "many"} =>
              Admissible(Stamped(PreLlm(o)[1], id, time))
         /\ Admissible(Stamped(Session("agent.session.started")[1], id, time))
         /\ Admissible(Stamped(Session("agent.session.ended")[1], id, time))
         /\ Admissible(Stamped(Canary[1], id, time))
         /\ Admissible(Stamped(Scheduled, id, time))
         /\ \A o : o.tool \in ToolNames => Admissible(Stamped(Untrusted(o), id, time))
<1>1. ASSUME NEW o, o.messages \in {None, "zero", "few", "many"}
      PROVE  Admissible(Stamped(PreLlm(o)[1], id, time))
  <2> DEFINE a == PreLlm(o)[1].attributes
  <2>1. PreLlm(o)[1] = Event("agent.llm.call.requested", "sensor", "sensor_observation", a, None, {})
    BY SMT DEF PreLlm, Event
  <2>2. Keeps(a, OtherShape("agent.llm.call.requested")) /\ Plain(a)
    <3>1. Keeps(a, LlmCallShape) /\ Plain(a)
      BY <1>1, LlmCallsFit
    <3> QED
      BY <3>1, OtherShapes, Zenon
  <2> HIDE DEF a
  <2> QED
    BY <2>1, <2>2, UnclassifiedAdmitted, UnclassifiedTypes, SMT
<1>2. ASSUME NEW type \in {"agent.session.started", "agent.session.ended"}
      PROVE  Admissible(Stamped(Session(type)[1], id, time))
  <2> DEFINE a == [plugin_version |-> "version", argument_count |-> "zero", keyword_count |-> "few"]
  <2>1. Session(type)[1] = Event(type, "sensor", "sensor_observation", a, None, {})
    BY SMT DEF Session
  <2>2. Keeps(a, OtherShape(type)) /\ Plain(a)
    BY SessionsFit, OtherShapes, SMT
  <2> HIDE DEF a
  <2> QED
    BY <2>1, <2>2, UnclassifiedAdmitted, UnclassifiedTypes, SMT
<1>3. Admissible(Stamped(Canary[1], id, time))
  <2> DEFINE a == Canary[1].attributes
  <2>1. Canary[1] = Event("agent.telemetry.attestation", "sensor", "sensor_observation", a, None, {})
    BY SMT DEF Canary, Event
  <2>2. Keeps(a, OtherShape("agent.telemetry.attestation")) /\ Plain(a)
    BY AttestationsFit, OtherShapes, Zenon
  <2> HIDE DEF a
  <2> QED
    BY <2>1, <2>2, UnclassifiedAdmitted, UnclassifiedTypes, SMT
<1>4. Admissible(Stamped(Scheduled, id, time))
  <2> DEFINE a == [persistence_indicator |-> "yes"]
  <2>1. Scheduled = Event("agent.automation.scheduled", "scheduled_task", "agent_action", a, None, {})
    BY Zenon DEF Scheduled
  <2>2. Keeps(a, OtherShape("agent.automation.scheduled")) /\ Plain(a)
    BY SchedulesFit, OtherShapes, Zenon
  <2> HIDE DEF a
  <2> QED
    BY <2>1, <2>2, UnclassifiedAdmitted, UnclassifiedTypes, SMT
<1>5. ASSUME NEW o, o.tool \in ToolNames PROVE Admissible(Stamped(Untrusted(o), id, time))
  <2> DEFINE a == Untrusted(o).attributes
  <2>1. Untrusted(o) = Event("agent.content.ingested", "mcp_tool", "untrusted_content", a,
                             ArtifactFor(o, "untrusted_content"), {})
    BY SMT DEF Untrusted, Event
  <2>2. Keeps(a, OtherShape("agent.content.ingested")) /\ Plain(a)
    BY <1>5, ContentsFit, OtherShapes, Zenon
  <2> HIDE DEF a
  <2> QED
    BY <2>1, <2>2, UnclassifiedAdmitted, UnclassifiedTypes, ArtifactsAgree, SMT
<1> QED
  BY <1>1, <1>2, <1>3, <1>4, <1>5

LEMMA SimulationsAdmitted ==
  ASSUME NEW id \in Nat, NEW time
  PROVE  Admissible(Stamped(Simulated[1], id, time))
<1> DEFINE a == Simulated[1].attributes
           redacted == {}
           e == Stamped(Event("agent.tool.completed", "mcp_tool", "tool_output", a, None, redacted),
                        id, time)
<1>1. Simulated[1] = Event("agent.tool.completed", "mcp_tool", "tool_output", a, None, redacted)
  BY SMT DEF Simulated, Event
<1>2. /\ e.type = "agent.tool.completed" /\ e.kind = "mcp_tool" /\ e.profile = "plugin"
      /\ e.attributes = a
  BY EventFields, StampedFields, SMT
<1>3. /\ DOMAIN a = {"hook", "tool_name", "result_omitted", "result_length", "network_indicator",
                     "direct_ip", "delivery_indicator", "sensitive_access",
                     "prompt_injection_indicator", "malware_indicator", "malware_signature",
                     "rule_id"}
      /\ a.tool_name = "simulation" /\ a.direct_ip = "no" /\ a.malware_indicator = "yes"
  BY SMT DEF Simulated, Event
<1>4. Trust("agent.tool.completed") = "tool_output"
  BY TrustOfTypes, SMT DEF Informational
<1>5. "mcp_tool" \in Kinds("agent.tool.completed")
  BY KindsOfTypes, SMT DEF Informational
<1>6. Mapped(e).class = "mcp"
  <2> HIDE DEF e, a
  <2>1. "simulation" \notin ({"read_file", "search_files", "write_file", "patch"}
                            \union ProcessTools \union DeliveryTools)
    BY SMT DEF ProcessTools, DeliveryTools
  <2>2. ToolMapping(e.attributes.tool_name, e.kind = "mcp_tool").class = "mcp"
    BY <1>2, <1>3, <2>1, OtherToolsAreMcp, Zenon
  <2>3. Mapped(e) = ToolMapping(e.attributes.tool_name, e.kind = "mcp_tool")
    BY <1>2, Zenon DEF Mapped
  <2> QED
    BY <2>2, <2>3, Zenon
<1>7. ClassesAgree(e) /\ KindAgrees(e) /\ SignatureAgrees(e.attributes)
  BY <1>2, <1>3, <1>6, SMT DEF ClassesAgree, KindAgrees, SignatureAgrees, Yes, Has
<1>8. "agent.tool.completed" \notin Requests
  BY SMT DEF Requests
<1>9. Keeps(a, Shape(e)) /\ Plain(a) /\ Consistent(e)
  BY <1>2, <1>7, <1>8, SimulationsFit, PluginShapes, ConsistencyOfTypes, Zenon
<1>10. /\ \A f, g \in redacted : f = g
       /\ \A f \in redacted : f.path # "details" /\ RedactionHolds(e, f)
  OBVIOUS
<1> HIDE DEF redacted, a
<1> QED
  BY <1>1, <1>4, <1>5, <1>9, <1>10, PluginAdmissible, Zenon

(* What the daemon refuses of the plugin.                                   *)
LEMMA PluginIsUnderstood ==
  ASSUME NEW o \in Observations, NEW i \in DOMAIN EventsOf(o), NEW id \in Nat, NEW time, NEW e,
         e = Stamped(EventsOf(o)[i], id, time), ~ Admissible(e)
  PROVE  \/ \E f \in e.redacted : f.path = "result_preview"
         \/ Has(e.attributes, "message_count", "more")
<1> DEFINE sent == EventsOf(o)[i]
<1>1. o \in Observation /\ Reportable(sent, o)
  BY ObservedAssumption, HooksSendReportable
<1>2. o.hook \in {"pre_tool_call", "post_tool_call"} => o.tool \in ToolNames
  BY ToolsAssumption
<1>3. o.messages \in {None, "zero", "few", "many", "more"}
  BY <1>1 DEF Observation
<1> HIDE DEF sent
<1>4. CASE sent = Completed(o) /\ o.secret
  <2>1. e.redacted = {RedactedField("result_preview", "secret", "<secret>")}
    <3>1. Completed(o) = Event("agent.tool.completed", SourceKind(o.tool), "tool_output",
                               ResultAttributes(o), ArtifactFor(o, "tool_output"),
                               {RedactedField("result_preview", "secret", "<secret>")})
      BY <1>4, Zenon DEF Completed
    <3>2. e = Stamped(Completed(o), id, time)
      BY <1>4 DEF sent
    <3> QED
      BY <3>1, <3>2, EventFields, StampedFields
  <2> QED
    BY <2>1, SMT DEF RedactedField
<1>5. CASE sent = PreLlm(o)[1] /\ o.messages = "more"
  <2>1. CASE o.messages # None
    <3>1. "message_count" \in DOMAIN PreLlm(o)[1].attributes
          /\ PreLlm(o)[1].attributes.message_count = "more"
      BY <1>5, <2>1, SMT DEF PreLlm, Event, With
    <3>2. DOMAIN PreLlm(o)[1] = Fields
      BY SMT DEF PreLlm, Event, Fields
    <3>3. e.attributes = PreLlm(o)[1].attributes
      BY <1>5, <3>2, StampedFields DEF sent
    <3> QED
      BY <3>1, <3>3 DEF Has
  <2>2. CASE o.messages = None
    <3>1. Admissible(Stamped(PreLlm(o)[1], id, time))
      BY <2>2, UnclassifiedAreAdmitted
    <3> QED
      BY <1>5, <3>1 DEF sent
  <2> QED
    BY <2>1, <2>2
<1>6. CASE ~ (sent = Completed(o) /\ o.secret) /\ ~ (sent = PreLlm(o)[1] /\ o.messages = "more")
  <2>1. e = Stamped(sent, id, time)
    BY DEF sent
  <2>2. Admissible(Stamped(sent, id, time))
    <3>1. CASE o.hook = "pre_tool_call" /\ sent = PreTool(o)[1]
      BY <1>2, <3>1, RequestsAdmitted
    <3>2. CASE o.hook = "post_tool_call" /\ sent = Completed(o)
      BY <1>2, <1>6, <3>2, ResultsAdmitted
    <3>3. CASE o.hook = "post_tool_call" /\ sent = Untrusted(o)
      BY <1>2, <3>3, UnclassifiedAreAdmitted
    <3>4. CASE sent = PreLlm(o)[1] /\ o.messages \in {None, "zero", "few", "many"}
      <4>1. Admissible(Stamped(PreLlm(o)[1], id, time))
        BY <3>4, UnclassifiedAreAdmitted
      <4> QED
        BY <3>4, <4>1
    <3>5. CASE sent \in {Scheduled, Session("agent.session.started")[1],
                         Session("agent.session.ended")[1], Simulated[1], Canary[1]}
      BY <3>5, UnclassifiedAreAdmitted, SimulationsAdmitted
    <3> QED
      <4>1. sent = PreLlm(o)[1] => o.messages \in {None, "zero", "few", "many"}
        BY <1>3, <1>6
      <4>2. sent = Completed(o) => ~ o.secret
        BY <1>6
      <4> QED
        BY <1>1, <3>1, <3>2, <3>3, <3>4, <3>5, <4>1, <4>2, Zenon DEF Reportable
  <2> QED
    BY <2>1, <2>2
<1> QED
  BY <1>4, <1>5, <1>6

----
(* Every event the daemon may be given.                                     *)
Known == pending \union raw \union refused

(* An event of the plugin, under the identifier id. *)
SentBy(o, i, id, time, event) ==
  /\ o \in Observations /\ i \in DOMAIN EventsOf(o)
  /\ event = Stamped(EventsOf(o)[i], id, time)

LEMMA PluginEvents ==
  ASSUME NEW o \in Observations, NEW i \in DOMAIN EventsOf(o)
  PROVE  LET event == EventsOf(o)[i]
         IN  /\ DOMAIN event = Fields
             /\ event.severity = "producer" /\ event.profile = "plugin"
             /\ event.tenant = Tenant /\ event.trace = Trace
             /\ event.parent = None /\ event.session = None
<1>1. Reportable(EventsOf(o)[i], o)
  BY ObservedAssumption, HooksSendReportable
<1> DEFINE ofPlugin(event) ==
      /\ DOMAIN event = Fields
      /\ event.severity = "producer" /\ event.profile = "plugin"
      /\ event.tenant = Tenant /\ event.trace = Trace
      /\ event.parent = None /\ event.session = None
<1>2. \A type, kind, trust, attributes, artifact, redacted :
        ofPlugin(Event(type, kind, trust, attributes, artifact, redacted))
  BY EventFields
<1> HIDE DEF ofPlugin
<1>3. ofPlugin(PreTool(o)[1])
  BY <1>2, Zenon DEF PreTool
<1>4. ofPlugin(Completed(o)) /\ ofPlugin(Scheduled) /\ ofPlugin(Untrusted(o))
  BY <1>2, Zenon DEF Completed, Scheduled, Untrusted
<1>5. ofPlugin(PreLlm(o)[1])
  BY <1>2, Zenon DEF PreLlm
<1>6. \A type : ofPlugin(Session(type)[1])
  BY <1>2, Zenon DEF Session
<1>7. ofPlugin(Simulated[1]) /\ ofPlugin(Canary[1])
  BY <1>2, Zenon DEF Simulated, Canary
<1>8. ofPlugin(EventsOf(o)[i])
  BY <1>1, <1>3, <1>4, <1>5, <1>6, <1>7, Zenon DEF Reportable
<1> QED
  BY <1>8 DEF ofPlugin

LEMMA DeliverableIsEvent ==
  ASSUME NEW event \in Deliverable
  PROVE  /\ DOMAIN event = Fields
         /\ event.id \in Nat /\ event.time \in Nat
         /\ \/ /\ \E o \in Observations : \E i \in DOMAIN EventsOf(o) :
                    event = Stamped(EventsOf(o)[i], event.id, event.time)
               /\ event.severity = "producer" /\ event.profile = "plugin"
               /\ event.trace = Trace /\ event.session = None
            \/ \E other \in OtherEvents :
                 /\ event.severity = "other"
                 /\ event.trace = other.trace /\ event.session = other.session
<1>1. CASE event \in {Stamped(sent, id, time) : sent \in Reports, id \in Nat, time \in Nat}
  <2>1. PICK o \in Observations, id \in Nat, time \in Nat : \E i \in DOMAIN EventsOf(o) :
          event = Stamped(EventsOf(o)[i], id, time)
    BY <1>1, SMT DEF Reports
  <2>2. PICK i \in DOMAIN EventsOf(o) : event = Stamped(EventsOf(o)[i], id, time)
    BY <2>1, Zenon
  <2> DEFINE sent == EventsOf(o)[i]
  <2>3. /\ DOMAIN sent = Fields /\ sent.severity = "producer" /\ sent.profile = "plugin"
        /\ sent.trace = Trace /\ sent.session = None
    BY PluginEvents
  <2>4. event = Stamped(sent, id, time)
    BY <2>2
  <2> HIDE DEF sent
  <2>5. /\ DOMAIN event = Fields /\ event.id = id /\ event.time = time
        /\ event.severity = "producer" /\ event.profile = "plugin"
        /\ event.trace = Trace /\ event.session = None
    BY <2>3, <2>4, StampedFields
  <2> QED
    BY <2>2, <2>5, Zenon
<1>2. CASE event \in {Identified(other, id, time) : other \in OtherEvents, id \in Nat, time \in Nat}
  <2>1. PICK other \in OtherEvents, id \in Nat, time \in Nat : event = Identified(other, id, time)
    BY <1>2, SMT
  <2>2. DOMAIN other = Fields /\ other.severity = "other"
    BY ObservedAssumption
  <2> QED
    BY <2>1, <2>2, IdentifiedFields
<1> QED
  BY <1>1, <1>2 DEF Deliverable

----
(* What every event that was given out has: an identifier of its own, one    *)
(* that was given; and once it is admitted, its row and its projection.     *)
Given(id, top) == \E n \in 1 .. MaxCount : n <= top /\ id = IdentifierOf[n]

KnownEvents ==
  /\ Known \subseteq Deliverable
  /\ \A event \in Known : Given(event.id, last)
  /\ \A a, b \in Known : a.id = b.id => a = b

Answers ==
  /\ rows = {Projected(event) : event \in raw}
  /\ \A event \in raw : FrameOf(event) \in events
  /\ \A event \in refused : ~ Admissible(event)

Clock == now \in Nat /\ last \in Nat

ObservedInvariant == Clock /\ KnownEvents /\ Answers

LEMMA ObservedInvariantInit == Init => ObservedInvariant
BY ObservedAssumption DEF Init, ObservedInvariant, Clock, KnownEvents, Answers, Known

(* Counts beyond one give identifiers that were not given up to it.          *)
LEMMA CountsGive ==
  ASSUME NEW top \in Nat, NEW n \in Nat, top < n, n <= MaxCount
  PROVE  /\ n \in 1 .. MaxCount /\ IdentifierOf[n] \in Nat
         /\ ~ Given(IdentifierOf[n], top)
         /\ \A more \in Nat : n <= more => Given(IdentifierOf[n], more)
         /\ \A id, more : more \in Nat /\ top <= more /\ Given(id, top) => Given(id, more)
<1>1. MaxCount \in Nat /\ n \in 1 .. MaxCount
  BY ObservedAssumption
<1>2. IdentifierOf[n] \in Nat
  BY <1>1, ObservedAssumption
<1>3. ~ Given(IdentifierOf[n], top)
  BY <1>1, ObservedAssumption DEF Given
<1> QED
  BY <1>1, <1>2, <1>3 DEF Given

LEMMA GapsAreTimes ==
  ASSUME Clock, NEW gap \in IF observed = <<>> THEN {0} ELSE Gaps
  PROVE  gap \in Nat /\ now + gap \in Nat /\ now <= now + gap
<1>1. gap \in Nat
  BY ObservedAssumption
<1> QED
  BY <1>1 DEF Clock

(* The identifiers an observation gives are new.                            *)
LEMMA ObserveAddsKnown ==
  ASSUME ObservedInvariant, NEW o \in Observations, NEW time \in Nat,
         last + Len(EventsOf(o)) <= MaxCount, last' = last + Len(EventsOf(o)), now' = time,
         pending' = pending \union {Stamped(EventsOf(o)[i], IdentifierOf[last + i], time) :
                                       i \in DOMAIN EventsOf(o)},
         UNCHANGED <<events, rows, raw, refused>>
  PROVE  ObservedInvariant'
<1> DEFINE new == EventsOf(o)
<1>1. o \in Observation
  BY ObservedAssumption
<1>2. Len(new) \in Nat /\ DOMAIN new = 1 .. Len(new)
  BY <1>1, HooksSendSequences
<1>3. ASSUME NEW i \in DOMAIN new
      PROVE  LET id == IdentifierOf[last + i]
                 event == Stamped(new[i], id, time)
             IN  /\ event \in Deliverable /\ event.id = id
                 /\ last + i \in 1 .. MaxCount /\ ~ Given(id, last) /\ Given(id, last')
                 /\ last \in Nat /\ i \in Nat
  <2>1. DOMAIN new[i] = Fields
    BY PluginEvents
  <2>2. last \in Nat /\ i \in Nat /\ 0 < i /\ i <= Len(new)
    BY <1>2, <1>3 DEF ObservedInvariant, Clock
  <2>3. new[i] \in Reports
    BY SMT DEF Reports
  <2> DEFINE sent == new[i]
             id == IdentifierOf[last + i]
  <2>4. last' \in Nat /\ last + i \in Nat /\ last < last + i /\ last + i <= last'
    BY <1>2, <2>2
  <2>5. last + i <= MaxCount /\ MaxCount \in Nat
    BY <1>2, <2>2, ObservedAssumption
  <2>6. /\ last + i \in 1 .. MaxCount /\ id \in Nat
        /\ ~ Given(id, last) /\ Given(id, last')
    BY <2>2, <2>4, <2>5, CountsGive
  <2> HIDE DEF new, id
  <2>7. Stamped(sent, id, time) \in Deliverable
    BY <2>3, <2>6, SMT DEF Deliverable
  <2> HIDE DEF sent
  <2>8. Stamped(sent, id, time).id = id
    BY <2>1, StampedFields DEF sent
  <2> QED
    BY <2>2, <2>6, <2>7, <2>8 DEF sent, id
<1> DEFINE added == {Stamped(new[i], IdentifierOf[last + i], time) : i \in DOMAIN new}
<1>4. Known' = Known \union added
  BY DEF Known
<1>5. \A event \in added : \E i \in DOMAIN new :
        /\ event = Stamped(new[i], IdentifierOf[last + i], time)
        /\ event.id = IdentifierOf[last + i]
  BY <1>3
<1>6. \A a, b \in added : a.id = b.id => a = b
  <2> SUFFICES ASSUME NEW a \in added, NEW b \in added, a.id = b.id PROVE a = b
    OBVIOUS
  <2>1. PICK i \in DOMAIN new : /\ a = Stamped(new[i], IdentifierOf[last + i], time)
                                /\ a.id = IdentifierOf[last + i]
    BY <1>5
  <2>2. PICK j \in DOMAIN new : /\ b = Stamped(new[j], IdentifierOf[last + j], time)
                                /\ b.id = IdentifierOf[last + j]
    BY <1>5
  <2>3. last + i \in 1 .. MaxCount /\ last + j \in 1 .. MaxCount
        /\ last \in Nat /\ i \in Nat /\ j \in Nat
    BY <1>3
  <2>4. last + i = last + j
    BY <2>1, <2>2, <2>3, ObservedAssumption
  <2>5. i = j
    BY <2>3, <2>4
  <2> QED
    BY <2>1, <2>2, <2>5
<1>7. \A event \in added : /\ event \in Deliverable
                           /\ ~ Given(event.id, last) /\ Given(event.id, last')
  BY <1>3
<1> HIDE DEF added, new
<1>8. KnownEvents'
  <2>1. Known' \subseteq Deliverable
    BY <1>4, <1>7 DEF ObservedInvariant, KnownEvents
  <2>2. \A event \in Known : Given(event.id, last) /\ Given(event.id, last')
    BY <1>2 DEF ObservedInvariant, KnownEvents, Clock, Given, new
  <2>3. \A a, b \in Known : a.id = b.id => a = b
    BY DEF ObservedInvariant, KnownEvents
  <2>4. \A a, b \in Known' : a.id = b.id => a = b
    BY <1>4, <1>6, <1>7, <2>2, <2>3
  <2>5. \A event \in Known' : Given(event.id, last')
    BY <1>4, <1>7, <2>2
  <2> QED
    BY <2>1, <2>4, <2>5, Zenon DEF KnownEvents, Given
<1>9. Clock' /\ Answers'
  BY <1>2 DEF ObservedInvariant, Clock, Answers, new
<1> QED
  BY <1>8, <1>9 DEF ObservedInvariant

LEMMA OtherAddsKnown ==
  ASSUME ObservedInvariant, NEW other \in OtherEvents, SendOther(other)
  PROVE  ObservedInvariant'
<1> DEFINE id == IdentifierOf[last + 1]
           event == Identified(other, id, now)
<1>1. last \in Nat /\ last + 1 \in Nat /\ last < last + 1 /\ now \in Nat
  BY DEF ObservedInvariant, Clock
<1>2. last' = last + 1 /\ now' = now /\ last + 1 <= MaxCount
  BY <1>1, ObservedAssumption DEF SendOther
<1>3. id \in Nat /\ ~ Given(id, last) /\ Given(id, last')
  BY <1>1, <1>2, CountsGive
<1>4. Known' = Known \union {event}
  BY DEF SendOther, Known
<1> HIDE DEF id
<1>5. event \in Deliverable /\ event.id = id
  <2>1. DOMAIN other = Fields
    BY ObservedAssumption
  <2>2. event \in Deliverable
    BY <1>1, <1>3, SMT DEF Deliverable
  <2> QED
    BY <2>1, <2>2, IdentifiedFields
<1> HIDE DEF event
<1>6. KnownEvents'
  <2>1. \A a \in Known : a \in Deliverable /\ Given(a.id, last) /\ Given(a.id, last')
    BY <1>1, <1>2 DEF ObservedInvariant, KnownEvents, Given
  <2>2. \A a, b \in Known : a.id = b.id => a = b
    BY DEF ObservedInvariant, KnownEvents
  <2>3. \A a, b \in Known' : a.id = b.id => a = b
    BY <1>3, <1>4, <1>5, <2>1, <2>2
  <2>4. \A a \in Known' : a \in Deliverable /\ Given(a.id, last')
    BY <1>3, <1>4, <1>5, <2>1
  <2> QED
    BY <2>3, <2>4, Zenon DEF KnownEvents, Given
<1>7. Clock' /\ Answers'
  BY <1>1, <1>2 DEF ObservedInvariant, Clock, Answers, SendOther
<1> QED
  BY <1>6, <1>7 DEF ObservedInvariant

(* An answer to an event makes it no other event.                           *)
LEMMA AnswersKeepKnown ==
  ASSUME ObservedInvariant, NEW event \in pending, Deliver(event) \/ Reject(event)
  PROVE  ObservedInvariant' /\ Known' = Known
<1>1. Known' = Known /\ UNCHANGED <<now, last>>
  BY DEF Deliver, Reject, Known
<1>2. Clock' /\ KnownEvents'
  BY <1>1 DEF ObservedInvariant, Clock, KnownEvents
<1>3. Answers'
  <2>1. CASE Deliver(event)
    <3>1. /\ rows' = rows \union {Projected(event)} /\ raw' = raw \union {event}
          /\ events' = events \union {FrameOf(event)} /\ refused' = refused
      BY <2>1 DEF Deliver, Record
    <3> QED
      BY <3>1 DEF ObservedInvariant, Answers
  <2>2. CASE Reject(event)
    BY <2>2 DEF ObservedInvariant, Answers, Reject
  <2> QED
    BY <2>1, <2>2
<1> QED
  BY <1>1, <1>2, <1>3 DEF ObservedInvariant

LEMMA ObservedInvariantStep == ObservedInvariant /\ [Next]_vars => ObservedInvariant'
<1> SUFFICES ASSUME ObservedInvariant, [Next]_vars PROVE ObservedInvariant'
  OBVIOUS
<1>1. ASSUME NEW o \in Observations, Observe(o) PROVE ObservedInvariant'
  <2>1. PICK gap \in IF observed = <<>> THEN {0} ELSE Gaps :
          /\ now' = now + gap
          /\ last' = last + Len(EventsOf(o))
          /\ pending' = pending \union {Stamped(EventsOf(o)[i], IdentifierOf[last + i], now + gap) :
                                          i \in DOMAIN EventsOf(o)}
    BY <1>1 DEF Observe
  <2>2. now + gap \in Nat
    BY GapsAreTimes DEF ObservedInvariant
  <2>3. last + Len(EventsOf(o)) <= MaxCount /\ UNCHANGED <<events, rows, raw, refused>>
    BY <1>1 DEF Observe
  <2> QED
    BY <2>1, <2>2, <2>3, ObserveAddsKnown
<1>2. ASSUME NEW other \in OtherEvents, SendOther(other) PROVE ObservedInvariant'
  BY <1>2, OtherAddsKnown
<1>3. ASSUME NEW event \in pending, Deliver(event) \/ Reject(event) PROVE ObservedInvariant'
  BY <1>3, AnswersKeepKnown
<1>4. CASE UNCHANGED vars
  BY <1>4 DEF vars, ObservedInvariant, Clock, KnownEvents, Answers, Known
<1> QED
  BY <1>1, <1>2, <1>3, <1>4 DEF Next

LEMMA ObservedInvariantHolds == Spec => []ObservedInvariant
BY ObservedInvariantInit, ObservedInvariantStep, PTL DEF Spec

(* The daemon refuses of the plugin what its checks and the plugin disagree  *)
(* on, and nothing else: OnlyKnownRefusals of every execution, for every set *)
(* of observations.  In particular every tool the plugin names and every     *)
(* combination of what its expressions find is understood by the daemon.    *)
THEOREM PluginEventsAreUnderstood == Spec => []OnlyKnownRefusals
<1>1. ObservedInvariant => OnlyKnownRefusals
  <2> SUFFICES ASSUME ObservedInvariant, NEW event \in refused, event.severity # "other"
               PROVE  \/ \E f \in event.redacted : f.path = "result_preview"
                      \/ Has(event.attributes, "message_count", "more")
    BY DEF OnlyKnownRefusals
  <2>1. event \in Deliverable /\ ~ Admissible(event)
    BY DEF ObservedInvariant, KnownEvents, Answers, Known
  <2>2. event.id \in Nat
    BY <2>1, DeliverableIsEvent
  <2>3. PICK o \in Observations : \E i \in DOMAIN EventsOf(o) :
          event = Stamped(EventsOf(o)[i], event.id, event.time)
    BY <2>1, DeliverableIsEvent
  <2>4. PICK i \in DOMAIN EventsOf(o) : event = Stamped(EventsOf(o)[i], event.id, event.time)
    BY <2>3
  <2> QED
    BY <2>1, <2>2, <2>4, PluginIsUnderstood
<1> QED
  BY <1>1, ObservedInvariantHolds, PTL

----
(* A recorded event has one row, its projection.                            *)
LEMMA RowIsProjected ==
  ASSUME ObservedInvariant, NEW event \in raw
  PROVE  RowOf(event) = Projected(event)
<1>1. \A e \in raw : e \in Known /\ DOMAIN e = Fields
  BY DeliverableIsEvent DEF ObservedInvariant, KnownEvents, Known
<1>2. \A e \in raw : Projected(e).id = e.id
  BY <1>1, ProjectedFields
<1>3. \A row \in rows : row.id = event.id => row = Projected(event)
  <2> SUFFICES ASSUME NEW row \in rows, row.id = event.id PROVE row = Projected(event)
    OBVIOUS
  <2>1. PICK e \in raw : row = Projected(e)
    BY DEF ObservedInvariant, Answers
  <2>2. e.id = event.id
    BY <1>2, <2>1
  <2> QED
    BY <1>1, <2>1, <2>2 DEF ObservedInvariant, KnownEvents
<1>4. Projected(event) \in rows /\ Projected(event).id = event.id
  BY <1>2 DEF ObservedInvariant, Answers
<1> QED
  BY <1>3, <1>4 DEF RowOf

Identities ==
  {None, Trace} \union UNION {{event.trace, event.session} : event \in OtherEvents}

LEMMA PseudonymsAreFaithful ==
  ASSUME NEW domain \in {"trace", "session"}, NEW a \in Identities, NEW b \in Identities
  PROVE  /\ Pseudonym(domain, a) = None <=> a = None
         /\ Pseudonym(domain, a) = Pseudonym(domain, b) <=> a = b
<1>1. \A name \in Identities : name # None => None # [domain |-> domain, of |-> name]
  BY IdentityAssumption DEF Identities
<1>2. \A name \in Identities :
        Pseudonym(domain, name) = IF name = None THEN None ELSE [domain |-> domain, of |-> name]
  BY DEF Pseudonym
<1>3. [domain |-> domain, of |-> a] = [domain |-> domain, of |-> b] => a = b
  <2>1. [domain |-> domain, of |-> a].of = a /\ [domain |-> domain, of |-> b].of = b
    OBVIOUS
  <2> QED
    BY <2>1
<1> QED
  BY <1>1, <1>2, <1>3

LEMMA DeliverableIdentities ==
  ASSUME NEW event \in Deliverable
  PROVE  event.trace \in Identities /\ event.session \in Identities
BY DeliverableIsEvent DEF Identities

(* The pseudonyms the daemon stores join two rows exactly when the events    *)
(* their producers sent would: JoinsSurvive of every execution, so that      *)
(* correlating the rows is correlating what was observed.                   *)
THEOREM JoinsAreFaithful == Spec => []JoinsSurvive
<1>1. ObservedInvariant => JoinsSurvive
  <2> SUFFICES ASSUME ObservedInvariant, NEW a \in raw, NEW b \in raw
               PROVE  /\ SameJoin(RowOf(a), RowOf(b)) <=> SameJoin(a, b)
                      /\ P1Joined(RowOf(a), RowOf(b)) <=> P1Joined(a, b)
    BY DEF JoinsSurvive
  <2>1. a \in Deliverable /\ b \in Deliverable
    BY DEF ObservedInvariant, KnownEvents, Known
  <2>2. /\ a.trace \in Identities /\ a.session \in Identities
        /\ b.trace \in Identities /\ b.session \in Identities
        /\ DOMAIN a = Fields /\ DOMAIN b = Fields
    BY <2>1, DeliverableIdentities, DeliverableIsEvent
  <2>3. /\ RowOf(a) = Projected(a) /\ RowOf(b) = Projected(b)
    BY RowIsProjected
  <2> DEFINE x == RowOf(a)
             y == RowOf(b)
  <2>4. /\ x.trace = Pseudonym("trace", a.trace) /\ x.session = Pseudonym("session", a.session)
        /\ y.trace = Pseudonym("trace", b.trace) /\ y.session = Pseudonym("session", b.session)
    BY <2>2, <2>3, ProjectedFields, Zenon
  <2>5. /\ x.trace = None <=> a.trace = None
        /\ y.trace = None <=> b.trace = None
        /\ x.trace = y.trace <=> a.trace = b.trace
        /\ x.session = None <=> a.session = None
        /\ x.session = y.session <=> a.session = b.session
    BY <2>2, <2>4, PseudonymsAreFaithful
  <2> QED
    BY <2>5, Zenon DEF SameJoin, P1Joined
<1> QED
  BY <1>1, ObservedInvariantHolds, PTL

----
(* What was observed: its events were given out.                            *)
Moment == [o : Observations, at : Nat, ids : SUBSET Nat]

GivenOut(x, given) ==
  \A i \in DOMAIN EventsOf(x.o) :
    \E id \in x.ids : Stamped(EventsOf(x.o)[i], id, x.at) \in given

History ==
  /\ observed \in Seq(Moment)
  /\ \A i \in DOMAIN observed : GivenOut(observed[i], Known)

LEMMA HistoryInit == Init => History
BY DEF Init, History

LEMMA Moments ==
  ASSUME History
  PROVE  /\ Len(observed) \in Nat /\ DOMAIN observed = 1 .. Len(observed)
         /\ \A i \in DOMAIN observed :
              /\ observed[i].o \in Observations /\ observed[i].at \in Nat
              /\ observed[i].ids \subseteq Nat
<1>1. /\ Len(observed) \in Nat /\ DOMAIN observed = 1 .. Len(observed)
      /\ \A i \in DOMAIN observed : observed[i] \in Moment
  BY DEF History
<1>2. \A x \in Moment : x.o \in Observations /\ x.at \in Nat /\ x.ids \subseteq Nat
  BY DEF Moment
<1> QED
  BY <1>1, <1>2

LEMMA HistoryObserve ==
  ASSUME ObservedInvariant, History, NEW o \in Observations, Observe(o)
  PROVE  History'
<1>1. PICK gap \in IF observed = <<>> THEN {0} ELSE Gaps :
        /\ now' = now + gap
        /\ observed' = Append(observed, [o |-> o, at |-> now + gap,
                                         ids |-> {IdentifierOf[last + i] : i \in DOMAIN EventsOf(o)}])
        /\ pending' = pending \union {Stamped(EventsOf(o)[i], IdentifierOf[last + i], now + gap) :
                                        i \in DOMAIN EventsOf(o)}
  BY DEF Observe
<1> DEFINE new == EventsOf(o)
           ids == {IdentifierOf[last + i] : i \in DOMAIN new}
           x == [o |-> o, at |-> now + gap, ids |-> ids]
           n == Len(observed)
<1>2. now + gap \in Nat /\ last \in Nat
  BY GapsAreTimes DEF ObservedInvariant, Clock
<1>3. ids \subseteq Nat
  <2>1. Len(new) \in Nat /\ DOMAIN new = 1 .. Len(new)
    BY ObservedAssumption, HooksSendSequences
  <2>2. last + Len(new) <= MaxCount /\ MaxCount \in Nat
    BY ObservedAssumption DEF Observe
  <2> HIDE DEF new
  <2>3. \A i \in DOMAIN new : last + i \in 1 .. MaxCount
    BY <1>2, <2>1, <2>2
  <2> QED
    BY <2>3, ObservedAssumption
<1>4. x \in Moment
  <2> HIDE DEF ids
  <2> QED
    BY <1>2, <1>3 DEF Moment
<1>5. n \in Nat /\ DOMAIN observed = 1 .. n
  BY Moments
<1>6. Known' = Known \union {Stamped(new[i], IdentifierOf[last + i], now + gap) : i \in DOMAIN new}
  BY <1>1 DEF Known, Observe
<1>7. x.o = o /\ x.at = now + gap /\ x.ids = ids
  OBVIOUS
<1>8. GivenOut(x, Known')
  <2>1. ASSUME NEW i \in DOMAIN new
        PROVE  \E id \in x.ids : Stamped(new[i], id, x.at) \in Known'
    <3>1. IdentifierOf[last + i] \in x.ids /\ Stamped(new[i], IdentifierOf[last + i], x.at) \in Known'
      BY <1>6, <1>7
    <3> QED
      BY <3>1
  <2> HIDE DEF x, new
  <2> QED
    BY <1>7, <2>1, Zenon DEF GivenOut, new
<1> HIDE DEF x, ids, new
<1>9. observed' = Append(observed, x)
  BY <1>1 DEF x, ids, new
<1>10. /\ observed' \in Seq(Moment) /\ DOMAIN observed' = 1 .. n + 1
       /\ observed'[n + 1] = x
       /\ \A i \in DOMAIN observed : observed'[i] = observed[i]
  BY <1>4, <1>5, <1>9 DEF History
<1>11. ASSUME NEW i \in DOMAIN observed PROVE GivenOut(observed[i], Known')
  <2>1. GivenOut(observed[i], Known) /\ Known \subseteq Known'
    BY <1>6 DEF History
  <2> QED
    BY <2>1 DEF GivenOut
<1>12. ASSUME NEW i \in 1 .. n + 1 PROVE GivenOut(observed'[i], Known')
  <2>1. CASE i = n + 1
    BY <2>1, <1>8, <1>10
  <2>2. CASE i \in DOMAIN observed
    BY <2>2, <1>10, <1>11
  <2> QED
    BY <1>5, <2>1, <2>2
<1> QED
  BY <1>10, <1>12 DEF History

LEMMA HistoryStep == ObservedInvariant /\ History /\ [Next]_vars => History'
<1> SUFFICES ASSUME ObservedInvariant, History, [Next]_vars PROVE History'
  OBVIOUS
<1>1. ASSUME NEW o \in Observations, Observe(o) PROVE History'
  BY <1>1, HistoryObserve
<1>2. ASSUME observed' = observed, Known \subseteq Known' PROVE History'
  <2>1. ASSUME NEW i \in DOMAIN observed PROVE GivenOut(observed[i], Known')
    BY <1>2 DEF History, GivenOut
  <2> QED
    BY <1>2, <2>1 DEF History
<1>3. ASSUME NEW other \in OtherEvents, SendOther(other) PROVE History'
  BY <1>2, <1>3 DEF SendOther, Known
<1>4. ASSUME NEW event \in pending, Deliver(event) \/ Reject(event) PROVE History'
  <2>1. Known' = Known
    BY <1>4, AnswersKeepKnown
  <2>2. observed' = observed
    BY <1>4 DEF Deliver, Reject
  <2> QED
    BY <1>2, <2>1, <2>2
<1>5. CASE UNCHANGED vars
  BY <1>2, <1>5 DEF vars, Known
<1> QED
  BY <1>1, <1>3, <1>4, <1>5 DEF Next

LEMMA HistoryHolds == Spec => []History
BY HistoryInit, HistoryStep, ObservedInvariantHolds, PTL DEF Spec

(* What was observed and is settled is recorded.                            *)
LEMMA SettledIsRecorded ==
  ASSUME ObservedInvariant, History, NEW x \in Seen, Settled(x), NEW i \in DOMAIN EventsOf(x.o)
  PROVE  \E id \in x.ids : LET event == Stamped(EventsOf(x.o)[i], id, x.at)
                           IN  event \in raw /\ FrameOf(event) \in events
<1>1. PICK id \in x.ids : Stamped(EventsOf(x.o)[i], id, x.at) \in Known
  BY DEF Seen, History, GivenOut
<1> DEFINE event == Stamped(EventsOf(x.o)[i], id, x.at)
<1>2. x.o \in Observations
  BY Moments DEF Seen
<1>3. event.id = id
  <2>1. DOMAIN EventsOf(x.o)[i] = Fields
    BY <1>2, PluginEvents
  <2> QED
    BY <2>1, StampedFields
<1> HIDE DEF event
<1>4. PICK row \in rows : row.id = id
  BY DEF Settled
<1>5. PICK e \in raw : row = Projected(e)
  BY <1>4 DEF ObservedInvariant, Answers
<1>6. e \in Known /\ DOMAIN e = Fields
  BY DeliverableIsEvent DEF ObservedInvariant, KnownEvents, Known
<1>7. e.id = id
  BY <1>4, <1>5, <1>6, ProjectedFields, Zenon
<1>8. event = e
  BY <1>1, <1>3, <1>6, <1>7 DEF ObservedInvariant, KnownEvents, event
<1> QED
  BY <1>5, <1>8 DEF ObservedInvariant, Answers, event

----
(* What the daemon stores of the plugin's events, and what its rules make of *)
(* it when they read it back.                                               *)
Kept(attributes, dropped) == [key \in DOMAIN attributes \ dropped |-> attributes[key]]

LEMMA KeptAttributes ==
  ASSUME NEW a, Plain(a), NEW dropped, NEW more, DOMAIN more \subseteq DOMAIN a \ dropped,
         NEW kept, kept = [key \in DOMAIN a \ dropped |-> a[key]]
  PROVE  With(kept, more) = kept /\ RedactedAttributes(kept) = kept
<1>1. DOMAIN kept = DOMAIN a \ dropped
  OBVIOUS
<1>2. With(kept, more) = kept
  BY <1>1 DEF With
<1>3. Plain(kept)
  BY DEF Plain
<1> QED
  BY <1>2, <1>3, PlainIsKept

(* The keys of a stored request and of stored content. *)
LEMMA StoredKeys ==
  ASSUME NEW event, event.profile = "plugin"
  PROVE  LET a == event.attributes
             kept == Kept(a, Shape(event).dropped)
         IN  /\ event.type \in Requests =>
                  StoredAttributes(event) =
                    With(kept, [tool_class |-> Mapped(event).class,
                                access_class |-> Mapped(event).access])
             /\ event.type \notin Requests \union {"agent.tool.completed"} =>
                  StoredAttributes(event) = kept
<1>1. ~ IsP0Exception(event)
  BY SMT DEF IsP0Exception
<1> QED
  BY <1>1, Zenon DEF StoredAttributes, Kept

(* A request as it is read back. *)
RequestRow(row, o, id, time) ==
  /\ row.id = id /\ row.time = time /\ row.trace = Pseudonym("trace", Trace)
  /\ row.profile = "plugin" /\ row.trust = "agent_action" /\ row.type = RequestType(o)
  /\ row.kind = IF RequestType(o) = "agent.network.egress" THEN "network" ELSE SourceKind(o.tool)
  /\ row.attributes.tool_class = ToolClassesOf(o.tool)[1]
  /\ Yes(row.attributes, "network_indicator") <=> o.network
  /\ Yes(row.attributes, "direct_ip") <=> (o.network /\ o.ip)
  /\ Yes(row.attributes, "delivery_indicator") <=> o.tool \in PluginDeliveryTools
  /\ Yes(row.attributes, "sensitive_access") <=> o.sensitive

LEMMA RequestIsStored ==
  ASSUME NEW o, o.tool \in ToolNames, NEW id, NEW time
  PROVE  RequestRow(ReadBack(Projected(Stamped(PreTool(o)[1], id, time))), o, id, time)
<1> DEFINE redacted == IF o.sensitive THEN {RedactedField("params_preview", "policy", "<omitted>")}
                       ELSE {}
           sent == Event(RequestType(o), SourceKind(o.tool), "agent_action", RequestAttributes(o),
                         ArtifactFor(o, "agent_action"), redacted)
           e == Stamped(sent, id, time)
           a == RequestAttributes(o)
           kept == Kept(a, RequestShape.dropped)
           row == ReadBack(Projected(e))
<1>1. PreTool(o)[1] = sent
  BY Zenon DEF PreTool
<1> HIDE DEF redacted
<1>2. DOMAIN sent = Fields
  BY EventFields
<1>3. /\ sent.type = RequestType(o) /\ sent.kind = SourceKind(o.tool) /\ sent.trust = "agent_action"
      /\ sent.profile = "plugin" /\ sent.trace = Trace /\ sent.attributes = a
  BY EventFields
<1> HIDE DEF sent
<1>4. /\ DOMAIN e = Fields /\ e.id = id /\ e.time = time
      /\ e.type = RequestType(o) /\ e.kind = SourceKind(o.tool) /\ e.trust = "agent_action"
      /\ e.profile = "plugin" /\ e.trace = Trace /\ e.attributes = a
  BY <1>2, <1>3, StampedFields
<1> HIDE DEF e
<1>5. RequestType(o) \in Requests
  BY RequestTypes
<1>6. Shape(e) = RequestShape
  BY <1>4, <1>5, PluginShapes, Zenon
<1>7. StoredAttributes(e) = With(kept, [tool_class |-> Mapped(e).class,
                                        access_class |-> Mapped(e).access])
  BY <1>4, <1>5, <1>6, StoredKeys, Zenon
<1>8. /\ DOMAIN a \ RequestShape.dropped = DOMAIN kept
      /\ RequestShape.dropped = {"hook", "tool_name", "params_length", "params_preview"}
  BY SMT DEF RequestShape, Kept
<1> HIDE DEF a
<1>9. IndicatorsHold(a, o) /\ Plain(a)
  BY RequestAttributesAre, RequestsFit DEF a
<1>10. {"tool_class", "access_class", "network_indicator", "direct_ip", "delivery_indicator",
        "sensitive_access"} \subseteq DOMAIN a \ RequestShape.dropped
  BY <1>8, <1>9, SMT DEF IndicatorsHold, IndicatorKeys
<1>11. StoredAttributes(e) = kept /\ RedactedAttributes(kept) = kept
  <2> DEFINE more == [tool_class |-> Mapped(e).class, access_class |-> Mapped(e).access]
  <2>1. DOMAIN more \subseteq DOMAIN a \ RequestShape.dropped
    BY <1>10
  <2>2. kept = [key \in DOMAIN a \ RequestShape.dropped |-> a[key]]
    BY DEF Kept
  <2> HIDE DEF kept
  <2>3. StoredAttributes(e) = With(kept, more)
    BY <1>7
  <2> HIDE DEF more
  <2>4. With(kept, more) = kept /\ RedactedAttributes(kept) = kept
    BY <1>9, <2>1, <2>2, KeptAttributes
  <2> QED
    BY <2>3, <2>4
<1>12. row = ReadBack(Projected(Stamped(PreTool(o)[1], id, time)))
  BY <1>1 DEF e
<1>13. /\ row.id = id /\ row.time = time /\ row.trace = Pseudonym("trace", Trace)
       /\ row.profile = "plugin" /\ row.trust = "agent_action" /\ row.type = RequestType(o)
       /\ row.kind = IF RequestType(o) = "agent.network.egress" THEN "network"
                     ELSE SourceKind(o.tool)
       /\ row.attributes = RedactedAttributes(StoredAttributes(e))
  <2> DEFINE p == Projected(e)
  <2>1. /\ DOMAIN p = Fields /\ p.id = id /\ p.time = time /\ p.trace = Pseudonym("trace", Trace)
        /\ p.profile = "plugin" /\ p.trust = "agent_action" /\ p.type = RequestType(o)
        /\ p.kind = IF RequestType(o) = "agent.network.egress" THEN "network"
                    ELSE SourceKind(o.tool)
        /\ p.attributes = StoredAttributes(e)
    BY <1>4, ProjectedFields
  <2> HIDE DEF p
  <2> QED
    BY <2>1, ReadBackFields DEF p
<1>14. row.attributes = kept
  BY <1>11, <1>13
<1>15. /\ kept.tool_class = a.tool_class
       /\ \A key \in {"network_indicator", "direct_ip", "delivery_indicator", "sensitive_access"} :
            Yes(kept, key) <=> a[key] = "yes"
  BY <1>10, SMT DEF Yes, Has, Kept
<1> HIDE DEF kept
<1>16. /\ a.network_indicator = "yes" <=> o.network
       /\ a.direct_ip = "yes" <=> (o.network /\ o.ip)
       /\ a.delivery_indicator = "yes" <=> o.tool \in PluginDeliveryTools
       /\ a.sensitive_access = "yes" <=> o.sensitive
  <2>1. /\ a.network_indicator = Says(o.network) /\ a.direct_ip = Says(o.network /\ o.ip)
        /\ a.delivery_indicator = Says(o.tool \in PluginDeliveryTools)
        /\ a.sensitive_access = Says(o.sensitive)
    BY <1>9, Zenon DEF IndicatorsHold
  <2> QED
    BY <2>1, SaysYes, Zenon
<1>17. /\ Yes(row.attributes, "network_indicator") <=> o.network
       /\ Yes(row.attributes, "direct_ip") <=> (o.network /\ o.ip)
       /\ Yes(row.attributes, "delivery_indicator") <=> o.tool \in PluginDeliveryTools
       /\ Yes(row.attributes, "sensitive_access") <=> o.sensitive
  BY <1>14, <1>15, <1>16, Zenon
<1>18. row.attributes.tool_class = ToolClassesOf(o.tool)[1]
  BY <1>9, <1>14, <1>15 DEF IndicatorsHold
<1> HIDE DEF row
<1>19. RequestRow(row, o, id, time)
  BY <1>13, <1>17, <1>18, Zenon DEF RequestRow
<1> QED
  BY <1>12, <1>19, Zenon

(* A stored read of something sensitive, and a stored request that leaves    *)
(* the machine, whatever tool makes it.                                     *)
LEMMA ReadIsSensitive ==
  ASSUME NEW o, o.tool \in {"read_file", "search_files"}, o.sensitive, NEW id, NEW time
  PROVE  ClassOf(ReadBack(Projected(Stamped(PreTool(o)[1], id, time)))).p1 = "sensitive"
<1> DEFINE row == ReadBack(Projected(Stamped(PreTool(o)[1], id, time)))
           class == ToolClassesOf(o.tool)[1]
<1>1. o.tool \in ToolNames
  BY SMT DEF ToolNames
<1>2. class \in {"file_read", "file_enumerate"}
  BY ToolsAgree
<1>3. SourceKind(o.tool) = "file"
  BY <1>2, ToolsAgree, SMT DEF FileClasses
<1>4. RequestType(o) = "agent.tool.requested"
  BY <1>2, RequestTypes, SMT DEF Requests
<1> HIDE DEF row, class
<1>5. /\ row.profile = "plugin" /\ row.type = RequestType(o)
      /\ row.kind = IF RequestType(o) = "agent.network.egress" THEN "network"
                    ELSE SourceKind(o.tool)
      /\ row.attributes.tool_class = class /\ Yes(row.attributes, "sensitive_access")
  <2>1. RequestRow(row, o, id, time)
    BY <1>1, RequestIsStored DEF row
  <2> QED
    BY <2>1, Zenon DEF RequestRow, class
<1>6. row.type = "agent.tool.requested" /\ row.kind = "file"
  BY <1>3, <1>4, <1>5, SMT
<1>7. ~ IsMalware(row) /\ ~ IsEgress(row)
  BY <1>6, SMT DEF IsMalware, ExactMalware, IsEgress
<1>8. IsSensitiveRead(row)
  BY <1>2, <1>5, <1>6, SMT DEF IsSensitiveRead, IsP1Profile
<1>9. P1Class(row) = "sensitive"
  BY <1>7, <1>8, Zenon DEF P1Class
<1> QED
  BY <1>9, Zenon DEF ClassOf, row

LEMMA SendIsEgress ==
  ASSUME NEW o, o.tool \in ToolNames,
         o.tool \in PluginDeliveryTools \/ (o.network /\ o.tool \notin FileTools),
         NEW id, NEW time
  PROVE  ClassOf(ReadBack(Projected(Stamped(PreTool(o)[1], id, time)))).p1 = "egress"
<1> DEFINE row == ReadBack(Projected(Stamped(PreTool(o)[1], id, time)))
           class == ToolClassesOf(o.tool)[1]
<1>1. /\ class \in {"file_read", "file_enumerate", "file_mutation", "process", "delivery", "mcp"}
      /\ class = "delivery" <=> o.tool \in PluginDeliveryTools
      /\ SourceKind(o.tool) = IF class \in FileClasses THEN "file"
                              ELSE IF class = "process" THEN "process"
                              ELSE IF class = "delivery" THEN "messaging" ELSE "mcp_tool"
  BY ToolsAgree, Zenon
<1>2. class \in {"process", "delivery", "mcp"} /\ (class = "delivery" \/ o.network)
  <2>1. CASE o.tool \in PluginDeliveryTools
    BY <1>1, <2>1
  <2>2. CASE o.tool \notin PluginDeliveryTools
    <3>1. /\ o.network
          /\ o.tool \notin {"read_file", "search_files", "write_file", "patch"}
      BY <2>2 DEF FileTools
    <3>2. class \in {"process", "delivery", "mcp"}
      BY <3>1, ClassesOfTools
    <3> QED
      BY <3>1, <3>2
  <2> QED
    BY <2>1, <2>2
<1>3. /\ RequestType(o) \in Requests
      /\ class = "mcp" <=> RequestType(o) = "agent.mcp.tool.requested"
      /\ (class = "process" /\ o.network /\ o.ip) <=> RequestType(o) = "agent.network.egress"
  BY RequestTypes, Zenon
<1> HIDE DEF row, class
<1>4. /\ row.profile = "plugin" /\ row.type = RequestType(o)
      /\ row.kind = IF RequestType(o) = "agent.network.egress" THEN "network"
                    ELSE SourceKind(o.tool)
      /\ row.attributes.tool_class = class
      /\ Yes(row.attributes, "network_indicator") <=> o.network
      /\ Yes(row.attributes, "direct_ip") <=> (o.network /\ o.ip)
      /\ Yes(row.attributes, "delivery_indicator") <=> class = "delivery"
  <2>1. RequestRow(row, o, id, time)
    BY RequestIsStored DEF row
  <2> QED
    BY <1>1, <2>1, Zenon DEF RequestRow, class
<1>5. ~ IsMalware(row) /\ ~ IsSensitiveRead(row)
  BY <1>2, <1>3, <1>4, SMT DEF IsMalware, ExactMalware, IsSensitiveRead, Requests
<1>6. IsEgress(row)
  <2>1. CASE class = "delivery"
    <3>1. row.type = "agent.tool.requested" /\ row.kind = "messaging"
      BY <1>1, <1>3, <1>4, <2>1, SMT DEF Requests, FileClasses
    <3>2. Yes(row.attributes, "delivery_indicator")
      BY <1>4, <2>1
    <3> QED
      BY <1>3, <1>4, <2>1, <3>1, <3>2, SMT DEF IsEgress, IsP1Profile
  <2>2. CASE class = "mcp"
    <3>1. row.type = "agent.mcp.tool.requested" /\ row.kind = "mcp_tool"
      BY <1>1, <1>3, <1>4, <2>2, SMT DEF FileClasses
    <3>2. Yes(row.attributes, "network_indicator")
      BY <1>2, <1>4, <2>2
    <3> QED
      BY <1>3, <1>4, <2>2, <3>1, <3>2, SMT DEF IsEgress, IsP1Profile
  <2>3. CASE class = "process"
    <3>1. Yes(row.attributes, "network_indicator") /\ ~ Yes(row.attributes, "delivery_indicator")
      BY <1>2, <1>4, <2>3
    <3>2. CASE o.ip
      <4>1. /\ row.type = "agent.network.egress" /\ row.kind = "network"
            /\ Yes(row.attributes, "direct_ip")
        BY <1>2, <1>3, <1>4, <2>3, <3>2
      <4> QED
        BY <1>3, <1>4, <2>3, <3>1, <4>1, SMT DEF IsEgress, IsP1Profile
    <3>3. CASE ~ o.ip
      <4>1. row.type = "agent.tool.requested" /\ row.kind = "process"
        BY <1>1, <1>3, <1>4, <2>3, <3>3, SMT DEF Requests, FileClasses
      <4> QED
        BY <1>3, <1>4, <2>3, <3>1, <4>1, SMT DEF IsEgress, IsP1Profile
    <3> QED
      BY <3>2, <3>3
  <2> QED
    BY <1>2, <2>1, <2>2, <2>3
<1>7. P1Class(row) = "egress"
  BY <1>5, <1>6, Zenon DEF P1Class
<1> QED
  BY <1>7, Zenon DEF ClassOf, row

----
(* The ledger behind it.  The operators of Correlation as the theorems about *)
(* the ledger name them are the ones the daemon uses here.                  *)
LEMMA SameOrder ==
  /\ \A a, b : Correlated!Before(a, b) = Before(a, b)
  /\ \A S : Correlated!Earliest(S) = Earliest(S) /\ Correlated!Latest(S) = Latest(S)
BY DEF Correlated!Before, Before, Correlated!Earliest, Earliest, Correlated!Latest, Latest

LEMMA SameCandidates ==
  \A stored, trigger : /\ Correlated!Candidates(stored, trigger) = Candidates(stored, trigger)
                       /\ Correlated!Truncated(stored, trigger) = Truncated(stored, trigger)
<1>1. \A S : Correlated!Cardinality(S) = Cardinality(S)
  BY DEF Correlated!Cardinality, Cardinality
<1>2. \A S : Correlated!Max(S) = Max(S)
  BY DEF Correlated!Max, Max
<1>3. Correlated!MaxRuleWindow = MaxRuleWindow
  BY <1>2 DEF Correlated!MaxRuleWindow, MaxRuleWindow
<1>4. \A stored, trigger : Correlated!Eligible(stored, trigger) = Eligible(stored, trigger)
  BY <1>3 DEF Correlated!Eligible, Eligible, Correlated!Within, Within
<1>5. \A S, n : Correlated!Newest(S, n) = Newest(S, n)
  BY <1>1, SameOrder DEF Correlated!Newest, Newest
<1> QED
  BY <1>1, <1>4, <1>5 DEF Correlated!Candidates, Candidates, Correlated!Truncated, Truncated

LEMMA SameP1 ==
  \A cands, trigger : Correlated!P1Incidents(cands, trigger) = P1Incidents(cands, trigger)
BY DEF Correlated!Before, Before, Correlated!Earliest, Earliest, Correlated!Latest, Latest,
   Correlated!P1Incidents, P1Incidents, Correlated!P1Pairs, P1Pairs, Correlated!Exfiltrates,
   Exfiltrates, Correlated!P1Joined, P1Joined, Correlated!Within, Within, Correlated!Cites, Cites

LEMMA SameMatches ==
  \A cands, trigger : Correlated!SequenceMatches(cands, trigger) = SequenceMatches(cands, trigger)
BY DEF Correlated!Before, Before, Correlated!Earliest, Earliest, Correlated!Latest, Latest,
   Correlated!SequenceMatches, SequenceMatches, Correlated!MatchesOf, MatchesOf,
   Correlated!Successors, Successors, Correlated!Predecessors, Predecessors,
   Correlated!Preceding, Preceding, Correlated!Completes, Completes, Correlated!SameJoin,
   SameJoin, Correlated!PairLeq, PairLeq, Correlated!Within, Within

LEMMA SameIncidents ==
  \A source, stored, trigger :
    Correlated!IncidentsOf(source, stored, trigger) = IncidentsOf(source, stored, trigger)
BY SameCandidates, SameP1, SameMatches
   DEF IncidentsOf, Correlated!IncidentsOf, Correlated!Cites, Cites,
       Correlated!DegradedIncident, DegradedIncident

(* What is committed of an event carries its identifier, its time and its    *)
(* pseudonym.                                                               *)
LEMMA FramesCarry ==
  ASSUME NEW event \in Deliverable
  PROVE  LET frame == FrameOf(event)
         IN  /\ frame \in Frames
             /\ frame.source = Source
             /\ frame.event.id = event.id /\ frame.event.time = event.time
             /\ frame.event.trace = Pseudonym("trace", event.trace)
<1> DEFINE p == Projected(event)
           row == ReadBack(p)
<1>1. DOMAIN event = Fields
  BY DeliverableIsEvent
<1>2. /\ DOMAIN p = Fields /\ p.id = event.id /\ p.time = event.time
      /\ p.trace = Pseudonym("trace", event.trace)
  BY <1>1, ProjectedFields
<1> HIDE DEF p
<1>3. row.id = event.id /\ row.time = event.time /\ row.trace = Pseudonym("trace", event.trace)
  BY <1>2, ReadBackFields
<1> HIDE DEF row
<1>4. /\ ClassOf(row).id = event.id /\ ClassOf(row).time = event.time
      /\ ClassOf(row).trace = Pseudonym("trace", event.trace)
  BY <1>3, SMT DEF ClassOf
<1>5. FrameOf(event) = [source |-> Source, event |-> ClassOf(row)]
  BY DEF FrameOf, row, p
<1>6. FrameOf(event) \in Frames
  BY DEF Frames
<1> QED
  BY <1>4, <1>5, <1>6

LEMMA LedgerAssumptionsHold == Correlated!CorrelationAssumption /\ Correlated!LedgerAssumption
<1>1. \A f \in Frames : f.source # None /\ f.event.id \in Nat /\ f.event.time \in Nat
  <2> SUFFICES ASSUME NEW event \in Deliverable
               PROVE  LET f == FrameOf(event)
                      IN  f.source # None /\ f.event.id \in Nat /\ f.event.time \in Nat
    BY DEF Frames
  <2> QED
    BY FramesCarry, DeliverableIsEvent, ObservedAssumption
<1>2. IsFiniteSet(Imported) /\ \A row \in Imported : row.source = None
  BY ObservedAssumption
<1> QED
  BY <1>1, <1>2, CorrelationAssumption
     DEF Correlated!CorrelationAssumption, Correlated!LedgerAssumption, Correlated!OtherKinds,
         OtherKinds, Correlated!IsFiniteSet, IsFiniteSet

LEMMA ObservedIsCorrelatedLedger == Spec => Correlated!LedgerSpec
<1>1. Init => Correlated!LedgerInit
  BY DEF Init, LedgerInit, Correlated!LedgerInit
<1>2. ObservedInvariant /\ [Next]_vars => [Correlated!LedgerNext]_(Correlated!ledgerVars)
  <2> SUFFICES ASSUME ObservedInvariant, [Next]_vars
               PROVE  Correlated!LedgerNext \/ UNCHANGED <<events, receipts, incidents>>
    BY DEF Correlated!ledgerVars
  <2>1. ASSUME NEW event \in pending, Deliver(event) PROVE Correlated!LedgerNext
    <3>1. event \in Deliverable
      BY DEF ObservedInvariant, KnownEvents, Known
    <3>2. FrameOf(event) \in Frames /\ Record(FrameOf(event))
      BY <2>1, <3>1, FramesCarry DEF Deliver
    <3>3. ASSUME NEW f \in Frames, Record(f) PROVE Correlated!Record(f)
      BY <3>3, SameIncidents DEF Record, Recorded, Correlated!Record, Correlated!Recorded
    <3> QED
      BY <3>2, <3>3 DEF Correlated!LedgerNext
  <2>2. ASSUME NEW o \in Observations, Observe(o) PROVE UNCHANGED <<events, receipts, incidents>>
    BY <2>2 DEF Observe
  <2>3. ASSUME NEW other \in OtherEvents, SendOther(other)
        PROVE  UNCHANGED <<events, receipts, incidents>>
    BY <2>3 DEF SendOther
  <2>4. ASSUME NEW event \in pending, Reject(event) PROVE UNCHANGED <<events, receipts, incidents>>
    BY <2>4 DEF Reject
  <2>5. CASE UNCHANGED vars
    BY <2>5 DEF vars
  <2> QED
    BY <2>1, <2>2, <2>3, <2>4, <2>5 DEF Next
<1> QED
  BY <1>1, <1>2, ObservedInvariantHolds, PTL DEF Spec, Correlated!LedgerSpec

(* An incident about either of two events is one about what was observed.   *)
LEMMA ReportsAreFound ==
  ASSUME NEW kind, NEW x, NEW y, NEW a, NEW b, a.id \in x.ids, b.id \in y.ids,
         Correlated!Reported(kind, Correlated!RecordedLast(a, b))
  PROVE  ReportedFor(kind, x) \/ ReportedFor(kind, y)
<1>1. Correlated!RecordedLast(a, b) \in {a, b}
  BY Zenon DEF Correlated!RecordedLast
<1>2. \A e : Correlated!Reported(kind, e) =>
        \E incident \in incidents :
          /\ incident.id.kind \in {kind, "degraded"}
          /\ \E i \in DOMAIN incident.payload : e = incident.payload[i]
  BY DEF Correlated!Reported
<1> QED
  BY <1>1, <1>2 DEF ReportedFor

(* What happened one after the other is recorded as such.                   *)
LEMMA OrderIsRecorded ==
  ASSUME ObservedInvariant, History, NEW x \in Seen, NEW y \in Seen, InOrder(x, y),
         Settled(x), Settled(y),
         NEW i \in DOMAIN EventsOf(x.o), NEW j \in DOMAIN EventsOf(y.o),
         NEW window \in Nat, y.at - x.at <= window
  PROVE  \E p \in x.ids, q \in y.ids :
           LET a == FrameOf(Stamped(EventsOf(x.o)[i], p, x.at))
               b == FrameOf(Stamped(EventsOf(y.o)[j], q, y.at))
           IN  /\ a \in events /\ a.source = Source /\ a.event.id = p /\ a.event.time = x.at
               /\ b \in events /\ b.source = Source /\ b.event.id = q /\ b.event.time = y.at
               /\ a.event.trace # None /\ a.event.trace = b.event.trace
               /\ Before(a.event, b.event) /\ Within(a.event, b.event, window)
<1>1. PICK p \in x.ids : LET event == Stamped(EventsOf(x.o)[i], p, x.at)
                         IN  event \in raw /\ FrameOf(event) \in events
  BY SettledIsRecorded
<1>2. PICK q \in y.ids : LET event == Stamped(EventsOf(y.o)[j], q, y.at)
                         IN  event \in raw /\ FrameOf(event) \in events
  BY SettledIsRecorded
<1>3. /\ x.o \in Observations /\ x.at \in Nat /\ x.ids \subseteq Nat
      /\ y.o \in Observations /\ y.at \in Nat /\ y.ids \subseteq Nat
  BY Moments DEF Seen
<1>4. x.at <= y.at /\ (x.at = y.at => p < q)
  BY <1>3 DEF InOrder
<1> DEFINE d == Stamped(EventsOf(x.o)[i], p, x.at)
           e == Stamped(EventsOf(y.o)[j], q, y.at)
<1>5. d.id = p /\ d.time = x.at /\ d.trace = Trace
  <2>1. DOMAIN EventsOf(x.o)[i] = Fields /\ EventsOf(x.o)[i].trace = Trace
    BY <1>3, PluginEvents
  <2> QED
    BY <2>1, StampedFields
<1>6. e.id = q /\ e.time = y.at /\ e.trace = Trace
  <2>1. DOMAIN EventsOf(y.o)[j] = Fields /\ EventsOf(y.o)[j].trace = Trace
    BY <1>3, PluginEvents
  <2> QED
    BY <2>1, StampedFields
<1>7. d \in Deliverable /\ e \in Deliverable
  BY <1>1, <1>2 DEF ObservedInvariant, KnownEvents, Known
<1> HIDE DEF d, e
<1> DEFINE a == FrameOf(d)
           b == FrameOf(e)
<1>8. /\ a.source = Source /\ a.event.id = p /\ a.event.time = x.at
      /\ a.event.trace = Pseudonym("trace", Trace)
  BY <1>5, <1>7, FramesCarry
<1>9. /\ b.source = Source /\ b.event.id = q /\ b.event.time = y.at
      /\ b.event.trace = Pseudonym("trace", Trace)
  BY <1>6, <1>7, FramesCarry
<1>10. Pseudonym("trace", Trace) # None
  BY IdentityAssumption, PseudonymsAreFaithful DEF Identities
<1>11. a \in events /\ b \in events
  BY <1>1, <1>2 DEF d, e
<1> HIDE DEF a, b
<1>12. Before(a.event, b.event)
  BY <1>3, <1>4, <1>8, <1>9 DEF Before
<1>13. Within(a.event, b.event, window)
  BY <1>3, <1>4, <1>8, <1>9 DEF Within
<1>14. /\ a \in events /\ a.source = Source /\ a.event.id = p /\ a.event.time = x.at
       /\ b \in events /\ b.source = Source /\ b.event.id = q /\ b.event.time = y.at
       /\ a.event.trace # None /\ a.event.trace = b.event.trace
       /\ Before(a.event, b.event) /\ Within(a.event, b.event, window)
  BY <1>8, <1>9, <1>10, <1>11, <1>12, <1>13
<1> QED
  BY <1>14, Zenon DEF a, b, d, e

(* A request is the only event of its observation.                          *)
LEMMA RequestsAreSent ==
  ASSUME NEW o, o.hook = "pre_tool_call"
  PROVE  1 \in DOMAIN EventsOf(o) /\ EventsOf(o)[1] = PreTool(o)[1]
<1>1. EventsOf(o) = PreTool(o)
  BY EventsOfHooks, SMT DEF Hooks
<1>2. \A e : 1 \in DOMAIN <<e>>
  OBVIOUS
<1>3. 1 \in DOMAIN PreTool(o)
  BY <1>2, Zenon DEF PreTool
<1> QED
  BY <1>1, <1>3, Zenon

(* A sensitive read of the agent and, within the window, anything it sends   *)
(* are reported, however their events were ordered and interleaved with     *)
(* those of others on the way: from what the hooks saw to the incident.     *)
THEOREM ExfiltrationIsReported == Spec => []ExfiltrationObserved
<1>1. ObservedInvariant /\ History /\ Correlated!ExfiltrationReported => ExfiltrationObserved
  <2> SUFFICES ASSUME ObservedInvariant, History, Correlated!ExfiltrationReported,
                      NEW x \in Seen, NEW y \in Seen, Reads(x), SendsOut(y),
                      InOrder(x, y), y.at - x.at <= P1Window, Settled(x), Settled(y)
               PROVE  ReportedFor("exfil", x) \/ ReportedFor("exfil", y)
    BY DEF ExfiltrationObserved
  <2>1. x.o \in Observations /\ y.o \in Observations
    BY Moments DEF Seen
  <2>2. x.o.hook = "pre_tool_call" /\ y.o.hook = "pre_tool_call"
    BY DEF Reads, SendsOut
  <2>3. /\ 1 \in DOMAIN EventsOf(x.o) /\ EventsOf(x.o)[1] = PreTool(x.o)[1]
        /\ 1 \in DOMAIN EventsOf(y.o) /\ EventsOf(y.o)[1] = PreTool(y.o)[1]
    BY <2>2, RequestsAreSent, Zenon
  <2>4. P1Window \in Nat
    BY CorrelationAssumption
  <2>5. PICK p \in x.ids, q \in y.ids :
          LET a == FrameOf(Stamped(PreTool(x.o)[1], p, x.at))
              b == FrameOf(Stamped(PreTool(y.o)[1], q, y.at))
          IN  /\ a \in events /\ a.source = Source /\ a.event.id = p
              /\ b \in events /\ b.source = Source /\ b.event.id = q
              /\ a.event.trace # None /\ a.event.trace = b.event.trace
              /\ Before(a.event, b.event) /\ Within(a.event, b.event, P1Window)
    <3>1. \E p \in x.ids, q \in y.ids :
            LET a == FrameOf(Stamped(EventsOf(x.o)[1], p, x.at))
                b == FrameOf(Stamped(EventsOf(y.o)[1], q, y.at))
            IN  /\ a \in events /\ a.source = Source /\ a.event.id = p /\ a.event.time = x.at
                /\ b \in events /\ b.source = Source /\ b.event.id = q /\ b.event.time = y.at
                /\ a.event.trace # None /\ a.event.trace = b.event.trace
                /\ Before(a.event, b.event) /\ Within(a.event, b.event, P1Window)
      BY <2>3, <2>4, OrderIsRecorded
    <3> QED
      BY <2>3, <3>1
  <2> DEFINE a == FrameOf(Stamped(PreTool(x.o)[1], p, x.at))
             b == FrameOf(Stamped(PreTool(y.o)[1], q, y.at))
  <2>6. a.event.p1 = "sensitive"
    BY ReadIsSensitive DEF Reads, FrameOf
  <2>7. b.event.p1 = "egress"
    BY <2>1, ToolsAssumption, SendIsEgress DEF SendsOut, FrameOf
  <2>8. /\ a \in events /\ a.source = Source /\ a.event.id = p
        /\ b \in events /\ b.source = Source /\ b.event.id = q
        /\ a.event.trace # None /\ a.event.trace = b.event.trace
        /\ Before(a.event, b.event) /\ Within(a.event, b.event, P1Window)
    BY <2>5
  <2> HIDE DEF a, b
  <2>9. Correlated!Exfiltrates(a.event, b.event)
    BY <2>6, <2>7, <2>8, SameOrder
       DEF Correlated!Exfiltrates, Correlated!P1Joined, Correlated!Within, Within
  <2>10. Correlated!Authenticated(a, b)
    BY <2>8, ObservedAssumption DEF Correlated!Authenticated
  <2>11. Correlated!Reported("exfil", Correlated!RecordedLast(a.event, b.event))
    BY <2>8, <2>9, <2>10 DEF Correlated!ExfiltrationReported
  <2> QED
    BY <2>8, <2>11, ReportsAreFound
<1>2. Correlated!LedgerSpec => []Correlated!ExfiltrationReported
  BY Correlated!ExfiltrationNeverSilent, LedgerAssumptionsHold
<1> QED
  BY <1>1, <1>2, ObservedIsCorrelatedLedger, ObservedInvariantHolds, HistoryHolds, PTL

----
(* Instructions in what a tool returned open every rule; an action under a   *)
(* rule closes it.                                                          *)
LEMMA UnclassifiedIsStored ==
  ASSUME NEW sent, DOMAIN sent = Fields, sent.profile = "plugin", Plain(sent.attributes),
         sent.type \notin Requests \union {"agent.tool.completed"},
         NEW id, NEW time
  PROVE  LET row == ReadBack(Projected(Stamped(sent, id, time)))
         IN  /\ row.type = sent.type /\ row.trust = sent.trust
             /\ row.attributes = Kept(sent.attributes, OtherShape(sent.type).dropped)
<1> DEFINE type == sent.type
           trust == sent.trust
           attributes == sent.attributes
<1> HIDE DEF type, trust, attributes
<1> DEFINE e == Stamped(sent, id, time)
           kept == Kept(attributes, OtherShape(type).dropped)
           p == Projected(e)
<1>1. /\ DOMAIN e = Fields /\ e.type = type /\ e.trust = trust
      /\ e.profile = "plugin" /\ e.attributes = attributes
  BY StampedFields DEF type, trust, attributes
<1>2. Plain(attributes) /\ type \notin Requests \union {"agent.tool.completed"}
  BY DEF type, attributes
<1> HIDE DEF e
<1>3. Shape(e) = OtherShape(type)
  BY <1>1, <1>2, PluginShapes, Zenon
<1>4. StoredAttributes(e) = kept
  BY <1>1, <1>2, <1>3, StoredKeys, Zenon
<1>5. RedactedAttributes(kept) = kept
  <2> DEFINE none == [key \in {} |-> ""]
  <2>1. DOMAIN none \subseteq DOMAIN attributes \ OtherShape(type).dropped
    OBVIOUS
  <2> HIDE DEF none
  <2>2. kept = [key \in DOMAIN attributes \ OtherShape(type).dropped |-> attributes[key]]
    BY DEF Kept
  <2> HIDE DEF kept
  <2> QED
    BY <1>2, <2>1, <2>2, KeptAttributes
<1> HIDE DEF kept
<1>6. DOMAIN p = Fields /\ p.type = type /\ p.trust = trust /\ p.attributes = kept
  BY <1>1, <1>4, ProjectedFields
<1> HIDE DEF p
<1>7. ReadBack(p).type = type /\ ReadBack(p).trust = trust /\ ReadBack(p).attributes = kept
  BY <1>5, <1>6, ReadBackFields
<1> QED
  BY <1>7, Zenon DEF p, e, kept, type, trust, attributes

LEMMA InstructionsOpen ==
  ASSUME NEW o, o.tool \in ToolNames, NEW id, NEW time
  PROVE  FrameOf(Stamped(Untrusted(o), id, time)).event.opens = BuiltInRules
<1> DEFINE row == ReadBack(Projected(Stamped(Untrusted(o), id, time)))
           a == Untrusted(o).attributes
<1>1. LET sent == Untrusted(o)
      IN  /\ DOMAIN sent = Fields /\ sent.profile = "plugin" /\ sent.attributes = a
          /\ sent.type = "agent.content.ingested" /\ sent.trust = "untrusted_content"
  BY EventFields DEF Untrusted
<1>2. Plain(a)
  BY ContentsFit
<1>3. OtherShape("agent.content.ingested").dropped
        = {"hook", "tool_name", "content_length", "rule_id"}
  <2>1. ContentShape.dropped = {"hook", "tool_name", "content_length", "rule_id"}
    BY SMT DEF ContentShape
  <2> QED
    BY <2>1, OtherShapes, Zenon
<1>4. /\ {"instruction_authority", "contains_instructional_attack"} \subseteq DOMAIN a
      /\ a.instruction_authority = "no" /\ a.contains_instructional_attack = "yes"
  BY SMT DEF Untrusted, Event
<1>5. "agent.content.ingested" \notin Requests \union {"agent.tool.completed"}
  BY SMT DEF Requests
<1>6. /\ row.type = "agent.content.ingested" /\ row.trust = "untrusted_content"
      /\ row.attributes = Kept(a, OtherShape("agent.content.ingested").dropped)
  <2> DEFINE sent == Untrusted(o)
  <2>1. /\ DOMAIN sent = Fields /\ sent.profile = "plugin" /\ Plain(sent.attributes)
        /\ sent.attributes = a
        /\ sent.type = "agent.content.ingested" /\ sent.trust = "untrusted_content"
    BY <1>1, <1>2
  <2>2. row = ReadBack(Projected(Stamped(sent, id, time)))
    OBVIOUS
  <2> HIDE DEF sent, a, row
  <2>3. sent.type \notin Requests \union {"agent.tool.completed"}
    BY <1>5, <2>1, Zenon
  <2>4. /\ row.type = sent.type /\ row.trust = sent.trust
        /\ row.attributes = Kept(sent.attributes, OtherShape(sent.type).dropped)
    BY <2>1, <2>2, <2>3, UnclassifiedIsStored, Zenon
  <2> QED
    BY <2>1, <2>4, Zenon
<1> HIDE DEF a
<1> HIDE DEF row
<1>7. Opens(row)
  BY <1>3, <1>4, <1>6, SMT DEF Opens, Has, Yes, Kept
<1>8. ClassOf(row).opens = BuiltInRules
  BY <1>7, Zenon DEF ClassOf
<1> QED
  BY <1>8, Zenon DEF FrameOf, row

(* What the rules look for, without their case distinction. *)
LEMMA ActionsOfRules ==
  /\ Action("EDR-MCP-001") = [type |-> "agent.mcp.tool.requested", yes |-> {"network_indicator"}, no |-> {}]
  /\ Action("EDR-CRON-001") =
       [type |-> "agent.automation.scheduled", yes |-> {"persistence_indicator"}, no |-> {}]
  /\ Action("EDR-PI-001") =
       [type |-> "agent.tool.requested", yes |-> {"network_indicator", "sensitive_access"}, no |-> {}]
  /\ Action("EDR-MSG-001") =
       [type |-> "agent.tool.requested", yes |-> {"delivery_indicator", "sensitive_access"}, no |-> {}]
  /\ Action("EDR-NET-001") =
       [type |-> "agent.network.egress", yes |-> {"network_indicator", "direct_ip"}, no |-> {}]
BY Zenon DEF Action

LEMMA ActionsClose ==
  ASSUME NEW event, event.trust = "agent_action"
  PROVE  LET yes(key) == Yes(event.attributes, key)
             closed == ClassOf(event).closes
         IN  /\ event.type = "agent.mcp.tool.requested" /\ yes("network_indicator")
                  => "EDR-MCP-001" \in closed
             /\ event.type = "agent.automation.scheduled" /\ yes("persistence_indicator")
                  => "EDR-CRON-001" \in closed
             /\ event.type = "agent.tool.requested" /\ yes("network_indicator")
                  /\ yes("sensitive_access") => "EDR-PI-001" \in closed
             /\ event.type = "agent.tool.requested" /\ yes("delivery_indicator")
                  /\ yes("sensitive_access") => "EDR-MSG-001" \in closed
             /\ event.type = "agent.network.egress" /\ yes("network_indicator")
                  /\ yes("direct_ip") => "EDR-NET-001" \in closed
<1>1. \A rule \in BuiltInRules : Closes(rule, event) => rule \in ClassOf(event).closes
  BY SMT DEF ClassOf
<1>2. {"EDR-MCP-001", "EDR-CRON-001", "EDR-PI-001", "EDR-MSG-001", "EDR-NET-001"} \subseteq BuiltInRules
  BY SMT DEF BuiltInRules
<1>3. ASSUME NEW rule, NEW type, NEW yes, Action(rule) = [type |-> type, yes |-> yes, no |-> {}],
             event.type = type, \A key \in yes : Yes(event.attributes, key)
      PROVE  Closes(rule, event)
  <2>1. Action(rule).type = type /\ Action(rule).yes = yes /\ Action(rule).no = {}
    BY <1>3, SMT
  <2> QED
    BY <1>3, <2>1, Zenon DEF Closes
<1>4. ASSUME event.type = "agent.mcp.tool.requested", Yes(event.attributes, "network_indicator")
      PROVE  "EDR-MCP-001" \in ClassOf(event).closes
  <2>1. \A key \in {"network_indicator"} : Yes(event.attributes, key)
    BY <1>4
  <2>2. Closes("EDR-MCP-001", event)
    BY <1>3, <1>4, <2>1, ActionsOfRules
  <2> QED
    BY <1>1, <1>2, <2>2
<1>5. ASSUME event.type = "agent.automation.scheduled", Yes(event.attributes, "persistence_indicator")
      PROVE  "EDR-CRON-001" \in ClassOf(event).closes
  <2>1. \A key \in {"persistence_indicator"} : Yes(event.attributes, key)
    BY <1>5
  <2>2. Closes("EDR-CRON-001", event)
    BY <1>3, <1>5, <2>1, ActionsOfRules
  <2> QED
    BY <1>1, <1>2, <2>2
<1>6. ASSUME event.type = "agent.tool.requested", Yes(event.attributes, "network_indicator"),
             Yes(event.attributes, "sensitive_access")
      PROVE  "EDR-PI-001" \in ClassOf(event).closes
  <2>1. \A key \in {"network_indicator", "sensitive_access"} : Yes(event.attributes, key)
    BY <1>6
  <2>2. Closes("EDR-PI-001", event)
    BY <1>3, <1>6, <2>1, ActionsOfRules
  <2> QED
    BY <1>1, <1>2, <2>2
<1>7. ASSUME event.type = "agent.tool.requested", Yes(event.attributes, "delivery_indicator"),
             Yes(event.attributes, "sensitive_access")
      PROVE  "EDR-MSG-001" \in ClassOf(event).closes
  <2>1. \A key \in {"delivery_indicator", "sensitive_access"} : Yes(event.attributes, key)
    BY <1>7
  <2>2. Closes("EDR-MSG-001", event)
    BY <1>3, <1>7, <2>1, ActionsOfRules
  <2> QED
    BY <1>1, <1>2, <2>2
<1>8. ASSUME event.type = "agent.network.egress", Yes(event.attributes, "network_indicator"),
             Yes(event.attributes, "direct_ip")
      PROVE  "EDR-NET-001" \in ClassOf(event).closes
  <2>1. \A key \in {"network_indicator", "direct_ip"} : Yes(event.attributes, key)
    BY <1>8
  <2>2. Closes("EDR-NET-001", event)
    BY <1>3, <1>8, <2>1, ActionsOfRules
  <2> QED
    BY <1>1, <1>2, <2>2
<1> QED
  BY <1>4, <1>5, <1>6, <1>7, <1>8, Zenon

LEMMA RuleForSays ==
  ASSUME NEW o, NEW rule \in RuleFor(o)
  PROVE  \/ /\ rule = "EDR-CRON-001"
            /\ o.hook = "post_tool_call" /\ o.tool = "cronjob" /\ o.scheduled
         \/ /\ rule = "EDR-NET-001" /\ o.hook = "pre_tool_call"
            /\ o.tool \in PluginProcessTools /\ o.network /\ o.ip
         \/ /\ rule = "EDR-MSG-001" /\ o.hook = "pre_tool_call"
            /\ o.tool \in PluginDeliveryTools /\ o.sensitive
         \/ /\ rule = "EDR-MCP-001" /\ o.hook = "pre_tool_call"
            /\ o.network /\ SourceKind(o.tool) = "mcp_tool"
         \/ /\ rule = "EDR-PI-001" /\ o.hook = "pre_tool_call"
            /\ o.network /\ o.sensitive /\ SourceKind(o.tool) \in {"file", "process"}
            /\ ~ (o.ip /\ SourceKind(o.tool) = "process")
BY Zenon DEF RuleFor

LEMMA ScheduleCloses ==
  ASSUME NEW id, NEW time
  PROVE  "EDR-CRON-001" \in FrameOf(Stamped(Scheduled, id, time)).event.closes
<1> DEFINE row == ReadBack(Projected(Stamped(Scheduled, id, time)))
           a == [persistence_indicator |-> "yes"]
<1>1. /\ DOMAIN Scheduled = Fields /\ Scheduled.profile = "plugin" /\ Scheduled.attributes = a
      /\ Scheduled.type = "agent.automation.scheduled" /\ Scheduled.trust = "agent_action"
  BY EventFields DEF Scheduled
<1>2. Plain(a)
  BY SchedulesFit
<1>3. OtherShape("agent.automation.scheduled").dropped = {}
  <2>1. ScheduleShape.dropped = {}
    BY SMT DEF ScheduleShape
  <2> QED
    BY <2>1, OtherShapes, Zenon
<1>4. "agent.automation.scheduled" \notin Requests \union {"agent.tool.completed"}
  BY SMT DEF Requests
<1>5. "persistence_indicator" \in DOMAIN a /\ a.persistence_indicator = "yes"
  OBVIOUS
<1> HIDE DEF a
<1>6. /\ row.type = "agent.automation.scheduled" /\ row.trust = "agent_action"
      /\ row.attributes = Kept(a, OtherShape("agent.automation.scheduled").dropped)
  <2>1. Plain(Scheduled.attributes)
    BY <1>1, <1>2, Zenon
  <2>2. Scheduled.type \notin Requests \union {"agent.tool.completed"}
    BY <1>1, <1>4, Zenon
  <2>3. /\ row.type = Scheduled.type /\ row.trust = Scheduled.trust
        /\ row.attributes = Kept(Scheduled.attributes, OtherShape(Scheduled.type).dropped)
    BY <1>1, <2>1, <2>2, UnclassifiedIsStored, Zenon
  <2> QED
    BY <1>1, <2>3, Zenon
<1> HIDE DEF row
<1>7. Yes(row.attributes, "persistence_indicator")
  BY <1>3, <1>5, <1>6, SMT DEF Has, Yes, Kept
<1>8. "EDR-CRON-001" \in ClassOf(row).closes
  BY <1>6, <1>7, ActionsClose, Zenon
<1> QED
  BY <1>8, Zenon DEF FrameOf, row

LEMMA RequestCloses ==
  ASSUME NEW o, o.hook = "pre_tool_call", o.tool \in ToolNames, NEW rule \in RuleFor(o),
         NEW id, NEW time
  PROVE  rule \in FrameOf(Stamped(PreTool(o)[1], id, time)).event.closes
<1> DEFINE row == ReadBack(Projected(Stamped(PreTool(o)[1], id, time)))
           class == ToolClassesOf(o.tool)[1]
<1> HIDE DEF row, class
<1>1. RequestRow(row, o, id, time)
  BY RequestIsStored DEF row
<1>2. /\ row.type = RequestType(o) /\ row.trust = "agent_action"
      /\ Yes(row.attributes, "network_indicator") <=> o.network
      /\ Yes(row.attributes, "direct_ip") <=> (o.network /\ o.ip)
      /\ Yes(row.attributes, "delivery_indicator") <=> o.tool \in PluginDeliveryTools
      /\ Yes(row.attributes, "sensitive_access") <=> o.sensitive
  BY <1>1, Zenon DEF RequestRow
<1>3. /\ class \in {"file_read", "file_enumerate", "file_mutation", "process", "delivery", "mcp"}
      /\ class = "delivery" <=> o.tool \in PluginDeliveryTools
      /\ SourceKind(o.tool) = IF class \in FileClasses THEN "file"
                              ELSE IF class = "process" THEN "process"
                              ELSE IF class = "delivery" THEN "messaging" ELSE "mcp_tool"
  BY ToolsAgree, Zenon DEF class
<1>4. /\ RequestType(o) \in {"agent.tool.requested", "agent.mcp.tool.requested", "agent.network.egress"}
      /\ class = "mcp" <=> RequestType(o) = "agent.mcp.tool.requested"
      /\ (class = "process" /\ o.network /\ o.ip) <=> RequestType(o) = "agent.network.egress"
  BY RequestTypes, Zenon DEF class, Requests
<1>5. o.tool \in PluginProcessTools => class = "process"
  BY ClassesOfTools DEF class, PluginProcessTools
<1>6. SourceKind(o.tool) = "mcp_tool" => class = "mcp"
  BY <1>3, SMT DEF FileClasses
<1>7. /\ SourceKind(o.tool) = "file" => class \in FileClasses
      /\ SourceKind(o.tool) = "process" => class = "process"
  BY <1>3, SMT DEF FileClasses
<1>8. rule \in ClassOf(row).closes
  <2>1. CASE rule = "EDR-NET-001" /\ o.tool \in PluginProcessTools /\ o.network /\ o.ip
    <3>1. row.type = "agent.network.egress"
      BY <1>2, <1>4, <1>5, <2>1, Zenon
    <3> QED
      BY <1>2, <2>1, <3>1, ActionsClose, Zenon
  <2>2. CASE rule = "EDR-MSG-001" /\ o.tool \in PluginDeliveryTools /\ o.sensitive
    <3>1. row.type = "agent.tool.requested"
      <4>1. class # "mcp" /\ class # "process"
        BY <1>3, <2>2
      <4> QED
        BY <1>2, <1>4, <4>1
    <3> QED
      BY <1>2, <2>2, <3>1, ActionsClose, Zenon
  <2>3. CASE rule = "EDR-MCP-001" /\ o.network /\ SourceKind(o.tool) = "mcp_tool"
    <3>1. row.type = "agent.mcp.tool.requested"
      BY <1>2, <1>4, <1>6, <2>3, Zenon
    <3> QED
      BY <1>2, <2>3, <3>1, ActionsClose, Zenon
  <2>4. CASE /\ rule = "EDR-PI-001" /\ o.network /\ o.sensitive
             /\ SourceKind(o.tool) \in {"file", "process"}
             /\ ~ (o.ip /\ SourceKind(o.tool) = "process")
    <3>1. row.type = "agent.tool.requested"
      <4>1. CASE SourceKind(o.tool) = "file"
        <5>1. class # "mcp" /\ class # "process"
          BY <1>7, <4>1, SMT DEF FileClasses
        <5> QED
          BY <1>2, <1>4, <5>1
      <4>2. CASE SourceKind(o.tool) = "process"
        <5>1. class = "process" /\ ~ o.ip
          BY <1>7, <2>4, <4>2
        <5> QED
          BY <1>2, <1>4, <5>1
      <4> QED
        BY <2>4, <4>1, <4>2
    <3> QED
      BY <1>2, <2>4, <3>1, ActionsClose, Zenon
  <2>5. o.hook # "post_tool_call"
    OBVIOUS
  <2> QED
    BY <2>1, <2>2, <2>3, <2>4, <2>5, RuleForSays, Zenon
<1> QED
  BY <1>8, Zenon DEF FrameOf, row

(* Some event of an action under a rule closes it. *)
LEMMA ActionsAreSent ==
  ASSUME NEW o \in Observations, NEW rule \in RuleFor(o)
  PROVE  \E i \in DOMAIN EventsOf(o) :
           \A id, time : rule \in FrameOf(Stamped(EventsOf(o)[i], id, time)).event.closes
<1>1. CASE o.hook = "pre_tool_call"
  <2>1. o.tool \in ToolNames
    BY <1>1, ToolsAssumption
  <2> QED
    BY <1>1, <2>1, RequestsAreSent, RequestCloses, Zenon
<1>2. CASE o.hook = "post_tool_call"
  <2>1. rule = "EDR-CRON-001" /\ o.tool = "cronjob" /\ o.scheduled
    BY <1>2, RuleForSays
  <2>2. Scheduled \in Among(PostTool(o))
    BY <2>1, ResultsOfTools
  <2>3. EventsOf(o) = PostTool(o)
    BY <1>2, EventsOfHooks, SMT DEF Hooks
  <2>4. PICK i \in DOMAIN EventsOf(o) : EventsOf(o)[i] = Scheduled
    BY <2>2, <2>3 DEF Among
  <2> QED
    BY <2>1, <2>4, ScheduleCloses, Zenon
<1>3. o.hook \in {"pre_tool_call", "post_tool_call"}
  BY RuleForSays
<1> QED
  BY <1>1, <1>2, <1>3

LEMMA InstructionsAreSent ==
  ASSUME NEW x \in Seen, x.o \in Observations, Injected(x)
  PROVE  \E i \in DOMAIN EventsOf(x.o) :
           \A id, time :
             FrameOf(Stamped(EventsOf(x.o)[i], id, time)).event.opens = BuiltInRules
<1>1. x.o.hook = "post_tool_call" /\ x.o.injection /\ x.o.tool # "simulation"
  BY DEF Injected
<1>2. x.o.tool \in ToolNames
  BY <1>1, ToolsAssumption
<1>3. Untrusted(x.o) \in Among(PostTool(x.o))
  BY <1>1, ResultsOfTools
<1>4. EventsOf(x.o) = PostTool(x.o)
  BY <1>1, EventsOfHooks, SMT DEF Hooks
<1>5. PICK i \in DOMAIN EventsOf(x.o) : EventsOf(x.o)[i] = Untrusted(x.o)
  BY <1>3, <1>4 DEF Among
<1>6. \A id, time :
        FrameOf(Stamped(EventsOf(x.o)[i], id, time)).event.opens = BuiltInRules
  <2> SUFFICES ASSUME NEW id, NEW time
               PROVE  FrameOf(Stamped(EventsOf(x.o)[i], id, time)).event.opens = BuiltInRules
    OBVIOUS
  <2>1. FrameOf(Stamped(Untrusted(x.o), id, time)).event.opens = BuiltInRules
    BY <1>2, InstructionsOpen
  <2> QED
    BY <1>5, <2>1, Zenon
<1> QED
  BY <1>6, Zenon

(* An action of the agent under a rule, within its window after untrusted    *)
(* instructions, is reported under that rule, or one between the two is,     *)
(* however their events were ordered and interleaved with those of others.  *)
THEOREM InjectionIsReported == Spec => []InjectionObserved
<1>1. /\ ObservedInvariant /\ History
      /\ Correlated!LedgerInvariant /\ Correlated!SequenceReported
      => InjectionObserved
  <2> SUFFICES ASSUME ObservedInvariant, History,
                      Correlated!LedgerInvariant, Correlated!SequenceReported,
                      NEW x \in Seen, NEW y \in Seen, NEW rule \in BuiltInRules,
                      Injected(x), rule \in RuleFor(y.o),
                      InOrder(x, y), y.at - x.at <= RuleWindow[rule], Settled(x), Settled(y)
               PROVE  \/ ReportedFor(rule, x) \/ ReportedFor(rule, y)
                      \/ \E row \in events :
                           Between(rule, row, x, y) /\ ReportedFor(rule, [ids |-> {row.event.id}])
    BY DEF InjectionObserved
  <2>1. x.o \in Observations /\ y.o \in Observations
    BY Moments DEF Seen
  <2>2. PICK i \in DOMAIN EventsOf(x.o) : \A id, time :
          FrameOf(Stamped(EventsOf(x.o)[i], id, time)).event.opens = BuiltInRules
    BY <2>1, InstructionsAreSent
  <2>3. PICK j \in DOMAIN EventsOf(y.o) : \A id, time :
          rule \in FrameOf(Stamped(EventsOf(y.o)[j], id, time)).event.closes
    BY <2>1, ActionsAreSent
  <2>4. RuleWindow[rule] \in Nat /\ rule \in Rules
    BY CorrelationAssumption, ObservedAssumption
  <2>5. PICK p \in x.ids, q \in y.ids :
          LET a == FrameOf(Stamped(EventsOf(x.o)[i], p, x.at))
              b == FrameOf(Stamped(EventsOf(y.o)[j], q, y.at))
          IN  /\ a \in events /\ a.source = Source /\ a.event.id = p /\ a.event.time = x.at
              /\ b \in events /\ b.source = Source /\ b.event.id = q /\ b.event.time = y.at
              /\ a.event.trace # None /\ a.event.trace = b.event.trace
              /\ Before(a.event, b.event) /\ Within(a.event, b.event, RuleWindow[rule])
    BY <2>2, <2>3, <2>4, OrderIsRecorded
  <2> DEFINE a == FrameOf(Stamped(EventsOf(x.o)[i], p, x.at))
             b == FrameOf(Stamped(EventsOf(y.o)[j], q, y.at))
  <2>6. a.event.opens = BuiltInRules /\ rule \in b.event.closes
    BY <2>2, <2>3
  <2>7. /\ a \in events /\ a.source = Source /\ a.event.id = p /\ a.event.time = x.at
        /\ b \in events /\ b.source = Source /\ b.event.id = q /\ b.event.time = y.at
        /\ a.event.trace # None /\ a.event.trace = b.event.trace
        /\ Before(a.event, b.event) /\ Within(a.event, b.event, RuleWindow[rule])
    BY <2>5
  <2> HIDE DEF a, b
  <2>8. Correlated!Completes(rule, a.event, b.event)
    BY <2>6, <2>7, SameOrder
       DEF Correlated!Completes, Correlated!SameJoin, Correlated!Within, Within
  <2>9. Correlated!Authenticated(a, b)
    BY <2>7, ObservedAssumption DEF Correlated!Authenticated
  <2>10. PICK row \in events :
           /\ row.source = a.source /\ rule \in row.event.closes
           /\ a.event.time <= row.event.time /\ row.event.time <= b.event.time
           /\ Correlated!Reported(rule, Correlated!RecordedLast(a.event, row.event))
    BY <2>4, <2>7, <2>8, <2>9, LedgerAssumptionsHold, Correlated!FirstClosingIsReported
  <2>11. Between(rule, row, x, y)
    BY <2>7, <2>10 DEF Between
  <2>12. ReportedFor(rule, x) \/ ReportedFor(rule, [ids |-> {row.event.id}])
    BY <2>7, <2>10, ReportsAreFound
  <2> QED
    BY <2>11, <2>12
<1>2. Correlated!LedgerSpec => []Correlated!LedgerInvariant /\ []Correlated!SequenceReported
  BY Correlated!LedgerInvariantHolds, Correlated!SequenceNeverSilent, LedgerAssumptionsHold, PTL
<1> QED
  BY <1>1, <1>2, ObservedIsCorrelatedLedger, ObservedInvariantHolds, HistoryHolds, PTL

====
