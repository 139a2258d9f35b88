---- MODULE MCObserved ----
(* Instances of ObservedLedger for TLC: every tool class of the plugin with *)
(* what its parameters and results may hold, and canonical events of other  *)
(* producers, right or wrong in one place each.                             *)
EXTENDS ObservedLedger

CONSTANTS user, tenant, trace, session, bad

MCRuleWindow == [r \in Rules |-> 2]
MCRules == BuiltInRules

(* Identifiers compare as texts: "10_" < ... < "19_" < "1_" < "20_" < "2_". *)
MCIdentifierOf ==
  [n \in 1 .. MaxCount |->
     IF n < 10 THEN 100 * n + 50 ELSE 100 * (n \div 10) + (n % 10)]

Blind == [hook |-> "register", tool |-> "none", sensitive |-> FALSE, network |-> FALSE, ip |-> FALSE,
          secret |-> FALSE, injection |-> FALSE, malware |-> FALSE, scheduled |-> FALSE,
          messages |-> None]

PreCalls ==
  {[Blind EXCEPT !.hook = "pre_tool_call", !.tool = t, !.sensitive = s, !.network = n[1], !.ip = n[2]] :
     t \in {"read_file", "search_files", "patch", "terminal", "slack", "srv.tool"},
     s \in BOOLEAN, n \in {<<FALSE, FALSE>>, <<TRUE, FALSE>>, <<TRUE, TRUE>>}}

PostCalls ==
  {[Blind EXCEPT !.hook = "post_tool_call", !.tool = t, !.secret = r[1], !.injection = r[2],
                 !.malware = r[3], !.scheduled = TRUE] :
     t \in {"read_file", "web_search", "cronjob"},
     r \in {<<FALSE, FALSE, FALSE>>, <<TRUE, FALSE, FALSE>>, <<FALSE, TRUE, FALSE>>,
            <<FALSE, FALSE, TRUE>>, <<TRUE, TRUE, TRUE>>}}

OtherCalls ==
  {[Blind EXCEPT !.hook = h] : h \in {"register", "simulate", "on_session_start", "on_session_end"}}
    \union {[Blind EXCEPT !.hook = "pre_llm_call", !.messages = m] : m \in {None, "few", "more"}}

MCObservations == PreCalls \union PostCalls \union OtherCalls

(* Events of other producers. *)
Other(type, kind, attributes) ==
  [Event(type, kind, Trust(type), attributes, None, {}) EXCEPT
     !.severity = "other", !.profile = "other", !.tenant = tenant, !.trace = None,
     !.session = session, !.parent = trace, !.source_event = session, !.span = trace]

Config == Other("agent.config.changed", "configuration",
                [approval_required |-> "no", persistence_indicator |-> "yes"])
Approval == Other("agent.approval.granted", "sensor", [scope_expansion |-> "yes"])
P0Egress ==
  [Other("agent.network.egress", "process",
         [command_class |-> "network_egress", network_indicator |-> "yes", direct_ip |-> "yes",
          command |-> "<local>", token |-> "<secret>"])
   EXCEPT !.profile = "p0", !.session = None,
          !.redacted = {RedactedField("token", "secret", "<secret>"),
                        RedactedField("command", "local_context", "<local>")}]
MailOut ==
  [Other("agent.tool.requested", "messaging",
         [hook |-> "pre_tool_call", tool_name |-> "email", network_indicator |-> "no",
          direct_ip |-> "no", delivery_indicator |-> "yes", sensitive_access |-> "no",
          params_length |-> "zero", params_preview |-> "<omitted>"])
   EXCEPT !.artifact = [kind |-> "email", provider |-> "email", label |-> "short",
                        locator |-> None, trust |-> "agent_action"]]

Wrong ==
  {[Config EXCEPT !.kind = "sensor"], [Config EXCEPT !.profile = "unsafe"],
   [Config EXCEPT !.title = "long"], [Config EXCEPT !.details = "text"],
   [Config EXCEPT !.session = bad], [Config EXCEPT !.trace = bad],
   [Config EXCEPT !.attributes = [approval_required |-> "no"]],
   [Config EXCEPT !.attributes = With(@, [note |-> "text"])],
   [Config EXCEPT !.redacted = {RedactedField("details", "secret", "<secret>")}],
   [P0Egress EXCEPT !.redacted = {}],
   [P0Egress EXCEPT !.profile = "other"],
   [MailOut EXCEPT !.attributes.delivery_indicator = "no"],
   [MailOut EXCEPT !.attributes.direct_ip = "yes"],
   [MailOut EXCEPT !.attributes = With(@, [tool_class |-> "mcp"])],
   [MailOut EXCEPT !.artifact.provider = "browser"]}

MCOthers == {Config, Approval, P0Egress, MailOut} \union Wrong

====
