------------------------------ MODULE ToolAccess ------------------------------
(* Which tools there are and who may use them: the core tools and those that *)
(* plugin manifests add at the start (server.go initializeTooling,           *)
(* tools/registry.go, mcp/loader.go), and the gates a call passes on its way *)
(* from the API or from the agent to the executor (server.go).               *)
(*                                                                           *)
(* A tool is [name, source, trust, effect, approval, scope, mcp]; `mcp` is   *)
(* NoMCP or [transport, destinations]. The schemas and limits that every     *)
(* definition must have are taken as given.                                  *)
EXTENDS Integers, Sequences, FiniteSets, SequencesExt

NoMCP   == [transport |-> "none", destinations |-> {}]
Tiers   == {"tier0", "tier1", "tier2", "tier3"}
Effects == {"none", "read", "write", "execute", "network"}

CoreTool(name, effect, approval) ==
    [name |-> name, source |-> "", trust |-> "", effect |-> effect, approval |-> approval,
     scope |-> IF effect \in {"write", "execute"} THEN "repo" ELSE "", mcp |-> NoMCP]

CoreTools ==
    {CoreTool("echo", "none", FALSE), CoreTool("read_file", "read", FALSE),
     CoreTool("write_file", "write", TRUE), CoreTool("run_tests", "execute", FALSE),
     CoreTool("run_lint", "execute", FALSE), CoreTool("restricted_shell", "execute", TRUE),
     [CoreTool("symbolic_shell", "execute", TRUE) EXCEPT !.source = "core", !.trust = "tier1"],
     CoreTool("apply_patch", "write", TRUE)}

----------------------------------------------------------------------------
(* Loading. A registry is a set of tools; `failed` says that the start of    *)
(* the server ended with an error.                                           *)

(* ToolDefinition.Validate.                                                  *)
Valid(tool) ==
    /\ tool.name # ""
    /\ tool.effect \in Effects
    /\ tool.effect \in {"write", "execute"} => tool.scope # ""

(* Fault: a tool replaces the one of the same name.                          *)
RegisterOver(loading, tool) ==
    IF Valid(tool)
    THEN [loading EXCEPT !.tools = {t \in @ : t.name # tool.name} \union {tool}]
    ELSE [loading EXCEPT !.failed = TRUE]

Register(loading, tool) ==
    IF Valid(tool) /\ \A t \in loading.tools : t.name # tool.name
    THEN [loading EXCEPT !.tools = @ \union {tool}]
    ELSE [loading EXCEPT !.failed = TRUE]

(* validateMCPMetadata.                                                      *)
ValidMCP(mcp, network) ==
    mcp.transport = "remote" => network # "none" /\ mcp.destinations # {}

(* A manifest's tool is [name, effect, approval, access, network, mcp]; the  *)
(* check of toPlugin.                                                        *)
Declarable(tool) ==
    /\ tool.access \in {"none", "metadata", "workspace_read", "workspace_write", "secrets"}
    /\ tool.network \in {"none", "egress_limited", "egress_open"}
    /\ ValidMCP(tool.mcp, tool.network)

(* The tool that is registered for it: toPlugin, approvalDefaultForSideEffect*)
(* and the first lines of LoadFromFile's loop. manifest.defaults is the set  *)
(* of effects that need an approval by default.                              *)
PluginTool(manifest, tool) ==
    [name |-> tool.name, source |-> "plugin", trust |-> manifest.level, effect |-> tool.effect,
     approval |-> tool.approval \/ tool.effect \in manifest.defaults, scope |-> tool.access, mcp |-> tool.mcp]

(* validateToolForTrust.                                                     *)
FitsTrust(tool) == tool.trust = "tier0" => tool.effect \notin {"write", "execute", "network"}

RegisterPluginTool(loading, tool) ==
    IF loading.failed \/ ~FitsTrust(tool) THEN [loading EXCEPT !.failed = TRUE]
    ELSE Register(loading, tool)

(* LoadFromFile: the tools are registered one by one, after all have been    *)
(* checked; validatePlugin's other fields are taken as given.                *)
LoadFromFile(loading, manifest) ==
    IF \/ loading.failed
       \/ \E i \in DOMAIN manifest.tools : ~Declarable(manifest.tools[i])
       \/ manifest.level \notin Tiers
    THEN [loading EXCEPT !.failed = TRUE]
    ELSE FoldLeft(LAMBDA l, t : RegisterPluginTool(l, PluginTool(manifest, t)), loading, manifest.tools)

(* initializeTooling with the manifests of the plugin directory, by name.    *)
InitializeTooling(manifests) ==
    FoldLeft(LoadFromFile, [tools |-> CoreTools, failed |-> FALSE], manifests)

----------------------------------------------------------------------------
(* A call. A session is "none" (the call names none), "gone" (it names one   *)
(* that does not exist) or the session's trust tier, which is whatever text  *)
(* it was created with. The role is that of the request; the agent's calls   *)
(* have none, as have requests to a server without a token.                  *)
Mutating == {"write", "execute", "network"}

(* isPluginExposedForTrustTier, isTrustTierAtLeast.                          *)
Rank == [tier0 |-> 0, tier1 |-> 1, tier2 |-> 2, tier3 |-> 3]
AtLeast(candidate, required) ==
    candidate \in DOMAIN Rank /\ required \in DOMAIN Rank /\ Rank[candidate] >= Rank[required]
Exposed(tier, level) == tier # "tier3" /\ AtLeast(level, tier)

(* isToolHiddenForSession.                                                   *)
Hidden(tool, session) ==
    /\ tool.source = "plugin" \/ tool.trust # ""
    /\ session \in {"none", "gone"} \/ ~Exposed(session, tool.trust)

(* Fault: an effect that the mapping does not know is no effect.             *)
NetworkForgotten(effect) == IF effect = "network" THEN "none" ELSE effect

MapToolSideEffect(effect) == effect

(* The rules of enforceTrustTierToolPolicy.                                  *)
DeniedBy(tool, tier, role) ==
    LET effect == MapToolSideEffect(tool.effect)
    IN \/ role = "viewer" /\ effect \notin {"read", "none"}
       \/ tier = "tier0" /\ effect \in Mutating
       \/ tier = "tier3" /\ tool.source = "plugin"
       \/ tier = "tier3" /\ effect \in {"execute", "network"}

(* enforceTrustTierToolPolicy.                                               *)
PolicyAllows(tool, session, role) ==
    /\ ~(role = "viewer" /\ tool.effect \notin {"read", "none"})
    /\ session # "none" => session # "gone" /\ ~DeniedBy(tool, session, role)

RequiresApproval(tool) == tool.approval \/ (tool.source = "plugin" /\ tool.effect \in Mutating)

(* validateToolDataAccess. An input is [full, path, destination].            *)
DataAccessAllowed(tool, input) ==
    tool.source = "plugin" =>
        ~input.full /\ tool.scope # "" /\ (input.path => tool.scope \notin {"none", "metadata"})

(* validateMCPDestination.                                                   *)
DestinationAllowed(tool, input) ==
    tool.mcp.transport = "remote" => input.destination \in tool.mcp.destinations

(* handleToolExecute.                                                        *)
HandleToolExecute(tool, session, role, input) ==
    IF ~(/\ DataAccessAllowed(tool, input) /\ ~Hidden(tool, session)
         /\ DestinationAllowed(tool, input) /\ PolicyAllows(tool, session, role)) THEN "refused"
    ELSE IF RequiresApproval(tool) THEN "proposed"
    ELSE "run"

(* Fault: what the agent proposes is checked only when it is decided.        *)
ProposeUnchecked(tool, session) == IF tool.approval THEN "proposed" ELSE "run"

(* RequestApproval, the gate of the agent's calls, which belong to a session.*)
RequestApproval(tool, session) ==
    IF ~tool.approval THEN "run"
    ELSE IF Hidden(tool, session) \/ ~PolicyAllows(tool, session, "") THEN "refused"
    ELSE "proposed"

(* handleApprovalByID, of an operator who approves a proposal.               *)
HandleApproval(tool, session) ==
    IF Hidden(tool, session) \/ ~PolicyAllows(tool, session, "operator") THEN "refused" ELSE "run"

----------------------------------------------------------------------------
(* What a tier permits, as a table.                                          *)
Permitted(tier) ==
    CASE tier = "tier0" -> {"none", "read"}
      [] tier = "tier3" -> {"none", "read", "write"}
      [] OTHER          -> Effects

(* Whatever a request makes the server run, at once or when an operator      *)
(* approves it, is within what the session's tier permits, is nothing that   *)
(* changes anything if the request is a viewer's, and is a plugin's tool     *)
(* only where the plugin's trust reaches the session's tier, that tier is    *)
(* not tier3, and the data and destination asked for are in its declaration. *)
PolicyIsEnforced(tool, session, role, input) ==
    LET outcome == HandleToolExecute(tool, session, role, input)
        runs    == outcome = "run" \/ (outcome = "proposed" /\ HandleApproval(tool, session) = "run")
    IN runs =>
        /\ tool.effect \in Permitted(session)
        /\ role = "viewer" => tool.effect \in {"none", "read"}
        /\ tool.source = "plugin" =>
            /\ session \in {"tier0", "tier1", "tier2"} /\ AtLeast(tool.trust, session)
            /\ ~input.full
            /\ input.path => tool.scope \in {"workspace_read", "workspace_write", "secrets"}
            /\ tool.mcp.transport = "remote" => input.destination \in tool.mcp.destinations

(* When a client calls it, a plugin's tool that changes anything waits for a *)
(* decision, whatever its manifest says. When the agent calls it, it waits   *)
(* only if the manifest asks for that: RequestApproval does not look further.*)
PluginsAskFirst(tool, session, role, input) ==
    tool.source = "plugin" /\ tool.effect \in Mutating =>
        HandleToolExecute(tool, session, role, input) # "run"

(* What is proposed can be decided: the checks when an approval is decided   *)
(* refuse nothing that the checks when it was proposed let pass, so that no  *)
(* operator approves what cannot run.                                        *)
ProposalsStayAllowed(tool, session, role, input) ==
    /\ HandleToolExecute(tool, session, role, input) = "proposed" => HandleApproval(tool, session) = "run"
    /\ session # "none" /\ RequestApproval(tool, session) = "proposed" => HandleApproval(tool, session) = "run"

(* A server that starts has the core tools as they are and every tool of     *)
(* every manifest once, with the trust of its own plugin and the approval    *)
(* its manifest asks for; and none of a tier0 plugin changes anything.       *)
LoadedAsDeclared(manifests) ==
    LET loading  == InitializeTooling(manifests)
        declared == UNION {{<<i, j>> : j \in DOMAIN manifests[i].tools} : i \in DOMAIN manifests}
    IN ~loading.failed =>
        /\ CoreTools \subseteq loading.tools
        /\ Cardinality(loading.tools) = Cardinality(CoreTools) + Cardinality(declared)
        /\ \A d \in declared :
            LET manifest == manifests[d[1]]
                tool     == manifest.tools[d[2]]
            IN \E t \in loading.tools :
                /\ t.name = tool.name /\ t.source = "plugin" /\ t.trust = manifest.level
                /\ t.effect = tool.effect /\ t.mcp = tool.mcp
                /\ t.approval <=> tool.approval \/ tool.effect \in manifest.defaults
                /\ t.trust = "tier0" => t.effect \notin Mutating
        /\ \A t, u \in loading.tools : t.name = u.name => t = u

(* A statement of the documents that the code does not keep (see README):    *)
(* the tiers bind the agent as well.                                         *)
PolicyHoldsForAgents(tool, session) ==
    RequestApproval(tool, session) = "run" => tool.effect \in Permitted(session)
================================================================================
