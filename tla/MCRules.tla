-------------------------------- MODULE MCRules --------------------------------
(* Inputs for the rules of Redaction, ContextRules, ProviderRouting,         *)
(* ToolAccess and HttpApi. A behaviour builds one input, piece by piece, and *)
(* every state on the way is an input of its own.                            *)
EXTENDS ContextRules, ProviderRouting, HttpApi

CONSTANTS MaxTotal, MaxPieces

VARIABLE case

(* Categories that fill before the total, a total that fills before them, no *)
(* room at all, and a category without a share.                              *)
Budgets ==
    {[total |-> 6, reserve |-> 1, limit |-> [c \in Categories |-> 3]],
     [total |-> 4, reserve |-> 1, limit |-> [c \in Categories |-> 3]],
     [total |-> 2, reserve |-> 3, limit |-> [c \in Categories |-> 2]],
     [total |-> 5, reserve |-> 0, limit |-> [c \in Categories |-> IF c = "evidence" THEN 2 ELSE -1]]}

Servers ==
    [token : BOOLEAN, session : {"gone", "tier0", "tier1", "tier3"}, busy : BOOLEAN,
     tool : {t \in CoreTools : t.name \in {"read_file", "run_tests", "write_file", "symbolic_shell"}}
                \union {[name |-> "scan", source |-> "plugin", trust |-> "tier2", effect |-> "read",
                         approval |-> TRUE, scope |-> "workspace_read", mcp |-> NoMCP]},
     approval : {"pending", "overdue", "mutated"}, fails : BOOLEAN]

Requests ==
    [route : Routes, method : {"GET"}, authorization : {"none", "wrong", "right"},
     role : {"", "operator", "viewer", "other"}, body : {<<>>}]

(* A turn's message, and the files that go with it.                          *)
PromptPiece(type, ref, restricted, content) ==
    [type |-> type, ref |-> ref, restricted |-> restricted, content |-> content, included |-> TRUE]
Message(text) == PromptPiece("instruction", 1, FALSE, text)

Init ==
    case \in {[kind |-> "budget", budget |-> b, fragments |-> <<>>] : b \in Budgets}
        \union {[kind |-> "total", total |-> t] : t \in 0..MaxTotal}
        \union {[kind |-> "ranking", signals |-> <<>>]}
        \union {[kind |-> "prompt", room |-> n, fragments |-> <<Message(t)>>] :
                    n \in 0..MaxPieces, t \in {<<>>, <<"plain">>, <<"key">>, <<"assignment">>}}
        \union {[kind |-> "text", restricted |-> r, destination |-> d, text |-> <<>>] :
                    r \in BOOLEAN, d \in Destinations}
        \union {[kind |-> "value", destination |-> d, value |-> <<>>] : d \in Destinations}
        \union {[kind |-> "route", file |-> <<>>,
                 request |-> [tier |-> t, sensitivity |-> s, task |-> "analysis",
                              capabilities |-> {"text"}, preferLocal |-> FALSE]] :
                    t \in {"tier0", "tier1"}, s \in {"A", "B"}}
        \union {[kind |-> "plugins", manifests |-> <<>>]}
        \union {[kind |-> "request", server |-> s, request |-> r] : s \in Servers, r \in Requests}

AddFragment ==
    /\ case.kind = "budget" /\ Len(case.fragments) < MaxPieces
    /\ \E type \in {"file", "tool_output", "history"}, rank \in 1..2, tokens \in {0, 1, 3} :
        case' = [case EXCEPT !.fragments = Append(@,
                    [type |-> type, ref |-> Len(@) + 1, rank |-> rank, tokens |-> tokens, truncated |-> FALSE])]

Signals ==
    [kind : {"explicit_target"}, path : 1..2]
        \union [kind : {"filename_match", "symbol_match"}, path : 1..2, score : {200, 600}]
        \union [kind : {"diagnostic"}, path : 1..2, error : BOOLEAN]
        \union [kind : {"git_signal"}, path : 1..2, churn : {0, 800}, recent : BOOLEAN]

AddOneSignal ==
    /\ case.kind = "ranking" /\ Len(case.signals) < MaxPieces
    /\ \E signal \in Signals : case' = [case EXCEPT !.signals = Append(@, signal)]

AddPromptFragment ==
    /\ case.kind = "prompt" /\ Len(case.fragments) < MaxPieces
    /\ \E restricted \in BOOLEAN, content \in {<<>>, <<"plain">>, <<"key">>, <<"plain", "assignment">>} :
        case' = [case EXCEPT !.fragments =
                    Append(@, PromptPiece("file", Len(@) + 1, restricted, content))]

AddWord ==
    /\ case.kind = "text" /\ Len(case.text) < MaxPieces
    /\ \E word \in {"plain", "key", "assignment", "random"} : case' = [case EXCEPT !.text = Append(@, word)]

Paths == {<<"name">>, <<"secret_name">>, <<"list", "first">>, <<"list", "second", "secret_name">>}
Leaves == {Number, <<>>, <<"plain">>, <<"plain", "plain">>, <<"key">>, <<"assignment", "random">>, <<"hash">>}

AddLeaf ==
    /\ case.kind = "value"
    /\ \E path \in Paths \ DOMAIN case.value, leaf \in Leaves :
        case' = [case EXCEPT !.value = @ @@ (path :> leaf)]

AddProvider ==
    /\ case.kind = "route" /\ Len(case.file) < MaxPieces
    /\ \E name \in 1..3, tiers \in {{"tier1"}, {"tier0", "tier1"}}, sensitivity \in {{"A"}, {"A", "B"}} :
        case' = [case EXCEPT !.file = Append(@,
                    [name |-> name, tiers |-> tiers, sensitivity |-> sensitivity, tasks |-> {"analysis"}])]

(* One manifest with one tool of any sort ...                                *)
AnyTool ==
    [name : {"echo", "scan"}, effect : Effects \union {"unknown"}, approval : BOOLEAN,
     access : {"", "none", "workspace_read"}, network : {"none", "egress_open"},
     mcp : {NoMCP, [transport |-> "local", destinations |-> {}],
            [transport |-> "remote", destinations |-> {}],
            [transport |-> "remote", destinations |-> {"d1"}]}]

AnyManifest ==
    /\ case.kind = "plugins" /\ case.manifests = <<>>
    /\ \E level \in Tiers \union {"unknown"}, defaults \in {{}, {"read", "execute"}}, tool \in AnyTool :
        case' = [case EXCEPT !.manifests = <<[level |-> level, defaults |-> defaults, tools |-> <<tool>>]>>]

(* ... or several manifests of several tools that differ in fewer ways.      *)
SomeTools ==
    {[name |-> n, effect |-> e, approval |-> FALSE, access |-> "workspace_read", network |-> "none", mcp |-> NoMCP] :
        n \in {"echo", "scan", "fetch"}, e \in {"read", "execute"}}

AddManifest ==
    /\ case.kind = "plugins" /\ Len(case.manifests) < 2
    /\ \A i \in DOMAIN case.manifests : ToSet(case.manifests[i].tools) \subseteq SomeTools
    /\ \E level \in {"tier0", "tier2"}, defaults \in {{}, {"execute"}} :
        case' = [case EXCEPT !.manifests = Append(@, [level |-> level, defaults |-> defaults, tools |-> <<>>])]

AddTool ==
    /\ case.kind = "plugins" /\ case.manifests # <<>> /\ Len(Last(case.manifests).tools) < 2
    /\ ToSet(Last(case.manifests).tools) \subseteq SomeTools
    /\ \E tool \in SomeTools :
        case' = [case EXCEPT !.manifests[Len(case.manifests)].tools = Append(@, tool)]

(* A call of a tool that some server has.                                    *)
CallTool ==
    /\ case.kind = "plugins" /\ Len(case.manifests) = 1 /\ Len(case.manifests[1].tools) = 1
    /\ ~InitializeTooling(case.manifests).failed
    /\ \E tool \in InitializeTooling(case.manifests).tools, session \in {"none", "gone", "unknown"} \union Tiers,
          role \in {"viewer", "operator", ""},
          input \in [full : BOOLEAN, path : BOOLEAN, destination : {"", "d1", "d2"}] :
        /\ tool.source = "plugin" => tool.name = "scan"
        /\ case' = [kind |-> "call", tool |-> tool, session |-> session, role |-> role, input |-> input]

(* A POST, and its body field by field.                                      *)
Post ==
    /\ case.kind = "request" /\ case.request.method = "GET"
    /\ case' = [case EXCEPT !.request.method = "POST"]

Fields ==
    [repo_path |-> {"string"}, trust_tier |-> {"string", "number"}, session_id |-> {"string", "number"},
     message |-> {"string", "empty"}, decision |-> {"approve", "deny", "string"},
     tool_name |-> {"string", "empty"}, input |-> {"object", "string"}]

(* Not more fields than the longest request has, and only those it may need. *)
FieldsOf(route) ==
    CASE route = "sessions"     -> {"repo_path", "trust_tier"}
      [] route = "approval"     -> {"decision"}
      [] route = "tool_execute" -> {"tool_name", "input", "session_id"}
      [] OTHER                  -> {"session_id", "message"}

AddField ==
    /\ case.kind = "request" /\ case.request.method = "POST"
    /\ \E field \in FieldsOf(case.request.route) \ DOMAIN case.request.body :
        \E value \in Fields[field] : case' = [case EXCEPT !.request.body = @ @@ (field :> value)]

Next ==
    \/ Post \/ AddField
    \/ AddFragment \/ AddOneSignal \/ AddPromptFragment \/ AddWord \/ AddLeaf \/ AddProvider
    \/ AnyManifest \/ AddManifest \/ AddTool \/ CallTool

Spec == Init /\ [][Next]_case

(* The budget of a prompt is kept, for each category and in all, and no      *)
(* fragment is cut while there is room that those before it have not used.   *)
BudgetIsKept ==
    /\ case.kind = "budget" =>
           WithinBudget(case.fragments, case.budget) /\ ServedInOrder(case.fragments, case.budget)
    /\ case.kind = "total" => SharesFit(case.total)

(* What is chosen for a prompt, and its order, does not depend on the order  *)
(* in which fragments or signals were found.                                 *)
OrderDoesNotMatter ==
    /\ case.kind = "budget" => AllocatedAlike(case.fragments, case.budget)
    /\ case.kind = "ranking" => RankedAlike(case.signals)

(* The manifest of a turn lists what the model was sent, also when one of    *)
(* its events cannot be stored or nothing is left to be sent.                *)
ManifestIsTrue == case.kind = "prompt" => ManifestTellsPrompt(case.fragments, case.room)

(* No destination gets a word that the detector has a rule for, and what is  *)
(* changed in a value is told in a notice.                                   *)
SecretsAreWithheld ==
    /\ case.kind = "text" => Withheld(case.restricted, case.text, case.destination)
    /\ case.kind = "value" => ChangesAreNoticed(case.value, case.destination)

(* A request is routed as the provider policy says.                          *)
RoutedAsPermitted == case.kind = "route" => RoutesAsPolicySays(case.file, case.request)

(* Plugins add their own tools and change no other.                          *)
PluginsAreLoaded == case.kind = "plugins" => LoadedAsDeclared(case.manifests)

(* Nothing runs for a request that the tier, the role or a plugin's          *)
(* declaration forbids, and a plugin's tool with an effect that a client     *)
(* calls waits for an operator.                                              *)
AccessIsLimited ==
    case.kind = "call" =>
        /\ PolicyIsEnforced(case.tool, case.session, case.role, case.input)
        /\ PluginsAskFirst(case.tool, case.session, case.role, case.input)

(* The two gates, at the proposal and at the decision, agree.                *)
GatesAgree == case.kind = "call" => ProposalsStayAllowed(case.tool, case.session, case.role, case.input)

(* No request changes more than its token and its role allow, on any route.  *)
RolesAreKept == case.kind = "request" => ActsAsAuthorized(case.server, case.request)

(* What is refused as the client's mistake has done no more than a failed    *)
(* call, an overdue approval or a refused decision explains.                 *)
RefusalsChangeNothing == case.kind = "request" => RefusedUnchanged(case.server, case.request)

(* A statement of the documents that the code does not keep (see README):    *)
(* a turn that was created is answered as created.                           *)
CreatedTurnsAreTold == case.kind = "request" => ToldOfTurn(case.server, case.request)
================================================================================
