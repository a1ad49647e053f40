---------------------------- MODULE ProviderRouting ----------------------------
(* Which provider a request is routed to: the provider policy that is read   *)
(* at the start (policy/provider_policy.go), the routes the server makes of  *)
(* it, and the choice among them (policy/routing.go, GET /policy).           *)
(*                                                                           *)
(* A provider's name is a number, for its place in the order of names; the   *)
(* names in LocalNames are those that begin with "local". 0 is the empty     *)
(* name.                                                                     *)
EXTENDS Integers, Sequences, FiniteSets, SequencesExt, Ordering

CONSTANT LocalNames

AllowedTrustTiers  == {"tier0", "tier1", "tier2", "tier3"}
AllowedSensitivity == {"A", "B", "C", "D"}

(* ProviderPolicy.Validate.                                                  *)
Validate(providers) ==
    /\ providers # <<>>
    /\ \A i \in DOMAIN providers :
        /\ providers[i].name # 0
        /\ \A j \in DOMAIN providers : providers[i].name = providers[j].name => i = j
        /\ providers[i].tiers # {} /\ providers[i].tiers \subseteq AllowedTrustTiers
        /\ providers[i].sensitivity # {} /\ providers[i].sensitivity \subseteq AllowedSensitivity
        /\ providers[i].tasks # {}

(* Fault: the providers stay in the order of the file.                       *)
AsInFile(providers) == providers

Normalized(providers) == SortStable(providers, LAMBDA p, q : p.name < q.name)

(* buildRouteEngine: the later in the list, the slower and the dearer. The   *)
(* latency is in milliseconds, the cost in thousandths of a dollar.          *)
BuildRoutes(providers) ==
    [i \in DOMAIN providers |->
        [provider |-> providers[i], local |-> providers[i].name \in LocalNames,
         capabilities |-> {"text"}, latency |-> 50 + (i - 1) * 5, cost |-> i - 1]]

Eligible(route, request) ==
    /\ request.tier \in route.provider.tiers
    /\ request.sensitivity \in route.provider.sensitivity
    /\ request.task \in route.provider.tasks
    /\ request.capabilities \subseteq route.capabilities

Cheaper(a, b) ==
    \/ a.latency < b.latency
    \/ a.latency = b.latency /\ a.cost < b.cost
    \/ a.latency = b.latency /\ a.cost = b.cost /\ a.provider.name < b.provider.name

(* RouteEngine.Select: the names of the routes that may be taken, best       *)
(* first; the first is the one chosen, and there is an error if there is     *)
(* none.                                                                     *)
Select(routes, request) ==
    LET eligible == Where(routes, LAMBDA r : Eligible(r, request))
        ranked   == SortStable(eligible, LAMBDA a, b :
                        IF request.preferLocal /\ a.local # b.local THEN a.local ELSE Cheaper(a, b))
    IN [i \in DOMAIN ranked |-> ranked[i].provider.name]

(* LoadProviderPolicy, buildRouteEngine and handlePolicy together: what      *)
(* GET /policy answers for a policy file and a request.                      *)
RouteDecision(file, request) ==
    Select(BuildRoutes(Normalized(file)),
           [request EXCEPT !.preferLocal = TRUE, !.capabilities = {}])

----------------------------------------------------------------------------
(* The answer ranks exactly the providers that the policy permits for the    *)
(* request, local ones before others and each group by name, wherever a      *)
(* provider stands in the file.                                              *)
RoutesAsPolicySays(file, request) ==
    LET ranked    == RouteDecision(file, request)
        permitted == {p \in ToSet(file) : /\ request.tier \in p.tiers
                                          /\ request.sensitivity \in p.sensitivity
                                          /\ request.task \in p.tasks}
    IN Validate(file) =>
        /\ ToSet(ranked) = {p.name : p \in permitted}
        /\ IsInjective(ranked)
        /\ \A i, j \in DOMAIN ranked : i < j =>
            \/ ranked[i] \in LocalNames /\ ranked[j] \notin LocalNames
            \/ (ranked[i] \in LocalNames <=> ranked[j] \in LocalNames) /\ ranked[i] < ranked[j]
================================================================================
