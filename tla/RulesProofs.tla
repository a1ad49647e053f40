------------------------------ MODULE RulesProofs ------------------------------
(* Proofs about the rules: what TLC checks for the inputs that MCRules       *)
(* builds is shown here for every input.                                     *)
EXTENDS MCRules, FiniteSetTheorems, SequenceTheorems, TLAPS

(***************************************************************************)
(* Secrets                                                                 *)
(***************************************************************************)
LEMMA ClassIs ==
  ASSUME NEW r, NEW text
  PROVE  /\ Classify(r, text) \in {"A", "B", "C", "D"}
         /\ Classify(r, text) = "A" <=> Has(text, {"key"})
         /\ Classify(r, text) \in {"C", "D"} <=>
                ~Has(text, {"key", "assignment", "random", "hash"})
BY DEF Classify, Has, HighEntropy

LEMMA ActionIs ==
  ASSUME NEW r, NEW text, NEW d \in Destinations
  PROVE  LET class  == Classify(r, text)
             action == ActionFor[class][d]
         IN /\ action = "deny" => class \in {"A", "B"}
            /\ action = "allow" => class \in {"C", "D"}
            /\ action = "mask" => class \in {"B", "C"}
            /\ action \in {"deny", "mask", "partial-mask", "summarize", "hash", "allow"}
<1>1. Classify(r, text) \in {"A", "B", "C", "D"}
  BY ClassIs
<1>2. PICK c : c = Classify(r, text)
  OBVIOUS
<1>3. /\ c \in {"A", "B", "C", "D"}
      /\ d \in {"model_provider", "persistence", "export", "plugin", "ui"}
  BY <1>1, <1>2 DEF Destinations
<1>4. LET action == ActionFor[c][d]
      IN /\ action = "deny" => c \in {"A", "B"}
         /\ action = "allow" => c \in {"C", "D"}
         /\ action = "mask" => c \in {"B", "C"}
         /\ action \in {"deny", "mask", "partial-mask", "summarize", "hash", "allow"}
  BY ONLY <1>3 DEF ActionFor, Destinations
<1> QED BY <1>2, <1>4

\* For every text, whatever its length and words: no word that a rule matches
\* is left for any destination, and a random one only beside a masked match.
THEOREM TextsWithheld ==
  ASSUME NEW r, NEW Words, NEW text \in Seq(Words), NEW d \in Destinations
  PROVE  Withheld(r, text, d)
<1>1. PICK c : c = Classify(r, text)
  OBVIOUS
<1>2. PICK a : a = ActionFor[c][d]
  OBVIOUS
<1>3. PICK content : content = Transform(a, text)
  OBVIOUS
<1>4. /\ c = "A" <=> Has(text, {"key"})
      /\ c \in {"C", "D"} => ~Has(text, {"key", "assignment", "random", "hash"})
  BY <1>1, ClassIs
<1>5. /\ a = "deny" => c \in {"A", "B"}
      /\ a = "allow" => c \in {"C", "D"}
      /\ a = "mask" => c \in {"B", "C"}
      /\ a \in {"deny", "mask", "partial-mask", "summarize", "hash", "allow"}
  BY <1>1, <1>2, ActionIs
<1>6. /\ ~Has(content, RuleMatches)
      /\ Has(content, {"random"}) => a = "mask" /\ Has(text, {"assignment"})
  <2>1. CASE a = "mask"
    <3>1. content = Mask(text)
      BY <1>3, <2>1 DEF Transform
    <3>2. CASE RedactString(text) = text
      <4>1. content = <<"redacted">>
        BY <3>1, <3>2 DEF Mask
      <4> QED BY <4>1 DEF Has, RuleMatches
    <3>3. CASE RedactString(text) # text
      <4>1. content = RedactString(text)
        BY <3>1, <3>3 DEF Mask
      <4>2. ~Has(content, RuleMatches)
        BY <4>1 DEF RedactString, Has, RuleMatches
      <4>3. ASSUME Has(content, {"random"}) PROVE Has(text, {"assignment"})
        <5>1. Has(text, {"random"})
          BY <4>1, <4>3 DEF RedactString, Has, RuleMatches
        <5>2. c # "C" /\ ~Has(text, {"key"})
          BY <1>4, <1>5, <2>1, <5>1 DEF Has
        <5>3. Has(text, RuleMatches)
          BY <3>3 DEF RedactString, Has
        <5> QED BY <5>2, <5>3 DEF Has, RuleMatches
      <4> QED BY <2>1, <4>2, <4>3
    <3> QED BY <3>2, <3>3
  <2>2. CASE a = "allow"
    <3>1. content = text
      BY <1>3, <2>2 DEF Transform
    <3> QED BY <1>4, <1>5, <2>2, <3>1 DEF Has, RuleMatches
  <2>3. CASE a \in {"deny", "partial-mask", "summarize", "hash"}
    <3>1. content \in {<<"denied">>, <<"redacted">>, <<"ends">>, <<"withheld">>, <<"hash">>}
      BY <1>3, <2>3 DEF Transform, PartialMask
    <3> QED BY <3>1 DEF Has, RuleMatches
  <2> QED BY <1>5, <2>1, <2>2, <2>3
<1> QED BY <1>1, <1>2, <1>3, <1>6 DEF Withheld, Apply

\* What the policy makes of one leaf: it stays as it is when it is allowed,
\* and what is denied changes.
LEMMA LeafIs ==
  ASSUME NEW value, NEW path \in DOMAIN value, NEW d \in Destinations
  PROVE  /\ Leaf(value, path, d).action = "allow" => Leaf(value, path, d).content = value[path]
         /\ Leaf(value, path, d).denied => Leaf(value, path, d).content # value[path]
<1>1. CASE value[path] = Number
  BY <1>1 DEF Leaf
<1>2. CASE value[path] # Number
  <2>1. PICK text : text = value[path]
    OBVIOUS
  <2>2. PICK r : r = Restricted(path)
    OBVIOUS
  <2>3. PICK c : c = Classify(r, text)
    OBVIOUS
  <2>4. PICK a : a = ActionFor[c][d]
    OBVIOUS
  <2>5. /\ c \in {"A", "B", "C", "D"}
        /\ c \in {"C", "D"} <=> ~Has(text, {"key", "assignment", "random", "hash"})
    BY <2>3, ClassIs
  <2>6. a = "deny" => c \in {"A", "B"}
    BY <2>3, <2>4, ActionIs
  <2>7. a = "allow" => Transform(a, text) = text
    BY DEF Transform
  <2>8. ASSUME a = "deny" PROVE Transform(a, text) # text
    <3>1. Transform(a, text) = <<"denied">>
      BY <2>8 DEF Transform
    <3>2. Has(text, {"key", "assignment", "random", "hash"})
      BY <2>5, <2>6, <2>8
    <3>3. ~Has(<<"denied">>, {"key", "assignment", "random", "hash"})
      BY DEF Has
    <3> QED BY <3>1, <3>2, <3>3
  <2>9. Leaf(value, path, d)
          = [class |-> c, action |-> a, denied |-> a = "deny", content |-> Transform(a, text)]
    BY <1>2, <2>1, <2>2, <2>3, <2>4 DEF Leaf, Apply
  <2>10. PICK t : t = Transform(a, text)
    OBVIOUS
  <2>11. PICK leaf : leaf = Leaf(value, path, d)
    OBVIOUS
  <2>12. leaf = [class |-> c, action |-> a, denied |-> a = "deny", content |-> t]
    BY <2>9, <2>10, <2>11
  <2>13. leaf.action = a /\ leaf.content = t /\ (leaf.denied <=> a = "deny")
    BY ONLY <2>12
  <2> QED BY <2>1, <2>7, <2>8, <2>10, <2>11, <2>13
<1> QED BY <1>1, <1>2

\* For every value: a string is changed exactly where a notice tells of
\* something material, and an export that changes an event counts it.
THEOREM ValuesNoticed ==
  ASSUME NEW value, NEW d \in Destinations
  PROVE  ChangesAreNoticed(value, d)
<1> DEFINE Notice(path) ==
             [path |-> path, action |-> Leaf(value, path, d).action,
              denied |-> Leaf(value, path, d).denied,
              material |-> \/ Leaf(value, path, d).denied
                           \/ Leaf(value, path, d).content # value[path]]
           Told == {path \in DOMAIN value : Leaf(value, path, d).action # "allow"}
<1>1. Notices(value, d) = {Notice(path) : path \in Told}
  BY DEF Notices, NoticesFor
<1>2. ASSUME NEW path \in DOMAIN value
      PROVE  Sanitized(value, d)[path] # value[path] <=>
               \E n \in Notices(value, d) : n.path = path /\ n.material
  <2>1. Sanitized(value, d)[path] = Leaf(value, path, d).content
    BY DEF Sanitized
  <2>2. \A q \in Told : Notice(q).path = q
    OBVIOUS
  <2>3. Notice(path).material <=> \/ Leaf(value, path, d).denied
                                  \/ Leaf(value, path, d).content # value[path]
    OBVIOUS
  <2>4. Notice(path).material <=> Leaf(value, path, d).content # value[path]
    BY <2>3, LeafIs
  <2> HIDE DEF Notice
  <2>5. Leaf(value, path, d).content # value[path] => path \in Told
    BY LeafIs
  <2> HIDE DEF Told
  <2> QED BY <1>1, <2>1, <2>2, <2>4, <2>5
<1>3. ASSUME NEW event, event = [type |-> "tool_result", payload |-> value],
             ExportEvent(event).payload # value
      PROVE  ExportEvent(event).counted
  BY <1>3 DEF ExportEvent
<1> HIDE DEF Notice, Told
<1> QED BY <1>2, <1>3 DEF ChangesAreNoticed

(***************************************************************************)
(* Tools                                                                   *)
(***************************************************************************)
Accesses == {"none", "metadata", "workspace_read", "workspace_write", "secrets"}

\* A tool as the registry takes it (ToolDefinition.Validate and the checks of
\* toPlugin): its effect is one that is known, and a plugin's access too.
Registrable(tool) ==
  /\ tool.effect \in Effects
  /\ tool.source = "plugin" => tool.scope \in Accesses

LEMMA ExposedIs ==
  ASSUME NEW tool, NEW session, ~Hidden(tool, session), tool.source = "plugin"
  PROVE  /\ session \in {"tier0", "tier1", "tier2"}
         /\ AtLeast(tool.trust, session)
         /\ session \notin {"none", "gone"}
<1>1. Exposed(session, tool.trust) /\ session \notin {"none", "gone"}
  BY DEF Hidden
<1>2. session # "tier3" /\ AtLeast(tool.trust, session)
  BY <1>1 DEF Exposed
<1>3. session \in DOMAIN Rank
  BY <1>2 DEF AtLeast
<1>4. DOMAIN Rank = {"tier0", "tier1", "tier2", "tier3"}
  BY DEF Rank
<1> QED BY <1>1, <1>2, <1>3, <1>4

\* The policy as a table: what it lets pass is within what the tier permits.
LEMMA PolicyPermits ==
  ASSUME NEW tool, tool.effect \in Effects, NEW session, NEW role, PolicyAllows(tool, session, role)
  PROVE  /\ tool.effect \in Permitted(session)
         /\ role = "viewer" => tool.effect \in {"none", "read"}
<1>1. role = "viewer" => tool.effect \in {"none", "read"}
  BY DEF PolicyAllows
<1>2. CASE session = "tier0"
  <2>1. tool.effect \notin Mutating
    BY <1>2 DEF PolicyAllows, DeniedBy, MapToolSideEffect
  <2>2. Permitted(session) = {"none", "read"}
    BY <1>2 DEF Permitted
  <2> QED BY <1>1, <2>1, <2>2 DEF Mutating, Effects
<1>3. CASE session = "tier3"
  <2>1. tool.effect \notin {"execute", "network"}
    BY <1>3 DEF PolicyAllows, DeniedBy, MapToolSideEffect
  <2>2. Permitted(session) = {"none", "read", "write"}
    BY <1>3 DEF Permitted
  <2> QED BY <1>1, <2>1, <2>2 DEF Effects
<1>4. CASE session \notin {"tier0", "tier3"}
  <2>1. Permitted(session) = Effects
    BY <1>4 DEF Permitted
  <2> QED BY <1>1, <2>1
<1> QED BY <1>2, <1>3, <1>4

\* Whom the policy lets a tool use, for them an operator may approve it.
LEMMA PolicyAllowsOperators ==
  ASSUME NEW tool, NEW session, NEW role, PolicyAllows(tool, session, role)
  PROVE  PolicyAllows(tool, session, "operator")
BY DEF PolicyAllows, DeniedBy, MapToolSideEffect

\* What lets a call through handleToolExecute.
LEMMA ExecuteIs ==
  ASSUME NEW tool, NEW session, NEW role, NEW input
  PROVE  LET outcome == HandleToolExecute(tool, session, role, input)
         IN /\ outcome \in {"refused", "proposed", "run"}
            /\ outcome # "refused" =>
                 /\ DataAccessAllowed(tool, input) /\ ~Hidden(tool, session)
                 /\ DestinationAllowed(tool, input) /\ PolicyAllows(tool, session, role)
            /\ outcome = "run" => ~RequiresApproval(tool)
BY DEF HandleToolExecute

\* For every tool that can be registered, session, role and input: what runs,
\* at once or when an operator approves it, is within the policy.
THEOREM PolicyEnforced ==
  ASSUME NEW tool, Registrable(tool), NEW session, NEW role, NEW input
  PROVE  PolicyIsEnforced(tool, session, role, input)
<1>1. PICK outcome : outcome = HandleToolExecute(tool, session, role, input)
  OBVIOUS
<1> SUFFICES ASSUME outcome # "refused"
             PROVE  /\ tool.effect \in Permitted(session)
                    /\ role = "viewer" => tool.effect \in {"none", "read"}
                    /\ tool.source = "plugin" =>
                         /\ session \in {"tier0", "tier1", "tier2"} /\ AtLeast(tool.trust, session)
                         /\ ~input.full
                         /\ input.path => tool.scope \in {"workspace_read", "workspace_write", "secrets"}
                         /\ tool.mcp.transport = "remote" => input.destination \in tool.mcp.destinations
  BY <1>1 DEF PolicyIsEnforced
<1>2. /\ DataAccessAllowed(tool, input) /\ ~Hidden(tool, session)
      /\ DestinationAllowed(tool, input) /\ PolicyAllows(tool, session, role)
  BY <1>1, ExecuteIs
<1>3. ASSUME tool.source = "plugin"
      PROVE  /\ ~input.full
             /\ input.path => tool.scope \in {"workspace_read", "workspace_write", "secrets"}
  BY <1>2, <1>3 DEF DataAccessAllowed, Registrable, Accesses
<1>4. tool.mcp.transport = "remote" => input.destination \in tool.mcp.destinations
  BY <1>2 DEF DestinationAllowed
<1> QED BY <1>2, <1>3, <1>4, PolicyPermits, ExposedIs DEF Registrable

\* handleToolExecute runs no plugin's tool with an effect at once.
LEMMA PluginsAsk ==
  ASSUME NEW tool, NEW session, NEW role, NEW input
  PROVE  PluginsAskFirst(tool, session, role, input)
BY ExecuteIs DEF PluginsAskFirst, RequiresApproval

\* For every tool, session, role and input: what is proposed can be decided.
THEOREM ProposalsAllowed ==
  ASSUME NEW tool, NEW session, NEW role, NEW input
  PROVE  ProposalsStayAllowed(tool, session, role, input)
<1>1. ASSUME NEW r, ~Hidden(tool, session), PolicyAllows(tool, session, r)
      PROVE  HandleApproval(tool, session) = "run"
  BY <1>1, PolicyAllowsOperators DEF HandleApproval
<1>2. ASSUME HandleToolExecute(tool, session, role, input) = "proposed"
      PROVE  HandleApproval(tool, session) = "run"
  BY <1>1, <1>2, ExecuteIs
<1>3. ASSUME RequestApproval(tool, session) = "proposed"
      PROVE  HandleApproval(tool, session) = "run"
  <2>1. ~Hidden(tool, session) /\ PolicyAllows(tool, session, "")
    BY <1>3 DEF RequestApproval
  <2> QED BY <1>1, <2>1
<1> QED BY <1>2, <1>3 DEF ProposalsStayAllowed

\* What an answer of a handler may have changed, for its role: sessions, turns
\* and decisions are an operator's. And what it may have if it is a refusal.
Allowed(effects, role, server) ==
  /\ role = "operator" \/ effects \subseteq {"run", "proposal", "report", "expiry"}
  /\ "report" \in effects /\ role # "operator" => effects \cap {"run", "proposal"} # {}
  /\ role = "viewer" /\ effects \cap {"run", "proposal"} # {} => server.tool.effect \in {"none", "read"}
Refused(status, effects, server, request) ==
  /\ effects \subseteq {"decision", "cancel", "run", "report", "expiry"}
  /\ "run" \in effects => server.fails /\ request.route = "tool_execute" /\ status = 400
  /\ "report" \in effects => effects \cap {"cancel", "run"} # {}
  /\ effects \cap {"decision", "cancel"} # {} =>
        {"decision", "cancel"} \subseteq effects /\ status \in {403, 409}
  /\ "expiry" \in effects => server.approval = "overdue" /\ status = 400
Proper(answer, role, server, request) ==
  /\ Allowed(answer.effects, role, server)
  /\ answer.status \in 400..499 => Refused(answer.status, answer.effects, server, request)

LEMMA AnswerIs ==
  ASSUME NEW status, NEW body, NEW effects
  PROVE  /\ Answer(status, body, effects).status = status
         /\ Answer(status, body, effects).body = body
         /\ Answer(status, body, effects).effects = effects
BY DEF Answer

LEMMA ProperIs ==
  ASSUME NEW status, NEW body, NEW effects, NEW role, NEW server, NEW request,
         Allowed(effects, role, server),
         status \in 400..499 => Refused(status, effects, server, request)
  PROVE  Proper(Answer(status, body, effects), role, server, request)
BY AnswerIs DEF Proper

LEMMA ErrorIs ==
  ASSUME NEW status, NEW role, NEW server, NEW request
  PROVE  /\ Proper(Error(status), role, server, request)
         /\ Error(status).effects = {} /\ Error(status).status = status
<1>1. Error(status).effects = {} /\ Error(status).status = status
  BY AnswerIs DEF Error
<1> QED BY <1>1 DEF Proper, Allowed, Refused

LEMMA SuccessIs ==
  ASSUME NEW status \in {200, 201, 202, 500}, NEW body, NEW effects, NEW role, NEW server, NEW request,
         role = "operator" \/ Allowed(effects, role, server)
  PROVE  Proper(Answer(status, body, effects), role, server, request)
<1>1. status \notin 400..499
  OBVIOUS
<1>2. role = "operator" => Allowed(effects, role, server)
  BY DEF Allowed
<1> QED BY <1>1, <1>2, AnswerIs DEF Proper

LEMMA ReportIs ==
  ASSUME NEW server, NEW session
  PROVE  Report(server, session) = {} \/ Report(server, session) = {"report"}
BY DEF Report

LEMMA ListApprovalsIs ==
  ASSUME NEW server, NEW role, NEW request
  PROVE  /\ Proper(ListApprovals(server), role, server, request)
         /\ ListApprovals(server).effects \subseteq {"expiry"}
<1>1. PICK effects : effects = IF server.approval = "overdue" THEN {"expiry"} ELSE {}
  OBVIOUS
<1>2. effects \subseteq {"expiry"} /\ ListApprovals(server) = Answer(200, <<>>, effects)
  BY <1>1 DEF ListApprovals
<1>3. Allowed(effects, role, server)
  BY <1>2 DEF Allowed
<1>4. Proper(Answer(200, <<>>, effects), role, server, request)
  BY <1>3, SuccessIs
<1>5. Answer(200, <<>>, effects).effects = effects
  BY AnswerIs
<1> QED BY <1>2, <1>4, <1>5

LEMMA CreateSessionIs ==
  ASSUME NEW role, NEW body, NEW server, NEW request
  PROVE  Proper(CreateSession(role, body), role, server, request)
BY ErrorIs, SuccessIs DEF CreateSession

LEMMA CreateTurnIs ==
  ASSUME NEW role, NEW server, NEW request
  PROVE  Proper(CreateTurn(role, server, request), role, server, request)
<1>1. PICK effects : effects = {"turn"} \union IF request.route = "session_turns" THEN {"agent"} ELSE {}
  OBVIOUS
<1>2. \/ role = "operator" /\ CreateTurn(role, server, request) = Answer(201, TurnJSON, effects)
      \/ \E status : CreateTurn(role, server, request) = Error(status)
  BY <1>1 DEF CreateTurn
<1> QED BY <1>2, ErrorIs, SuccessIs

\* A decision is refused with the cancellation of its approval.
LEMMA DecideApprovalIs ==
  ASSUME NEW role, NEW server, NEW request
  PROVE  Proper(DecideApproval(role, server, request), role, server, request)
<1>1. PICK report : report = Report(server, server.session)
  OBVIOUS
<1>2. PICK answer : answer = DecideApproval(role, server, request)
  OBVIOUS
<1> DEFINE Done(status, effects) == Answer(status, <<>>, {"decision"} \union effects \union report)
<1>3. \/ answer = Error(403) \/ answer = Error(400)
      \/ role = "operator" /\ server.approval = "overdue" /\ answer = Answer(400, <<>>, {"expiry"})
      \/ role = "operator" /\ (answer = Done(200, {}) \/ answer = Done(200, {"run"}) \/ answer = Done(500, {"run", "cancel"}))
      \/ role = "operator" /\ (answer = Done(403, {"cancel"}) \/ answer = Done(409, {"cancel"}))
  <2>1. PICK decision : decision = IF "decision" \in DOMAIN request.body THEN request.body["decision"] ELSE "empty"
    OBVIOUS
  <2>2. answer = IF role # "operator" THEN Error(403)
                 ELSE IF decision \notin Strings THEN Error(400)
                 ELSE IF server.approval = "overdue" THEN Answer(400, <<>>, {"expiry"})
                 ELSE IF decision \notin {"approve", "deny"} THEN Error(400)
                 ELSE IF decision = "deny" THEN Done(200, {})
                 ELSE IF server.approval = "mutated" THEN Done(409, {"cancel"})
                 ELSE IF HandleApproval(server.tool, server.session) = "refused" THEN Done(403, {"cancel"})
                 ELSE IF server.fails THEN Done(500, {"run", "cancel"})
                 ELSE Done(200, {"run"})
    BY <1>1, <1>2, <2>1 DEF DecideApproval
  <2> HIDE DEF Done
  <2> QED BY <2>2, SMT
<1>4. ASSUME role = "operator", server.approval = "overdue"
      PROVE  Proper(Answer(400, <<>>, {"expiry"}), role, server, request)
  BY <1>4, ProperIs DEF Allowed, Refused
<1>5. ASSUME role = "operator", NEW status \in {403, 409}
      PROVE  Proper(Done(status, {"cancel"}), role, server, request)
  <2>1. report = {} \/ report = {"report"}
    BY <1>1, ReportIs
  <2>2. Allowed({"decision"} \union {"cancel"} \union report, role, server)
    BY <1>5 DEF Allowed
  <2>3. Refused(status, {"decision"} \union {"cancel"} \union report, server, request)
    BY <2>1 DEF Refused
  <2> QED BY <2>2, <2>3, ProperIs
<1>6. ASSUME role = "operator", NEW status \in {200, 500}, NEW effects
      PROVE  Proper(Done(status, effects), role, server, request)
  BY <1>6, SuccessIs
<1> HIDE DEF Done
<1>7. Proper(Error(403), role, server, request) /\ Proper(Error(400), role, server, request)
  BY ErrorIs
<1> QED BY <1>2, <1>3, <1>4, <1>5, <1>6, <1>7

\* A tool is run or proposed for a viewer only if it just looks; refused is the
\* call that failed, as is one that the gates did not let pass.
LEMMA ExecuteToolIs ==
  ASSUME NEW role, NEW server, NEW request, request.route = "tool_execute"
  PROVE  Proper(ExecuteTool(role, server, request), role, server, request)
<1>1. PICK session : session = IF "session_id" \in DOMAIN request.body THEN server.session ELSE "none"
  OBVIOUS
<1>2. PICK input : input = [full |-> FALSE, path |-> FALSE, destination |-> ""]
  OBVIOUS
<1>3. PICK outcome : outcome = HandleToolExecute(server.tool, session, role, input)
  OBVIOUS
<1>4. PICK report : report = Report(server, session)
  OBVIOUS
<1>5. PICK answer : answer = ExecuteTool(role, server, request)
  OBVIOUS
<1>6. \/ \E status : answer = Error(status)
      \/ answer = CASE outcome = "refused"  -> Error(403)
                    [] outcome = "proposed" -> Answer(202, <<>>, {"proposal"} \union report)
                    [] outcome = "run"      -> IF server.fails THEN Answer(400, <<>>, {"run"} \union report)
                                               ELSE Answer(200, ResultJSON, {"run"} \union report)
  BY <1>1, <1>2, <1>3, <1>4, <1>5 DEF ExecuteTool
<1>7. outcome \in {"refused", "proposed", "run"}
  BY <1>3, ExecuteIs
<1>8. \/ \E status : answer = Error(status)
      \/ outcome = "proposed" /\ answer = Answer(202, <<>>, {"proposal"} \union report)
      \/ outcome = "run" /\ server.fails /\ answer = Answer(400, <<>>, {"run"} \union report)
      \/ outcome = "run" /\ answer = Answer(200, ResultJSON, {"run"} \union report)
  BY ONLY <1>6, <1>7
<1>9. outcome # "refused" => (role = "viewer" => server.tool.effect \in {"none", "read"})
  <2>1. outcome # "refused" => PolicyAllows(server.tool, session, role)
    BY <1>3, ExecuteIs
  <2> QED BY <2>1 DEF PolicyAllows
<1>10. report = {} \/ report = {"report"}
  BY <1>4, ReportIs
<1>11. outcome # "refused" =>
         /\ Allowed({"proposal"} \union report, role, server)
         /\ Allowed({"run"} \union report, role, server)
  BY <1>9, <1>10 DEF Allowed
<1>12. server.fails => Refused(400, {"run"} \union report, server, request)
  BY <1>10 DEF Refused
<1> QED BY <1>5, <1>8, <1>11, <1>12, ErrorIs, SuccessIs, ProperIs

LEMMA HandleIs ==
  ASSUME NEW role, NEW server, NEW request
  PROVE  /\ Proper(Handle(role, server, request), role, server, request)
         /\ request.method = "GET" => Handle(role, server, request).effects \subseteq {"expiry"}
<1>1. ASSUME request.method = "GET"
      PROVE  /\ Proper(Handle(role, server, request), role, server, request)
             /\ Handle(role, server, request).effects \subseteq {"expiry"}
  <2>1. \/ \E status : Handle(role, server, request) = Error(status)
        \/ Handle(role, server, request) = Answer(200, <<>>, {})
        \/ Handle(role, server, request) = ListApprovals(server)
    BY <1>1 DEF Handle
  <2>2. Allowed({}, role, server)
    BY DEF Allowed
  <2>3. /\ Proper(Answer(200, <<>>, {}), role, server, request)
        /\ Answer(200, <<>>, {}).effects = {}
    BY <2>2, SuccessIs, AnswerIs
  <2> QED BY <2>1, <2>3, ErrorIs, ListApprovalsIs
<1>2. ASSUME request.method # "GET" PROVE Proper(Handle(role, server, request), role, server, request)
  <2>1. \/ Handle(role, server, request) = CreateSession(role, request.body)
        \/ Handle(role, server, request) = CreateTurn(role, server, request)
        \/ Handle(role, server, request) = DecideApproval(role, server, request)
        \/ /\ request.route = "tool_execute"
           /\ Handle(role, server, request) = ExecuteTool(role, server, request)
        \/ Handle(role, server, request) = Error(405)
    BY <1>2 DEF Handle
  <2> QED BY <2>1, CreateSessionIs, CreateTurnIs, DecideApprovalIs, ExecuteToolIs, ErrorIs
<1> QED BY <1>1, <1>2

LEMMA ValidatedIs ==
  ASSUME NEW role, NEW server, NEW request
  PROVE  /\ Proper(Validated(role, server, request), role, server, request)
         /\ request.method = "GET" => Validated(role, server, request).effects \subseteq {"expiry"}
<1>1. PICK answer : answer = Handle(role, server, request)
  OBVIOUS
<1>2. PICK told : told = Answer(500, [error |-> "string"], answer.effects)
  OBVIOUS
<1>3. \/ Validated(role, server, request) = Error(400)
      \/ Validated(role, server, request) = answer
      \/ Validated(role, server, request) = told
  BY <1>1, <1>2 DEF Validated
<1>4. /\ Proper(answer, role, server, request)
      /\ request.method = "GET" => answer.effects \subseteq {"expiry"}
  BY <1>1, HandleIs
<1>5. /\ Proper(told, role, server, request)
      /\ told.effects = answer.effects
  <2>1. Allowed(answer.effects, role, server)
    BY <1>4 DEF Proper
  <2> QED BY <1>2, <2>1, SuccessIs, AnswerIs
<1> QED BY <1>3, <1>4, <1>5, ErrorIs

\* withAuth: with a token configured no handler of a guarded route runs but for
\* a request that has it and a role; without one there is no role.
Entitled(server, request, role) ==
  \/ request.route \in OpenRoutes /\ role = ""
  \/ ~server.token /\ role = ""
  \/ /\ server.token /\ request.authorization = "right"
     /\ \/ request.role \in {"", "operator"} /\ role = "operator"
        \/ request.role = "viewer" /\ role = "viewer"

LEMMA AuthorizedIs ==
  ASSUME NEW server, NEW request, Authorized(server, request).status = 200
  PROVE  Entitled(server, request, Authorized(server, request).role)
<1>1. PICK auth : auth = Authorized(server, request)
  OBVIOUS
<1>2. NormalizedRole(request.role) # "" =>
        \/ request.role \in {"", "operator"} /\ NormalizedRole(request.role) = "operator"
        \/ request.role = "viewer" /\ NormalizedRole(request.role) = "viewer"
  BY DEF NormalizedRole
<1>3. PICK role : role = NormalizedRole(request.role)
  OBVIOUS
<1>4. CASE request.route \in OpenRoutes \/ ~server.token
  <2>1. auth = [status |-> 200, role |-> ""]
    BY <1>1, <1>4 DEF Authorized
  <2>2. auth.role = ""
    BY <2>1
  <2> QED BY ONLY <1>1, <1>4, <2>2, Zenon DEF Entitled
<1>5. CASE ~(request.route \in OpenRoutes \/ ~server.token)
  <2>1. auth = IF request.authorization # "right" THEN [status |-> 401, role |-> ""]
               ELSE IF role = "" THEN [status |-> 403, role |-> ""]
               ELSE [status |-> 200, role |-> role]
    BY ONLY <1>1, <1>3, <1>5, Zenon DEF Authorized
  <2>2. auth.status = 200 =>
          /\ auth.role = role
          /\ request.authorization = "right" /\ role # ""
    <3>1. CASE request.authorization # "right"
      <4>1. auth = [status |-> 401, role |-> ""]
        BY ONLY <2>1, <3>1
      <4>2. auth.status = 401
        BY ONLY <4>1
      <4>3. auth.status # 200
        BY ONLY <4>2
      <4> QED BY ONLY <4>3, Zenon
    <3>2. CASE request.authorization = "right" /\ role = ""
      <4>1. auth = [status |-> 403, role |-> ""]
        BY ONLY <2>1, <3>2
      <4>2. auth.status = 403
        BY ONLY <4>1
      <4>3. auth.status # 200
        BY ONLY <4>2
      <4> QED BY ONLY <4>3, Zenon
    <3>3. CASE request.authorization = "right" /\ role # ""
      <4>1. auth = [status |-> 200, role |-> role]
        BY ONLY <2>1, <3>3
      <4>2. auth.role = role
        BY ONLY <4>1
      <4> QED BY ONLY <3>3, <4>2
    <3> QED BY ONLY <3>1, <3>2, <3>3, Zenon
  <2>3. server.token
    BY ONLY <1>5, Zenon
  <2>4. auth.status = 200 =>
          /\ request.authorization = "right"
          /\ \/ request.role \in {"", "operator"} /\ auth.role = "operator"
             \/ request.role = "viewer" /\ auth.role = "viewer"
    BY ONLY <1>2, <1>3, <2>2
  <2>5. auth.status = 200
    BY <1>1
  <2> QED BY ONLY <1>1, <2>3, <2>4, <2>5, Zenon DEF Entitled
<1> QED BY <1>4, <1>5, Zenon

LEMMA RespondIs ==
  ASSUME NEW server, NEW request
  PROVE  \/ \E status : Respond(server, request) = Error(status)
         \/ /\ Authorized(server, request).status = 200
            /\ Respond(server, request) = Validated(Authorized(server, request).role, server, request)
BY DEF Respond

\* The open routes change nothing.
LEMMA OpenIs ==
  ASSUME NEW server, NEW request, request.route \in OpenRoutes, NEW role
  PROVE  Validated(role, server, request).effects = {}
<1>1. request.route = "health"
  BY DEF OpenRoutes
<1>2. \/ \E status : Handle(role, server, request) = Error(status)
      \/ Handle(role, server, request) = Answer(200, <<>>, {})
  BY <1>1 DEF Handle
<1>3. Handle(role, server, request).effects = {}
  <2>1. Answer(200, <<>>, {}).effects = {}
    BY AnswerIs
  <2> QED BY <1>2, <2>1, ErrorIs
<1>4. PICK answer : answer = Handle(role, server, request)
  OBVIOUS
<1>5. \/ Validated(role, server, request) = Error(400)
      \/ Validated(role, server, request) = answer
      \/ Validated(role, server, request) = Answer(500, [error |-> "string"], answer.effects)
  BY <1>4 DEF Validated
<1>6. Answer(500, [error |-> "string"], answer.effects).effects = answer.effects
  BY AnswerIs
<1>7. Error(400).effects = {}
  BY ErrorIs
<1>8. answer.effects = {}
  BY <1>3, <1>4
<1> QED BY ONLY <1>5, <1>6, <1>7, <1>8

\* For every server and request, whatever tool, session and body: sessions, turns
\* and decisions are made with the operator's role and token only, and tools run
\* without them only where ActsAsAuthorized says.
THEOREM ActsAuthorized ==
  ASSUME NEW server, NEW request, request.method \in {"GET", "POST"}
  PROVE  ActsAsAuthorized(server, request)
<1>1. PICK answer : answer = Respond(server, request)
  OBVIOUS
<1>2. PICK auth : auth = Authorized(server, request)
  OBVIOUS
<1>3. PICK effects : effects = answer.effects
  OBVIOUS
<1>4. CASE effects = {}
  BY <1>1, <1>3, <1>4 DEF ActsAsAuthorized
<1>5. CASE effects # {}
  <2>1. auth.status = 200 /\ answer = Validated(auth.role, server, request)
    BY <1>1, <1>2, <1>3, <1>5, RespondIs, ErrorIs
  <2>2. request.route \notin OpenRoutes
    BY <1>3, <1>5, <2>1, OpenIs
  <2>3. \/ ~server.token /\ auth.role = ""
        \/ /\ server.token /\ request.authorization = "right"
           /\ \/ request.role \in {"", "operator"} /\ auth.role = "operator"
              \/ request.role = "viewer" /\ auth.role = "viewer"
    <3>1. auth.status = 200 => Entitled(server, request, auth.role)
      BY <1>2, AuthorizedIs
    <3> QED BY ONLY <2>1, <2>2, <3>1, Zenon DEF Entitled
  <2>4. /\ Allowed(effects, auth.role, server)
        /\ request.method = "GET" => effects \subseteq {"expiry"}
    BY <1>3, <2>1, ValidatedIs DEF Proper
  <2>5. server.token => request.authorization = "right" /\ request.role \in {"", "operator", "viewer"}
    BY <2>3
  <2>6. auth.role = "operator" => server.token /\ request.role \in {"", "operator"}
    BY <2>3, Zenon
  <2>7. server.token /\ request.role = "viewer" => auth.role = "viewer"
    BY <2>3, Zenon
  <2>8. \/ server.token /\ request.role \in {"", "operator"}
        \/ effects \subseteq {"run", "proposal", "report", "expiry"}
    BY <2>4, <2>6 DEF Allowed
  <2>9. "report" \in effects /\ ~(server.token /\ request.role \in {"", "operator"}) =>
              effects \cap {"run", "proposal"} # {}
    BY <2>4, <2>6 DEF Allowed
  <2>10. server.token /\ request.role = "viewer" /\ effects \cap {"run", "proposal"} # {} =>
              server.tool.effect \in {"none", "read"}
    BY <2>4, <2>7 DEF Allowed
  <2> QED BY <1>1, <1>3, <2>4, <2>5, <2>8, <2>9, <2>10 DEF ActsAsAuthorized
<1> QED BY <1>4, <1>5

\* For every server and request: what is refused as the client's mistake has
\* changed nothing but what RefusedUnchanged names.
THEOREM Unchanged ==
  ASSUME NEW server, NEW request
  PROVE  RefusedUnchanged(server, request)
<1>1. PICK answer : answer = Respond(server, request)
  OBVIOUS
<1>2. \E role : Proper(answer, role, server, request)
  <2>1. CASE \E status : answer = Error(status)
    BY <2>1, ErrorIs
  <2>2. CASE answer = Validated(Authorized(server, request).role, server, request)
    BY <2>2, ValidatedIs
  <2> QED BY <1>1, <2>1, <2>2, RespondIs
<1>3. answer.status \in 400..499 => Refused(answer.status, answer.effects, server, request)
  BY <1>2 DEF Proper
<1> QED BY <1>1, <1>3 DEF RefusedUnchanged, Refused

(***************************************************************************)
(* Loading the plugins                                                     *)
(***************************************************************************)
LoadNext(manifest, loading, tool) == RegisterPluginTool(loading, PluginTool(manifest, tool))

Tools     == INSTANCE SequenceFacts WITH Op <- LoadNext
Manifests == INSTANCE SequenceFacts WITH Op <- LAMBDA p, loading, manifest : LoadFromFile(loading, manifest)

IsManifests(ms) ==
  \E Levels, Defaults, Tooling : ms \in Seq([level : Levels, defaults : Defaults, tools : Seq(Tooling)])

\* The tools that manifests declare, by the place of the manifest and the place
\* in it; those before manifest k, and the first j of manifest k.
Declared(ms)       == UNION {{<<i, j>> : j \in DOMAIN ms[i].tools} : i \in DOMAIN ms}
UpTo(ms, k, j)     == {d \in Declared(ms) : d[1] < k \/ (d[1] = k /\ d[2] <= j)}
ToolOf(ms, d)      == PluginTool(ms[d[1]], ms[d[1]].tools[d[2]])
Loadings(ms)       == [tools : SUBSET (CoreTools \union {ToolOf(ms, d) : d \in Declared(ms)}),
                       failed : BOOLEAN]

\* What the registry has after the tools of D, if nothing failed.
Loaded(ms, tools, D) ==
  /\ CoreTools \subseteq tools
  /\ IsFiniteSet(tools) /\ IsFiniteSet(D)
  /\ Cardinality(tools) = Cardinality(CoreTools) + Cardinality(D)
  /\ \A d \in D : ToolOf(ms, d) \in tools /\ FitsTrust(ToolOf(ms, d))
  /\ \A t, u \in tools : t.name = u.name => t = u
  /\ \A t \in tools : Registrable(t)

LEMMA FoldTools ==
  ASSUME NEW m, NEW base, NEW n \in Nat, DOMAIN m.tools = 1..n, NEW Keeps,
         base \in Keeps[0],
         \A k \in 1..n : \A l \in Keeps[k - 1] : LoadNext(m, l, m.tools[k]) \in Keeps[k]
  PROVE  FoldLeft(LAMBDA l, t : RegisterPluginTool(l, PluginTool(m, t)), base, m.tools) \in Keeps[n]
<1>1. Tools!Fold(m, base, m.tools) \in Keeps[n]
  BY Tools!FoldKeeps
<1> QED BY <1>1 DEF Tools!Fold, Tools!FoldLeft, Tools!MapThenFoldSet, Tools!Max,
                    FoldLeft, MapThenFoldSet, Max, LoadNext

LEMMA FoldManifests ==
  ASSUME NEW ms, NEW base, NEW n \in Nat, DOMAIN ms = 1..n, NEW Keeps,
         base \in Keeps[0],
         \A k \in 1..n : \A l \in Keeps[k - 1] : LoadFromFile(l, ms[k]) \in Keeps[k]
  PROVE  FoldLeft(LoadFromFile, base, ms) \in Keeps[n]
<1>1. Manifests!Fold(0, base, ms) \in Keeps[n]
  BY Manifests!FoldKeeps
<1> QED BY <1>1 DEF Manifests!Fold, Manifests!FoldLeft, Manifests!MapThenFoldSet, Manifests!Max,
                    FoldLeft, MapThenFoldSet, Max

LEMMA CoreToolsAre ==
  /\ IsFiniteSet(CoreTools)
  /\ \A t, u \in CoreTools : t.name = u.name => t = u
  /\ \A t \in CoreTools : Registrable(t)
<1>1. PICK a, b, c, d, e, f, g, h :
        /\ a = CoreTool("echo", "none", FALSE) /\ b = CoreTool("read_file", "read", FALSE)
        /\ c = CoreTool("write_file", "write", TRUE) /\ d = CoreTool("run_tests", "execute", FALSE)
        /\ e = CoreTool("run_lint", "execute", FALSE) /\ f = CoreTool("restricted_shell", "execute", TRUE)
        /\ g = [CoreTool("symbolic_shell", "execute", TRUE) EXCEPT !.source = "core", !.trust = "tier1"]
        /\ h = CoreTool("apply_patch", "write", TRUE)
  OBVIOUS
<1>2. CoreTools = {a, b, c, d, e, f, g, h}
  BY <1>1 DEF CoreTools
<1>3. /\ a.name = "echo" /\ b.name = "read_file" /\ c.name = "write_file" /\ d.name = "run_tests"
      /\ e.name = "run_lint" /\ f.name = "restricted_shell" /\ g.name = "symbolic_shell"
      /\ h.name = "apply_patch"
  BY <1>1 DEF CoreTool
<1>4. \A t \in {a, b, c, d, e, f, g, h} : t.effect \in Effects /\ t.source # "plugin"
  <2>1. \A name, effect, approval : /\ CoreTool(name, effect, approval).effect = effect
                                      /\ CoreTool(name, effect, approval).source = ""
    BY DEF CoreTool
  <2>2. /\ a.effect = "none" /\ a.source = ""
        /\ b.effect = "read" /\ b.source = ""
        /\ c.effect = "write" /\ c.source = ""
        /\ d.effect = "execute" /\ d.source = ""
        /\ e.effect = "execute" /\ e.source = ""
        /\ f.effect = "execute" /\ f.source = ""
        /\ h.effect = "write" /\ h.source = ""
    BY <1>1, <2>1, Zenon
  <2>3. g.effect = "execute" /\ g.source = "core"
    BY <1>1 DEF CoreTool
  <2> QED BY ONLY <2>2, <2>3 DEF Effects
<1>5. \A t \in CoreTools : Registrable(t)
  BY <1>2, <1>4 DEF Registrable
<1>6. IsFiniteSet({a, b, c, d, e, f, g, h})
  <2>1. /\ IsFiniteSet({a} \cup {b}) /\ IsFiniteSet({c} \cup {d})
        /\ IsFiniteSet({e} \cup {f}) /\ IsFiniteSet({g} \cup {h})
    BY FS_Singleton, FS_Union
  <2>2. /\ IsFiniteSet(({a} \cup {b}) \cup ({c} \cup {d}))
        /\ IsFiniteSet(({e} \cup {f}) \cup ({g} \cup {h}))
    BY <2>1, FS_Union
  <2>3. IsFiniteSet((({a} \cup {b}) \cup ({c} \cup {d})) \cup (({e} \cup {f}) \cup ({g} \cup {h})))
    BY <2>2, FS_Union
  <2>4. (({a} \cup {b}) \cup ({c} \cup {d})) \cup (({e} \cup {f}) \cup ({g} \cup {h}))
            = {a, b, c, d, e, f, g, h}
    OBVIOUS
  <2> QED BY <2>3, <2>4
<1>7. \A t, u \in {a, b, c, d, e, f, g, h} : t.name = u.name => t = u
  BY ONLY <1>3
<1> QED BY <1>2, <1>5, <1>6, <1>7

LEMMA DeclaredIs ==
  ASSUME NEW ms, IsManifests(ms)
  PROVE  /\ Len(ms) \in Nat /\ DOMAIN ms = 1..Len(ms)
         /\ \A k \in 1..Len(ms) : /\ Len(ms[k].tools) \in Nat
                                  /\ DOMAIN ms[k].tools = 1..Len(ms[k].tools)
<1>1. PICK Levels, Defaults, Tooling :
        ms \in Seq([level : Levels, defaults : Defaults, tools : Seq(Tooling)])
  BY DEF IsManifests
<1>2. Len(ms) \in Nat /\ DOMAIN ms = 1..Len(ms)
  BY <1>1, LenProperties
<1>3. ASSUME NEW k \in 1..Len(ms) PROVE ms[k].tools \in Seq(Tooling)
  <2>1. ms[k] \in [level : Levels, defaults : Defaults, tools : Seq(Tooling)]
    BY <1>1, <1>2, ElementOfSeq
  <2> QED BY <2>1
<1> QED BY <1>2, <1>3, LenProperties

\* Registering one more tool.
LEMMA OneMore ==
  ASSUME NEW ms, NEW tools, NEW D, Loaded(ms, tools, D), NEW d, d \notin D,
         Valid(ToolOf(ms, d)), FitsTrust(ToolOf(ms, d)), Registrable(ToolOf(ms, d)),
         \A t \in tools : t.name # ToolOf(ms, d).name
  PROVE  Loaded(ms, tools \union {ToolOf(ms, d)}, D \union {d})
<1>1. PICK tool : tool = ToolOf(ms, d)
  OBVIOUS
<1>2. tool \notin tools
  BY <1>1
<1>3. /\ IsFiniteSet(tools \union {tool})
      /\ Cardinality(tools \union {tool}) = Cardinality(tools) + 1
  BY <1>2, FS_AddElement DEF Loaded
<1>4. /\ IsFiniteSet(D \union {d})
      /\ Cardinality(D \union {d}) = Cardinality(D) + 1
  BY FS_AddElement DEF Loaded
<1>5. Cardinality(tools) \in Nat /\ Cardinality(D) \in Nat /\ Cardinality(CoreTools) \in Nat
  BY CoreToolsAre, FS_CardinalityType DEF Loaded
<1>6. Cardinality(tools \union {tool}) = Cardinality(CoreTools) + Cardinality(D \union {d})
  BY <1>3, <1>4, <1>5 DEF Loaded
<1>7. \A e \in D \union {d} : ToolOf(ms, e) \in tools \union {tool} /\ FitsTrust(ToolOf(ms, e))
  BY <1>1 DEF Loaded
<1>8. \A t, u \in tools \union {tool} : t.name = u.name => t = u
  BY <1>1 DEF Loaded
<1>9. \A t \in tools \union {tool} : Registrable(t)
  BY <1>1 DEF Loaded
<1>10. CoreTools \subseteq tools \union {tool}
  BY DEF Loaded
<1> QED BY <1>1, <1>3, <1>4, <1>6, <1>7, <1>8, <1>9, <1>10 DEF Loaded

LEMMA DeclaredPairs ==
  ASSUME NEW ms
  PROVE  /\ \A i \in DOMAIN ms : \A j \in DOMAIN ms[i].tools : <<i, j>> \in Declared(ms)
         /\ \A d \in Declared(ms) : \E i \in DOMAIN ms : \E j \in DOMAIN ms[i].tools :
              d = <<i, j>> /\ d[1] = i /\ d[2] = j
<1>1. \A d : d \in Declared(ms) <=>
        \E i \in DOMAIN ms : \E j \in DOMAIN ms[i].tools : d = <<i, j>>
  BY DEF Declared
<1>2. \A i, j : <<i, j>>[1] = i /\ <<i, j>>[2] = j
  OBVIOUS
<1> QED BY <1>1, <1>2

LEMMA UpToIs ==
  ASSUME NEW ms, IsManifests(ms), NEW k \in 1..Len(ms), NEW j \in 1..Len(ms[k].tools)
  PROVE  /\ <<k, j>> \in Declared(ms) /\ <<k, j>> \notin UpTo(ms, k, j - 1)
         /\ UpTo(ms, k, j) = UpTo(ms, k, j - 1) \union {<<k, j>>}
<1>1. /\ Len(ms) \in Nat /\ DOMAIN ms = 1..Len(ms)
      /\ Len(ms[k].tools) \in Nat /\ DOMAIN ms[k].tools = 1..Len(ms[k].tools)
  BY DeclaredIs
<1>2. <<k, j>> \in Declared(ms)
  BY <1>1, DeclaredPairs
<1>3. <<k, j>> \notin UpTo(ms, k, j - 1)
  BY <1>1 DEF UpTo
<1>4. ASSUME NEW d \in Declared(ms)
      PROVE  d \in UpTo(ms, k, j) <=> d \in UpTo(ms, k, j - 1) \/ d = <<k, j>>
  <2>1. PICK i \in 1..Len(ms), n \in Nat : d = <<i, n>>
    BY <1>1, DeclaredPairs, DeclaredIs
  <2>2. d[1] = i /\ d[2] = n
    BY <2>1
  <2>3. d = <<k, j>> <=> i = k /\ n = j
    BY <2>1
  <2> QED BY <1>1, <2>2, <2>3 DEF UpTo
<1> QED BY <1>2, <1>3, <1>4 DEF UpTo

Goes(ms, l, D) == l \in Loadings(ms) /\ (~l.failed => Loaded(ms, l.tools, D))

LEMMA FailedIs ==
  ASSUME NEW ms, NEW l \in Loadings(ms), NEW D
  PROVE  Goes(ms, [l EXCEPT !.failed = TRUE], D)
BY DEF Goes, Loadings

LEMMA NextTool ==
  ASSUME NEW ms, IsManifests(ms), NEW k \in 1..Len(ms), NEW j \in 1..Len(ms[k].tools),
         Declarable(ms[k].tools[j]), NEW l, Goes(ms, l, UpTo(ms, k, j - 1))
  PROVE  Goes(ms, LoadNext(ms[k], l, ms[k].tools[j]), UpTo(ms, k, j))
<1>1. PICK d : d = <<k, j>>
  OBVIOUS
<1>2. /\ d \in Declared(ms) /\ d \notin UpTo(ms, k, j - 1)
      /\ UpTo(ms, k, j) = UpTo(ms, k, j - 1) \union {d}
  BY <1>1, UpToIs
<1>3. ToolOf(ms, d) = PluginTool(ms[k], ms[k].tools[j])
  BY <1>1 DEF ToolOf
<1>4. PICK tool : tool = ToolOf(ms, d)
  OBVIOUS
<1>5. LoadNext(ms[k], l, ms[k].tools[j]) = RegisterPluginTool(l, tool)
  BY <1>3, <1>4 DEF LoadNext
<1>6. l \in Loadings(ms)
  BY DEF Goes
<1>7. CASE l.failed \/ ~FitsTrust(tool) \/ ~Valid(tool) \/ \E t \in l.tools : t.name = tool.name
  <2>1. RegisterPluginTool(l, tool) = [l EXCEPT !.failed = TRUE]
    BY <1>7 DEF RegisterPluginTool, Register
  <2> QED BY <1>5, <1>6, <2>1, FailedIs
<1>8. CASE ~l.failed /\ FitsTrust(tool) /\ Valid(tool) /\ \A t \in l.tools : t.name # tool.name
  <2>1. RegisterPluginTool(l, tool) = [l EXCEPT !.tools = l.tools \union {tool}]
    BY <1>8 DEF RegisterPluginTool, Register
  <2>2. PICK r : r = [l EXCEPT !.tools = l.tools \union {tool}]
    OBVIOUS
  <2>3. r \in Loadings(ms) /\ r.tools = l.tools \union {tool}
    BY <1>2, <1>4, <1>6, <2>2 DEF Loadings
  <2>4. Registrable(tool)
    <3>1. tool.effect \in Effects
      BY <1>8 DEF Valid
    <3>2. tool.scope = ms[k].tools[j].access
      BY <1>3, <1>4 DEF PluginTool
    <3> QED BY <3>1, <3>2 DEF Registrable, Declarable, Accesses
  <2>5. Loaded(ms, l.tools, UpTo(ms, k, j - 1))
    BY <1>8 DEF Goes
  <2>6. Loaded(ms, l.tools \union {tool}, UpTo(ms, k, j))
    BY <1>2, <1>4, <1>8, <2>4, <2>5, OneMore
  <2> QED BY <1>5, <2>1, <2>2, <2>3, <2>6 DEF Goes
<1>9. l.failed \in BOOLEAN
  BY <1>6 DEF Loadings
<1> QED BY <1>7, <1>8, <1>9

\* One manifest: its tools follow those of the manifests before it.
LEMMA NextManifest ==
  ASSUME NEW ms, IsManifests(ms), NEW k \in 1..Len(ms), NEW l, Goes(ms, l, UpTo(ms, k, 0))
  PROVE  Goes(ms, LoadFromFile(l, ms[k]), UpTo(ms, k + 1, 0))
<1>1. /\ Len(ms) \in Nat /\ DOMAIN ms = 1..Len(ms)
      /\ Len(ms[k].tools) \in Nat /\ DOMAIN ms[k].tools = 1..Len(ms[k].tools)
  BY DeclaredIs
<1>2. l \in Loadings(ms)
  BY DEF Goes
<1>3. PICK n \in Nat : n = Len(ms[k].tools)
  BY <1>1
<1>4. UpTo(ms, k, n) = UpTo(ms, k + 1, 0)
  <2>1. ASSUME NEW d \in Declared(ms)
        PROVE  d \in UpTo(ms, k, n) <=> d \in UpTo(ms, k + 1, 0)
    <3>1. PICK i \in 1..Len(ms), m \in Nat : d = <<i, m>> /\ m \in DOMAIN ms[i].tools
      BY <1>1, DeclaredPairs, DeclaredIs
    <3>2. d[1] = i /\ d[2] = m
      BY <3>1
    <3>3. i = k => m <= n
      BY <1>1, <1>3, <3>1
    <3>4. m \in Nat \ {0}
      <4>1. DOMAIN ms[i].tools = 1..Len(ms[i].tools) /\ Len(ms[i].tools) \in Nat
        BY DeclaredIs
      <4> QED BY <3>1, <4>1
    <3> QED BY <1>1, <3>2, <3>3, <3>4 DEF UpTo
  <2> QED BY <2>1 DEF UpTo
<1>5. CASE \/ l.failed
           \/ \E i \in DOMAIN ms[k].tools : ~Declarable(ms[k].tools[i])
           \/ ms[k].level \notin Tiers
  <2>1. LoadFromFile(l, ms[k]) = [l EXCEPT !.failed = TRUE]
    BY <1>5 DEF LoadFromFile
  <2> QED BY <1>2, <2>1, FailedIs
<1>6. CASE ~(\/ l.failed
             \/ \E i \in DOMAIN ms[k].tools : ~Declarable(ms[k].tools[i])
             \/ ms[k].level \notin Tiers)
  <2>1. LoadFromFile(l, ms[k])
          = FoldLeft(LAMBDA s, t : RegisterPluginTool(s, PluginTool(ms[k], t)), l, ms[k].tools)
    BY <1>6, Zenon DEF LoadFromFile
  <2>2. \A j \in 1..n : Declarable(ms[k].tools[j])
    BY <1>1, <1>3, <1>6
  <2> DEFINE Keeps == [j \in 0..n |-> {s \in Loadings(ms) : Goes(ms, s, UpTo(ms, k, j))}]
  <2>3. \A j \in 0..n : \A s : s \in Keeps[j] <=> Goes(ms, s, UpTo(ms, k, j))
    BY DEF Goes
  <2>4. 0 \in 0..n /\ n \in 0..n /\ \A j \in 1..n : j \in 0..n /\ j - 1 \in 0..n
    OBVIOUS
  <2> HIDE DEF Keeps
  <2>5. l \in Keeps[0]
    BY <2>3, <2>4
  <2>6. ASSUME NEW j \in 1..n, NEW s \in Keeps[j - 1]
        PROVE  LoadNext(ms[k], s, ms[k].tools[j]) \in Keeps[j]
    <3>1. Goes(ms, s, UpTo(ms, k, j - 1))
      BY <2>3, <2>4
    <3>2. Goes(ms, LoadNext(ms[k], s, ms[k].tools[j]), UpTo(ms, k, j))
      BY <1>3, <2>2, <3>1, NextTool
    <3> QED BY <2>3, <2>4, <3>2
  <2>7. LoadFromFile(l, ms[k]) \in Keeps[n]
    BY <1>1, <1>3, <2>1, <2>5, <2>6, FoldTools
  <2> QED BY <1>4, <2>3, <2>4, <2>7
<1> QED BY <1>5, <1>6

LEMMA AllLoaded ==
  ASSUME NEW ms, IsManifests(ms)
  PROVE  Goes(ms, InitializeTooling(ms), Declared(ms))
<1>1. Len(ms) \in Nat /\ DOMAIN ms = 1..Len(ms)
  BY DeclaredIs
<1>2. PICK n \in Nat : n = Len(ms)
  BY <1>1
<1> DEFINE Keeps == [k \in 0..n |-> {l \in Loadings(ms) : Goes(ms, l, UpTo(ms, k + 1, 0))}]
<1>3. \A k \in 0..n : \A l : l \in Keeps[k] <=> Goes(ms, l, UpTo(ms, k + 1, 0))
  BY DEF Goes
<1>4. 0 \in 0..n /\ n \in 0..n /\ \A k \in 1..n : k \in 0..n /\ k - 1 \in 0..n /\ (k - 1) + 1 = k
  OBVIOUS
<1> HIDE DEF Keeps
<1>5. PICK start : start = [tools |-> CoreTools, failed |-> FALSE]
  OBVIOUS
<1>6. \A d \in Declared(ms) : d[1] \in 1..n /\ d[2] \in Nat \ {0}
  <2>1. ASSUME NEW d \in Declared(ms) PROVE d[1] \in 1..n /\ d[2] \in Nat \ {0}
    <3>1. d[1] \in 1..Len(ms) /\ d[2] \in DOMAIN ms[d[1]].tools
      BY <1>1, DeclaredPairs
    <3>2. DOMAIN ms[d[1]].tools = 1..Len(ms[d[1]].tools) /\ Len(ms[d[1]].tools) \in Nat
      BY <3>1, DeclaredIs
    <3> QED BY <1>2, <3>1, <3>2
  <2> QED BY <2>1
<1>7. start \in Keeps[0]
  <2>1. UpTo(ms, 0 + 1, 0) = {}
    BY <1>6 DEF UpTo
  <2>2. IsFiniteSet({}) /\ Cardinality({}) = 0
    BY FS_EmptySet
  <2>3. Cardinality(CoreTools) \in Nat
    BY CoreToolsAre, FS_CardinalityType
  <2>4. Loaded(ms, CoreTools, {})
    BY <2>2, <2>3, CoreToolsAre DEF Loaded
  <2>5. start \in Loadings(ms) /\ start.tools = CoreTools
    BY <1>5 DEF Loadings
  <2> QED BY <1>3, <1>4, <2>1, <2>4, <2>5 DEF Goes
<1>8. ASSUME NEW k \in 1..n, NEW l \in Keeps[k - 1]
      PROVE  LoadFromFile(l, ms[k]) \in Keeps[k]
  <2>1. Goes(ms, l, UpTo(ms, k, 0))
    BY <1>3, <1>4
  <2>2. Goes(ms, LoadFromFile(l, ms[k]), UpTo(ms, k + 1, 0))
    BY <1>2, <2>1, NextManifest
  <2> QED BY <1>3, <1>4, <2>2
<1>9. FoldLeft(LoadFromFile, start, ms) \in Keeps[n]
  BY <1>1, <1>2, <1>7, <1>8, FoldManifests
<1>10. UpTo(ms, n + 1, 0) = Declared(ms)
  BY <1>6 DEF UpTo
<1>11. InitializeTooling(ms) = FoldLeft(LoadFromFile, start, ms)
  BY <1>5 DEF InitializeTooling, FoldLeft, MapThenFoldSet, Max
<1> QED BY <1>3, <1>4, <1>9, <1>10, <1>11

\* For all manifests: a server that starts has the core tools and every tool of
\* every manifest once, as it was declared.
THEOREM PluginsLoaded ==
  ASSUME NEW ms, IsManifests(ms)
  PROVE  LoadedAsDeclared(ms)
<1>1. PICK loading : loading = InitializeTooling(ms)
  OBVIOUS
<1>2. Goes(ms, loading, Declared(ms))
  BY <1>1, AllLoaded
<1> SUFFICES ASSUME ~loading.failed
             PROVE  /\ CoreTools \subseteq loading.tools
                    /\ Cardinality(loading.tools) = Cardinality(CoreTools) + Cardinality(Declared(ms))
                    /\ \A d \in Declared(ms) :
                        LET manifest == ms[d[1]]
                            tool     == manifest.tools[d[2]]
                        IN \E t \in loading.tools :
                            /\ t.name = tool.name /\ t.source = "plugin" /\ t.trust = manifest.level
                            /\ t.effect = tool.effect /\ t.mcp = tool.mcp
                            /\ t.approval <=> tool.approval \/ tool.effect \in manifest.defaults
                            /\ t.trust = "tier0" => t.effect \notin Mutating
                    /\ \A t, u \in loading.tools : t.name = u.name => t = u
  BY <1>1 DEF LoadedAsDeclared, Declared
<1>3. Loaded(ms, loading.tools, Declared(ms))
  BY <1>2 DEF Goes
<1>4. ASSUME NEW d \in Declared(ms)
      PROVE  LET manifest == ms[d[1]]
                 tool     == manifest.tools[d[2]]
             IN \E t \in loading.tools :
                 /\ t.name = tool.name /\ t.source = "plugin" /\ t.trust = manifest.level
                 /\ t.effect = tool.effect /\ t.mcp = tool.mcp
                 /\ t.approval <=> tool.approval \/ tool.effect \in manifest.defaults
                 /\ t.trust = "tier0" => t.effect \notin Mutating
  <2>1. PICK m, tool, t : m = ms[d[1]] /\ tool = m.tools[d[2]] /\ t = PluginTool(m, tool)
    OBVIOUS
  <2>2. t \in loading.tools /\ FitsTrust(t)
    BY <1>3, <2>1 DEF Loaded, ToolOf
  <2>3. /\ t.name = tool.name /\ t.source = "plugin" /\ t.trust = m.level
        /\ t.effect = tool.effect /\ t.mcp = tool.mcp
    BY <2>1 DEF PluginTool
  <2>4. t.approval <=> tool.approval \/ tool.effect \in m.defaults
    BY <2>1, Zenon DEF PluginTool
  <2>5. t.trust = "tier0" => t.effect \notin Mutating
    BY <2>2 DEF FitsTrust, Mutating
  <2> QED BY <2>1, <2>2, <2>3, <2>4, <2>5, Zenon
<1> QED BY <1>3, <1>4 DEF Loaded

(***************************************************************************)
(* Sorted sequences                                                        *)
(***************************************************************************)
StrictOrder(S, R) ==
  /\ \A a \in S : <<a, a>> \notin R
  /\ \A a, b, c \in S : <<a, b>> \in R /\ <<b, c>> \in R => <<a, c>> \in R
  /\ \A a, b \in S : a # b => <<a, b>> \in R \/ <<b, a>> \in R

InOrder(q, S, R) ==
  /\ Cardinality(S) \in Nat /\ q \in [1..Cardinality(S) -> S]
  /\ \A e \in S : \E i \in 1..Cardinality(S) : q[i] = e
  /\ \A i, j \in 1..Cardinality(S) : i < j <=> <<q[i], q[j]>> \in R

LEMMA OrderedIs ==
  ASSUME NEW S, IsFiniteSet(S), NEW R, StrictOrder(S, R)
  PROVE  InOrder(Ordered(S, R), S, R)
<1>1. Tools!IsFiniteSet(S) /\ Tools!Cardinality(S) = Cardinality(S)
      /\ Tools!Ordered(S, R) = Ordered(S, R) /\ Tools!StrictOrder(S, R)
  BY DEF Tools!IsFiniteSet, IsFiniteSet, Tools!Cardinality, Cardinality, Tools!Ordered, Ordered,
         Tools!StrictOrder, StrictOrder
<1>2. Tools!InOrder(Ordered(S, R), S, R)
  BY <1>1, Tools!OrderedIs
<1> QED BY <1>1, <1>2 DEF Tools!InOrder, InOrder

LEMMA PlacesIs ==
  ASSUME NEW n \in Nat
  PROVE  IsFiniteSet(1..n) /\ Cardinality(1..n) = n
<1>1. IsFiniteSet(1..n) /\ Cardinality(1..n) = IF 1 > n THEN 0 ELSE n - 1 + 1
  BY ONLY FS_Interval, n \in Nat, 1 \in Int, n \in Int
<1> QED BY <1>1

\* Places in the order of less, and otherwise as they are.
Stably(D, less) == {p \in D \X D : p \in less \/ (<<p[2], p[1]>> \notin less /\ p[1] < p[2])}

WeakOrder(D, less) ==
  /\ \A a, b \in D : <<a, b>> \in less => <<b, a>> \notin less
  /\ \A a, b, c \in D : <<a, c>> \in less => <<a, b>> \in less \/ <<b, c>> \in less

Rearranges(q, n) ==
  /\ q \in [1..n -> 1..n]
  /\ \A e \in 1..n : \E i \in 1..n : q[i] = e
  /\ \A i, j \in 1..n : q[i] = q[j] => i = j

LEMMA StablyIs ==
  ASSUME NEW n \in Nat, NEW less, WeakOrder(1..n, less),
         NEW q, q = Ordered(1..n, Stably(1..n, less))
  PROVE  /\ Rearranges(q, n)
         /\ \A i, j \in 1..n : i < j <=>
              \/ <<q[i], q[j]>> \in less
              \/ <<q[j], q[i]>> \notin less /\ q[i] < q[j]
<1> DEFINE D == 1..n
           R == Stably(D, less)
<1>1. \A a, b \in D : <<a, b>> \in R <=> <<a, b>> \in less \/ (<<b, a>> \notin less /\ a < b)
  BY DEF Stably
<1>2. \A a \in D : a \in Int
  OBVIOUS
<1>0. /\ \A a, b \in D : <<a, b>> \in less => <<b, a>> \notin less
      /\ \A a, b, c \in D : <<a, c>> \in less => <<a, b>> \in less \/ <<b, c>> \in less
  BY DEF WeakOrder
<1> HIDE DEF D, R
<1>3. \A a \in D : <<a, a>> \notin R
  BY <1>0, <1>1, <1>2
<1>4. ASSUME NEW a \in D, NEW b \in D, NEW c \in D, <<a, b>> \in R, <<b, c>> \in R
      PROVE  <<a, c>> \in R
  <2>1. <<b, a>> \notin less /\ <<c, b>> \notin less
    BY <1>0, <1>1, <1>4
  <2>2. <<c, a>> \notin less
    BY <1>0, <2>1
  <2>3. <<a, b>> \in less \/ <<b, c>> \in less => <<a, c>> \in less
    BY <1>0, <2>1
  <2>4. (<<a, b>> \in less \/ a < b) /\ (<<b, c>> \in less \/ b < c)
    BY <1>1, <1>4
  <2>5. a < b /\ b < c => a < c
    BY <1>2
  <2> QED BY <1>1, <2>2, <2>3, <2>4, <2>5
<1>5. ASSUME NEW a \in D, NEW b \in D, a # b PROVE <<a, b>> \in R \/ <<b, a>> \in R
  <2>1. a < b \/ b < a
    BY <1>2, <1>5
  <2> QED BY <1>0, <1>1, <2>1
<1>6. StrictOrder(D, R)
  BY <1>3, <1>4, <1>5 DEF StrictOrder
<1>7. InOrder(q, D, R) /\ Cardinality(D) = n
  BY <1>6, PlacesIs, OrderedIs DEF D, R
<1>8. q \in [D -> D] /\ (\A e \in D : \E i \in D : q[i] = e)
      /\ \A i, j \in D : i < j <=> <<q[i], q[j]>> \in R
  BY <1>7 DEF InOrder, D
<1>9. \A i \in D : q[i] \in D
  BY <1>8
<1>10. \A i, j \in D : i < j <=> <<q[i], q[j]>> \in less \/ (<<q[j], q[i]>> \notin less /\ q[i] < q[j])
  BY <1>1, <1>8, <1>9
<1>11. ASSUME NEW i \in D, NEW j \in D, q[i] = q[j] PROVE i = j
  <2>1. ~(i < j) /\ ~(j < i)
    BY <1>3, <1>8, <1>9, <1>11
  <2> QED BY <1>2, <2>1
<1> QED BY <1>8, <1>10, <1>11 DEF D, Rearranges

(***************************************************************************)
(* The manifest                                                            *)
(***************************************************************************)
IsPromptFragments(f) ==
  /\ \E Types, Refs, Contents : f \in Seq([type : Types, ref : Refs, restricted : BOOLEAN,
                                           content : Contents, included : BOOLEAN])
  /\ \A i, j \in DOMAIN f : f[i].ref = f[j].ref => i = j

\* The assembled fragments are those given, each once and decided.
AssembledBy(f, n, q) ==
  /\ Rearranges(q, n)
  /\ DOMAIN Assembled(f) = 1..n
  /\ \A i \in 1..n : Assembled(f)[i] = Decided(f[q[i]])

LEMMA AssembledIs ==
  ASSUME NEW f, NEW n \in Nat, DOMAIN f = 1..n
  PROVE  \E q : AssembledBy(f, n, q)
<1> DEFINE D == 1..n
           Less(i, j) == Priority(f[i].type) > Priority(f[j].type)
           less == {p \in D \X D : Less(p[1], p[2])}
           R == {p \in D \X D : Less(p[1], p[2]) \/ (~Less(p[2], p[1]) /\ p[1] < p[2])}
           q == Ordered(D, R)
           sorted == [k \in DOMAIN q |-> f[q[k]]]
<1>1. \A i \in D : Priority(f[i].type) \in Int
  BY DEF Priority
<1>2. \A i, j \in D : <<i, j>> \in less <=> Less(i, j)
  OBVIOUS
<1>3. Assembled(f) = [i \in DOMAIN sorted |-> Decided(sorted[i])]
  BY DEF Assembled, SortStable
<1>4. R = Stably(D, less)
  <2>1. \A p \in D \X D : /\ p \in less <=> Less(p[1], p[2])
                          /\ <<p[2], p[1]>> \in less <=> Less(p[2], p[1])
    OBVIOUS
  <2> HIDE DEF less, Less
  <2> QED BY <2>1 DEF Stably
<1>5. WeakOrder(D, less)
  <2> HIDE DEF D, less
  <2> QED BY <1>1, <1>2 DEF WeakOrder
<1> HIDE DEF R, less, sorted
<1>6. Rearranges(q, n)
  BY <1>4, <1>5, StablyIs
<1> HIDE DEF q
<1>7. DOMAIN sorted = D /\ \A i \in D : sorted[i] = f[q[i]]
  BY <1>6 DEF sorted, Rearranges
<1>8. DOMAIN Assembled(f) = D /\ \A i \in D : Assembled(f)[i] = Decided(f[q[i]])
  BY <1>3, <1>7
<1> QED BY <1>6, <1>8 DEF AssembledBy

LEMMA DecidedIs ==
  ASSUME NEW Types, NEW Refs, NEW Contents,
         NEW f \in [type : Types, ref : Refs, restricted : BOOLEAN, content : Contents, included : BOOLEAN]
  PROVE  /\ Decided(f).ref = f.ref
         /\ Decided(f).included <=> ~Apply(f.restricted, f.content, "model_provider").denied
<1>1. PICK decision : decision = Apply(f.restricted, f.content, "model_provider")
  OBVIOUS
<1>2. CASE decision.denied
  <2>1. Decided(f) = [f EXCEPT !.included = FALSE]
    BY <1>1, <1>2 DEF Decided
  <2>2. Decided(f).ref = f.ref /\ Decided(f).included = FALSE
    BY <2>1
  <2> QED BY <1>1, <1>2, <2>2
<1>3. CASE ~decision.denied
  <2>1. Decided(f) = [f EXCEPT !.included = TRUE, !.content = decision.content]
    BY <1>1, <1>3 DEF Decided
  <2>2. Decided(f).ref = f.ref /\ Decided(f).included = TRUE
    BY <2>1
  <2> QED BY <1>1, <1>3, <2>2
<1> QED BY <1>2, <1>3

\* The places of a sequence that Where keeps.
Selects(w, m, N) ==
  /\ m \in Nat /\ w \in [1..m -> N]
  /\ \A e \in N : \E i \in 1..m : w[i] = e
  /\ \A i, j \in 1..m : i < j <=> w[i] < w[j]

LEMMA AscendingIs ==
  ASSUME NEW n \in Nat, NEW N \in SUBSET (1..n), NEW w, w = Ascending(N)
  PROVE  \E m : Selects(w, m, N)
<1> DEFINE R == {p \in N \X N : p[1] < p[2]}
<1>1. IsFiniteSet(N)
  BY PlacesIs, FS_Subset
<1>2. \A a, b \in N : <<a, b>> \in R <=> a < b
  OBVIOUS
<1>3. \A a \in N : a \in Int
  OBVIOUS
<1> HIDE DEF R
<1>4. StrictOrder(N, R)
  BY <1>2, <1>3 DEF StrictOrder
<1>5. w = Ordered(N, R)
  BY DEF Ascending, R
<1>6. InOrder(w, N, R)
  BY <1>1, <1>4, <1>5, OrderedIs
<1>7. PICK m \in Nat : m = Cardinality(N)
  BY <1>6 DEF InOrder
<1>8. /\ w \in [1..m -> N] /\ \A e \in N : \E i \in 1..m : w[i] = e
      /\ \A i, j \in 1..m : i < j <=> <<w[i], w[j]>> \in R
  BY <1>6, <1>7 DEF InOrder
<1>9. \A i \in 1..m : w[i] \in N
  BY <1>8
<1>10. Selects(w, m, N)
  BY <1>2, <1>8, <1>9 DEF Selects
<1> QED BY <1>10

\* Where leaves no included fragment out.
Included(s) == LET places == Ascending({i \in DOMAIN s : s[i].included}) IN [k \in DOMAIN places |-> s[places[k]]]

LEMMA IncludedIs ==
  ASSUME NEW s, NEW n \in Nat, DOMAIN s = 1..n, NEW i \in 1..n, s[i].included,
         NEW listed, listed = Included(s)
  PROVE  \E k \in DOMAIN listed : listed[k] = s[i]
<1>1. PICK N : N = {j \in DOMAIN s : s[j].included}
  OBVIOUS
<1>2. N \in SUBSET (1..n) /\ i \in N
  BY <1>1
<1>3. PICK w : w = Ascending(N)
  OBVIOUS
<1>4. PICK m : Selects(w, m, N)
  BY <1>2, <1>3, AscendingIs
<1>5. PICK k \in 1..m : w[k] = i
  BY <1>2, <1>4 DEF Selects
<1>6. listed = [x \in DOMAIN w |-> s[w[x]]]
  BY <1>1, <1>3 DEF Included
<1>7. DOMAIN w = 1..m
  BY <1>4 DEF Selects
<1> QED BY <1>5, <1>6, <1>7

\* What the policy refuses becomes its own word.
LEMMA DeniedIs ==
  ASSUME NEW text, Apply(FALSE, text, "model_provider").denied
  PROVE  Apply(FALSE, text, "model_provider").content = <<"denied">>
<1>1. PICK class : class = Classify(FALSE, text)
  OBVIOUS
<1>2. PICK action : action = ActionFor[class]["model_provider"]
  OBVIOUS
<1>3. PICK denied : denied = (action = "deny")
  OBVIOUS
<1>4. PICK content : content = Transform(action, text)
  OBVIOUS
<1>5. Apply(FALSE, text, "model_provider")
        = [class |-> class, action |-> action, denied |-> denied, content |-> content]
  BY <1>1, <1>2, <1>3, <1>4 DEF Apply
<1>6. /\ Apply(FALSE, text, "model_provider").denied = denied
      /\ Apply(FALSE, text, "model_provider").content = content
  <2>1. /\ [class |-> class, action |-> action, denied |-> denied, content |-> content].denied = denied
        /\ [class |-> class, action |-> action, denied |-> denied, content |-> content].content = content
    OBVIOUS
  <2> QED BY <1>5, <2>1, Zenon
<1>7. action = "deny"
  BY <1>3, <1>6, Zenon
<1>8. Transform("deny", text) = <<"denied">>
  BY DEF Transform
<1> QED BY <1>4, <1>6, <1>7, <1>8, Zenon

\* Record: all fragments, or fewer.
LEMMA RecordIs ==
  ASSUME NEW m, NEW n \in Nat, m \in Seq({m[i] : i \in 1..n}), Len(m) = n, NEW room \in Nat
  PROVE  \/ Record(m, room) = [stored |-> m, failed |-> FALSE]
         \/ \E part : /\ Record(m, room) = [stored |-> part, failed |-> TRUE]
                      /\ Len(part) < n /\ ToSet(part) \subseteq {m[i] : i \in 1..n}
<1>1. CASE room >= n
  BY <1>1 DEF Record
<1>2. CASE room < n
  <2>1. PICK part : part = SubSeq(m, 1, room)
    OBVIOUS
  <2>2. \A i \in 1..room : m[i] \in {m[j] : j \in 1..n}
    BY <1>2
  <2>3. /\ part \in Seq({m[i] : i \in 1..n}) /\ Len(part) = room
    <3>1. Len(part) = IF 1 <= room THEN room - 1 + 1 ELSE 0
      BY <2>1, <2>2, SubSeqProperties
    <3>2. part \in Seq({m[i] : i \in 1..n})
      BY <2>1, <2>2, SubSeqProperties
    <3> QED BY <3>1, <3>2
  <2>4. ToSet(part) \subseteq {m[i] : i \in 1..n}
    <3>1. \A i \in DOMAIN part : part[i] \in {m[j] : j \in 1..n}
      BY <2>3, ElementOfSeq, LenProperties
    <3> QED BY <3>1 DEF ToSet
  <2>5. Record(m, room) = [stored |-> part, failed |-> TRUE]
    BY <1>2, <2>1 DEF Record
  <2> QED BY <1>2, <2>3, <2>4, <2>5
<1> QED BY <1>1, <1>2

\* For every message and files, each in a place of its own, and however many
\* events can be stored: what the manifest records after BuildPrompt is what the
\* prompt was made of, and nothing is sent that it does not tell.
THEOREM ManifestTold ==
  ASSUME NEW f, IsPromptFragments(f), f # <<>>, f[1].restricted = FALSE, NEW room \in Nat
  PROVE  ManifestTellsPrompt(f, room)
<1>1. PICK Types, Refs, Contents :
        f \in Seq([type : Types, ref : Refs, restricted : BOOLEAN, content : Contents, included : BOOLEAN])
  BY DEF IsPromptFragments
<1>2. PICK n \in Nat : n = Len(f) /\ DOMAIN f = 1..n
  BY <1>1, LenProperties
<1>3. PICK q : AssembledBy(f, n, q)
  BY <1>2, AssembledIs
<1>4. \A i \in 1..n : /\ f[i] \in [type : Types, ref : Refs, restricted : BOOLEAN, content : Contents,
                                  included : BOOLEAN]
                      /\ Decided(f[i]).ref = f[i].ref
                      /\ Decided(f[i]).included <=>
                           ~Apply(f[i].restricted, f[i].content, "model_provider").denied
  <2>1. \A i \in 1..n : f[i] \in [type : Types, ref : Refs, restricted : BOOLEAN, content : Contents,
                                  included : BOOLEAN]
    BY <1>1, <1>2, ElementOfSeq
  <2> QED BY <2>1, DecidedIs
<1>5. PICK m : m = Assembled(f)
  OBVIOUS
<1>6. /\ ToSet(m) = {Decided(f[i]) : i \in 1..n} /\ ToSet(m) = {m[i] : i \in 1..n}
      /\ ToSet(f) = {f[i] : i \in 1..n}
      /\ DOMAIN m = 1..n /\ m \in Seq({m[i] : i \in 1..n}) /\ Len(m) = n
  <2>0. /\ \A i \in 1..n : q[i] \in 1..n /\ m[i] = Decided(f[q[i]])
        /\ \A e \in 1..n : \E i \in 1..n : q[i] = e
    BY <1>3, <1>5 DEF AssembledBy, Rearranges
  <2>1. ASSUME NEW i \in 1..n PROVE m[i] \in {Decided(f[j]) : j \in 1..n}
    <3>1. PICK j \in 1..n : j = q[i]
      BY <2>0
    <3> QED BY <2>0, <3>1
  <2>2. ASSUME NEW j \in 1..n PROVE \E i \in 1..n : m[i] = Decided(f[j])
    <3>1. PICK i \in 1..n : q[i] = j
      BY <2>0
    <3> QED BY <2>0, <3>1
  <2>3. DOMAIN m = 1..n /\ DOMAIN f = 1..n
    BY <1>2, <1>3, <1>5 DEF AssembledBy
  <2>4. ToSet(m) = {m[i] : i \in 1..n} /\ ToSet(f) = {f[i] : i \in 1..n}
    BY <2>3 DEF ToSet
  <2>5. m = [i \in 1..n |-> m[i]]
    <3>1. m = [i \in DOMAIN m |-> m[i]]
      BY <1>5 DEF Assembled, SortStable
    <3> QED BY <2>3, <3>1
  <2>6. m \in Seq({m[i] : i \in 1..n})
    <3> DEFINE M == {m[i] : i \in 1..n}
    <3>1. m \in [1..n -> M]
      BY <2>5
    <3> HIDE DEF M
    <3>2. m \in Seq(M)
      BY <3>1, SeqDef
    <3> QED BY <3>2 DEF M
  <2>7. Len(m) = n
    BY <2>3, <2>6, LenProperties
  <2>8. {m[i] : i \in 1..n} = {Decided(f[i]) : i \in 1..n}
    <3>1. {m[i] : i \in 1..n} \subseteq {Decided(f[i]) : i \in 1..n}
      BY <2>1
    <3>2. {Decided(f[i]) : i \in 1..n} \subseteq {m[i] : i \in 1..n}
      BY <2>2
    <3> QED BY <3>1, <3>2
  <2> QED BY <2>3, <2>4, <2>6, <2>7, <2>8
<1>7. {g.ref : g \in ToSet(m)} = {g.ref : g \in ToSet(f)}
  BY <1>4, <1>6
<1>8. ASSUME NEW d \in ToSet(m)
      PROVE  d.included <=> \E g \in ToSet(f) :
               g.ref = d.ref /\ ~Apply(g.restricted, g.content, "model_provider").denied
  <2>1. PICK i \in 1..n : d = Decided(f[i])
    BY <1>6
  <2>2. \A j \in 1..n : f[j].ref = d.ref <=> j = i
    BY <1>2, <1>4, <2>1 DEF IsPromptFragments
  <2> QED BY <1>4, <1>6, <2>1, <2>2
<1>9. PICK turn : turn = AssembleTurnPrompt(f, room)
  OBVIOUS
<1>10. PICK listed : listed = Where(m, LAMBDA g : g.included)
  OBVIOUS
<1>11. PICK texts : texts = BuildPrompt(f) /\ texts = [i \in DOMAIN listed |-> listed[i].content]
  BY <1>5, <1>10 DEF BuildPrompt
<1>12. PICK message : message = Apply(FALSE, f[1].content, "model_provider").content
  OBVIOUS
<1>13. Blank(texts) => message \in {<<>>, <<"denied">>}
  <2>1. 1 \in 1..n
    BY <1>1, <1>2, EmptySeq
  <2>2. CASE Apply(FALSE, f[1].content, "model_provider").denied
    BY <1>12, <2>2, DeniedIs
  <2>3. CASE ~Apply(FALSE, f[1].content, "model_provider").denied
    <3>1. Decided(f[1]) = [f[1] EXCEPT !.included = TRUE, !.content = message]
      BY <1>12, <2>3 DEF Decided
    <3>2. f[1] \in [type : Types, ref : Refs, restricted : BOOLEAN, content : Contents, included : BOOLEAN]
      BY <1>4, <2>1
    <3>3. Decided(f[1]).included /\ Decided(f[1]).content = message
      BY <3>1, <3>2
    <3>4. PICK i \in 1..n : m[i] = Decided(f[1])
      BY <1>6, <2>1
    <3>5. PICK k \in DOMAIN listed : listed[k] = Decided(f[1])
      <4>1. listed = Included(m)
        BY <1>10 DEF Where, Included
      <4>2. m[i].included /\ DOMAIN m = 1..n
        BY <1>6, <3>3, <3>4
      <4>3. \E k \in DOMAIN listed : listed[k] = m[i]
        BY <4>1, <4>2, IncludedIs
      <4> QED BY <3>4, <4>3
    <3>6. k \in DOMAIN texts /\ texts[k] = message
      BY <1>11, <3>3, <3>5
    <3> QED BY <3>6 DEF Blank
  <2> QED BY <2>2, <2>3
<1>14. PICK record : record = Record(m, room)
  OBVIOUS
<1>15. turn = [prompt   |-> IF ~Blank(texts) THEN texts ELSE IF message # <<>> THEN <<message>> ELSE <<<<"denied">>>>,
               manifest |-> record.stored,
               sent     |-> ~record.failed]
  BY <1>5, <1>9, <1>11, <1>12, <1>14, Zenon DEF AssembleTurnPrompt
<1>16. turn.prompt = texts \/ (Blank(texts) /\ turn.prompt = <<<<"denied">>>>)
  <2>1. turn.prompt = IF ~Blank(texts) THEN texts ELSE IF message # <<>> THEN <<message>> ELSE <<<<"denied">>>>
    BY <1>15
  <2> QED BY <1>13, <2>1, Zenon
<1>17. turn.manifest = record.stored /\ turn.sent = ~record.failed
  BY <1>15
<1>18. CASE record = [stored |-> m, failed |-> FALSE]
  <2>1. turn.manifest = m /\ turn.sent
    BY <1>17, <1>18
  <2> QED BY <1>7, <1>8, <1>9, <1>10, <1>11, <1>16, <2>1, Zenon DEF ManifestTellsPrompt
<1>19. CASE \E part : /\ record = [stored |-> part, failed |-> TRUE]
                     /\ Len(part) < n /\ ToSet(part) \subseteq {m[i] : i \in 1..n}
  <2>1. PICK part : /\ record = [stored |-> part, failed |-> TRUE]
                    /\ Len(part) < n /\ ToSet(part) \subseteq {m[i] : i \in 1..n}
    BY <1>19
  <2>2. turn.manifest = part /\ ~turn.sent
    BY <1>17, <2>1
  <2>3. \A d \in ToSet(part) : d \in ToSet(m)
    BY <1>6, <2>1
  <2> QED BY <1>2, <1>8, <1>9, <2>1, <2>2, <2>3, Zenon DEF ManifestTellsPrompt
<1> QED BY <1>6, <1>14, <1>18, <1>19, RecordIs

(***************************************************************************)
(* Routing                                                                 *)
(***************************************************************************)
IsProviders(file) ==
  \E Tiers_, Sensitivity, Tasks :
    file \in Seq([name : Int, tiers : Tiers_, sensitivity : Sensitivity, tasks : Tasks])

IsRouteRequest(r) ==
  \E Tier, Sensitivity, Task, Capabilities :
    r \in [tier : Tier, sensitivity : Sensitivity, task : Task, capabilities : Capabilities,
           preferLocal : BOOLEAN]

Permits(p, r) == r.tier \in p.tiers /\ r.sensitivity \in p.sensitivity /\ r.task \in p.tasks

ByName(file, n, q) ==
  /\ Rearranges(q, n)
  /\ DOMAIN Normalized(file) = 1..n
  /\ \A i \in 1..n : Normalized(file)[i] = file[q[i]]
  /\ \A i, j \in 1..n : i < j => file[q[i]].name < file[q[j]].name

LEMMA NormalizedIs ==
  ASSUME NEW f, NEW n \in Nat, DOMAIN f = 1..n, \A i \in 1..n : f[i].name \in Int,
         \A i, j \in 1..n : f[i].name = f[j].name => i = j
  PROVE  \E q : ByName(f, n, q)
<1> DEFINE D == 1..n
           Less(i, j) == f[i].name < f[j].name
           less == {p \in D \X D : Less(p[1], p[2])}
           R == {p \in D \X D : Less(p[1], p[2]) \/ (~Less(p[2], p[1]) /\ p[1] < p[2])}
           q == Ordered(D, R)
<1>1. \A i, j \in D : <<i, j>> \in less <=> Less(i, j)
  OBVIOUS
<1>2. Normalized(f) = [k \in DOMAIN q |-> f[q[k]]]
  BY DEF Normalized, SortStable
<1>3. R = Stably(D, less)
  <2>1. \A p \in D \X D : /\ p \in less <=> Less(p[1], p[2])
                          /\ <<p[2], p[1]>> \in less <=> Less(p[2], p[1])
    OBVIOUS
  <2> HIDE DEF less, Less
  <2> QED BY <2>1 DEF Stably
<1>4. WeakOrder(D, less)
  <2>1. \A i \in D : f[i].name \in Int
    OBVIOUS
  <2> HIDE DEF D, less
  <2> QED BY ONLY <1>1, <2>1 DEF WeakOrder
<1> HIDE DEF R, less
<1>5. /\ Rearranges(q, n)
      /\ \A i, j \in D : i < j <=> <<q[i], q[j]>> \in less \/ (<<q[j], q[i]>> \notin less /\ q[i] < q[j])
  BY <1>3, <1>4, StablyIs
<1> HIDE DEF q
<1>6. \A i \in D : q[i] \in D
  BY <1>5 DEF Rearranges
<1>7. \A i, j \in D : i < j => f[q[i]].name < f[q[j]].name
  <2> SUFFICES ASSUME NEW i \in D, NEW j \in D, i < j PROVE f[q[i]].name < f[q[j]].name
    OBVIOUS
  <2>1. q[i] # q[j]
    BY <1>5 DEF Rearranges
  <2>2. Less(q[i], q[j]) \/ ~Less(q[j], q[i])
    BY <1>1, <1>5, <1>6
  <2> QED BY <1>6, <2>1, <2>2
<1>8. DOMAIN Normalized(f) = D /\ \A i \in D : Normalized(f)[i] = f[q[i]]
  BY <1>2, <1>5 DEF Rearranges
<1> QED BY <1>5, <1>7, <1>8 DEF ByName

Ranks(a, b, i, j) == (a /\ ~b) \/ ((a <=> b) /\ i < j)

\* The answer names providers of the normalized policy, by the places c, which
\* are those of the permitted ones, local ones first.
Answers(names, N, n, permitted, m, c) ==
  /\ DOMAIN names = 1..m
  /\ \A i \in 1..m : c[i] \in permitted /\ names[i] = N[c[i]].name
  /\ \A e \in permitted : \E i \in 1..m : c[i] = e
  /\ \A i, j \in 1..m : i < j =>
       Ranks(N[c[i]].name \in LocalNames, N[c[j]].name \in LocalNames, c[i], c[j])

LEMMA SelectIs ==
  ASSUME NEW N, NEW n \in Nat, DOMAIN N = 1..n, \A i \in 1..n : N[i].name \in Int,
         NEW r, r.preferLocal = TRUE, r.capabilities = {}, NEW E, E = {i \in 1..n : Permits(N[i], r)},
         NEW answer, answer = Select(BuildRoutes(N), r)
  PROVE  \E m, c : Answers(answer, N, n, E, m, c)
<1> DEFINE routes == BuildRoutes(N)
           w == Ascending({i \in DOMAIN routes : Eligible(routes[i], r)})
           Local(i) == N[i].name \in LocalNames
<1>1. /\ DOMAIN routes = 1..n
      /\ \A i \in 1..n : /\ routes[i].provider = N[i] /\ routes[i].local = Local(i)
                         /\ routes[i].capabilities = {"text"}
                         /\ routes[i].latency = 50 + (i - 1) * 5 /\ routes[i].cost = i - 1
  BY DEF BuildRoutes
<1>2. E = {i \in DOMAIN routes : Eligible(routes[i], r)}
  BY <1>1 DEF Permits, Eligible
<1>3. PICK m : Selects(w, m, E)
  <2>1. E \in SUBSET (1..n) /\ w = Ascending(E)
    BY <1>2
  <2> HIDE DEF w
  <2> QED BY <2>1, AscendingIs
<1> DEFINE eligible == [k \in DOMAIN w |-> routes[w[k]]]
           Prefer(a, b) == IF r.preferLocal /\ a.local # b.local THEN a.local ELSE Cheaper(a, b)
           M == 1..m
           S == DOMAIN eligible
           Less(i, j) == Prefer(eligible[i], eligible[j])
           less == {p \in M \X M : Less(p[1], p[2])}
           R == {p \in S \X S : Less(p[1], p[2]) \/ (~Less(p[2], p[1]) /\ p[1] < p[2])}
           q == Ordered(S, R)
           ranked == [k \in DOMAIN q |-> eligible[q[k]]]
<1>4. Select(routes, r) = [i \in DOMAIN ranked |-> ranked[i].provider.name]
  BY DEF Select, SortStable, Where
<1> HIDE DEF routes, w
<1>5. \A i \in M : w[i] \in E /\ w[i] \in 1..n /\ eligible[i] = routes[w[i]]
  BY <1>3 DEF Selects
<1>6. S = M
  BY <1>3 DEF Selects
<1> HIDE DEF eligible, S
<1>7. \A i, j \in M : Less(i, j) <=> Ranks(Local(w[i]), Local(w[j]), w[i], w[j])
  <2> SUFFICES ASSUME NEW i \in M, NEW j \in M
               PROVE  Less(i, j) <=> Ranks(Local(w[i]), Local(w[j]), w[i], w[j])
    OBVIOUS
  <2>1. PICK a, b : a = routes[w[i]] /\ b = routes[w[j]]
    OBVIOUS
  <2>2. /\ a.local = Local(w[i]) /\ b.local = Local(w[j])
        /\ a.latency = 50 + (w[i] - 1) * 5 /\ b.latency = 50 + (w[j] - 1) * 5
        /\ a.cost = w[i] - 1 /\ b.cost = w[j] - 1 /\ a.provider = N[w[i]] /\ b.provider = N[w[j]]
    <3> HIDE DEF Local
    <3> QED BY <1>1, <1>5, <2>1
  <2>5. Local(w[i]) \in BOOLEAN /\ Local(w[j]) \in BOOLEAN
    OBVIOUS
  <2>3. Cheaper(a, b) <=> w[i] < w[j]
    <3>1. w[i] \in Int /\ w[j] \in Int /\ N[w[i]].name \in Int
      BY <1>5
    <3>2. w[i] = w[j] => ~(a.provider.name < b.provider.name)
      BY <2>2, <3>1
    <3>3. /\ a.latency < b.latency <=> w[i] < w[j]
          /\ a.latency = b.latency <=> w[i] = w[j]
          /\ a.cost < b.cost <=> w[i] < w[j]
      <4>1. \A x, y \in Int : /\ 50 + (x - 1) * 5 < 50 + (y - 1) * 5 <=> x < y
                              /\ 50 + (x - 1) * 5 = 50 + (y - 1) * 5 <=> x = y
                              /\ x - 1 < y - 1 <=> x < y
        OBVIOUS
      <4>2. /\ 50 + (w[i] - 1) * 5 < 50 + (w[j] - 1) * 5 <=> w[i] < w[j]
            /\ 50 + (w[i] - 1) * 5 = 50 + (w[j] - 1) * 5 <=> w[i] = w[j]
            /\ w[i] - 1 < w[j] - 1 <=> w[i] < w[j]
        BY <3>1, <4>1, Zenon
      <4> QED BY <2>2, <4>2, Zenon
    <3> QED BY <3>1, <3>2, <3>3 DEF Cheaper
  <2>4. Less(i, j) <=> IF a.local # b.local THEN a.local ELSE Cheaper(a, b)
    BY <1>5, <2>1
  <2> HIDE DEF Local, Less
  <2> QED BY <2>2, <2>3, <2>4, <2>5 DEF Ranks
<1>8. R = Stably(M, less)
  <2>1. \A p \in M \X M : /\ p \in less <=> Less(p[1], p[2])
                          /\ <<p[2], p[1]>> \in less <=> Less(p[2], p[1])
    OBVIOUS
  <2> HIDE DEF less, Less, M
  <2> QED BY <1>6, <2>1 DEF Stably
<1>9. \A i, j \in M : <<i, j>> \in less <=> Less(i, j)
  OBVIOUS
<1> HIDE DEF Less, less, R, q
<1>10. WeakOrder(M, less)
  <2>1. \A i \in M : w[i] \in Int
    BY <1>5
  <2>2. \A i \in M : Local(w[i]) \in BOOLEAN
    OBVIOUS
  <2> HIDE DEF M, Local
  <2>3. \A i, j \in M : <<i, j>> \in less <=> Ranks(Local(w[i]), Local(w[j]), w[i], w[j])
    BY <1>7, <1>9
  <2>4. \A i, j \in M : <<i, j>> \in less => <<j, i>> \notin less
    BY <2>1, <2>2, <2>3 DEF Ranks
  <2>5. ASSUME NEW i \in M, NEW j \in M, NEW k \in M, <<i, k>> \in less
        PROVE  <<i, j>> \in less \/ <<j, k>> \in less
    BY <2>1, <2>2, <2>3, <2>5 DEF Ranks
  <2> QED BY <2>4, <2>5 DEF WeakOrder
<1>11. /\ Rearranges(q, m)
       /\ \A i, j \in M : i < j <=> <<q[i], q[j]>> \in less \/ (<<q[j], q[i]>> \notin less /\ q[i] < q[j])
  <2>1. m \in Nat
    BY <1>3 DEF Selects
  <2>2. q = Ordered(M, Stably(M, less))
    BY <1>6, <1>8 DEF q
  <2> QED BY <1>10, <2>1, <2>2, StablyIs
<1> DEFINE c == [i \in M |-> w[q[i]]]
           names == [i \in DOMAIN ranked |-> ranked[i].provider.name]
<1>12. \A i \in M : q[i] \in M
  BY <1>11 DEF Rearranges
<1>13. DOMAIN names = M /\ \A i \in M : c[i] = w[q[i]] /\ names[i] = N[c[i]].name
  <2>1. DOMAIN q = M
    BY <1>11 DEF Rearranges
  <2>2. \A i \in M : ranked[i] = routes[w[q[i]]]
    BY <1>5, <1>12, <2>1
  <2>3. \A i \in M : w[q[i]] \in 1..n
    BY <1>5, <1>12
  <2> QED BY <1>1, <2>1, <2>2, <2>3
<1>14. \A i \in M : c[i] \in E
  BY <1>5, <1>12, <1>13
<1>15. \A e \in E : \E i \in M : c[i] = e
  <2> SUFFICES ASSUME NEW e \in E PROVE \E i \in M : c[i] = e
    OBVIOUS
  <2>1. PICK k \in M : w[k] = e
    BY <1>3 DEF Selects
  <2>2. PICK i \in M : q[i] = k
    BY <1>11 DEF Rearranges
  <2> QED BY <1>13, <2>1, <2>2
<1>16. ASSUME NEW i \in M, NEW j \in M, i < j
       PROVE  Ranks(Local(c[i]), Local(c[j]), c[i], c[j])
  <2>1. q[i] \in M /\ q[j] \in M /\ c[i] = w[q[i]] /\ c[j] = w[q[j]]
    BY <1>12, <1>13
  <2>2. Less(q[i], q[j]) \/ (~Less(q[j], q[i]) /\ q[i] < q[j])
    BY <1>9, <1>11, <1>16, <2>1
  <2>3. Less(q[i], q[j]) => Ranks(Local(c[i]), Local(c[j]), c[i], c[j])
    BY <1>7, <2>1
  <2>4. ~Less(q[j], q[i]) /\ q[i] < q[j] => Ranks(Local(c[i]), Local(c[j]), c[i], c[j])
    <3>1. q[i] < q[j] => w[q[i]] < w[q[j]]
      BY <1>3, <2>1 DEF Selects
    <3>2. Less(q[j], q[i]) <=> Ranks(Local(c[j]), Local(c[i]), c[j], c[i])
      BY <1>7, <2>1
    <3>3. c[i] \in Int /\ c[j] \in Int
      BY <1>5, <2>1
    <3> HIDE DEF Local, c
    <3> QED BY <2>1, <3>1, <3>2, <3>3 DEF Ranks
  <2> QED BY <2>2, <2>3, <2>4
<1> HIDE DEF c
<1>17. Answers(names, N, n, E, m, c)
  BY <1>13, <1>14, <1>15, <1>16 DEF Answers
<1> QED BY <1>4, <1>17 DEF routes

\* For every provider policy and request: the answer ranks those providers that
\* the policy permits, local ones first and then by name.
THEOREM RoutesFollowPolicy ==
  ASSUME NEW file, IsProviders(file), NEW r, IsRouteRequest(r)
  PROVE  RoutesAsPolicySays(file, r)
<1> SUFFICES ASSUME Validate(file) PROVE RoutesAsPolicySays(file, r)
  BY DEF RoutesAsPolicySays
<1>1. PICK n \in Nat : /\ DOMAIN file = 1..n
                       /\ \A i \in 1..n : file[i].name \in Int
  <2>1. PICK Tiers_, Sensitivity, Tasks :
          file \in Seq([name : Int, tiers : Tiers_, sensitivity : Sensitivity, tasks : Tasks])
    BY DEF IsProviders
  <2>2. Len(file) \in Nat /\ DOMAIN file = 1..Len(file)
    BY <2>1, LenProperties
  <2>3. \A i \in 1..Len(file) : file[i] \in [name : Int, tiers : Tiers_, sensitivity : Sensitivity, tasks : Tasks]
    BY <2>1, <2>2, ElementOfSeq
  <2>4. \A i \in 1..Len(file) : file[i].name \in Int
    BY <2>3
  <2> QED BY <2>2, <2>4
<1>2. \A i, j \in 1..n : file[i].name = file[j].name => i = j
  BY <1>1 DEF Validate
<1>3. PICK q : ByName(file, n, q)
  BY <1>1, <1>2, NormalizedIs
<1>4. PICK N : N = Normalized(file)
  OBVIOUS
<1>5. /\ DOMAIN N = 1..n
      /\ \A i \in 1..n : q[i] \in 1..n /\ N[i] = file[q[i]] /\ N[i].name \in Int
      /\ \A e \in 1..n : \E i \in 1..n : N[i] = file[e]
      /\ \A i, j \in 1..n : i < j => N[i].name < N[j].name
  <2>1. /\ \A i \in 1..n : q[i] \in 1..n
        /\ \A e \in 1..n : \E i \in 1..n : q[i] = e
    BY <1>3 DEF ByName, Rearranges
  <2>2. DOMAIN N = 1..n /\ \A i \in 1..n : N[i] = file[q[i]]
    BY <1>3, <1>4 DEF ByName
  <2>3. \A i, j \in 1..n : i < j => file[q[i]].name < file[q[j]].name
    BY <1>3 DEF ByName
  <2>4. \A e \in 1..n : \E i \in 1..n : N[i] = file[e]
    <3> SUFFICES ASSUME NEW e \in 1..n PROVE \E i \in 1..n : N[i] = file[e]
      OBVIOUS
    <3>1. PICK i \in 1..n : q[i] = e
      BY <2>1
    <3> QED BY <2>2, <3>1
  <2>5. \A i \in 1..n : N[i].name \in Int
    BY <1>1, <2>1, <2>2
  <2> QED BY <2>1, <2>2, <2>3, <2>4, <2>5
<1>6. PICK s : s = [r EXCEPT !.preferLocal = TRUE, !.capabilities = {}]
  OBVIOUS
<1>7. /\ s.preferLocal = TRUE /\ s.capabilities = {}
      /\ s.tier = r.tier /\ s.sensitivity = r.sensitivity /\ s.task = r.task
  BY <1>6 DEF IsRouteRequest
<1>8. PICK E : E = {i \in 1..n : Permits(N[i], s)}
  OBVIOUS
<1>9. PICK names : names = RouteDecision(file, r)
  OBVIOUS
<1>10. PICK m, c : Answers(names, N, n, E, m, c)
  <2>1. names = Select(BuildRoutes(N), s)
    BY <1>4, <1>6, <1>9 DEF RouteDecision
  <2> QED BY <1>5, <1>7, <1>8, <2>1, SelectIs
<1>11. PICK permitted : permitted = {p \in ToSet(file) : Permits(p, r)}
  OBVIOUS
<1>12. \A p : p \in permitted <=> \E i \in E : p = N[i]
  <2>1. \A p : Permits(p, s) <=> Permits(p, r)
    BY <1>7 DEF Permits
  <2>2. ToSet(file) = {file[i] : i \in 1..n}
    BY <1>1 DEF ToSet
  <2>3. \A p : p \in ToSet(file) <=> \E i \in 1..n : p = N[i]
    <3> SUFFICES ASSUME NEW p PROVE (\E e \in 1..n : p = file[e]) <=> \E i \in 1..n : p = N[i]
      BY <2>2
    <3> QED BY <1>5
  <2> QED BY <1>8, <1>11, <2>1, <2>3
<1>13. ToSet(names) = {names[i] : i \in 1..m}
  BY <1>10 DEF ToSet, Answers
<1>14. ToSet(names) = {p.name : p \in permitted}
  <2>1. \A i \in 1..m : c[i] \in E /\ names[i] = N[c[i]].name
    BY <1>10 DEF Answers
  <2>2. \A e \in E : \E i \in 1..m : names[i] = N[e].name
    BY <1>10, <2>1 DEF Answers
  <2> QED BY <1>12, <1>13, <2>1, <2>2
<1>15. ASSUME NEW i \in 1..m, NEW j \in 1..m, i < j
       PROVE  /\ names[i] # names[j]
              /\ \/ names[i] \in LocalNames /\ names[j] \notin LocalNames
                 \/ (names[i] \in LocalNames <=> names[j] \in LocalNames) /\ names[i] < names[j]
  <2>1. /\ c[i] \in 1..n /\ c[j] \in 1..n
        /\ names[i] = N[c[i]].name /\ names[j] = N[c[j]].name
        /\ Ranks(names[i] \in LocalNames, names[j] \in LocalNames, c[i], c[j])
    BY <1>8, <1>10, <1>15 DEF Answers
  <2>2. names[i] \in Int /\ names[j] \in Int
    BY <1>5, <2>1
  <2>3. c[i] < c[j] => names[i] < names[j]
    BY <1>5, <2>1
  <2> QED BY <2>1, <2>2, <2>3 DEF Ranks
<1>16. DOMAIN names = 1..m
  BY <1>10 DEF Answers
<1>17. IsInjective(names)
  BY <1>15, <1>16 DEF IsInjective
<1>18. permitted = {p \in ToSet(file) : /\ r.tier \in p.tiers
                                        /\ r.sensitivity \in p.sensitivity
                                        /\ r.task \in p.tasks}
  BY <1>11 DEF Permits
<1> QED BY <1>9, <1>14, <1>15, <1>16, <1>17, <1>18 DEF RoutesAsPolicySays

(***************************************************************************)
(* What is used of a budget                                                *)
(***************************************************************************)
Add(which, sum, f) == IF f \in which THEN sum + f.tokens ELSE sum

Sums        == INSTANCE SequenceFacts WITH Op <- Add
Allocations == INSTANCE SequenceFacts WITH Op <- LAMBDA budget, chosen, f : Consider(chosen, f, budget)

LEMMA UsedIs ==
  ASSUME NEW c, NEW which
  PROVE  UsedBy(c, which) = Sums!Fold(which, 0, c)
BY DEF UsedBy, Sums!Fold, Sums!FoldLeft, Sums!MapThenFoldSet, Sums!Max, FoldLeft, MapThenFoldSet, Max, Add

LEMMA AllocatedIs ==
  ASSUME NEW s, NEW budget
  PROVE  AllocateFragments(s, budget) = Allocations!Fold(budget, <<>>, SortStable(s, Before))
BY DEF AllocateFragments, Allocations!Fold, Allocations!FoldLeft, Allocations!MapThenFoldSet, Allocations!Max,
       FoldLeft, MapThenFoldSet, Max

LEMMA UsedSame ==
  ASSUME NEW n \in Nat, NEW c, DOMAIN c = 1..n, NEW V, NEW W, \A i \in 1..n : c[i] \in V <=> c[i] \in W
  PROVE  UsedBy(c, V) = UsedBy(c, W)
<1>1. \A k \in 1..n : \A a : Add(V, a, c[k]) = Add(W, a, c[k])
  BY DEF Add
<1>2. Sums!Fold(V, 0, c) = Sums!Fold(W, 0, c)
  BY <1>1, Sums!FoldSame
<1> QED BY <1>2, UsedIs

LEMMA UsedType ==
  ASSUME NEW n \in Nat, NEW c, DOMAIN c = 1..n, \A i \in 1..n : c[i].tokens \in Nat, NEW W
  PROVE  UsedBy(c, W) \in Nat
<1> DEFINE Kept == [k \in 0..n |-> Nat]
<1>1. \A k \in 0..n : Kept[k] = Nat
  OBVIOUS
<1>2. 0 \in 0..n /\ n \in 0..n /\ \A k \in 1..n : k \in 0..n /\ k - 1 \in 0..n
  OBVIOUS
<1> HIDE DEF Kept
<1>3. 0 \in Kept[0]
  BY <1>1, <1>2
<1>4. \A k \in 1..n : \A a \in Kept[k - 1] : Add(W, a, c[k]) \in Kept[k]
  BY <1>1, <1>2 DEF Add
<1>5. Sums!Fold(W, 0, c) \in Kept[n]
  BY <1>3, <1>4, Sums!FoldKeeps
<1> QED BY <1>1, <1>2, <1>5, UsedIs

LEMMA UsedNone ==
  ASSUME NEW n \in Nat, NEW c, DOMAIN c = 1..n, NEW W, \A i \in 1..n : c[i] \notin W
  PROVE  UsedBy(c, W) = 0
<1> DEFINE Kept == [k \in 0..n |-> {0}]
<1>1. \A k \in 0..n : Kept[k] = {0}
  OBVIOUS
<1>2. 0 \in 0..n /\ n \in 0..n /\ \A k \in 1..n : k \in 0..n /\ k - 1 \in 0..n
  OBVIOUS
<1> HIDE DEF Kept
<1>3. 0 \in Kept[0]
  BY <1>1, <1>2
<1>4. \A k \in 1..n : \A a \in Kept[k - 1] : Add(W, a, c[k]) \in Kept[k]
  BY <1>1, <1>2 DEF Add
<1>5. Sums!Fold(W, 0, c) \in Kept[n]
  BY <1>3, <1>4, Sums!FoldKeeps
<1> QED BY <1>1, <1>2, <1>5, UsedIs

LEMMA UsedMore ==
  ASSUME NEW X, NEW c \in Seq(X), NEW e \in X, NEW V, NEW W,
         \A i \in 1..Len(c) : c[i] \in V <=> c[i] \in W
  PROVE  UsedBy(Append(c, e), W) = IF e \in W THEN UsedBy(c, V) + e.tokens ELSE UsedBy(c, V)
<1>1. PICK n \in Nat : n = Len(c) /\ DOMAIN c = 1..n
  BY LenProperties
<1>2. PICK d : d = Append(c, e)
  OBVIOUS
<1>3. DOMAIN d = 1..(n + 1) /\ (\A i \in 1..n : d[i] = c[i]) /\ d[n + 1] = e
  <2>1. d \in Seq(X) /\ Len(d) = Len(c) + 1 /\ (\A i \in 1..Len(c) : d[i] = c[i]) /\ d[Len(c) + 1] = e
    BY <1>2, AppendProperties
  <2> QED BY <1>1, <2>1, LenProperties
<1>4. Sums!Fold(W, 0, d) = Add(W, Sums!Fold(W, 0, c), d[n + 1])
  BY <1>1, <1>3, Sums!FoldNext
<1>5. UsedBy(c, V) = UsedBy(c, W)
  BY <1>1, UsedSame
<1> QED BY <1>2, <1>3, <1>4, <1>5, UsedIs DEF Add

LEMMA BeforeIs ==
  ASSUME NEW a, NEW b, NEW c, a.rank \in Int, b.rank \in Int, c.rank \in Int,
         a.ref \in Int, b.ref \in Int, c.ref \in Int
  PROVE  /\ Before(a, b) => ~Before(b, a)
         /\ Before(a, c) => Before(a, b) \/ Before(b, c)
         /\ a.ref # b.ref => Before(a, b) \/ Before(b, a)
BY DEF Before

\* The fragments in the order in which AllocateFragments takes them.
TakenBy(s, n, o) ==
  /\ DOMAIN o = 1..n /\ o = [i \in 1..n |-> o[i]]
  /\ \A i \in 1..n : \E j \in 1..n : o[i] = s[j]
  /\ \A j \in 1..n : \E i \in 1..n : o[i] = s[j]
  /\ \A i, j \in 1..n : i < j => Before(o[i], o[j]) /\ o[i].ref # o[j].ref

LEMMA TakenIs ==
  ASSUME NEW n \in Nat, NEW s, DOMAIN s = 1..n, \A i \in 1..n : s[i].rank \in Int /\ s[i].ref \in Int,
         \A i, j \in 1..n : s[i].ref = s[j].ref => i = j,
         NEW o, o = SortStable(s, Before)
  PROVE  TakenBy(s, n, o)
<1> DEFINE D == 1..n
           Less(i, j) == Before(s[i], s[j])
           less == {p \in D \X D : Less(p[1], p[2])}
           R == {p \in D \X D : Less(p[1], p[2]) \/ (~Less(p[2], p[1]) /\ p[1] < p[2])}
           q == Ordered(D, R)
<1>1. \A i, j \in D : <<i, j>> \in less <=> Less(i, j)
  OBVIOUS
<1>2. o = [k \in DOMAIN q |-> s[q[k]]]
  BY DEF SortStable
<1>3. R = Stably(D, less)
  <2>1. \A p \in D \X D : /\ p \in less <=> Less(p[1], p[2])
                          /\ <<p[2], p[1]>> \in less <=> Less(p[2], p[1])
    OBVIOUS
  <2> HIDE DEF less, Less
  <2> QED BY <2>1 DEF Stably
<1>4. WeakOrder(D, less)
  <2> HIDE DEF D, less
  <2>1. \A i \in D : s[i].rank \in Int /\ s[i].ref \in Int
    BY DEF D
  <2>2. \A i, j \in D : Less(i, j) => ~Less(j, i)
    BY <2>1, BeforeIs
  <2>3. \A i, j, k \in D : Less(i, k) => Less(i, j) \/ Less(j, k)
    BY <2>1, BeforeIs
  <2> HIDE DEF Less
  <2> QED BY <1>1, <2>2, <2>3 DEF WeakOrder
<1> HIDE DEF R, less
<1>5. /\ Rearranges(q, n)
      /\ \A i, j \in D : i < j <=> <<q[i], q[j]>> \in less \/ (<<q[j], q[i]>> \notin less /\ q[i] < q[j])
  BY <1>3, <1>4, StablyIs
<1> HIDE DEF q
<1>6. /\ \A i \in D : q[i] \in D
      /\ \A e \in D : \E i \in D : q[i] = e
      /\ DOMAIN q = D
  BY <1>5 DEF Rearranges
<1>7. DOMAIN o = D /\ o = [i \in D |-> o[i]] /\ \A i \in D : o[i] = s[q[i]]
  BY <1>2, <1>6
<1>8. \A i \in D : \E j \in D : o[i] = s[j]
  BY <1>6, <1>7
<1>9. ASSUME NEW j \in D PROVE \E i \in D : o[i] = s[j]
  <2>1. PICK i \in D : q[i] = j
    BY <1>6
  <2> QED BY <1>7, <2>1
<1>10. ASSUME NEW i \in D, NEW j \in D, i < j PROVE Before(o[i], o[j]) /\ o[i].ref # o[j].ref
  <2>1. q[i] # q[j] /\ q[i] \in D /\ q[j] \in D
    BY <1>5, <1>6, <1>10 DEF Rearranges
  <2>2. s[q[i]].ref # s[q[j]].ref
    BY <2>1
  <2>3. Less(q[i], q[j]) \/ ~Less(q[j], q[i])
    <3> HIDE DEF Less, D
    <3> QED BY <1>1, <1>5, <1>10, <2>1
  <2>4. Less(q[i], q[j])
    BY <2>1, <2>2, <2>3, BeforeIs
  <2> QED BY <1>7, <2>2, <2>4
<1> QED BY <1>7, <1>8, <1>9, <1>10 DEF TakenBy

(***************************************************************************)
(* The budget                                                              *)
(***************************************************************************)
\* The fragments: each from a place of its own.
Fragment(Types) == [type : Types, ref : Int, rank : Int, tokens : Nat, truncated : BOOLEAN]

\* One fragment is served as ServedInOrder asks.
UpToOne(c, f) == {g \in ToSet(c) : Before(g, f) \/ g.ref = f.ref}
Served(c, f, budget) ==
  \/ UsedBy(c, {g \in ToSet(c) : g.ref = f.ref}) = f.tokens
  \/ UsedBy(c, UpToOne(c, f)) = PromptBudget(budget)
  \/ UsedBy(c, OfCategory(UpToOne(c, f), CategoryOf(f.type))) = NotBelowZero(budget.limit[CategoryOf(f.type)])

IsBudget(budget) == budget.total \in Int /\ budget.reserve \in Int /\ \A k \in Categories : budget.limit[k] \in Int

\* What is chosen of the first k fragments in order.
Chosen(c, k, o, budget, Types) ==
  /\ c \in Seq(Fragment(Types))
  /\ \A i \in 1..Len(c) : \E j \in 1..k : c[i].ref = o[j].ref /\ c[i].rank = o[j].rank /\ c[i].type = o[j].type
  /\ Used(c) <= PromptBudget(budget)
  /\ \A y \in Categories : UsedIn(c, y) <= NotBelowZero(budget.limit[y])
  /\ \A j \in 1..k : Served(c, o[j], budget)

LEMMA SeqIs ==
  ASSUME NEW Types, NEW c \in Seq(Fragment(Types))
  PROVE  /\ Len(c) \in Nat /\ DOMAIN c = 1..Len(c)
         /\ \A i \in 1..Len(c) : c[i] \in Fragment(Types) /\ c[i].tokens \in Nat
         /\ ToSet(c) = {c[i] : i \in 1..Len(c)}
         /\ \A W : UsedBy(c, W) \in Nat
<1>1. Len(c) \in Nat /\ DOMAIN c = 1..Len(c)
  BY LenProperties
<1>2. \A i \in 1..Len(c) : c[i] \in Fragment(Types)
  BY <1>1, ElementOfSeq
<1>3. \A i \in 1..Len(c) : c[i].tokens \in Nat
  BY <1>2 DEF Fragment
<1>4. ToSet(c) = {c[i] : i \in 1..Len(c)}
  BY <1>1 DEF ToSet
<1>5. \A W : UsedBy(c, W) \in Nat
  BY <1>1, <1>3, UsedType
<1> QED BY <1>1, <1>2, <1>3, <1>4, <1>5

LEMMA CategoryIs == \A type : CategoryOf(type) \in Categories
BY DEF CategoryOf, Categories

\* One more fragment is chosen: what the others use is as before.
Enlarges(c, e, d) ==
  /\ d = Append(c, e) /\ Len(d) = Len(c) + 1
  /\ (\A i \in 1..Len(c) : d[i] = c[i]) /\ d[Len(c) + 1] = e
  /\ \A g : g \in ToSet(d) <=> g \in ToSet(c) \/ g = e
  /\ Used(d) = Used(c) + e.tokens
  /\ \A y : UsedIn(d, y) = IF CategoryOf(e.type) = y THEN UsedIn(c, y) + e.tokens ELSE UsedIn(c, y)

LEMMA OneMoreUsed ==
  ASSUME NEW Types, NEW c \in Seq(Fragment(Types)), NEW e \in Fragment(Types),
         \A i \in 1..Len(c) : c[i].ref # e.ref, NEW d, d = Append(c, e)
  PROVE  d \in Seq(Fragment(Types)) /\ Enlarges(c, e, d)
<1>1. /\ d \in Seq(Fragment(Types)) /\ Len(d) = Len(c) + 1
      /\ (\A i \in 1..Len(c) : d[i] = c[i]) /\ d[Len(c) + 1] = e
  BY AppendProperties
<1>2. /\ Len(c) \in Nat /\ ToSet(c) = {c[i] : i \in 1..Len(c)} /\ ToSet(d) = {d[i] : i \in 1..Len(d)}
  <2>1. \A x \in Seq(Fragment(Types)) : Len(x) \in Nat /\ ToSet(x) = {x[i] : i \in 1..Len(x)}
    BY SeqIs
  <2> HIDE DEF Fragment
  <2> QED BY <1>1, <2>1, Zenon
<1>3. \A g : g \in ToSet(d) <=> g \in ToSet(c) \/ g = e
  <2>1. \A i : i \in 1..(Len(c) + 1) <=> i \in 1..Len(c) \/ i = Len(c) + 1
    BY <1>2
  <2> QED BY <1>1, <1>2, <2>1
<1>4. \A i \in 1..Len(c) : c[i] \in ToSet(c) /\ c[i] \in ToSet(d)
  BY <1>2, <1>3
<1>5. Used(d) = Used(c) + e.tokens
  <2>1. \A i \in 1..Len(c) : c[i] \in ToSet(c) <=> c[i] \in ToSet(d)
    BY <1>4
  <2>2. e \in ToSet(d)
    BY <1>3
  <2>3. UsedBy(Append(c, e), ToSet(d)) = IF e \in ToSet(d) THEN UsedBy(c, ToSet(c)) + e.tokens ELSE UsedBy(c, ToSet(c))
    BY <2>1, UsedMore
  <2> QED BY <2>2, <2>3 DEF Used
<1>6. ASSUME NEW y
      PROVE  UsedIn(d, y) = IF CategoryOf(e.type) = y THEN UsedIn(c, y) + e.tokens ELSE UsedIn(c, y)
  <2>1. PICK V, W : V = OfCategory(ToSet(c), y) /\ W = OfCategory(ToSet(d), y)
    OBVIOUS
  <2>2. \A i \in 1..Len(c) : c[i] \in V <=> c[i] \in W
    BY <1>4, <2>1 DEF OfCategory
  <2>3. e \in W <=> CategoryOf(e.type) = y
    BY <1>3, <2>1 DEF OfCategory
  <2>4. UsedBy(Append(c, e), W) = IF e \in W THEN UsedBy(c, V) + e.tokens ELSE UsedBy(c, V)
    BY <2>2, UsedMore
  <2> QED BY <2>1, <2>3, <2>4 DEF UsedIn
<1> QED BY <1>1, <1>3, <1>5, <1>6 DEF Enlarges

\* What was said of an earlier fragment stays true when a later one is chosen.
LEMMA StaysServed ==
  ASSUME NEW Types, NEW c \in Seq(Fragment(Types)), NEW e \in Fragment(Types),
         \A i \in 1..Len(c) : c[i].ref # e.ref, NEW d, d = Append(c, e),
         NEW g, ~Before(e, g), e.ref # g.ref, NEW budget, Served(c, g, budget)
  PROVE  Served(d, g, budget)
<1>0. Enlarges(c, e, d)
  BY OneMoreUsed
<1>1. \A x : x \in ToSet(d) <=> x \in ToSet(c) \/ x = e
  BY <1>0 DEF Enlarges
<1>2. \A i \in 1..Len(c) : c[i] \in ToSet(c) /\ c[i] \in ToSet(d)
  BY <1>1, SeqIs
<1>3. ASSUME NEW V, NEW W, e \notin W, \A i \in 1..Len(c) : c[i] \in V <=> c[i] \in W
      PROVE  UsedBy(d, W) = UsedBy(c, V)
  BY <1>3, UsedMore
<1>4. UsedBy(d, {x \in ToSet(d) : x.ref = g.ref}) = UsedBy(c, {x \in ToSet(c) : x.ref = g.ref})
  <2>1. PICK V, W : V = {x \in ToSet(c) : x.ref = g.ref} /\ W = {x \in ToSet(d) : x.ref = g.ref}
    OBVIOUS
  <2>2. e \notin W /\ \A i \in 1..Len(c) : c[i] \in V <=> c[i] \in W
    BY <1>2, <2>1
  <2> QED BY <1>3, <2>1, <2>2
<1>5. e \notin UpToOne(d, g) /\ \A i \in 1..Len(c) : c[i] \in UpToOne(c, g) <=> c[i] \in UpToOne(d, g)
  BY <1>2 DEF UpToOne
<1>6. UsedBy(d, UpToOne(d, g)) = UsedBy(c, UpToOne(c, g))
  BY <1>3, <1>5
<1>7. UsedBy(d, OfCategory(UpToOne(d, g), CategoryOf(g.type))) = UsedBy(c, OfCategory(UpToOne(c, g), CategoryOf(g.type)))
  <2>1. PICK V, W : V = OfCategory(UpToOne(c, g), CategoryOf(g.type)) /\ W = OfCategory(UpToOne(d, g), CategoryOf(g.type))
    OBVIOUS
  <2>2. e \notin W /\ \A i \in 1..Len(c) : c[i] \in V <=> c[i] \in W
    BY <1>5, <2>1 DEF OfCategory
  <2> QED BY <1>3, <2>1, <2>2
<1> QED BY <1>4, <1>6, <1>7 DEF Served

\* The fragment that is taken last: nothing that is chosen comes after it.
LEMMA LastServed ==
  ASSUME NEW d, NEW f, NEW budget, \A x \in ToSet(d) : Before(x, f) \/ x.ref = f.ref
  PROVE  Served(d, f, budget) <=>
           \/ UsedBy(d, {g \in ToSet(d) : g.ref = f.ref}) = f.tokens
           \/ Used(d) = PromptBudget(budget)
           \/ UsedIn(d, CategoryOf(f.type)) = NotBelowZero(budget.limit[CategoryOf(f.type)])
<1>1. UpToOne(d, f) = ToSet(d)
  BY DEF UpToOne
<1> QED BY <1>1 DEF Served, Used, UsedIn

\* The arithmetic of Consider: n tokens are asked for, b of the budget and l of
\* the category's share, and u and v of them are used.
IsRoom(n, b, l, u, v, room, size) ==
  /\ room = (IF l - v < b - u THEN l - v ELSE b - u)
  /\ size = (IF n > room THEN room ELSE n)

HasRoom(n, b, l, u, v, room, size) ==
  /\ room <= 0 \/ size <= 0 => n = 0 \/ u = b \/ v = NotBelowZero(l)
  /\ ~(room <= 0 \/ size <= 0) =>
       /\ size \in Nat /\ u + size <= b /\ v + size <= NotBelowZero(l)
       /\ size = n \/ u + size = b \/ v + size = NotBelowZero(l)

LEMMA RoomIs ==
  ASSUME NEW n \in Nat, NEW b \in Int, NEW l \in Int, NEW u \in Nat, NEW v \in Nat,
         u <= b, v <= NotBelowZero(l), NEW room, NEW size, IsRoom(n, b, l, u, v, room, size)
  PROVE  HasRoom(n, b, l, u, v, room, size)
BY DEF NotBelowZero, IsRoom, HasRoom

LEMMA NextChosen ==
  ASSUME NEW Types, NEW n \in Nat, NEW o, NEW budget, IsBudget(budget),
         \A i \in 1..n : o[i] \in Fragment(Types),
         \A i, j \in 1..n : i < j => Before(o[i], o[j]) /\ o[i].ref # o[j].ref,
         NEW k \in 1..n, NEW c, Chosen(c, k - 1, o, budget, Types),
         NEW d, d = Consider(c, o[k], budget)
  PROVE  Chosen(d, k, o, budget, Types)
<1>1. PICK f : f = o[k] /\ f \in Fragment(Types)
  OBVIOUS
<1>2. PICK y : y = CategoryOf(f.type) /\ y \in Categories
  BY CategoryIs
<1>3. /\ c \in Seq(Fragment(Types))
      /\ \A i \in 1..Len(c) : \E j \in 1..(k - 1) : c[i].ref = o[j].ref /\ c[i].rank = o[j].rank /\ c[i].type = o[j].type
      /\ Used(c) <= PromptBudget(budget)
      /\ \A x \in Categories : UsedIn(c, x) <= NotBelowZero(budget.limit[x])
      /\ \A j \in 1..(k - 1) : Served(c, o[j], budget)
  BY DEF Chosen
<1>4. \A j \in 1..(k - 1) : j \in 1..k /\ j \in 1..n /\ j < k
  OBVIOUS
<1>5. ASSUME NEW j \in 1..(k - 1)
      PROVE  Before(o[j], f) /\ o[j].ref # f.ref /\ ~Before(f, o[j])
  <2>1. Before(o[j], f) /\ o[j].ref # f.ref
    BY <1>1, <1>4
  <2>2. o[j].rank \in Int /\ o[j].ref \in Int /\ f.rank \in Int /\ f.ref \in Int
    BY <1>1, <1>4 DEF Fragment
  <2> QED BY <2>1, <2>2, BeforeIs
<1>6. ASSUME NEW i \in 1..Len(c) PROVE Before(c[i], f) /\ c[i].ref # f.ref
  <2>1. PICK j \in 1..(k - 1) : c[i].ref = o[j].ref /\ c[i].rank = o[j].rank
    BY <1>3
  <2> QED BY <1>5, <2>1 DEF Before
<1>7. /\ Len(c) \in Nat /\ DOMAIN c = 1..Len(c) /\ ToSet(c) = {c[i] : i \in 1..Len(c)}
      /\ Used(c) \in Nat /\ \A x : UsedIn(c, x) \in Nat
  BY <1>3, SeqIs DEF Used, UsedIn
<1>8. PICK room : room = (IF budget.limit[y] - UsedIn(c, y) < PromptBudget(budget) - Used(c)
                          THEN budget.limit[y] - UsedIn(c, y) ELSE PromptBudget(budget) - Used(c))
  OBVIOUS
<1>9. PICK size : size = (IF f.tokens > room THEN room ELSE f.tokens)
  OBVIOUS
<1>10. d = IF room <= 0 \/ size <= 0 THEN c
           ELSE Append(c, [f EXCEPT !.tokens = size, !.truncated = @ \/ size < f.tokens])
  BY <1>1, <1>2, <1>8, <1>9 DEF Consider, Room
<1>11. /\ room <= 0 \/ size <= 0 =>
            f.tokens = 0 \/ Used(c) = PromptBudget(budget) \/ UsedIn(c, y) = NotBelowZero(budget.limit[y])
       /\ ~(room <= 0 \/ size <= 0) =>
            /\ size \in Nat /\ Used(c) + size <= PromptBudget(budget)
            /\ UsedIn(c, y) + size <= NotBelowZero(budget.limit[y])
            /\ size = f.tokens \/ Used(c) + size = PromptBudget(budget)
                 \/ UsedIn(c, y) + size = NotBelowZero(budget.limit[y])
  <2>1. f.tokens \in Nat /\ budget.limit[y] \in Int /\ PromptBudget(budget) \in Int
    BY <1>1, <1>2 DEF Fragment, IsBudget, PromptBudget, NotBelowZero
  <2>2. UsedIn(c, y) <= NotBelowZero(budget.limit[y]) /\ UsedIn(c, y) \in Nat /\ Used(c) \in Nat
        /\ Used(c) <= PromptBudget(budget)
    BY <1>2, <1>3, <1>7
  <2>3. PICK t, b, l, u, v : /\ t = f.tokens /\ b = PromptBudget(budget) /\ l = budget.limit[y]
                             /\ u = Used(c) /\ v = UsedIn(c, y)
    OBVIOUS
  <2>4. /\ t \in Nat /\ b \in Int /\ l \in Int /\ u \in Nat /\ v \in Nat
        /\ u <= b /\ v <= NotBelowZero(l)
    BY ONLY <2>1, <2>2, <2>3
  <2>5. IsRoom(t, b, l, u, v, room, size)
    BY ONLY <2>3, <1>8, <1>9 DEF IsRoom
  <2>6. HasRoom(t, b, l, u, v, room, size)
    BY ONLY <2>4, <2>5, RoomIs
  <2> QED BY ONLY <2>3, <2>6 DEF HasRoom
<1>12. CASE room <= 0 \/ size <= 0
  <2>1. d = c
    BY <1>10, <1>12
  <2>2. \A x \in ToSet(c) : Before(x, f) /\ x.ref # f.ref
    BY <1>6, <1>7
  <2>3. UsedBy(c, {g \in ToSet(c) : g.ref = f.ref}) = 0
    <3>1. \A i \in 1..Len(c) : c[i] \notin {g \in ToSet(c) : g.ref = f.ref}
      BY <1>6
    <3> QED BY <1>7, <3>1, UsedNone
  <2>4. Served(c, f, budget)
    BY <1>2, <1>11, <1>12, <2>2, <2>3, LastServed
  <2>5. \A j \in 1..k : j = k \/ j \in 1..(k - 1)
    OBVIOUS
  <2> QED BY <1>1, <1>3, <1>4, <2>1, <2>4, <2>5 DEF Chosen
<1>13. CASE ~(room <= 0 \/ size <= 0)
  <2>1. PICK e : e = [f EXCEPT !.tokens = size, !.truncated = f.truncated \/ size < f.tokens]
    OBVIOUS
  <2>2. /\ e \in Fragment(Types) /\ e.tokens = size
        /\ e.ref = f.ref /\ e.rank = f.rank /\ e.type = f.type
    BY <1>1, <1>11, <1>13, <2>1 DEF Fragment
  <2>3. d = Append(c, e)
    BY <1>10, <1>13, <2>1
  <2>4. \A i \in 1..Len(c) : c[i].ref # e.ref
    BY <1>6, <2>2
  <2>5. /\ d \in Seq(Fragment(Types)) /\ Len(d) = Len(c) + 1
        /\ (\A i \in 1..Len(c) : d[i] = c[i]) /\ d[Len(c) + 1] = e
        /\ \A g : g \in ToSet(d) <=> g \in ToSet(c) \/ g = e
        /\ Used(d) = Used(c) + size
        /\ \A x : UsedIn(d, x) = IF y = x THEN UsedIn(c, x) + size ELSE UsedIn(c, x)
    <3>1. c \in Seq(Fragment(Types))
      BY <1>3
    <3>2. d \in Seq(Fragment(Types)) /\ Enlarges(c, e, d)
      BY ONLY <3>1, <2>2, <2>3, <2>4, OneMoreUsed
    <3> QED BY <1>2, <2>2, <3>2 DEF Enlarges
  <2>6. ASSUME NEW i \in 1..Len(d)
        PROVE  \E j \in 1..k : d[i].ref = o[j].ref /\ d[i].rank = o[j].rank /\ d[i].type = o[j].type
    <3>1. i \in 1..Len(c) \/ i = Len(c) + 1
      BY <1>7, <2>5
    <3>2. CASE i \in 1..Len(c)
      BY <1>3, <1>4, <2>5, <3>2
    <3>3. CASE i = Len(c) + 1
      BY <1>1, <2>2, <2>5, <3>3
    <3> QED BY <3>1, <3>2, <3>3
  <2>7. Used(d) <= PromptBudget(budget)
    BY <1>11, <1>13, <2>5
  <2>8. \A x \in Categories : UsedIn(d, x) <= NotBelowZero(budget.limit[x])
    BY <1>3, <1>11, <1>13, <2>5
  <2>9. Served(d, f, budget)
    <3>1. \A x \in ToSet(d) : Before(x, f) \/ x.ref = f.ref
      BY <1>6, <1>7, <2>2, <2>5
    <3>2. UsedBy(d, {g \in ToSet(d) : g.ref = f.ref}) = size
      <4>1. PICK W : W = {g \in ToSet(d) : g.ref = f.ref}
        OBVIOUS
      <4>2. e \in W /\ \A i \in 1..Len(c) : c[i] \notin W
        BY <1>6, <2>2, <2>5, <4>1
      <4>3. UsedBy(c, W) = 0
        BY <1>7, <4>2, UsedNone
      <4>4. UsedBy(Append(c, e), W) = IF e \in W THEN UsedBy(c, W) + e.tokens ELSE UsedBy(c, W)
        BY <1>3, <2>2, UsedMore
      <4> QED BY <1>11, <1>13, <2>2, <2>3, <4>1, <4>2, <4>3, <4>4
    <3> QED BY <1>2, <1>11, <1>13, <2>5, <3>1, <3>2, LastServed
  <2>10. ASSUME NEW j \in 1..k PROVE Served(d, o[j], budget)
    <3>1. CASE j = k
      BY <1>1, <2>9, <3>1
    <3>2. CASE j \in 1..(k - 1)
      <4>1. ~Before(e, o[j]) /\ e.ref # o[j].ref
        BY <1>5, <2>2, <3>2 DEF Before
      <4> QED BY <1>3, <2>2, <2>3, <2>4, <3>2, <4>1, StaysServed
    <3> QED BY <3>1, <3>2
  <2> QED BY <2>5, <2>6, <2>7, <2>8, <2>10 DEF Chosen
<1> QED BY <1>12, <1>13

\* For all fragments, each from a place of its own, and every budget: no share is
\* exceeded, and no fragment is cut that those before it have left room for.
THEOREM BudgetKept ==
  ASSUME NEW Types, NEW s \in Seq(Fragment(Types)), \A i, j \in DOMAIN s : s[i].ref = s[j].ref => i = j,
         NEW budget, IsBudget(budget)
  PROVE  WithinBudget(s, budget) /\ ServedInOrder(s, budget)
<1>1. PICK n \in Nat : n = Len(s) /\ DOMAIN s = 1..n
  BY SeqIs
<1>2. \A i \in 1..n : s[i] \in Fragment(Types) /\ s[i].rank \in Int /\ s[i].ref \in Int
  <2>1. \A i \in 1..n : s[i] \in Fragment(Types)
    BY <1>1, SeqIs
  <2> QED BY <2>1 DEF Fragment
<1>3. PICK o : o = SortStable(s, Before) /\ TakenBy(s, n, o)
  <2>1. \A i, j \in 1..n : s[i].ref = s[j].ref => i = j
    BY <1>1
  <2>2. \A o : o = SortStable(s, Before) => TakenBy(s, n, o)
    BY <1>1, <1>2, <2>1, TakenIs
  <2> QED BY <2>2
<1>4. /\ DOMAIN o = 1..n
      /\ \A i \in 1..n : o[i] \in Fragment(Types)
      /\ \A j \in 1..n : \E i \in 1..n : o[i] = s[j]
      /\ \A i, j \in 1..n : i < j => Before(o[i], o[j]) /\ o[i].ref # o[j].ref
  BY <1>2, <1>3 DEF TakenBy
<1> DEFINE Kept == [k \in 0..n |-> {c \in Seq(Fragment(Types)) : Chosen(c, k, o, budget, Types)}]
<1>5. \A k \in 0..n : \A c : c \in Kept[k] <=> Chosen(c, k, o, budget, Types)
  BY DEF Chosen
<1>6. 0 \in 0..n /\ n \in 0..n /\ \A k \in 1..n : k \in 0..n /\ k - 1 \in 0..n
  OBVIOUS
<1> HIDE DEF Kept
<1>7. <<>> \in Kept[0]
  <2>1. PICK c : c = <<>>
    OBVIOUS
  <2>2. c \in Seq(Fragment(Types)) /\ Len(c) = 0 /\ DOMAIN c = 1..0
    BY <2>1, EmptySeq
  <2>3. \A W : UsedBy(c, W) = 0
    BY <2>2, UsedNone
  <2>4. 0 <= PromptBudget(budget) /\ \A y \in Categories : 0 <= NotBelowZero(budget.limit[y])
    BY DEF IsBudget, PromptBudget, NotBelowZero
  <2>5. Chosen(c, 0, o, budget, Types)
    BY <2>2, <2>3, <2>4 DEF Chosen, Used, UsedIn
  <2> QED BY <1>5, <1>6, <2>1, <2>5
<1>8. ASSUME NEW k \in 1..n, NEW c \in Kept[k - 1] PROVE Consider(c, o[k], budget) \in Kept[k]
  <2>1. Chosen(c, k - 1, o, budget, Types)
    BY <1>5, <1>6
  <2>2. Chosen(Consider(c, o[k], budget), k, o, budget, Types)
    BY <1>4, <2>1, NextChosen
  <2> QED BY <1>5, <1>6, <2>2
<1>9. PICK chosen : chosen = AllocateFragments(s, budget)
  OBVIOUS
<1>10. Chosen(chosen, n, o, budget, Types)
  <2>1. Allocations!Fold(budget, <<>>, o) \in Kept[n]
    BY <1>4, <1>7, <1>8, Allocations!FoldKeeps
  <2> QED BY <1>3, <1>5, <1>6, <1>9, <2>1, AllocatedIs
<1>11. /\ Used(chosen) <= PromptBudget(budget) /\ Used(chosen) \in Nat
       /\ \A y \in Categories : UsedIn(chosen, y) <= NotBelowZero(budget.limit[y])
       /\ \A j \in 1..n : Served(chosen, s[j], budget)
  <2>1. /\ chosen \in Seq(Fragment(Types)) /\ Used(chosen) <= PromptBudget(budget)
        /\ \A y \in Categories : UsedIn(chosen, y) <= NotBelowZero(budget.limit[y])
        /\ \A j \in 1..n : Served(chosen, o[j], budget)
    BY <1>10 DEF Chosen
  <2>2. Used(chosen) \in Nat
    BY <2>1, SeqIs DEF Used
  <2> QED BY <1>4, <2>1, <2>2
<1>12. budget.reserve <= budget.total => budget.total - Used(chosen) >= budget.reserve
  BY <1>11 DEF IsBudget, PromptBudget, NotBelowZero
<1>13. WithinBudget(s, budget)
  BY <1>9, <1>11, <1>12 DEF WithinBudget
<1>14. ServedInOrder(s, budget)
  BY <1>1, <1>9, <1>11 DEF ServedInOrder, Served, UpToOne
<1> QED BY <1>13, <1>14

\* For every total: the shares of the default budget fit.
THEOREM DefaultSharesFit ==
  ASSUME NEW total \in Nat
  PROVE  SharesFit(total)
<1>1. PICK reserve : reserve = (IF total < 1200 THEN total \div 2 ELSE 600)
  OBVIOUS
<1>2. PICK r : r = total - reserve
  OBVIOUS
<1>3. reserve \in Nat /\ r \in Nat
  BY <1>1, <1>2
<1>4. PICK a, b, c, d, e : /\ a = (r * 10) \div 100 /\ b = (r * 15) \div 100 /\ c = (r * 15) \div 100
                           /\ d = (r * 35) \div 100 /\ e = (r * 25) \div 100
  OBVIOUS
<1>5. PICK budget : budget = DefaultCategoryBudget(total)
  OBVIOUS
<1>6. /\ budget.total = total /\ budget.reserve = reserve
      /\ budget.limit.control = a /\ budget.limit.task = b /\ budget.limit.instructions = c
      /\ budget.limit.evidence = d /\ budget.limit.history = e
  <2>1. budget = [total |-> total, reserve |-> reserve,
                  limit |-> [control |-> a, task |-> b, instructions |-> c, evidence |-> d, history |-> e]]
    <3>1. /\ a = ((total - reserve) * 10) \div 100 /\ b = ((total - reserve) * 15) \div 100
          /\ c = ((total - reserve) * 15) \div 100 /\ d = ((total - reserve) * 35) \div 100
          /\ e = ((total - reserve) * 25) \div 100
      BY ONLY <1>2, <1>4
    <3> QED BY ONLY <1>1, <1>5, <3>1 DEF DefaultCategoryBudget
  <2> QED BY ONLY <2>1
<1>7. PromptBudget(budget) = r
  BY <1>2, <1>3, <1>6 DEF PromptBudget, NotBelowZero
<1>8. a + b + c + d + e <= r /\ r - (a + b + c + d + e) < 5
  <2>1. \A x \in Nat : 100 * (x \div 100) <= x /\ x < 100 * (x \div 100) + 100 /\ x \div 100 \in Int
    OBVIOUS
  <2>2. /\ r * 10 \in Nat /\ r * 15 \in Nat /\ r * 35 \in Nat /\ r * 25 \in Nat
    BY <1>3
  <2>3. /\ 100 * a <= r * 10 /\ r * 10 < 100 * a + 100 /\ a \in Int
        /\ 100 * b <= r * 15 /\ r * 15 < 100 * b + 100 /\ b \in Int
        /\ 100 * c <= r * 15 /\ r * 15 < 100 * c + 100 /\ c \in Int
        /\ 100 * d <= r * 35 /\ r * 35 < 100 * d + 100 /\ d \in Int
        /\ 100 * e <= r * 25 /\ r * 25 < 100 * e + 100 /\ e \in Int
    BY <1>4, <2>1, <2>2
  <2> QED BY ONLY <1>3, <2>3
<1>9. Cardinality(Categories) = 5
  <2>1. PICK a1, a2, a3, a4 :
          /\ a1 = {"control"} /\ a2 = a1 \union {"task"} /\ a3 = a2 \union {"instructions"}
          /\ a4 = a3 \union {"evidence"}
    OBVIOUS
  <2>2. IsFiniteSet(a1) /\ Cardinality(a1) = 1
    BY <2>1, FS_Singleton
  <2>3. IsFiniteSet(a2) /\ Cardinality(a2) = 1 + 1
    BY <2>1, <2>2, FS_AddElement
  <2>4. IsFiniteSet(a3) /\ Cardinality(a3) = (1 + 1) + 1
    BY <2>1, <2>3, FS_AddElement
  <2>5. IsFiniteSet(a4) /\ Cardinality(a4) = ((1 + 1) + 1) + 1
    BY <2>1, <2>4, FS_AddElement
  <2>6. Cardinality(a4 \union {"history"}) = (((1 + 1) + 1) + 1) + 1
    BY <2>1, <2>5, FS_AddElement
  <2>7. a4 \union {"history"} = Categories
    BY <2>1 DEF Categories
  <2> QED BY <2>6, <2>7
<1> QED BY <1>5, <1>6, <1>7, <1>8, <1>9 DEF SharesFit

LEMMA ReorderedIs ==
  ASSUME NEW s, NEW n \in Nat, DOMAIN s = 1..n, NEW t \in Reordered(s)
  PROVE  \E p : /\ Rearranges(p, n)
                /\ t = [i \in 1..n |-> s[p[i]]]
<1>1. PICK p \in Bijection(1..n, 1..n) : t = [i \in 1..n |-> s[p[i]]]
  BY DEF Reordered
<1>2. Rearranges(p, n)
  BY DEF Rearranges, Bijection, Injection, Surjection, IsInjective
<1> QED BY <1>1, <1>2

\* For all fragments: what is chosen does not depend on the order they are in.
THEOREM AllocatesAlike ==
  ASSUME NEW Types, NEW s \in Seq(Fragment(Types)), \A i, j \in DOMAIN s : s[i].ref = s[j].ref => i = j,
         NEW budget
  PROVE  AllocatedAlike(s, budget)
<1>1. PICK n \in Nat : n = Len(s) /\ DOMAIN s = 1..n
  BY SeqIs
<1>2. \A i \in 1..n : s[i].rank \in Int /\ s[i].ref \in Int
  <2>1. \A i \in 1..n : s[i] \in Fragment(Types)
    BY <1>1, SeqIs
  <2> QED BY <2>1 DEF Fragment
<1>3. \A i, j \in 1..n : s[i].ref = s[j].ref => i = j
  BY <1>1
<1> SUFFICES ASSUME NEW t \in Reordered(s)
             PROVE  AllocateFragments(t, budget) = AllocateFragments(s, budget)
  BY DEF AllocatedAlike
<1>4. PICK p : Rearranges(p, n) /\ t = [i \in 1..n |-> s[p[i]]]
  BY <1>1, ReorderedIs
<1>5. /\ DOMAIN t = 1..n
      /\ \A i \in 1..n : p[i] \in 1..n /\ t[i] = s[p[i]]
      /\ \A j \in 1..n : \E i \in 1..n : t[i] = s[j]
  <2>1. /\ \A i \in 1..n : p[i] \in 1..n
        /\ \A e \in 1..n : \E i \in 1..n : p[i] = e
    BY <1>4 DEF Rearranges
  <2>2. DOMAIN t = 1..n /\ \A i \in 1..n : t[i] = s[p[i]]
    BY <1>4
  <2>3. ASSUME NEW j \in 1..n PROVE \E i \in 1..n : t[i] = s[j]
    <3>1. PICK i \in 1..n : p[i] = j
      BY <2>1
    <3> QED BY <2>2, <3>1
  <2> QED BY <2>1, <2>2, <2>3
<1>6. PICK a : a = SortStable(s, Before)
  OBVIOUS
<1>7. PICK b : b = SortStable(t, Before)
  OBVIOUS
<1>8. TakenBy(s, n, a)
  BY <1>1, <1>2, <1>3, <1>6, TakenIs
<1>9. TakenBy(t, n, b)
  <2>1. \A i \in 1..n : t[i].rank \in Int /\ t[i].ref \in Int
    BY <1>2, <1>5
  <2>2. \A i, j \in 1..n : t[i].ref = t[j].ref => i = j
    <3> SUFFICES ASSUME NEW i \in 1..n, NEW j \in 1..n, t[i].ref = t[j].ref PROVE i = j
      OBVIOUS
    <3>1. s[p[i]].ref = s[p[j]].ref
      BY <1>5
    <3>2. p[i] = p[j]
      BY <1>3, <1>5, <3>1
    <3> QED BY <1>4, <3>2 DEF Rearranges
  <2> QED BY <1>5, <1>7, <2>1, <2>2, TakenIs
<1> DEFINE E == {s[i] : i \in 1..n}
           R == {r \in E \X E : Before(r[1], r[2])}
<1>10. \A x, y \in E : <<x, y>> \in R <=> Before(x, y)
  OBVIOUS
<1>11. \A x, y \in E : Before(x, y) => ~Before(y, x)
  <2>1. \A x \in E : x.rank \in Int /\ x.ref \in Int
    BY <1>2
  <2> HIDE DEF E
  <2> QED BY <2>1, BeforeIs
<1>12. \A i \in 1..n : /\ a[i] \in E /\ b[i] \in E
                       /\ \E j \in 1..n : a[i] = b[j]
                       /\ \E j \in 1..n : b[i] = a[j]
  <2>1. /\ \A i \in 1..n : \E j \in 1..n : a[i] = s[j]
        /\ \A j \in 1..n : \E i \in 1..n : a[i] = s[j]
    BY <1>8 DEF TakenBy
  <2>2. /\ \A i \in 1..n : \E j \in 1..n : b[i] = t[j]
        /\ \A j \in 1..n : \E i \in 1..n : b[i] = t[j]
    BY <1>9 DEF TakenBy
  <2>3. \A i \in 1..n : \E j \in 1..n : b[i] = s[j]
    <3> SUFFICES ASSUME NEW i \in 1..n PROVE \E j \in 1..n : b[i] = s[j]
      OBVIOUS
    <3>1. PICK j \in 1..n : b[i] = t[j]
      BY <2>2
    <3>2. p[j] \in 1..n /\ t[j] = s[p[j]]
      BY <1>5
    <3> QED BY <3>1, <3>2
  <2>4. \A j \in 1..n : \E i \in 1..n : b[i] = s[j]
    <3> SUFFICES ASSUME NEW j \in 1..n PROVE \E i \in 1..n : b[i] = s[j]
      OBVIOUS
    <3>1. PICK k \in 1..n : t[k] = s[j]
      BY <1>5
    <3>2. PICK i \in 1..n : b[i] = t[k]
      BY <2>2
    <3> QED BY <3>1, <3>2
  <2>5. ASSUME NEW i \in 1..n PROVE \E j \in 1..n : a[i] = b[j]
    <3>1. PICK k \in 1..n : a[i] = s[k]
      BY <2>1
    <3>2. PICK j \in 1..n : b[j] = s[k]
      BY <2>4
    <3> QED BY <3>1, <3>2
  <2>6. ASSUME NEW i \in 1..n PROVE \E j \in 1..n : b[i] = a[j]
    <3>1. PICK k \in 1..n : b[i] = s[k]
      BY <2>3
    <3>2. PICK j \in 1..n : a[j] = s[k]
      BY <2>1
    <3> QED BY <3>1, <3>2
  <2> QED BY <2>1, <2>3, <2>5, <2>6
<1> HIDE DEF E, R
<1>13. \A i, j \in 1..n : i < j => <<a[i], a[j]>> \in R /\ <<b[i], b[j]>> \in R
  <2>1. \A i, j \in 1..n : i < j => Before(a[i], a[j]) /\ Before(b[i], b[j])
    BY <1>8, <1>9 DEF TakenBy
  <2> QED BY <1>10, <1>12, <2>1
<1>14. \A i, j \in 1..n : ~(<<a[i], b[j]>> \in R /\ <<b[j], a[i]>> \in R)
  BY <1>10, <1>11, <1>12
<1>15. \A k \in 1..n : a[k] = b[k]
  <2>1. \A i \in 1..n : (\E j \in 1..n : a[i] = b[j]) /\ (\E j \in 1..n : b[i] = a[j])
    BY ONLY <1>12
  <2>2. Sums!BothInOrder(a, b, n, R)
    BY <1>13, <1>14, <2>1 DEF Sums!BothInOrder
  <2> QED BY <2>2, Sums!OrderedOnce
<1>16. a = [i \in 1..n |-> a[i]] /\ b = [i \in 1..n |-> b[i]]
  BY <1>8, <1>9 DEF TakenBy
<1>17. a = b
  BY <1>15, <1>16
<1> QED BY <1>6, <1>7, <1>17, AllocatedIs

(***************************************************************************)
(* The ranking of files                                                    *)
(***************************************************************************)
Signs == INSTANCE SequenceFacts WITH Op <- LAMBDA p, entries, signal : AddSignal(entries, signal)

AnySignal(Paths_) ==
  [kind : {"explicit_target"}, path : Paths_]
    \union [kind : {"filename_match", "symbol_match"}, path : Paths_, score : Int]
    \union [kind : {"diagnostic"}, path : Paths_, error : BOOLEAN]
    \union [kind : {"git_signal"}, path : Paths_, churn : Int, recent : BOOLEAN]

LEMMA BoostIs ==
  ASSUME NEW Paths_, NEW signal \in AnySignal(Paths_)
  PROVE  Boost(signal) \in Int
<1>1. CASE signal \in [kind : {"explicit_target"}, path : Paths_]
  <2>1. signal.kind = "explicit_target"
    BY <1>1
  <2> QED BY <2>1 DEF Boost
<1>2. CASE signal \in [kind : {"filename_match", "symbol_match"}, path : Paths_, score : Int]
  <2>1. signal.kind \in {"filename_match", "symbol_match"} /\ signal.score \in Int
    BY <1>2
  <2> QED BY <2>1 DEF Boost
<1>3. CASE signal \in [kind : {"diagnostic"}, path : Paths_, error : BOOLEAN]
  <2>1. signal.kind = "diagnostic"
    BY <1>3
  <2> QED BY <2>1 DEF Boost
<1>4. CASE signal \in [kind : {"git_signal"}, path : Paths_, churn : Int, recent : BOOLEAN]
  <2>1. signal.kind = "git_signal" /\ signal.churn \in Int
    BY <1>4
  <2>2. signal.churn \div 4 \in Int
    BY <2>1
  <2>3. Boost(signal) = (signal.churn \div 4) + (IF signal.recent THEN 50 ELSE 0)
    BY <2>1 DEF Boost
  <2> QED BY <2>2, <2>3
<1> QED BY <1>1, <1>2, <1>3, <1>4 DEF AnySignal

\* What the signals at the places T say of the files, with g for the sums.
About(s, T, path) == {j \in T : s[j].path = path}
ReasonsAt(s, T) == UNION {Reasons(s[i]) : i \in T}
Entry(s, T, g, path) ==
  [score |-> g[About(s, T, path)], reasons |-> ReasonsAt(s, About(s, T, path))]
Tally(s, T, g) == [path \in {s[j].path : j \in T} |-> Entry(s, T, g, path)]

LEMMA ReasonsAtIs ==
  \A s, T, x : x \in ReasonsAt(s, T) <=> \E i \in T : x \in Reasons(s[i])
BY DEF ReasonsAt

AreBoosts(v, s, n) == \A j \in 1..n : v[j] = Boost(s[j]) /\ v[j] \in Int

LEMMA OneMoreSignal ==
  ASSUME NEW n \in Nat, NEW s, NEW v, AreBoosts(v, s, n), NEW g, Signs!IsSum(g, v, n),
         NEW T \in SUBSET (1..n), NEW j \in (1..n) \ T
  PROVE  AddSignal(Tally(s, T, g), s[j]) = Tally(s, T \union {j}, g)
<1>1. PICK U : U = T \union {j}
  OBVIOUS
<1>2. PICK entries : entries = Tally(s, T, g)
  OBVIOUS
<1>3. PICK p : p = s[j].path
  OBVIOUS
<1>4. /\ DOMAIN entries = {s[i].path : i \in T}
      /\ \A path \in DOMAIN entries : entries[path] = Entry(s, T, g, path)
  BY <1>2 DEF Tally
<1>5. PICK known : known = IF p \in DOMAIN entries THEN entries[p] ELSE [score |-> 0, reasons |-> {}]
  OBVIOUS
<1>6. PICK entry : entry = [score |-> known.score + Boost(s[j]), reasons |-> known.reasons \union Reasons(s[j])]
  OBVIOUS
<1>7. AddSignal(entries, s[j]) = [path \in DOMAIN entries \union {p} |-> IF path = p THEN entry ELSE entries[path]]
  BY ONLY <1>3, <1>5, <1>6, Zenon DEF AddSignal
<1>8. DOMAIN entries \union {p} = {s[i].path : i \in U}
  BY <1>1, <1>3, <1>4
<1>9. known = Entry(s, T, g, p)
  <2>1. CASE p \in DOMAIN entries
    BY <1>4, <1>5, <2>1
  <2>2. CASE p \notin DOMAIN entries
    <3>1. About(s, T, p) = {}
      BY <1>4, <2>2 DEF About
    <3>2. g[{}] = 0
      BY DEF Signs!IsSum
    <3>3. ReasonsAt(s, {}) = {}
      <4>1. \A x : x \notin ReasonsAt(s, {})
        BY ReasonsAtIs
      <4> QED BY <4>1
    <3> QED BY <1>5, <2>2, <3>1, <3>2, <3>3 DEF Entry
  <2> QED BY <2>1, <2>2
<1>10. entry = Entry(s, U, g, p)
  <2>1. About(s, U, p) = About(s, T, p) \union {j} /\ About(s, T, p) \in SUBSET (1..n) /\ j \notin About(s, T, p)
    BY <1>1, <1>3 DEF About
  <2>2. g[About(s, U, p)] = g[About(s, T, p)] + Boost(s[j])
    BY <2>1 DEF Signs!IsSum, AreBoosts
  <2>3. ReasonsAt(s, About(s, U, p)) = ReasonsAt(s, About(s, T, p)) \union Reasons(s[j])
    <3>1. PICK A, B : A = About(s, T, p) /\ B = A \union {j} /\ B = About(s, U, p)
      BY <2>1
    <3>2. ReasonsAt(s, B) = ReasonsAt(s, A) \union Reasons(s[j])
      BY ONLY <3>1, ReasonsAtIs
    <3> QED BY ONLY <3>1, <3>2
  <2>4. known.score = g[About(s, T, p)] /\ known.reasons = ReasonsAt(s, About(s, T, p))
    BY <1>9 DEF Entry
  <2>5. PICK score, reasons : /\ score = g[About(s, U, p)]
                              /\ reasons = ReasonsAt(s, About(s, U, p))
    OBVIOUS
  <2>6. score = known.score + Boost(s[j]) /\ reasons = known.reasons \union Reasons(s[j])
    BY ONLY <2>2, <2>3, <2>4, <2>5
  <2>7. entry = [score |-> score, reasons |-> reasons]
    BY ONLY <1>6, <2>6
  <2> QED BY ONLY <2>5, <2>7 DEF Entry
<1>11. ASSUME NEW path \in DOMAIN entries, path # p PROVE entries[path] = Entry(s, U, g, path)
  <2>1. About(s, U, path) = About(s, T, path)
    BY <1>1, <1>3, <1>11 DEF About
  <2> QED BY <1>4, <2>1 DEF Entry
<1>12. \A path \in {s[i].path : i \in U} :
         (IF path = p THEN entry ELSE entries[path]) = Entry(s, U, g, path)
  BY <1>8, <1>10, <1>11
<1>13. AddSignal(entries, s[j]) = [path \in {s[i].path : i \in U} |-> Entry(s, U, g, path)]
  BY <1>7, <1>8, <1>12
<1> QED BY <1>1, <1>2, <1>13 DEF Tally

TallySoFar(s, n, p, k) == {p[i] : i \in {i \in 1..n : i <= k}}

\* Whatever the order in which the signals are found, they amount to the same.
LEMMA TallyIs ==
  ASSUME NEW n \in Nat, NEW s, NEW v, AreBoosts(v, s, n), NEW g, Signs!IsSum(g, v, n),
         NEW p, Rearranges(p, n), NEW t, DOMAIN t = 1..n, \A i \in 1..n : t[i] = s[p[i]]
  PROVE  FoldLeft(AddSignal, <<>>, t) = Tally(s, 1..n, g)
<1> DEFINE Kept == [k \in 0..n |-> {Tally(s, TallySoFar(s, n, p, k), g)}]
<1>1. \A k \in 0..n : Kept[k] = {Tally(s, TallySoFar(s, n, p, k), g)}
  OBVIOUS
<1>2. 0 \in 0..n /\ n \in 0..n /\ \A k \in 1..n : k \in 0..n /\ k - 1 \in 0..n
  OBVIOUS
<1> HIDE DEF Kept
<1>3. <<>> \in Kept[0]
  <2>1. TallySoFar(s, n, p, 0) = {}
    BY DEF TallySoFar
  <2>2. Tally(s, {}, g) = <<>>
    BY DEF Tally
  <2> QED BY <1>1, <1>2, <2>1, <2>2
<1>4. ASSUME NEW k \in 1..n, NEW a \in Kept[k - 1] PROVE AddSignal(a, t[k]) \in Kept[k]
  <2>1. PICK T : T = TallySoFar(s, n, p, k - 1)
    OBVIOUS
  <2>2. a = Tally(s, T, g)
    BY <1>1, <1>2, <2>1
  <2>3. /\ \A i \in 1..n : p[i] \in 1..n
        /\ \A i, j \in 1..n : p[i] = p[j] => i = j
    BY DEF Rearranges
  <2>4. \A i \in 1..n : /\ i <= k <=> i <= k - 1 \/ i = k
                        /\ ~(k <= k - 1)
    OBVIOUS
  <2>5. TallySoFar(s, n, p, k) = T \union {p[k]}
    BY <2>1, <2>4 DEF TallySoFar
  <2>6. T \in SUBSET (1..n) /\ p[k] \in (1..n) \ T
    BY <2>1, <2>3, <2>4 DEF TallySoFar
  <2>7. PICK x : x = p[k]
    OBVIOUS
  <2>8. AddSignal(Tally(s, T, g), s[x]) = Tally(s, T \union {x}, g)
    <3>1. T \in SUBSET (1..n) /\ x \in (1..n) \ T
      BY <2>6, <2>7
    <3> QED BY <3>1, OneMoreSignal
  <2>9. t[k] = s[x]
    BY <2>7
  <2>10. AddSignal(a, t[k]) = Tally(s, TallySoFar(s, n, p, k), g)
    BY ONLY <2>2, <2>5, <2>7, <2>8, <2>9
  <2> QED BY <1>1, <1>2, <2>10
<1>5. Signs!Fold(0, <<>>, t) \in Kept[n]
  BY <1>3, <1>4, Signs!FoldKeeps
<1>6. TallySoFar(s, n, p, n) = 1..n
  <2>1. /\ \A i \in 1..n : p[i] \in 1..n
        /\ \A e \in 1..n : \E i \in 1..n : p[i] = e
    BY DEF Rearranges
  <2>2. \A i \in 1..n : i <= n
    OBVIOUS
  <2> QED BY <2>1, <2>2 DEF TallySoFar
<1>7. Signs!Fold(0, <<>>, t) = Tally(s, 1..n, g)
  BY <1>1, <1>2, <1>5, <1>6
<1> QED BY <1>7 DEF Signs!Fold, Signs!FoldLeft, Signs!MapThenFoldSet, Signs!Max, FoldLeft, MapThenFoldSet, Max

\* For all signals: the files and their ranks do not depend on the order in which
\* the signals were found.
THEOREM RanksAlike ==
  ASSUME NEW Paths_, NEW s \in Seq(AnySignal(Paths_))
  PROVE  RankedAlike(s)
<1>1. PICK n \in Nat : n = Len(s) /\ DOMAIN s = 1..n
  BY LenProperties
<1> DEFINE v == [j \in 1..n |-> Boost(s[j])]
<1>2. AreBoosts(v, s, n)
  <2>1. \A j \in 1..n : s[j] \in AnySignal(Paths_)
    BY <1>1, ElementOfSeq
  <2>2. \A j \in 1..n : Boost(s[j]) \in Int
    BY <2>1, BoostIs
  <2> QED BY <2>2 DEF AreBoosts
<1> HIDE DEF v
<1>3. PICK g : Signs!IsSum(g, v, n)
  <2>1. \A j \in 1..n : v[j] \in Int
    BY <1>2 DEF AreBoosts
  <2> QED BY <2>1, Signs!SumExists
<1>4. FoldLeft(AddSignal, <<>>, s) = Tally(s, 1..n, g)
  <2> DEFINE p == [i \in 1..n |-> i]
  <2>1. Rearranges(p, n) /\ \A i \in 1..n : p[i] = i
    BY DEF Rearranges
  <2> HIDE DEF p
  <2> QED BY <1>1, <1>2, <1>3, <2>1, TallyIs
<1> SUFFICES ASSUME NEW t \in Reordered(s)
             PROVE  BuildRetrievalCandidates(t) = BuildRetrievalCandidates(s)
  BY DEF RankedAlike
<1>5. FoldLeft(AddSignal, <<>>, t) = Tally(s, 1..n, g)
  <2>1. PICK p : Rearranges(p, n) /\ t = [i \in 1..n |-> s[p[i]]]
    BY <1>1, ReorderedIs
  <2>2. DOMAIN t = 1..n /\ \A i \in 1..n : t[i] = s[p[i]]
    BY <2>1
  <2> QED BY <1>2, <1>3, <2>1, <2>2, TallyIs
<1>6. FoldLeft(AddSignal, <<>>, t) = FoldLeft(AddSignal, <<>>, s)
  BY <1>4, <1>5
<1> QED BY <1>6, Zenon DEF BuildRetrievalCandidates

(***************************************************************************)
(* The inputs that MCRules builds                                          *)
(***************************************************************************)
Words        == {"plain", "key", "assignment", "random"}
AnyManifests == Seq([level : Tiers \union {"unknown"}, defaults : SUBSET Effects, tools : Seq(AnyTool \union SomeTools)])

\* What the inputs are made of: fragments have their places as references.
BudgetTypes    == {"file", "tool_output", "history"}
PromptFragment == [type : {"instruction", "file"}, ref : Nat, restricted : BOOLEAN,
                   content : {<<>>, <<"plain">>, <<"key">>, <<"assignment">>, <<"plain", "assignment">>},
                   included : BOOLEAN]
Provider       == [name : Int, tiers : {{"tier1"}, {"tier0", "tier1"}}, sensitivity : {{"A"}, {"A", "B"}},
                   tasks : {{"analysis"}}]
Numbered(f)    == \A i \in DOMAIN f : f[i].ref = i

\* An input of each kind, as far as the theorems above need to know it.
AsBudget(c)  == \E b, f : /\ IsBudget(b) /\ f \in Seq(Fragment(BudgetTypes)) /\ Numbered(f)
                         /\ c = [kind |-> "budget", budget |-> b, fragments |-> f]
AsTotal(c)   == \E t \in Nat : c = [kind |-> "total", total |-> t]
AsRanking(c) == \E s \in Seq(AnySignal(1..2)) : c = [kind |-> "ranking", signals |-> s]
IsTurn(f)    == f \in Seq(PromptFragment) /\ Numbered(f) /\ 1 \in DOMAIN f /\ f[1].restricted = FALSE
AsPrompt(c)  == \E f, n : IsTurn(f) /\ n \in Nat /\ c = [kind |-> "prompt", room |-> n, fragments |-> f]
AsText(c)    == \E r, d, t :
                  /\ d \in Destinations /\ t \in Seq(Words)
                  /\ c = [kind |-> "text", restricted |-> r, destination |-> d, text |-> t]
AsValue(c)   == \E v, d : d \in Destinations /\ c = [kind |-> "value", destination |-> d, value |-> v]
AsRoute(c)   == \E f, r : f \in Seq(Provider) /\ IsRouteRequest(r) /\ c = [kind |-> "route", file |-> f, request |-> r]
AsPlugins(c) == \E ms \in AnyManifests : c = [kind |-> "plugins", manifests |-> ms]
Asking(s, route, method, authorization, role, body) ==
  [kind |-> "request", server |-> s,
   request |-> [route |-> route, method |-> method, authorization |-> authorization,
                role |-> role, body |-> body]]
AsRequest(c) == \E s, route, method, authorization, role, body :
                  method \in {"GET", "POST"} /\ c = Asking(s, route, method, authorization, role, body)
AsCall(c)    == \E t, s, r, i :
                  Registrable(t) /\ c = [kind |-> "call", tool |-> t, session |-> s, role |-> r, input |-> i]

IsInput(c) ==
  \/ AsBudget(c) \/ AsTotal(c) \/ AsRanking(c) \/ AsPrompt(c) \/ AsText(c)
  \/ AsValue(c) \/ AsRoute(c) \/ AsPlugins(c) \/ AsRequest(c) \/ AsCall(c)

LEMMA KindIs ==
  ASSUME NEW c, IsInput(c)
  PROVE  /\ AsBudget(c) => c.kind = "budget"
         /\ AsTotal(c) => c.kind = "total"
         /\ AsRanking(c) => c.kind = "ranking"
         /\ AsPrompt(c) => c.kind = "prompt"
         /\ AsText(c) => c.kind = "text"
         /\ AsValue(c) => c.kind = "value"
         /\ AsRoute(c) => c.kind = "route"
         /\ AsPlugins(c) => c.kind = "plugins"
         /\ AsRequest(c) => c.kind = "request"
         /\ AsCall(c) => c.kind = "call"
         /\ c.kind = "budget" => AsBudget(c)
         /\ c.kind = "total" => AsTotal(c)
         /\ c.kind = "ranking" => AsRanking(c)
         /\ c.kind = "prompt" => AsPrompt(c)
         /\ c.kind = "text" => AsText(c)
         /\ c.kind = "value" => AsValue(c)
         /\ c.kind = "route" => AsRoute(c)
         /\ c.kind = "plugins" => AsPlugins(c)
         /\ c.kind = "request" => AsRequest(c)
         /\ c.kind = "call" => AsCall(c)
<1>1. AsBudget(c) => c.kind = "budget"
  BY DEF AsBudget
<1>2. AsTotal(c) => c.kind = "total"
  BY DEF AsTotal
<1>3. AsRanking(c) => c.kind = "ranking"
  BY DEF AsRanking
<1>4. AsPrompt(c) => c.kind = "prompt"
  BY DEF AsPrompt
<1>5. AsText(c) => c.kind = "text"
  BY DEF AsText
<1>6. AsValue(c) => c.kind = "value"
  BY DEF AsValue
<1>7. AsRoute(c) => c.kind = "route"
  BY DEF AsRoute
<1>8. AsPlugins(c) => c.kind = "plugins"
  BY DEF AsPlugins
<1>9. AsRequest(c) => c.kind = "request"
  BY DEF AsRequest, Asking
<1>10. AsCall(c) => c.kind = "call"
  BY DEF AsCall
<1> QED BY <1>1, <1>2, <1>3, <1>4, <1>5, <1>6, <1>7, <1>8, <1>9, <1>10 DEF IsInput

LEMMA Starts ==
  ASSUME Init
  PROVE  IsInput(case)
<1>1. CASE \E b \in Budgets : case = [kind |-> "budget", budget |-> b, fragments |-> <<>>]
  <2>1. \A b \in Budgets : IsBudget(b)
    BY DEF Budgets, IsBudget, Categories
  <2>2. <<>> \in Seq(Fragment(BudgetTypes)) /\ Numbered(<<>>)
    BY EmptySeq DEF Numbered
  <2>3. PICK b \in Budgets : case = [kind |-> "budget", budget |-> b, fragments |-> <<>>]
    BY <1>1
  <2>4. AsBudget(case)
    BY <2>1, <2>2, <2>3 DEF AsBudget
  <2> QED BY <2>4 DEF IsInput
<1>2. CASE \E t \in 0..MaxTotal : case = [kind |-> "total", total |-> t]
  BY <1>2 DEF IsInput, AsTotal
<1>3. CASE case = [kind |-> "ranking", signals |-> <<>>]
  <2>1. <<>> \in Seq(AnySignal(1..2))
    BY EmptySeq
  <2> QED BY <1>3, <2>1 DEF IsInput, AsRanking
<1>4. CASE \E n \in 0..MaxPieces, t \in {<<>>, <<"plain">>, <<"key">>, <<"assignment">>} :
              case = [kind |-> "prompt", room |-> n, fragments |-> <<Message(t)>>]
  <2>1. PICK n \in 0..MaxPieces, t \in {<<>>, <<"plain">>, <<"key">>, <<"assignment">>} :
          case = [kind |-> "prompt", room |-> n, fragments |-> <<Message(t)>>]
    BY <1>4
  <2>2. PICK e : e = Message(t)
    OBVIOUS
  <2>3. e \in PromptFragment /\ e.ref = 1 /\ e.restricted = FALSE
    BY <2>2 DEF Message, PromptPiece, PromptFragment
  <2>4. <<e>> \in Seq(PromptFragment) /\ DOMAIN <<e>> = {1} /\ <<e>>[1] = e
    BY <2>3
  <2>5. IsTurn(<<e>>)
    BY <2>3, <2>4 DEF IsTurn, Numbered
  <2>6. n \in Nat /\ case = [kind |-> "prompt", room |-> n, fragments |-> <<e>>]
    BY <2>1, <2>2
  <2>7. AsPrompt(case)
    BY <2>5, <2>6 DEF AsPrompt
  <2> QED BY <2>7 DEF IsInput
<1>5. CASE \E r \in BOOLEAN, d \in Destinations :
              case = [kind |-> "text", restricted |-> r, destination |-> d, text |-> <<>>]
  <2>1. <<>> \in Seq(Words)
    BY EmptySeq
  <2> QED BY <1>5, <2>1 DEF IsInput, AsText
<1>6. CASE \E d \in Destinations : case = [kind |-> "value", destination |-> d, value |-> <<>>]
  BY <1>6 DEF IsInput, AsValue
<1>7. CASE \E t \in {"tier0", "tier1"}, s \in {"A", "B"} :
        case = [kind |-> "route", file |-> <<>>,
                request |-> [tier |-> t, sensitivity |-> s, task |-> "analysis",
                             capabilities |-> {"text"}, preferLocal |-> FALSE]]
  <2>1. PICK t, s, r :
          /\ r = [tier |-> t, sensitivity |-> s, task |-> "analysis", capabilities |-> {"text"}, preferLocal |-> FALSE]
          /\ case = [kind |-> "route", file |-> <<>>, request |-> r]
    BY <1>7
  <2>2. IsRouteRequest(r)
    BY <2>1 DEF IsRouteRequest
  <2>3. <<>> \in Seq(Provider)
    BY EmptySeq
  <2>4. AsRoute(case)
    BY <2>1, <2>2, <2>3 DEF AsRoute
  <2> QED BY <2>4 DEF IsInput
<1>8. CASE case = [kind |-> "plugins", manifests |-> <<>>]
  <2>1. <<>> \in AnyManifests
    BY EmptySeq DEF AnyManifests
  <2> QED BY <1>8, <2>1 DEF IsInput, AsPlugins
<1>9. CASE \E s \in Servers, r \in Requests : case = [kind |-> "request", server |-> s, request |-> r]
  <2>1. PICK s \in Servers, r \in Requests : case = [kind |-> "request", server |-> s, request |-> r]
    BY <1>9
  <2>2. r.method = "GET"
    BY DEF Requests
  <2>3. r = [route |-> r.route, method |-> r.method, authorization |-> r.authorization,
             role |-> r.role, body |-> r.body]
    BY DEF Requests
  <2>4. PICK route, method, authorization, role, body :
          /\ method = "GET"
          /\ r = [route |-> route, method |-> method, authorization |-> authorization,
                  role |-> role, body |-> body]
    BY <2>2, <2>3
  <2>5. case = Asking(s, route, method, authorization, role, body)
    BY <2>1, <2>4, Zenon DEF Asking
  <2>6. AsRequest(case)
    BY <2>4, <2>5 DEF AsRequest
  <2> QED BY <2>6 DEF IsInput
<1> QED BY <1>1, <1>2, <1>3, <1>4, <1>5, <1>6, <1>7, <1>8, <1>9 DEF Init

LEMMA TextGrows ==
  ASSUME IsInput(case), AddWord
  PROVE  IsInput(case')
<1>1. AsText(case)
  BY KindIs DEF AddWord
<1>2. PICK r, d, t :
        /\ d \in Destinations /\ t \in Seq(Words)
        /\ case = [kind |-> "text", restricted |-> r, destination |-> d, text |-> t]
  BY <1>1 DEF AsText
<1>3. PICK word \in {"plain", "key", "assignment", "random"} : case' = [case EXCEPT !.text = Append(case.text, word)]
  BY DEF AddWord
<1>4. word \in Words
  BY DEF Words
<1>5. Append(t, word) \in Seq(Words)
  BY <1>2, <1>4, AppendProperties
<1>6. case' = [kind |-> "text", restricted |-> r, destination |-> d, text |-> Append(t, word)]
  BY <1>2, <1>3
<1>7. AsText(case')
  BY <1>2, <1>5, <1>6 DEF AsText
<1> QED BY <1>7 DEF IsInput

LEMMA ValueGrows ==
  ASSUME IsInput(case), AddLeaf
  PROVE  IsInput(case')
<1>1. AsValue(case)
  BY KindIs DEF AddLeaf
<1>2. PICK v, d : d \in Destinations /\ case = [kind |-> "value", destination |-> d, value |-> v]
  BY <1>1 DEF AsValue
<1>3. PICK w : case' = [case EXCEPT !.value = w]
  BY DEF AddLeaf
<1>4. case' = [kind |-> "value", destination |-> d, value |-> w]
  BY <1>2, <1>3
<1>5. AsValue(case')
  BY <1>2, <1>4 DEF AsValue
<1> QED BY <1>5 DEF IsInput

LEMMA RequestGrows ==
  ASSUME IsInput(case), Post \/ AddField
  PROVE  IsInput(case')
<1>1. AsRequest(case)
  BY KindIs DEF Post, AddField
<1>2. PICK s, route, method, authorization, role, body :
        method \in {"GET", "POST"} /\ case = Asking(s, route, method, authorization, role, body)
  BY <1>1 DEF AsRequest
<1>3. CASE Post
  <2>1. case' = [case EXCEPT !.request.method = "POST"]
    BY <1>3 DEF Post
  <2>2. case' = Asking(s, route, "POST", authorization, role, body)
    BY <1>2, <2>1 DEF Asking
  <2>3. AsRequest(case')
    BY <2>2 DEF AsRequest
  <2> QED BY <2>3 DEF IsInput
<1>4. CASE AddField
  <2>1. PICK b : case' = [case EXCEPT !.request.body = b]
    BY <1>4 DEF AddField
  <2>2. case' = Asking(s, route, method, authorization, role, b)
    BY <1>2, <2>1 DEF Asking
  <2>3. AsRequest(case')
    BY <1>2, <2>2 DEF AsRequest
  <2> QED BY <2>3 DEF IsInput
<1> QED BY <1>3, <1>4

\* One more fragment has the next place as its reference.
LEMMA NumberedGrows ==
  ASSUME NEW X, NEW f \in Seq(X), Numbered(f), NEW e \in X, e.ref = Len(f) + 1
  PROVE  Append(f, e) \in Seq(X) /\ Numbered(Append(f, e))
<1>1. PICK g : g = Append(f, e)
  OBVIOUS
<1>2. /\ g \in Seq(X) /\ Len(g) = Len(f) + 1
      /\ (\A i \in 1..Len(f) : g[i] = f[i]) /\ g[Len(f) + 1] = e
  BY <1>1, AppendProperties
<1>3. Len(f) \in Nat /\ DOMAIN f = 1..Len(f) /\ DOMAIN g = 1..(Len(f) + 1)
  BY <1>2, LenProperties
<1>4. \A i \in DOMAIN g : i \in DOMAIN f \/ i = Len(f) + 1
  BY <1>3
<1>5. Numbered(g)
  BY <1>2, <1>3, <1>4 DEF Numbered
<1> QED BY <1>1, <1>2, <1>5

LEMMA BudgetGrows ==
  ASSUME IsInput(case), AddFragment
  PROVE  IsInput(case')
<1>1. AsBudget(case)
  BY KindIs DEF AddFragment
<1>2. PICK b, f : /\ IsBudget(b) /\ f \in Seq(Fragment(BudgetTypes)) /\ Numbered(f)
                  /\ case = [kind |-> "budget", budget |-> b, fragments |-> f]
  BY <1>1 DEF AsBudget
<1>3. PICK type \in BudgetTypes, rank \in 1..2, tokens \in {0, 1, 3} :
        case' = [case EXCEPT !.fragments = Append(case.fragments,
                   [type |-> type, ref |-> Len(case.fragments) + 1, rank |-> rank, tokens |-> tokens, truncated |-> FALSE])]
  BY DEF AddFragment, BudgetTypes
<1>4. PICK e : e = [type |-> type, ref |-> Len(f) + 1, rank |-> rank, tokens |-> tokens, truncated |-> FALSE]
  OBVIOUS
<1>5. e \in Fragment(BudgetTypes) /\ e.ref = Len(f) + 1
  <2>1. Len(f) + 1 \in Int
    BY <1>2, LenProperties
  <2> QED BY <1>4, <2>1 DEF Fragment
<1>6. Append(f, e) \in Seq(Fragment(BudgetTypes)) /\ Numbered(Append(f, e))
  BY <1>2, <1>5, NumberedGrows
<1>7. case' = [kind |-> "budget", budget |-> b, fragments |-> Append(f, e)]
  BY <1>2, <1>3, <1>4
<1>8. AsBudget(case')
  BY <1>2, <1>6, <1>7 DEF AsBudget
<1> QED BY <1>8 DEF IsInput

LEMMA SignalsGrow ==
  ASSUME IsInput(case), AddOneSignal
  PROVE  IsInput(case')
<1>1. AsRanking(case)
  BY KindIs DEF AddOneSignal
<1>2. PICK s \in Seq(AnySignal(1..2)) : case = [kind |-> "ranking", signals |-> s]
  BY <1>1 DEF AsRanking
<1>3. PICK signal \in Signals : case' = [case EXCEPT !.signals = Append(case.signals, signal)]
  BY DEF AddOneSignal
<1>4. signal \in AnySignal(1..2)
  <2>1. CASE signal \in [kind : {"explicit_target"}, path : 1..2]
    BY <2>1 DEF AnySignal
  <2>2. CASE signal \in [kind : {"filename_match", "symbol_match"}, path : 1..2, score : {200, 600}]
    BY <2>2 DEF AnySignal
  <2>3. CASE signal \in [kind : {"diagnostic"}, path : 1..2, error : BOOLEAN]
    BY <2>3 DEF AnySignal
  <2>4. CASE signal \in [kind : {"git_signal"}, path : 1..2, churn : {0, 800}, recent : BOOLEAN]
    BY <2>4 DEF AnySignal
  <2> QED BY <2>1, <2>2, <2>3, <2>4 DEF Signals
<1>5. Append(s, signal) \in Seq(AnySignal(1..2))
  BY <1>4, AppendProperties
<1>6. case' = [kind |-> "ranking", signals |-> Append(s, signal)]
  BY <1>2, <1>3
<1>7. AsRanking(case')
  BY <1>5, <1>6 DEF AsRanking
<1> QED BY <1>7 DEF IsInput

LEMMA PromptGrows ==
  ASSUME IsInput(case), AddPromptFragment
  PROVE  IsInput(case')
<1>1. AsPrompt(case)
  BY KindIs DEF AddPromptFragment
<1>2. PICK f, n : IsTurn(f) /\ n \in Nat /\ case = [kind |-> "prompt", room |-> n, fragments |-> f]
  BY <1>1 DEF AsPrompt
<1>3. PICK restricted \in BOOLEAN, content \in {<<>>, <<"plain">>, <<"key">>, <<"plain", "assignment">>} :
        case' = [case EXCEPT !.fragments =
                   Append(case.fragments, PromptPiece("file", Len(case.fragments) + 1, restricted, content))]
  BY DEF AddPromptFragment
<1>4. PICK e : e = PromptPiece("file", Len(f) + 1, restricted, content)
  OBVIOUS
<1>5. e \in PromptFragment /\ e.ref = Len(f) + 1
  <2>1. Len(f) + 1 \in Nat
    BY <1>2, LenProperties DEF IsTurn
  <2> QED BY <1>4, <2>1 DEF PromptFragment, PromptPiece
<1>6. PICK g : g = Append(f, e)
  OBVIOUS
<1>7. g \in Seq(PromptFragment) /\ Numbered(g)
  BY <1>2, <1>5, <1>6, NumberedGrows DEF IsTurn
<1>8. 1 \in DOMAIN g /\ g[1] = f[1]
  <2>1. Len(f) \in Nat /\ DOMAIN f = 1..Len(f)
    BY <1>2, LenProperties DEF IsTurn
  <2>2. Len(g) = Len(f) + 1 /\ (\A i \in 1..Len(f) : g[i] = f[i])
    BY <1>2, <1>5, <1>6, AppendProperties DEF IsTurn
  <2>3. DOMAIN g = 1..Len(g)
    BY <1>7, LenProperties
  <2> QED BY <1>2, <2>1, <2>2, <2>3 DEF IsTurn
<1>9. case' = [kind |-> "prompt", room |-> n, fragments |-> g]
  BY <1>2, <1>3, <1>4, <1>6
<1>10. IsTurn(g)
  BY <1>2, <1>7, <1>8 DEF IsTurn
<1>11. AsPrompt(case')
  BY <1>2, <1>9, <1>10 DEF AsPrompt
<1> QED BY <1>11 DEF IsInput

LEMMA RouteGrows ==
  ASSUME IsInput(case), AddProvider
  PROVE  IsInput(case')
<1>1. AsRoute(case)
  BY KindIs DEF AddProvider
<1>2. PICK f, r : f \in Seq(Provider) /\ IsRouteRequest(r) /\ case = [kind |-> "route", file |-> f, request |-> r]
  BY <1>1 DEF AsRoute
<1>3. PICK name \in 1..3, tiers \in {{"tier1"}, {"tier0", "tier1"}}, sensitivity \in {{"A"}, {"A", "B"}} :
        case' = [case EXCEPT !.file = Append(case.file,
                   [name |-> name, tiers |-> tiers, sensitivity |-> sensitivity, tasks |-> {"analysis"}])]
  BY DEF AddProvider
<1>4. PICK p : p = [name |-> name, tiers |-> tiers, sensitivity |-> sensitivity, tasks |-> {"analysis"}]
  OBVIOUS
<1>5. p \in Provider
  BY <1>4 DEF Provider
<1>6. Append(f, p) \in Seq(Provider)
  BY <1>2, <1>5, AppendProperties
<1>7. case' = [kind |-> "route", file |-> Append(f, p), request |-> r]
  BY <1>2, <1>3, <1>4
<1>8. AsRoute(case')
  BY <1>2, <1>6, <1>7 DEF AsRoute
<1> QED BY <1>8 DEF IsInput

LEMMA ManifestsGrow ==
  ASSUME IsInput(case), AnyManifest \/ AddManifest \/ AddTool
  PROVE  IsInput(case')
<1> DEFINE Tooling  == AnyTool \union SomeTools
           Manifest == [level : Tiers \union {"unknown"}, defaults : SUBSET Effects, tools : Seq(Tooling)]
<1>1. AsPlugins(case)
  BY KindIs DEF AnyManifest, AddManifest, AddTool
<1>2. PICK ms \in Seq(Manifest) : case = [kind |-> "plugins", manifests |-> ms]
  BY <1>1 DEF AsPlugins, AnyManifests
<1>3. case.manifests = ms
  BY <1>2
<1> SUFFICES ASSUME TRUE PROVE \E n \in Seq(Manifest) : case' = [case EXCEPT !.manifests = n]
  <2>1. ASSUME NEW n \in Seq(Manifest), case' = [case EXCEPT !.manifests = n]
        PROVE  IsInput(case')
    <3>1. case' = [kind |-> "plugins", manifests |-> n]
      BY <1>2, <2>1
    <3> QED BY <2>1, <3>1 DEF IsInput, AsPlugins, AnyManifests
  <2> QED BY <2>1
<1>5. \A tools \in Seq(Tooling), level \in Tiers \union {"unknown"}, defaults \in SUBSET Effects :
        [level |-> level, defaults |-> defaults, tools |-> tools] \in Manifest
  OBVIOUS
<1>6. {"read", "execute"} \in SUBSET Effects /\ {"execute"} \in SUBSET Effects /\ {} \in SUBSET Effects
  BY DEF Effects
<1>7. CASE AnyManifest
  <2>1. PICK level \in Tiers \union {"unknown"}, defaults \in SUBSET Effects, tool \in AnyTool :
          case' = [case EXCEPT !.manifests = <<[level |-> level, defaults |-> defaults, tools |-> <<tool>>]>>]
    BY <1>6, <1>7 DEF AnyManifest
  <2>2. <<tool>> \in Seq(Tooling)
    OBVIOUS
  <2>3. PICK m : m = [level |-> level, defaults |-> defaults, tools |-> <<tool>>]
    OBVIOUS
  <2>4. m \in Manifest
    BY <1>5, <2>2, <2>3
  <2> HIDE DEF Manifest, Tooling
  <2>5. <<m>> \in Seq(Manifest)
    BY <2>4
  <2> QED BY <2>1, <2>3, <2>5
<1>8. CASE AddManifest
  <2>1. PICK level \in Tiers \union {"unknown"}, defaults \in SUBSET Effects :
          case' = [case EXCEPT !.manifests =
                     Append(case.manifests, [level |-> level, defaults |-> defaults, tools |-> <<>>])]
    BY <1>6, <1>8 DEF AddManifest, Tiers
  <2>2. <<>> \in Seq(Tooling)
    BY EmptySeq
  <2>3. PICK m : m = [level |-> level, defaults |-> defaults, tools |-> <<>>]
    OBVIOUS
  <2>4. m \in Manifest
    BY <1>5, <2>2, <2>3
  <2> HIDE DEF Manifest, Tooling
  <2>5. Append(ms, m) \in Seq(Manifest)
    BY <2>4, AppendProperties
  <2> QED BY <1>3, <2>1, <2>3, <2>5
<1>9. CASE AddTool
  <2>1. PICK tool \in SomeTools :
          case' = [case EXCEPT !.manifests[Len(case.manifests)].tools =
                     Append(case.manifests[Len(case.manifests)].tools, tool)]
    BY <1>9 DEF AddTool
  <2>2. PICK k : k = Len(ms)
    OBVIOUS
  <2>3. k \in DOMAIN ms /\ ms[k] \in Manifest
    <3>1. ms # <<>>
      BY <1>3, <1>9 DEF AddTool
    <3> HIDE DEF Manifest
    <3> QED BY <2>2, <3>1, LenProperties, ElementOfSeq, EmptySeq
  <2>4. PICK tools : tools = Append(ms[k].tools, tool)
    OBVIOUS
  <2>5. tools \in Seq(Tooling)
    <3>1. ms[k].tools \in Seq(Tooling) /\ tool \in Tooling
      BY <2>3
    <3> HIDE DEF Tooling
    <3> QED BY <2>4, <3>1, AppendProperties
  <2>6. PICK m : m = [ms[k] EXCEPT !.tools = tools]
    OBVIOUS
  <2>7. m \in Manifest
    BY <2>3, <2>5, <2>6
  <2>8. case' = [case EXCEPT !.manifests = [ms EXCEPT ![k] = m]]
    BY <1>2, <1>3, <2>1, <2>2, <2>4, <2>6
  <2>9. [ms EXCEPT ![k] = m] \in Seq(Manifest)
    <3> HIDE DEF Manifest
    <3> QED BY <2>3, <2>7, ExceptSeq
  <2> QED BY <2>8, <2>9
<1> QED BY <1>7, <1>8, <1>9

LEMMA CallIs ==
  ASSUME IsInput(case), CallTool
  PROVE  IsInput(case')
<1>1. AsPlugins(case)
  BY KindIs DEF CallTool
<1>2. PICK ms \in AnyManifests : case = [kind |-> "plugins", manifests |-> ms]
  BY <1>1 DEF AsPlugins
<1>3. IsManifests(ms)
  BY DEF IsManifests, AnyManifests
<1>4. PICK loading : loading = InitializeTooling(ms)
  OBVIOUS
<1>5. case.manifests = ms
  BY <1>2
<1>6. /\ ~loading.failed
      /\ \E tool \in loading.tools : \E session, role, input :
           case' = [kind |-> "call", tool |-> tool, session |-> session, role |-> role, input |-> input]
  <2>1. PICK tool \in InitializeTooling(case.manifests).tools,
             session \in {"none", "gone", "unknown"} \union Tiers,
             role \in {"viewer", "operator", ""},
             input \in [full : BOOLEAN, path : BOOLEAN, destination : {"", "d1", "d2"}] :
          case' = [kind |-> "call", tool |-> tool, session |-> session, role |-> role, input |-> input]
    BY Zenon DEF CallTool
  <2>2. ~InitializeTooling(case.manifests).failed
    BY Zenon DEF CallTool
  <2>3. InitializeTooling(case.manifests) = loading
    BY <1>4, <1>5
  <2> QED BY <2>1, <2>2, <2>3, Zenon
<1>7. Loaded(ms, loading.tools, Declared(ms))
  BY <1>3, <1>4, <1>6, AllLoaded DEF Goes
<1>8. \A tool \in loading.tools : Registrable(tool)
  BY <1>7 DEF Loaded
<1>9. AsCall(case')
  BY <1>6, <1>8 DEF AsCall
<1> QED BY <1>9 DEF IsInput

LEMMA Inputs == Spec => []IsInput(case)
<1>1. Init => IsInput(case)
  BY Starts
<1>2. ASSUME IsInput(case), [Next]_case PROVE IsInput(case)'
  <2>1. CASE UNCHANGED case
    BY <1>2, <2>1
  <2>2. CASE Next
    BY <1>2, <2>2, TextGrows, ValueGrows, RequestGrows, BudgetGrows, SignalsGrow, PromptGrows,
       RouteGrows, ManifestsGrow, CallIs DEF Next
  <2> QED BY <1>2, <2>1, <2>2
<1> QED BY <1>1, <1>2, PTL DEF Spec

(***************************************************************************)
(* What the run checks of the inputs that MCRules builds, for any          *)
(* MaxPieces: a property follows from its rule's theorem above, which is   *)
(* about every input, once each input that is built is one of that kind.   *)
(***************************************************************************)

\* The fragments that AllocateFragments chooses exceed no category's share and
\* not the prompt's, whatever is left keeps the reserve, no fragment is cut that
\* those before it have left room for, and DefaultCategoryBudget's shares fit.
THEOREM KeepsBudget == Spec => []BudgetIsKept
<1>1. ASSUME IsInput(case), case.kind = "budget"
      PROVE  WithinBudget(case.fragments, case.budget) /\ ServedInOrder(case.fragments, case.budget)
  <2>1. PICK b, f : /\ IsBudget(b) /\ f \in Seq(Fragment(BudgetTypes)) /\ Numbered(f)
                    /\ case = [kind |-> "budget", budget |-> b, fragments |-> f]
    BY <1>1, KindIs DEF AsBudget
  <2>2. \A i, j \in DOMAIN f : f[i].ref = f[j].ref => i = j
    BY <2>1 DEF Numbered
  <2>3. WithinBudget(f, b) /\ ServedInOrder(f, b)
    BY <2>1, <2>2, BudgetKept
  <2>4. case.fragments = f /\ case.budget = b
    BY <2>1
  <2> QED BY <2>3, <2>4
<1>2. ASSUME IsInput(case), case.kind = "total" PROVE SharesFit(case.total)
  <2>1. PICK t \in Nat : case = [kind |-> "total", total |-> t]
    BY <1>2, KindIs DEF AsTotal
  <2>2. case.total = t
    BY <2>1
  <2> QED BY <2>2, DefaultSharesFit
<1>3. IsInput(case) => BudgetIsKept
  BY <1>1, <1>2 DEF BudgetIsKept
<1> QED BY <1>3, Inputs, PTL

\* The order in which fragments or signals were found changes neither what
\* AllocateFragments chooses nor how BuildRetrievalCandidates ranks the files.
THEOREM NoOrderMatters == Spec => []OrderDoesNotMatter
<1>1. ASSUME IsInput(case), case.kind = "budget" PROVE AllocatedAlike(case.fragments, case.budget)
  <2>1. PICK b, f : /\ f \in Seq(Fragment(BudgetTypes)) /\ Numbered(f)
                    /\ case = [kind |-> "budget", budget |-> b, fragments |-> f]
    BY <1>1, KindIs DEF AsBudget
  <2>2. \A i, j \in DOMAIN f : f[i].ref = f[j].ref => i = j
    BY <2>1 DEF Numbered
  <2>3. AllocatedAlike(f, b)
    BY <2>1, <2>2, AllocatesAlike
  <2>4. case.fragments = f /\ case.budget = b
    BY <2>1
  <2> QED BY <2>3, <2>4
<1>2. ASSUME IsInput(case), case.kind = "ranking" PROVE RankedAlike(case.signals)
  <2>1. PICK s \in Seq(AnySignal(1..2)) : case = [kind |-> "ranking", signals |-> s]
    BY <1>2, KindIs DEF AsRanking
  <2>2. case.signals = s
    BY <2>1
  <2> QED BY <2>2, RanksAlike
<1>3. IsInput(case) => OrderDoesNotMatter
  BY <1>1, <1>2 DEF OrderDoesNotMatter
<1> QED BY <1>3, Inputs, PTL

\* The manifest of a turn, which ContextManifest.Record writes after BuildPrompt,
\* lists as included exactly the texts that were sent, in their order; and if one
\* of its events cannot be stored nothing is sent.
THEOREM ManifestIsTold == Spec => []ManifestIsTrue
<1>1. ASSUME IsInput(case), case.kind = "prompt" PROVE ManifestTellsPrompt(case.fragments, case.room)
  <2>1. PICK f, n : IsTurn(f) /\ n \in Nat /\ case = [kind |-> "prompt", room |-> n, fragments |-> f]
    BY <1>1, KindIs DEF AsPrompt
  <2>2. f \in Seq(PromptFragment) /\ Numbered(f) /\ 1 \in DOMAIN f
    BY <2>1 DEF IsTurn
  <2>3. IsPromptFragments(f)
    <3>1. \A i, j \in DOMAIN f : f[i].ref = f[j].ref => i = j
      BY <2>2 DEF Numbered
    <3>2. \E Types, Refs, Contents : f \in Seq([type : Types, ref : Refs, restricted : BOOLEAN,
                                               content : Contents, included : BOOLEAN])
      BY <2>2 DEF PromptFragment
    <3> QED BY <3>1, <3>2 DEF IsPromptFragments
  <2>4. f # <<>>
    BY <2>2
  <2>5. case.fragments = f /\ case.room = n
    BY <2>1
  <2> QED BY <2>1, <2>3, <2>4, <2>5, ManifestTold DEF IsTurn
<1>2. IsInput(case) => ManifestIsTrue
  BY <1>1 DEF ManifestIsTrue
<1> QED BY <1>2, Inputs, PTL

\* RouteEngine.Select ranks the providers that a valid policy file permits for
\* the request, and no others: local ones first, then by name, wherever they
\* stand in the file.
THEOREM RoutesAsPermitted == Spec => []RoutedAsPermitted
<1>1. ASSUME IsInput(case), case.kind = "route" PROVE RoutesAsPolicySays(case.file, case.request)
  <2>1. PICK f, r : f \in Seq(Provider) /\ IsRouteRequest(r) /\ case = [kind |-> "route", file |-> f, request |-> r]
    BY <1>1, KindIs DEF AsRoute
  <2>2. IsProviders(f)
    BY <2>1 DEF IsProviders, Provider
  <2>3. case.file = f /\ case.request = r
    BY <2>1
  <2> QED BY <2>1, <2>2, <2>3, RoutesFollowPolicy
<1>2. IsInput(case) => RoutedAsPermitted
  BY <1>1 DEF RoutedAsPermitted
<1> QED BY <1>2, Inputs, PTL

\* A text or a value on its way out loses every word that a rule matches, and a
\* change that matters is told in a notice (PolicyExecutor.Apply and the export
\* of events).
THEOREM SecretsWithheld == Spec => []SecretsAreWithheld
<1>1. ASSUME IsInput(case) PROVE SecretsAreWithheld
  <2>1. ASSUME case.kind = "text" PROVE Withheld(case.restricted, case.text, case.destination)
    <3>1. AsText(case)
      BY <1>1, <2>1, KindIs
    <3>2. case.text \in Seq(Words) /\ case.destination \in Destinations
      BY <3>1 DEF AsText
    <3> QED BY <3>2, TextsWithheld
  <2>2. ASSUME case.kind = "value" PROVE ChangesAreNoticed(case.value, case.destination)
    <3>1. AsValue(case)
      BY <1>1, <2>2, KindIs
    <3>2. PICK v, d : d \in Destinations /\ case = [kind |-> "value", destination |-> d, value |-> v]
      BY <3>1 DEF AsValue
    <3>3. case.value = v /\ case.destination = d
      BY <3>2
    <3> QED BY <3>2, <3>3, ValuesNoticed
  <2> QED BY <2>1, <2>2 DEF SecretsAreWithheld
<1> QED BY <1>1, Inputs, PTL

\* When the server starts, its registry holds the core tools and every tool of
\* every manifest once, as declared (initializeTooling, LoadFromFile).
THEOREM LoadsPlugins == Spec => []PluginsAreLoaded
<1>1. ASSUME IsInput(case), case.kind = "plugins" PROVE LoadedAsDeclared(case.manifests)
  <2>1. AsPlugins(case)
    BY <1>1, KindIs
  <2>2. PICK ms \in AnyManifests : case = [kind |-> "plugins", manifests |-> ms]
    BY <2>1 DEF AsPlugins
  <2>3. IsManifests(ms)
    BY DEF AnyManifests, IsManifests
  <2>4. case.manifests = ms
    BY <2>2
  <2> QED BY <2>3, <2>4, PluginsLoaded
<1>2. IsInput(case) => PluginsAreLoaded
  BY <1>1 DEF PluginsAreLoaded
<1> QED BY <1>2, Inputs, PTL

\* What handleToolExecute lets run, at once or after a decision, is within the
\* tier, the role, the tool's scope and its destinations, and a plugin's tool
\* with an effect that a client calls waits for an operator.
THEOREM LimitsAccess == Spec => []AccessIsLimited
<1>1. ASSUME IsInput(case), case.kind = "call" PROVE Registrable(case.tool)
  <2>1. AsCall(case)
    BY <1>1, KindIs
  <2> QED BY <2>1 DEF AsCall
<1>2. IsInput(case) => AccessIsLimited
  BY <1>1, PolicyEnforced, PluginsAsk DEF AccessIsLimited
<1> QED BY <1>2, Inputs, PTL

\* A call that was proposed is not refused for its tool when an operator decides
\* it: handleApprovalByID asks no more of a tool than the proposal did.
THEOREM GatesDoAgree == Spec => []GatesAgree
<1>1. GatesAgree
  BY ProposalsAllowed DEF GatesAgree
<1> QED BY <1>1, PTL

\* No route does more than ActsAsAuthorized allows with the request's token and
\* role, whichever tool, session and body it names (withAuth and the gates
\* behind it).
THEOREM KeepsRoles == Spec => []RolesAreKept
<1>1. ASSUME IsInput(case), case.kind = "request" PROVE case.request.method \in {"GET", "POST"}
  <2>1. AsRequest(case)
    BY <1>1, KindIs
  <2>2. PICK s, route, method, authorization, role, body :
          method \in {"GET", "POST"} /\ case = Asking(s, route, method, authorization, role, body)
    BY <2>1 DEF AsRequest
  <2>3. case.request.method = method
    BY <2>2 DEF Asking
  <2> QED BY <2>2, <2>3
<1>2. IsInput(case) => RolesAreKept
  BY <1>1, ActsAuthorized DEF RolesAreKept
<1> QED BY <1>2, Inputs, PTL

\* A request that is answered with a client's error has made no session, turn or
\* proposal; what else it did is a call that failed, an overdue approval that has
\* expired, or a decision that was refused (executeToolRequest, Decide,
\* handleApprovalByID).
THEOREM ChangesNothingRefused == Spec => []RefusalsChangeNothing
<1>1. RefusalsChangeNothing
  BY Unchanged DEF RefusalsChangeNothing
<1> QED BY <1>1, PTL
==============================================================================
