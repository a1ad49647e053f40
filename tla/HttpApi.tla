-------------------------------- MODULE HttpApi --------------------------------
(* A request on its way through the control plane: the token and the role    *)
(* (server.go withAuth), the contract of its body (schema_validation.go,     *)
(* validation/registry.go), the handler, and the contract of the answer.     *)
(*                                                                           *)
(* A JSON object is the function from its fields to their types; of strings  *)
(* the empty one and the decisions are told apart. A server is               *)
(* [token, session, busy, tool, approval, fails]: whether a token is         *)
(* configured, the session that the request or the approval names ("gone" or *)
(* its tier), whether that has a mutable turn, the tool that is named or     *)
(* that the approval is for, the pending approval ("pending", "overdue" or   *)
(* "mutated", when its call no longer has the recorded hash), and whether    *)
(* the executor answers a call with an error. The store answers; what        *)
(* happens if not is in ApprovalService, TurnLifecycle and ToolExecution.    *)
EXTENDS Integers, ToolAccess

Strings == {"string", "empty", "approve", "deny"}
Fits(value, type) == value = type \/ (type = "string" /\ value \in Strings)

Routes == {"health", "metrics", "sessions", "session", "session_turns", "turns", "approvals",
           "approval", "tools", "tool_execute"}
OpenRoutes == {"health"}

AllStrings(fields) == [f \in fields |-> "string"]

(* registerRoutes: what the body of a POST must have ...                     *)
RequestSchema(route) ==
    CASE route = "sessions" -> AllStrings({"repo_path", "trust_tier"})
      [] route \in {"session", "session_turns", "turns"} -> AllStrings({"session_id", "message"})
      [] route = "tool_execute" -> [tool_name |-> "string", input |-> "object"]
      [] OTHER -> <<>>

(* ... and what the answer must have, if it is not an error.                 *)
ResponseSchema(route, status) ==
    CASE route = "sessions" ->
            AllStrings({"session_id", "repo_path", "trust_tier", "status", "created_at", "updated_at"})
      [] route \in {"session", "session_turns", "turns"} ->
            AllStrings({"turn_id", "session_id", "user_message", "created_at"})
      [] route = "tool_execute" /\ status = 200 -> [id |-> "string", success |-> "boolean", output |-> "object"]
      [] OTHER -> <<>>

(* validateJSONObject, for schemas all of whose fields are required.         *)
Conforms(body, schema) ==
    \A field \in DOMAIN schema : field \in DOMAIN body /\ Fits(body[field], schema[field])

(* The answers' bodies: the JSON names of Session, Turn and ToolResult.      *)
SessionJSON == AllStrings({"session_id", "repo_path", "trust_tier", "status", "created_at", "updated_at"})
TurnJSON    == AllStrings({"turn_id", "session_id", "message", "status", "created_at", "updated_at"})
ResultJSON  == [id |-> "string", success |-> "boolean", output |-> "object", duration_ms |-> "number"]

Answer(status, body, effects) == [status |-> status, body |-> body, effects |-> effects]
Error(status) == Answer(status, [error |-> "string"], {})

----------------------------------------------------------------------------
NormalizedRole(header) ==
    CASE header \in {"", "operator"} -> "operator"
      [] header = "viewer"           -> "viewer"
      [] OTHER                       -> ""

(* withAuth: the role with which the handler runs, or an error. Without a    *)
(* configured token a request has no role.                                   *)
Authorized(server, request) ==
    IF request.route \in OpenRoutes \/ ~server.token THEN [status |-> 200, role |-> ""]
    ELSE IF request.authorization # "right" THEN [status |-> 401, role |-> ""]
    ELSE IF NormalizedRole(request.role) = "" THEN [status |-> 403, role |-> ""]
    ELSE [status |-> 200, role |-> NormalizedRole(request.role)]

(* createSession.                                                            *)
CreateSession(role, body) ==
    IF role # "operator" THEN Error(403) ELSE Answer(201, SessionJSON, {"session"})

(* Fault: the operator's role is asked for on one of the two routes only.    *)
CreateTurnForAll(role, server, request) ==
    IF server.busy THEN Error(409)
    ELSE IF server.session = "gone" THEN Error(IF request.route = "turns" THEN 500 ELSE 404)
    ELSE IF request.route = "session_turns" /\ role # "operator" THEN Error(403)
    ELSE Answer(201, TurnJSON, {"turn"})

(* Fault: the message is looked at when the turn has been created.           *)
CreateTurnThenCheck(role, server, request) ==
    IF role # "operator" THEN Error(403)
    ELSE IF server.session = "gone" THEN Error(IF request.route = "turns" THEN 500 ELSE 404)
    ELSE IF server.busy THEN Error(409)
    ELSE Answer(IF request.body["message"] = "empty" THEN 400 ELSE 201, TurnJSON, {"turn"})

(* createTurn and createSessionTurn, which takes the session from the path,  *)
(* wants a message and starts the agent.                                     *)
CreateTurn(role, server, request) ==
    IF role # "operator" THEN Error(403)
    ELSE IF server.session = "gone" THEN Error(IF request.route = "turns" THEN 500 ELSE 404)
    ELSE IF request.route = "session_turns" /\ request.body["message"] = "empty" THEN Error(400)
    ELSE IF server.busy THEN Error(409)
    ELSE Answer(201, TurnJSON, {"turn"} \union IF request.route = "session_turns" THEN {"agent"} ELSE {})

(* appendTurnLifecycleEvent: the report goes to the session's mutable turn.  *)
Report(server, session) == IF server.busy /\ session \notin {"none", "gone"} THEN {"report"} ELSE {}

(* ListPending, which cancels what is overdue, whoever lists.                *)
ListApprovals(server) == Answer(200, <<>>, IF server.approval = "overdue" THEN {"expiry"} ELSE {})

(* handleApprovalByID: Decide, and for an approval the checks and the call.  *)
DecideApproval(role, server, request) ==
    LET decision == IF "decision" \in DOMAIN request.body THEN request.body["decision"] ELSE "empty"
        Done(status, effects) ==
            Answer(status, <<>>, {"decision"} \union effects \union Report(server, server.session))
    IN IF role # "operator" THEN Error(403)
       ELSE IF decision \notin Strings THEN Error(400)
       ELSE IF server.approval = "overdue" THEN Answer(400, <<>>, {"expiry"})
       ELSE IF decision \notin {"approve", "deny"} THEN Error(400)
       ELSE IF decision = "deny" THEN Done(200, {})
       ELSE IF server.approval = "mutated" THEN Done(409, {"cancel"})
       ELSE IF HandleApproval(server.tool, server.session) = "refused" THEN Done(403, {"cancel"})
       ELSE IF server.fails THEN Done(500, {"run", "cancel"})
       ELSE Done(200, {"run"})

(* handleToolExecute. A call that fails may have run all the same.           *)
ExecuteTool(role, server, request) ==
    LET named   == "session_id" \in DOMAIN request.body
        session == IF named THEN server.session ELSE "none"
        outcome == HandleToolExecute(server.tool, session, role, [full |-> FALSE, path |-> FALSE, destination |-> ""])
        report  == Report(server, session)
    IN IF named /\ request.body["session_id"] \notin Strings THEN Error(400)
       ELSE IF request.body["tool_name"] = "empty" THEN Error(400)
       ELSE CASE outcome = "refused"  -> Error(403)
              [] outcome = "proposed" -> Answer(202, <<>>, {"proposal"} \union report)
              [] outcome = "run"      -> IF server.fails THEN Answer(400, <<>>, {"run"} \union report)
                                         ELSE Answer(200, ResultJSON, {"run"} \union report)

Handle(role, server, request) ==
    IF request.method = "GET"
    THEN IF request.route \in {"approval", "tool_execute"} THEN Error(405)
         ELSE IF request.route = "metrics" /\ role # "operator" THEN Error(403)
         ELSE IF request.route = "approvals" THEN ListApprovals(server)
         ELSE Answer(200, <<>>, {})
    ELSE CASE request.route = "sessions"                    -> CreateSession(role, request.body)
           [] request.route \in {"session_turns", "turns"}  -> CreateTurn(role, server, request)
           [] request.route = "approval"                    -> DecideApproval(role, server, request)
           [] request.route = "tool_execute"                -> ExecuteTool(role, server, request)
           [] OTHER                                         -> Error(405)

(* schemaValidationMiddleware around the handler: what the handler did stays *)
(* done when its answer is refused.                                          *)
Validated(role, server, request) ==
    IF request.method = "POST" /\ ~Conforms(request.body, RequestSchema(request.route)) THEN Error(400)
    ELSE LET answer == Handle(role, server, request)
         IN IF request.method = "GET" \/ answer.status >= 400
                \/ Conforms(answer.body, ResponseSchema(request.route, answer.status))
            THEN answer
            ELSE Answer(500, [error |-> "string"], answer.effects)

Respond(server, request) ==
    LET auth == Authorized(server, request)
    IN IF auth.status # 200 THEN Error(auth.status) ELSE Validated(auth.role, server, request)

----------------------------------------------------------------------------
(* Who changes what. With a token configured, a request without it or       *)
(* without a role changes nothing. Sessions, turns and decisions are an      *)
(* operator's, and so never made on a server without a token. Others run and *)
(* propose tools, a viewer those that only look, which ends or suspends the  *)
(* session's turn with them; and whoever looks at the approvals, or decides  *)
(* one, lets the overdue ones expire.                                        *)
ActsAsAuthorized(server, request) ==
    LET effects  == Respond(server, request).effects
        operator == server.token /\ request.role \in {"", "operator"}
    IN /\ server.token /\ effects # {} =>
              request.authorization = "right" /\ request.role \in {"", "operator", "viewer"}
       /\ request.method = "GET" => effects \subseteq {"expiry"}
       /\ operator \/ effects \subseteq {"run", "proposal", "report", "expiry"}
       /\ "report" \in effects /\ ~operator => effects \cap {"run", "proposal"} # {}
       /\ server.token /\ request.role = "viewer" /\ effects \cap {"run", "proposal"} # {} =>
              server.tool.effect \in {"none", "read"}

(* What was refused as the client's mistake has made no session, turn or     *)
(* proposal. It has run nothing, unless it is a call that failed; it has     *)
(* reported to no turn, but for that call and for the approval which a       *)
(* refused decision cancels; and any other approval it has ended was overdue.*)
RefusedUnchanged(server, request) ==
    LET answer  == Respond(server, request)
        effects == answer.effects
    IN answer.status \in 400..499 =>
        /\ effects \subseteq {"decision", "cancel", "run", "report", "expiry"}
        /\ "run" \in effects => server.fails /\ request.route = "tool_execute" /\ answer.status = 400
        /\ "report" \in effects => effects \cap {"cancel", "run"} # {}
        /\ effects \cap {"decision", "cancel"} # {} =>
              {"decision", "cancel"} \subseteq effects /\ answer.status \in {403, 409}
        /\ "expiry" \in effects => server.approval = "overdue" /\ answer.status = 400

(* A statement of the documents that the code does not keep (see README):    *)
(* who creates a turn is told of it.                                         *)
ToldOfTurn(server, request) ==
    LET answer == Respond(server, request) IN "turn" \in answer.effects => answer.status = 201
================================================================================
