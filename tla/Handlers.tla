------------------------------ MODULE Handlers ------------------------------
(***************************************************************************)
(* The handlers the code generator writes into every service               *)
(* (content/lambda.gotext), up to the point where they call the repository *)
(* or the aggregates table, and the HTTP client that sends them requests.  *)
(*                                                                         *)
(* An aggregate id is the sequence of its non-empty parts between slashes, *)
(* which is what a URL path makes of it; the empty id is <<>>.  A handler  *)
(* either answers by itself or names the call it makes.                    *)
(***************************************************************************)
EXTENDS Naturals, Sequences, OpaqueItems

(* Query parameters: absent, a number, or text that is not one. *)
Absent == [is |-> "absent", n |-> 0]
Junk == [is |-> "junk", n |-> 0]
Number(n) == [is |-> "number", n |-> n]

NoQuery == [pk |-> "", op |-> "", value |-> Absent, value2 |-> Absent]
NoBody == [name |-> "none"]

(***************************************************************************)
(* The client (httpclient).  Whoever configures it names the actor.        *)
(***************************************************************************)
Lower(name) ==
  CASE name = "Create"       -> "create"
    [] name = "Update"       -> "update"
    [] name = "AddItem"      -> "additem"
    [] name = "RemoveItem"   -> "removeitem"
    [] name = "AddTag"       -> "addtag"
    [] name = "RemoveTag"    -> "removetag"
    [] name = "SetShipping"  -> "setshipping"
    [] name = "SetBilling"   -> "setbilling"
    [] name = "ClearBilling" -> "clearbilling"
    [] name = "Place"        -> "place"
    [] name = "Cancel"       -> "cancel"

setActorField(cmd, actor) ==
  [name |-> cmd.name, id |-> cmd.id, arg |-> cmd.arg, actor |-> actor]

ClientApply(routePath, cmd, actor) ==
  [method |-> "POST", path |-> routePath \o <<Lower(cmd.name)>>, query |-> NoQuery,
   body |-> setActorField(cmd, actor)]

ClientGet(path, query) ==
  [method |-> "GET", path |-> path, query |-> query, body |-> NoBody]

ClientLoad(routePath, id) == ClientGet(routePath \o <<"load">> \o id, NoQuery)

ClientGetView(routePath, id) == ClientGet(routePath \o id, NoQuery)

ClientHistory(routePath, id) == ClientGet(routePath \o id \o <<"history">>, NoQuery)

ClientQuery(routePath, queryPath, query) ==
  ClientGet(routePath \o <<"query", queryPath>>, query)

(* A call the client refuses to send. *)
Unsent == [method |-> "none"]

(***************************************************************************)
(* Answers.  The code of an error says which it is.                        *)
(***************************************************************************)
errorResponse(status, code) == [do |-> "answer", status |-> status, code |-> code]

authzErrorResponse(error) ==
  CASE error = "unauthenticated" -> errorResponse(401, "AUTHZ_UNAUTHENTICATED")
    [] error = "forbidden"       -> errorResponse(403, "AUTHZ_FORBIDDEN")
    [] OTHER                     -> errorResponse(503, "AUTHZ_UNAVAILABLE")

commandErrorResponse(error) ==
  CASE error = "ErrValidationFailed"  -> errorResponse(400, "CMD_VALIDATION")
    [] error = "ErrEmptyAggregateId"  -> errorResponse(400, "CMD_EMPTY_ID")
    [] error = "ErrAlreadyCreated"    -> errorResponse(409, "CMD_ALREADY_CREATED")
    [] error = "ErrNotCreatedYet"     -> errorResponse(404, "CMD_NOT_CREATED")
    [] error = "ErrStateNotAllowed"   -> errorResponse(409, "CMD_STATE_VIOLATION")
    [] OTHER                          -> errorResponse(500, "CMD_INTERNAL")

(***************************************************************************)
(* The handlers.  A verdict is what the authorizer makes of a request and  *)
(* the function the handler asks for: an error, or a user.                 *)
(***************************************************************************)
Allowed(user) == [error |-> "none", user |-> user]
Denied(error) == [error |-> error, user |-> ""]

(* The path parameter, or else the query parameter, which no client sends. *)
extractID(request) == IF request.id = "" THEN <<>> ELSE <<request.id>>

(* Mutant of HandleCommand: the actor is the one the client put in. *)
HandleCommandAsSent(name, request, verdict) ==
  IF verdict.error # "none" THEN authzErrorResponse(verdict.error)
  ELSE IF verdict.user = "" THEN errorResponse(401, "CMD_NO_ACTOR")
  ELSE IF request.body.name # name THEN errorResponse(400, "CMD_UNMARSHAL")
  ELSE [do |-> "apply", cmd |-> request.body]

(* A body of another kind stands for one that cannot be decoded. *)
HandleCommand(name, request, verdict) ==
  IF verdict.error # "none" THEN authzErrorResponse(verdict.error)
  ELSE IF verdict.user = "" THEN errorResponse(401, "CMD_NO_ACTOR")
  ELSE IF request.body.name # name THEN errorResponse(400, "CMD_UNMARSHAL")
  ELSE [do |-> "apply", cmd |-> setActorField(request.body, verdict.user)]

HandleLoad(request, verdict) ==
  IF verdict.error # "none" THEN authzErrorResponse(verdict.error)
  ELSE IF extractID(request) = <<>> THEN errorResponse(400, "LOAD_NO_ID")
  ELSE [do |-> "load", id |-> extractID(request)]

HandleGet(request, verdict) ==
  IF verdict.error # "none" THEN authzErrorResponse(verdict.error)
  ELSE IF extractID(request) = <<>> THEN errorResponse(400, "GET_NO_ID")
  ELSE [do |-> "get", id |-> extractID(request)]

HandleHistory(request, verdict) ==
  IF verdict.error # "none" THEN authzErrorResponse(verdict.error)
  ELSE IF extractID(request) = <<>> THEN errorResponse(400, "HIST_NO_ID")
  ELSE [do |-> "history", id |-> extractID(request)]

parseSortOperator(op) == op \in Operators

(* The answer to a query whose parameters are wrong, in the order they are *)
(* looked at, or the query.                                                *)
HandleQuery(request, verdict) ==
  LET q == request.query
      Complaint(value) ==
        IF value.is = "absent" THEN errorResponse(400, "QUERY_MISSING_SK")
        ELSE errorResponse(400, "QUERY_BAD_PARAM")
  IN
  IF verdict.error # "none" THEN authzErrorResponse(verdict.error)
  ELSE IF q.pk = "" THEN errorResponse(400, "QUERY_MISSING_PK")
  ELSE IF q.op = "" THEN [do |-> "query", pk |-> q.pk, op |-> "none", values |-> <<>>]
  ELSE IF ~parseSortOperator(q.op) THEN errorResponse(400, "QUERY_BAD_OP")
  ELSE IF q.value.is # "number" THEN Complaint(q.value)
  ELSE IF q.op # "between"
       THEN [do |-> "query", pk |-> q.pk, op |-> q.op, values |-> <<q.value.n>>]
  ELSE IF q.value2.is # "number" THEN Complaint(q.value2)
  ELSE [do |-> "query", pk |-> q.pk, op |-> q.op, values |-> <<q.value.n, q.value2.n>>]

(* The condition a client of the aggregates table makes of the values; it  *)
(* refuses a wrong number of them.                                         *)
SortCondition(field, op, values) ==
  [op |-> op, value |-> SortKey(field, values[1]),
   value2 |-> IF op = "between" THEN SortKey(field, values[2]) ELSE NA]

ValuesFit(op, values) == Len(values) = IF op = "between" THEN 2 ELSE 1

=============================================================================
