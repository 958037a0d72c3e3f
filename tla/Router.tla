------------------------------- MODULE Router -------------------------------
(***************************************************************************)
(* The HTTP router (router.go).  A path is the sequence of its segments;   *)
(* splitPath drops the empty ones, so a path has none.  A segment of a     *)
(* pattern is a literal or the parameter {id}, the only one the generated  *)
(* routes use.  CORS is left out: no property is about it.                 *)
(***************************************************************************)
EXTENDS Naturals, Sequences, FiniteSetsExt

(* A name no path segment has. *)
Param == "{id}"

Route(method, pattern, handler) ==
  [method |-> method, segments |-> pattern, handler |-> handler]

(* The same segments, a parameter standing for any one. *)
matchSegments(pattern, path) ==
  /\ Len(pattern) = Len(path)
  /\ \A k \in DOMAIN pattern : pattern[k] \in {Param, path[k]}

(* The value a matching path gives to {id}, "" if the pattern has none: a  *)
(* later parameter of the same name replaces an earlier one.               *)
PathId(pattern, path) ==
  LET P == {k \in DOMAIN pattern : pattern[k] = Param}
  IN  IF P = {} THEN "" ELSE path[Max(P)]

Matching(routes, path) ==
  {k \in DOMAIN routes : matchSegments(routes[k].segments, path)}

(* Mutant of Dispatch: the last matching route wins.                       *)
DispatchLast(routes, method, path) ==
  LET Fit == {k \in Matching(routes, path) : routes[k].method = method} IN
  IF Fit # {}
  THEN LET route == routes[Max(Fit)] IN
       [status |-> 0, handler |-> route.handler, id |-> PathId(route.segments, path)]
  ELSE [status  |-> IF Matching(routes, path) # {} THEN 405 ELSE 404,
        handler |-> "none", id |-> ""]

(* The first route that fits handles the request; status 0 says that one   *)
(* does.                                                                   *)
Dispatch(routes, method, path) ==
  LET Fit == {k \in Matching(routes, path) : routes[k].method = method} IN
  IF Fit # {}
  THEN LET route == routes[Min(Fit)] IN
       [status |-> 0, handler |-> route.handler, id |-> PathId(route.segments, path)]
  ELSE [status  |-> IF Matching(routes, path) # {} THEN 405 ELSE 404,
        handler |-> "none", id |-> ""]

(***************************************************************************)
(* The adapters: net/http or AWS Lambda in front of the router.  A request *)
(* whose body cannot be read, or decoded, does not reach it.               *)
(***************************************************************************)
Unreadable == [status |-> 400, handler |-> "none", id |-> ""]

HTTPWrapRouter(routes, request, intact) ==
  IF intact THEN Dispatch(routes, request.method, request.path) ELSE Unreadable

LambdaWrapRouter(routes, request, intact) ==
  IF intact THEN Dispatch(routes, request.method, request.path) ELSE Unreadable

=============================================================================
