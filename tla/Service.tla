------------------------------ MODULE Service ------------------------------
(***************************************************************************)
(* A generated service at work: HTTP clients, the adapter and the router,  *)
(* the authorizer, the handlers, Repository.Apply and the reads, one event *)
(* stream per aggregate and the aggregates table, on AWS or on Azure.  The *)
(* service is that of the order example or of one of the two samples.      *)
(*                                                                         *)
(* Requests are served concurrently.  A command loads and decides, then    *)
(* saves, then writes the views and answers; other requests come between.  *)
(* Loads, saves, writes of views and the authorizer may fail, and a save   *)
(* may fail after it took effect.                                          *)
(*                                                                         *)
(* How the stores bring this about is the subject of CloudStore and        *)
(* BoltStore, windows and snapshots that of Repository; here a stream is   *)
(* the sequence of its events and a load reads all of it.                  *)
(***************************************************************************)
EXTENDS Naturals, Sequences, FiniteSets, SequencesExt, Router, Handlers

CONSTANTS
  Apps,              \* "order", "sample", "samplenosnapshot"
  Clouds,            \* "dynamo", "cosmos"
  Authorizers,       \* "allowall", "external"
  Grants,            \* the functions each caller holds that is known
  Claimed,           \* the actor that clients say they are
  Traffic,           \* for each application, the calls clients may make
  Ids,               \* aggregates that may come to exist
  Seed,              \* commands that made the aggregates there at the start
  StartTime,         \* when it starts
  MaxRequests,       \* bound on the requests
  SnapshotInterval, Nil, Actors, ItemIds, Cents, TagKeys, TagValues, Addresses, Billings

VARIABLES
  app, cloud, authorizer,   \* the deployment, once and for all
  streams,                  \* the events of each aggregate
  table,                    \* the aggregates table
  requests                  \* the requests sent, each with what became of it

deployment == <<app, cloud, authorizer>>
vars == <<app, cloud, authorizer, streams, table, requests>>

O == INSTANCE OrderService
S == INSTANCE SampleService
N == INSTANCE NoSnapshotService

(***************************************************************************)
(* The application: what the generator wrote for it.                       *)
(***************************************************************************)
Of(order, sample, nosnapshot) ==
  CASE app = "order" -> order [] app = "sample" -> sample
    [] app = "samplenosnapshot" -> nosnapshot

Functions == Of(O!OrderFunctions, S!SampleFunctions, N!NoSnapshotFunctions)
CommandNames == Of(O!CommandNames, S!CommandNames, N!CommandNames)

Client(call, actor) ==
  Of(O!OrderClient(call, actor), S!SampleClient(call, actor),
     N!NoSnapshotClient(call, actor))

RegisterRoutes == Of(O!RegisterRoutes, S!RegisterRoutes, N!RegisterRoutes)

Handler(handler, request, can) ==
  Of(O!OrderHandler(handler, request, can), S!SampleHandler(handler, request, can),
     N!NoSnapshotHandler(handler, request, can))

(* The errors of the checks of a command on what a load returned. *)
Errors(cmd, records) ==
  Of(O!OrderErrors(cmd, O!Replay(records)), S!SampleErrors(cmd, S!Replay(records)),
     N!NoSnapshotErrors(cmd, N!Replay(records)))

EmitEvents(cmd, records, now) ==
  Of(O!OrderEvents(cmd, O!Replay(records), now),
     S!EmitEvents(cmd, S!Replay(records), now),
     N!EmitEvents(cmd, N!Replay(records), now))

Loaded(id, records) ==
  Of(O!LoadedOrder(id, records), S!LoadedSample(id, records),
     N!LoadedSample(id, records))

(* The aggregate and its projections, as they are put in the table. *)
Views(id, records) ==
  Of(O!OrderViews(Loaded(id, records)), S!SampleViews(Loaded(id, records)),
     N!NoSnapshotViews(Loaded(id, records)))

GetView(id) ==
  Of(O!GetOrder(cloud, table, id), S!GetSample(cloud, table, id),
     N!GetSample(cloud, table, id))

(***************************************************************************)
(* Requests.                                                               *)
(***************************************************************************)
(* An event is stamped with the time its command was decided at. *)
Now == StartTime + Len(requests)

Stream(id) == IF id \in Ids THEN streams[id] ELSE <<>>

IsCommand(r) == r.call.name \in CommandNames

LastVersion(events) == events[Len(events)].version

Answered(r, status) == [r EXCEPT !.stage = "done", !.status = status]

Become(i, r) == requests' = [requests EXCEPT ![i] = r]

(* Reads of order summaries, which no handler offers: a program that has    *)
(* the aggregates table reads them there.                                  *)
SummariesByState ==
  {"SelectOrderSummaryByState", "SelectOrderSummaryByStateWithPlacedAt"}

SummariesByCustomer ==
  {"SelectOrderSummaryByCustomerId", "SelectOrderSummaryByCustomerIdWithCreateAt"}

Direct == SummariesByState \cup SummariesByCustomer \cup {"GetOrderSummary"}

(* What a program can ask of each service: the methods of the generated    *)
(* client, and of the clients of the aggregates table.                     *)
Calls ==
  [order |-> O!CommandNames \cup Direct \cup
     {"Load", "Get", "History", "QueryByCustomerId", "QueryByCustomerIdWithCreateAt",
      "QueryByCustomerIdBetweenCreateAt"},
   sample |-> S!CommandNames \cup
     {"Load", "Get", "History", "QueryByCreateBy", "QueryByCreateByWithCreateAt",
      "QueryByCreateByBetweenCreateAt"},
   samplenosnapshot |-> N!CommandNames \cup {"Load", "Get", "History"}]

(* Commands are about aggregates that may come to exist, or about none;    *)
(* the aggregates there at the start were made before it.                  *)
ASSUME ServiceAssumption ==
  /\ Apps \subseteq DOMAIN Calls
  /\ Authorizers \subseteq {"allowall", "external"}
  /\ IsFiniteSet(Ids)
  /\ StartTime \in Nat
  /\ \A a \in Apps : \A k \in DOMAIN Traffic[a] :
       LET call == Traffic[a][k].call IN
       /\ call.name \in Calls[a]
       /\ call.id \in Seq(Range(call.id) \ {""})
       /\ call.name \in O!CommandNames \cup S!CommandNames => call.id \in Ids \cup {<<>>}
  /\ \A a \in Apps :
       /\ Seed[a] \in Seq(Range(Seed[a]))
       /\ \A k \in DOMAIN Seed[a] : Seed[a][k].at \in Nat /\ Seed[a][k].at < StartTime

(* The types of the generated methods: time stamps are numbers, a range has *)
(* two, and so it is with the time an order is placed at.                  *)
Numbers(values, n) == values \in Seq(Nat) /\ Len(values) = n

Typed(call) ==
  CASE call.name = "Place" -> call.arg \in Nat
    [] call.name \in {"QueryByCustomerId", "QueryByCreateBy", "SelectOrderSummaryByState",
                      "SelectOrderSummaryByCustomerId"} -> call.op = "none"
    [] call.name \in {"QueryByCustomerIdWithCreateAt", "QueryByCreateByWithCreateAt"} ->
         Numbers(call.values, 1)
    [] call.name \in {"QueryByCustomerIdBetweenCreateAt", "QueryByCreateByBetweenCreateAt"} ->
         call.op = "between" /\ Numbers(call.values, 2)
    [] call.name \in {"SelectOrderSummaryByStateWithPlacedAt",
                      "SelectOrderSummaryByCustomerIdWithCreateAt"} ->
         call.op \in Operators /\ call.values \in Seq(Nat)
    [] OTHER -> TRUE

ASSUME QueryAssumption ==
  \A a \in Apps :
    /\ \A k \in DOMAIN Traffic[a] : Typed(Traffic[a][k].call)
    /\ \A k \in DOMAIN Seed[a] :
         /\ Seed[a][k].name \in Calls[a] \cap (O!CommandNames \cup S!CommandNames)
         /\ Seed[a][k].name = "Place" => Seed[a][k].arg \in Nat

(* The largest version a client has been told for an aggregate. *)
Acknowledged(id) ==
  LET Told == {j \in DOMAIN requests :
                 /\ IsCommand(requests[j]) /\ requests[j].call.id = id
                 /\ requests[j].status = 200}
  IN  IF Told = {} THEN 0
      ELSE CHOOSE v \in {requests[j].version : j \in Told} :
             \A j \in Told : requests[j].version <= v

Asking(sent) ==
  [call |-> sent.call, caller |-> sent.caller, stage |-> "sent", status |-> 0,
   events |-> <<>>, version |-> 0, seen |-> Acknowledged(sent.call.id),
   found |-> <<>>, listed |-> {}]

(* A client sends a request, unless its own code refuses the call. *)
Send(k) ==
  LET sent == Traffic[app][k] IN
  /\ Len(requests) < MaxRequests
  /\ sent.call.name \notin Direct
  /\ Client(sent.call, Claimed) # Unsent
  /\ requests' = Append(requests, Asking(sent))
  /\ UNCHANGED <<deployment, streams, table>>

(* What the authorizer makes of a caller; allowall lets everybody in, under *)
(* one name.                                                               *)
Authorize(caller, function, down) ==
  IF authorizer = "allowall" THEN Allowed("Unknown")
  ELSE IF down THEN Denied("unavailable")
  ELSE IF caller \notin DOMAIN Grants THEN Denied("unauthenticated")
  ELSE IF function \notin Grants[caller] THEN Denied("forbidden")
  ELSE Allowed(caller)

(* From the adapter to the handler, up to the call the handler makes. *)
Handled(r, fault) ==
  LET request == Client(r.call, Claimed)
      routed  == IF cloud = "dynamo" THEN LambdaWrapRouter(RegisterRoutes, request, fault # "body")
                 ELSE HTTPWrapRouter(RegisterRoutes, request, fault # "body")
      can     == [f \in Functions |-> Authorize(r.caller, f, fault = "authorizer")]
  IN  IF routed.status # 0 THEN errorResponse(routed.status, "ROUTER")
      ELSE Handler(routed.handler,
                   [id |-> routed.id, query |-> request.query, body |-> request.body],
                   can)

(* The first check of a command that fails. *)
FirstError(errors) ==
  LET Failed == {k \in DOMAIN errors : errors[k] # "none"}
  IN  IF Failed = {} THEN "none"
      ELSE errors[CHOOSE k \in Failed : \A j \in Failed : k <= j]

(* Repository.Apply up to the save.  A load that fails makes the command   *)
(* meet a new aggregate.                                                   *)
Apply(r, cmd, loadFails) ==
  LET records == IF loadFails THEN <<>> ELSE Stream(cmd.id)
      error   == FirstError(Errors(cmd, records))
  IN  IF cmd.id = <<>>
      THEN Answered(r, commandErrorResponse("ErrEmptyAggregateId").status)
      ELSE IF error = "ErrSkip"
      THEN [Answered(r, 200) EXCEPT !.version = Len(records)]
      ELSE IF error # "none"
      THEN Answered(r, commandErrorResponse(error).status)
      ELSE [r EXCEPT !.stage = "saving", !.events = EmitEvents(cmd, records, Now)]

(* Mutant of Load: an aggregate that has no view is not found. *)
LoadOfView(r, id, fails) ==
  IF fails THEN Answered(r, 500)
  ELSE IF GetView(id) = {} THEN Answered(r, 404)
  ELSE [Answered(r, 200) EXCEPT !.found = <<id>>, !.version = Len(Stream(id))]

Load(r, id, fails) ==
  IF fails THEN Answered(r, 500)
  ELSE IF Stream(id) = <<>> THEN Answered(r, 404)
  ELSE [Answered(r, 200) EXCEPT !.found = <<id>>, !.version = Len(Stream(id))]

(* No store reports an aggregate without events as not found: its history  *)
(* is empty.                                                               *)
History(r, id, fails) ==
  IF fails THEN Answered(r, 500)
  ELSE [Answered(r, 200) EXCEPT !.found = <<id>>, !.version = Len(Stream(id))]

Get(r, id, fails) ==
  IF fails THEN Answered(r, 500)
  ELSE IF GetView(id) = {} THEN Answered(r, 404)
  ELSE [Answered(r, 200) EXCEPT !.found = <<(CHOOSE m \in GetView(id) : TRUE).id>>]

(* Auxiliary: the aggregates in the partition of the index that a query is  *)
(* about, with the number they are sorted by, as their views have them.    *)
Bodies(type) == {table[k].body : k \in {q \in DOMAIN table : table[q].body.type = type}}

Listed(call) ==
  CASE app = "sample" ->
         {[id |-> m.id, by |-> m.state.createAt] :
            m \in {b \in Bodies("Sample") : b.state.createBy = call.arg}}
    [] call.name \in SummariesByState ->
         {[id |-> m.id, by |-> m.placedAt] :
            m \in {b \in Bodies("OrderSummary") : b.state = call.arg}}
    [] call.name \in SummariesByCustomer ->
         {[id |-> m.id, by |-> m.createAt] :
            m \in {b \in Bodies("OrderSummary") : b.customer = call.arg}}
    [] OTHER ->
         {[id |-> m.id, by |-> m.createAt] :
            m \in {b \in Bodies("Order") : b.customer = call.arg}}

FoundIds(messages) == [k \in DOMAIN messages |-> messages[k].id]

Query(r, query, fails) ==
  IF fails THEN Answered(r, 500)
  ELSE [Answered(r, 200) EXCEPT
          !.listed = Listed(r.call),
          !.found = FoundIds(Of(O!OrderQuery(cloud, table, query, Now),
                                S!SampleQuery(cloud, table, query, Now), <<>>))]

(* A request reaches its handler, which answers or decides a command. *)
Serve(i, fault) ==
  LET r     == requests[i]
      reply == Handled(r, fault)
      fails == fault = "store"
  IN
  /\ r.stage = "sent"
  /\ Become(i, CASE reply.do = "answer"  -> Answered(r, reply.status)
                 [] reply.do = "apply"   -> Apply(r, reply.cmd, fails)
                 [] reply.do = "load"    -> Load(r, reply.id, fails)
                 [] reply.do = "history" -> History(r, reply.id, fails)
                 [] reply.do = "get"     -> Get(r, reply.id, fails)
                 [] reply.do = "query"   -> Query(r, reply, fails))
  /\ UNCHANGED <<deployment, streams, table>>

(* The stores refuse a batch with a version that is taken. *)
Free(r) == \A k \in DOMAIN r.events : r.events[k].version \notin DOMAIN streams[r.call.id]

(* Events are saved, all or none; the answer may be lost. *)
Save(i, lost) ==
  LET r == requests[i] IN
  /\ r.stage = "saving" /\ Free(r)
  /\ streams' = [streams EXCEPT ![r.call.id] = @ \o r.events]
  /\ Become(i, IF lost THEN Answered(r, 500) ELSE [r EXCEPT !.stage = "saved"])
  /\ UNCHANGED <<deployment, table>>

(* Mutant of SaveFails: Apply does not look at the error. *)
SaveFailsUnseen(i) ==
  /\ requests[i].stage = "saving"
  /\ Become(i, [Answered(requests[i], 200) EXCEPT
                  !.version = LastVersion(requests[i].events)])
  /\ UNCHANGED <<deployment, streams, table>>

(* A version is taken, or the store is out of reach. *)
SaveFails(i) ==
  /\ requests[i].stage = "saving"
  /\ Become(i, Answered(requests[i], 500))
  /\ UNCHANGED <<deployment, streams, table>>

(* SaveAggregate of the views that get through. *)
PutAll(before, views, written, now) ==
  LET after[k \in 0..Len(views)] ==
        IF k = 0 THEN before
        ELSE IF k \in written THEN StorePut(cloud, after[k - 1], views[k], now)
        ELSE after[k - 1]
  IN  after[Len(views)]

(* The views the command makes, written one after the other as far as the  *)
(* store lets it, then the answer.                                         *)
Materialize(i, written) ==
  LET r     == requests[i]
      id    == r.call.id
      views == Views(id, SubSeq(streams[id], 1, LastVersion(r.events)))
  IN
  /\ r.stage = "saved" /\ written \subseteq DOMAIN views
  /\ table' = PutAll(table, views, written, Now)
  /\ Become(i, [Answered(r, 200) EXCEPT !.version = LastVersion(r.events)])
  /\ UNCHANGED <<deployment, streams>>

(* What a direct read of summaries finds; the client of the table refuses  *)
(* a wrong number of values.                                               *)
Browsed(call) ==
  CASE call.name = "SelectOrderSummaryByState" ->
         O!SelectOrderSummaryByState(cloud, table, call.arg, Now)
    [] call.name = "SelectOrderSummaryByStateWithPlacedAt" ->
         O!SelectOrderSummaryByStateWithPlacedAt(cloud, table, call.arg, call.op,
                                                 call.values, Now)
    [] call.name = "SelectOrderSummaryByCustomerId" ->
         O!SelectOrderSummaryByCustomerId(cloud, table, call.arg, Now)
    [] call.name = "SelectOrderSummaryByCustomerIdWithCreateAt" ->
         O!SelectOrderSummaryByCustomerIdWithCreateAt(cloud, table, call.arg, call.op,
                                                      call.values, Now)
    [] call.name = "GetOrderSummary" ->
         SetToSeq(O!GetOrderSummary(cloud, table, call.id))

Browse(k) ==
  LET call == Traffic[app][k].call IN
  /\ Len(requests) < MaxRequests
  /\ call.name \in Direct
  /\ requests' =
       Append(requests,
         [Asking(Traffic[app][k]) EXCEPT
            !.stage = "done",
            !.status = IF call.op # "none" /\ ~ValuesFit(call.op, call.values)
                       THEN 500 ELSE 200,
            !.listed = IF call.name = "GetOrderSummary" THEN {} ELSE Listed(call),
            !.found = IF call.op # "none" /\ ~ValuesFit(call.op, call.values)
                      THEN <<>> ELSE FoundIds(Browsed(call))])
  /\ UNCHANGED <<deployment, streams, table>>

(***************************************************************************)
(* The service.                                                            *)
(***************************************************************************)
(* The aggregates that are there when it starts, with their views.         *)
Seeded(id) ==
  LET made == Seed[app]
      after[k \in 0..Len(made)] ==
        IF k = 0 THEN <<>>
        ELSE IF made[k].id = id
             THEN after[k - 1] \o EmitEvents(made[k], after[k - 1], made[k].at)
             ELSE after[k - 1]
  IN  after[Len(made)]

SeededTable(ids) ==
  LET views(k) == Views(ids[k], Seeded(ids[k]))
      after[k \in 0..Len(ids)] ==
        IF k = 0 THEN [x \in {} |-> Nil]
        ELSE PutAll(after[k - 1], views(k), DOMAIN views(k), StartTime)
  IN  after[Len(ids)]

Init ==
  /\ app \in Apps
  /\ cloud \in Clouds
  /\ authorizer \in Authorizers
  /\ streams = [id \in Ids |-> Seeded(id)]
  /\ table = SeededTable(SetToSeq({id \in Ids : Seeded(id) # <<>>}))
  /\ requests = <<>>

Next ==
  \/ \E k \in DOMAIN Traffic[app] : Send(k) \/ Browse(k)
  \/ \E i \in DOMAIN requests :
       \/ \E fault \in {"none", "body", "authorizer", "store"} : Serve(i, fault)
       \/ \E lost \in BOOLEAN : Save(i, lost)
       \/ SaveFails(i)
       \/ \E written \in SUBSET {1, 2} : Materialize(i, written)

Spec == Init /\ [][Next]_vars

(***************************************************************************)
(* Properties.                                                             *)
(***************************************************************************)
Statuses == {0, 200, 400, 401, 403, 404, 405, 409, 500, 503}

TypeOK ==
  /\ app \in Apps /\ cloud \in Clouds /\ authorizer \in Authorizers
  /\ DOMAIN streams = Ids
  /\ \A id \in Ids : \A k \in DOMAIN streams[id] : streams[id][k].version = k
  /\ \A key \in DOMAIN table : key = <<table[key].pk, table[key].sk>>
  /\ \A i \in DOMAIN requests :
       /\ requests[i].stage \in {"sent", "saving", "saved", "done"}
       /\ requests[i].status \in Statuses
       /\ (requests[i].status = 0) <=> (requests[i].stage # "done")

(* An event that was there at the start. *)
Original(event) == event.at < StartTime

Holds(actor, kind) ==
  \E name \in CommandNames :
    /\ kind = Of(O!Produces(name), S!Produces(name), S!Produces(name))
    /\ name \in Grants[actor]

(* Whatever a client claims, an event bears the name of a caller who was   *)
(* identified and holds the function of the command that emitted it; the   *)
(* one name that allowall gives to everybody; or that of the snapshots     *)
(* (the handlers' Authorize call and their overwriting of the actor).      *)
StoredAsGranted ==
  \A id \in Ids : \A k \in DOMAIN streams[id] :
    LET event == streams[id][k] IN
    \/ Original(event)
    \/ event.kind = "Snapshot"
    \/ authorizer = "allowall" /\ event.actor = "Unknown"
    \/ authorizer = "external" /\ event.actor \in DOMAIN Grants
         /\ Holds(event.actor, event.kind)

SameEvent(e, f) ==
  /\ e.kind = f.kind /\ e.version = f.version /\ e.at = f.at /\ e.actor = f.actor
  /\ e.arg = f.arg

(* Each event was emitted by one command, which stays in the stream as it  *)
(* answered: no two commands are told that they made the same version, a   *)
(* command that was told of success has its events in the stream, and one  *)
(* that was refused (any status but 200 and 500) has none there.  A 500    *)
(* says nothing.  (Repository.Apply answers after the save, and a batch is *)
(* saved as a whole or not at all.)                                        *)
AnswersTellTheTruth ==
  /\ \A i \in DOMAIN requests :
       requests[i].status = 200 /\ requests[i].events # <<>> =>
         \A k \in DOMAIN requests[i].events :
           LET event == requests[i].events[k] IN
           /\ event.version \in DOMAIN streams[requests[i].call.id]
           /\ SameEvent(streams[requests[i].call.id][event.version], event)
  /\ \A i, j \in DOMAIN requests :
       /\ i # j /\ requests[i].call.id = requests[j].call.id
       /\ requests[i].status = 200 /\ requests[i].events # <<>>
       /\ requests[j].status = 200 /\ requests[j].events # <<>>
       => LastVersion(requests[i].events) # LastVersion(requests[j].events)
  /\ \A id \in Ids : \A v \in DOMAIN streams[id] :
       ~Original(streams[id][v]) =>
         \E i \in DOMAIN requests :
           /\ requests[i].call.id = id /\ requests[i].status \in {0, 200, 500}
           /\ \E k \in DOMAIN requests[i].events :
                SameEvent(requests[i].events[k], streams[id][v])

(* A path segment of its own, and not the word a route begins with. *)
Plain(call) ==
  Len(call.id) = 1 /\ ~(call.name = "History" /\ call.id = <<"load">>)

(* A read of one aggregate that succeeds is about the aggregate it asked   *)
(* for.  Ids with a slash in them, the empty id, and the history of an     *)
(* aggregate with the id "load" are excepted: the router takes these for   *)
(* other requests (the order of RegisterRoutes, first match in Dispatch).  *)
ReadsAnswerTheQuestion ==
  \A i \in DOMAIN requests :
    LET r == requests[i] IN
    r.call.name \in {"Load", "Get", "History", "GetOrderSummary"}
      /\ r.status = 200 /\ Plain(r.call)
    => r.found \in {<<r.call.id>>} \cup
                     IF r.call.name = "GetOrderSummary" THEN {<<>>} ELSE {}

(* Whoever was told of a version before asking for the aggregate or its    *)
(* history is shown that version or a later one, whatever became of the    *)
(* views (Load and History read the stream).                               *)
LoadSeesAcknowledged ==
  \A i \in DOMAIN requests :
    LET r == requests[i] IN
    r.call.name \in {"Load", "History"} /\ Plain(r.call) /\ r.status \in {200, 404}
    => r.version >= r.seen

(* Numbers as a database orders their decimals: those with as many digits  *)
(* as numbers, others by the digits they begin with (%v of a number in     *)
(* GSI1SK and the like, key conditions on it).                             *)
Digits(n) == Len(Decimal(n))

(* The number that the first k digits of n make. *)
Leading(n, k) == CHOOSE d \in 0..n : Digits(d) = k /\ IsPrefix(Decimal(d), Decimal(n))

Before(m, n) ==
  \/ Digits(m) = Digits(n) /\ m < n
  \/ Digits(m) < Digits(n) /\ m <= Leading(n, Digits(m))
  \/ Digits(m) > Digits(n) /\ Leading(m, Digits(n)) < n

(* The sort condition, of numbers. *)
Satisfies(n, call) ==
  LET v == call.values[1] IN
  CASE call.op \in {"none", ""} -> TRUE
    [] call.op = "eq" -> n = v
    [] call.op = "lt" -> Before(n, v)
    [] call.op = "le" -> ~Before(v, n)
    [] call.op = "gt" -> Before(v, n)
    [] call.op = "ge" -> ~Before(n, v)
    [] call.op = "begins_with" -> Digits(v) <= Digits(n) /\ Leading(n, Digits(v)) = v
    [] call.op = "between" -> ~Before(n, v) /\ ~Before(call.values[2], n)

(* A query for a range of time stamps finds the views in that range, each  *)
(* once, oldest first, in either cloud.  Range and age are those of the    *)
(* numbers as long as these have as many digits; of others the first       *)
(* digits count (sort keys are strings).                                   *)
QueryMeetsCondition ==
  \A i \in DOMAIN requests :
    LET r      == requests[i]
        Fit    == {v \in r.listed : Satisfies(v.by, r.call)}
        ByOf(id) == (CHOOSE v \in r.listed : v.id = id).by
    IN
    r.listed # {} /\ r.status = 200 =>
      /\ Len(r.found) = Cardinality(Fit)
      /\ {r.found[k] : k \in DOMAIN r.found} = {v.id : v \in Fit}
      /\ \A j, k \in DOMAIN r.found : j < k => ~Before(ByOf(r.found[k]), ByOf(r.found[j]))

=============================================================================
