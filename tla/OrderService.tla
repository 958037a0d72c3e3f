---------------------------- MODULE OrderService ----------------------------
(***************************************************************************)
(* What the generator adds to the order aggregate (Order): the keys of its *)
(* two views and the queries on them, the routes and handlers of its       *)
(* service, and its HTTP client.                                           *)
(*                                                                         *)
(* Order leaves out the customer and the time stamps.  Here the customer   *)
(* is the payload of a creation and the time of placing that of a          *)
(* placement, and every stored event has the time it was emitted at.       *)
(***************************************************************************)
EXTENDS Order, Router, Handlers

(* Events with their time. *)
OrderEvents(cmd, agg, now) ==
  LET events == EmitEvents(cmd, cmd.actor, agg) IN
  [k \in DOMAIN events |->
     [kind |-> events[k].kind, version |-> events[k].version, at |-> now,
      actor |-> events[k].actor, arg |-> events[k].arg]]

(* The message a load returns. *)
LoadedOrder(id, records) ==
  LET agg    == Replay(records)
      Placed == {k \in DOMAIN records : records[k].kind = "Placed"}
  IN  [type |-> "Order", id |-> id, version |-> agg.version, data |-> agg.data,
       customer |-> records[1].arg, createAt |-> records[1].at,
       placedAt |-> IF Placed = {} THEN 0 ELSE records[Max(Placed)].arg]

(***************************************************************************)
(* Keys and indexes of the views.                                          *)
(***************************************************************************)
OrderPK(id) == Key("order.id", id)
OrderSK == Key("AGG", <<>>)

OrderGSI(m) ==
  <<[pk |-> Key("order.customer_id", <<m.customer>>),
     sk |-> SortKey("order.create_at", m.createAt)]>>

OrderKeys(m) == [pk |-> OrderPK(m.id), sk |-> OrderSK, gsi |-> OrderGSI(m)]

ProjectOrderSummary(m) ==
  [type |-> "OrderSummary", id |-> m.id, state |-> m.data.state,
   customer |-> m.customer, totals |-> m.data.totals, placedAt |-> m.placedAt,
   createAt |-> m.createAt]

OrderSummarySK == Key("PROJ#OrderSummary", <<>>)

OrderSummaryGSI(m) ==
  <<[pk |-> Key("ordersummary.customer_id", <<m.customer>>),
     sk |-> SortKey("ordersummary.create_at", m.createAt)],
    [pk |-> Key("ordersummary.state", <<m.state>>),
     sk |-> SortKey("ordersummary.placed_at", m.placedAt)]>>

OrderSummaryKeys(m) ==
  [pk |-> OrderPK(m.id), sk |-> OrderSummarySK, gsi |-> OrderSummaryGSI(m)]

(***************************************************************************)
(* The clients of the two views.                                           *)
(***************************************************************************)
rehydrateOrder(results) == [k \in DOMAIN results |-> ReHydrate(results[k])]

GetOrder(cloud, table, id) ==
  {ReHydrate(od) : od \in StoreGet(cloud, table, OrderPK(id), OrderSK)}

SelectOrderByCustomerId(cloud, table, customer, now) ==
  rehydrateOrder(StoreQuery(cloud, table, 1, Key("order.customer_id", <<customer>>),
                            NoCondition, now))

SelectOrderByCustomerIdWithCreateAt(cloud, table, customer, op, vals, now) ==
  rehydrateOrder(StoreQuery(cloud, table, 1, Key("order.customer_id", <<customer>>),
                            SortCondition("order.create_at", op, vals), now))

rehydrateOrderSummary(results) == [k \in DOMAIN results |-> ReHydrate(results[k])]

GetOrderSummary(cloud, table, id) ==
  {ReHydrate(od) : od \in StoreGet(cloud, table, OrderPK(id), OrderSummarySK)}

SelectOrderSummaryByCustomerId(cloud, table, customer, now) ==
  rehydrateOrderSummary(
    StoreQuery(cloud, table, 1, Key("ordersummary.customer_id", <<customer>>),
               NoCondition, now))

SelectOrderSummaryByCustomerIdWithCreateAt(cloud, table, customer, op, vals, now) ==
  rehydrateOrderSummary(
    StoreQuery(cloud, table, 1, Key("ordersummary.customer_id", <<customer>>),
               SortCondition("ordersummary.create_at", op, vals), now))

SelectOrderSummaryByState(cloud, table, state, now) ==
  rehydrateOrderSummary(
    StoreQuery(cloud, table, 2, Key("ordersummary.state", <<state>>), NoCondition, now))

SelectOrderSummaryByStateWithPlacedAt(cloud, table, state, op, vals, now) ==
  rehydrateOrderSummary(
    StoreQuery(cloud, table, 2, Key("ordersummary.state", <<state>>),
               SortCondition("ordersummary.placed_at", op, vals), now))

(***************************************************************************)
(* The pipeline of a command: the errors of its checks, in their order,    *)
(* for an aggregate that was loaded.  ErrSkip ends it without an event.    *)
(***************************************************************************)
OrderErrors(cmd, agg) ==
  <<IF ValidateVersion(cmd, agg.version) THEN "none"
    ELSE IF cmd.name = "Create" THEN "ErrAlreadyCreated" ELSE "ErrNotCreatedYet",
    IF ProtoValidate(cmd) THEN "none" ELSE "ErrValidationFailed",
    IF GuardState(cmd, agg.data) THEN "none" ELSE "ErrStateNotAllowed",
    IF EvaluateAborts(cmd, agg.data) THEN "ErrItemAlreadyPresent"
    ELSE IF EvaluateSkips(cmd, agg.data) THEN "ErrSkip" ELSE "none">>

OrderViews(m) ==
  <<NewOpaqueDataFromProto(OrderKeys(m), m, 0, 0),
    NewOpaqueDataFromProto(OrderSummaryKeys(ProjectOrderSummary(m)),
                           ProjectOrderSummary(m), 0, 0)>>

(***************************************************************************)
(* Routes and handlers.  can says what the authorizer makes of the caller  *)
(* for each function a handler may require.                                *)
(***************************************************************************)
routePath == <<"order">>

RegisterRoutes ==
  <<Route("POST", routePath \o <<"create">>, "HandleCreate"),
    Route("POST", routePath \o <<"additem">>, "HandleAddItem"),
    Route("POST", routePath \o <<"removeitem">>, "HandleRemoveItem"),
    Route("POST", routePath \o <<"addtag">>, "HandleAddTag"),
    Route("POST", routePath \o <<"removetag">>, "HandleRemoveTag"),
    Route("POST", routePath \o <<"setshipping">>, "HandleSetShipping"),
    Route("POST", routePath \o <<"setbilling">>, "HandleSetBilling"),
    Route("POST", routePath \o <<"clearbilling">>, "HandleClearBilling"),
    Route("POST", routePath \o <<"place">>, "HandlePlace"),
    Route("POST", routePath \o <<"cancel">>, "HandleCancel"),
    Route("GET", routePath \o <<"load", Param>>, "HandleLoad"),
    Route("GET", routePath \o <<Param>>, "HandleGet"),
    Route("GET", routePath \o <<Param, "history">>, "HandleHistory"),
    Route("GET", routePath \o <<"query", "by-customer-id">>, "HandleQueryByCustomerId")>>

HandleCreate(request, can) == HandleCommand("Create", request, can["Create"])
HandleAddItem(request, can) == HandleCommand("AddItem", request, can["AddItem"])
HandleRemoveItem(request, can) ==
  HandleCommand("RemoveItem", request, can["RemoveItem"])
HandleAddTag(request, can) == HandleCommand("AddTag", request, can["AddTag"])
HandleRemoveTag(request, can) == HandleCommand("RemoveTag", request, can["RemoveTag"])
HandleSetShipping(request, can) ==
  HandleCommand("SetShipping", request, can["SetShipping"])
HandleSetBilling(request, can) ==
  HandleCommand("SetBilling", request, can["SetBilling"])
HandleClearBilling(request, can) ==
  HandleCommand("ClearBilling", request, can["ClearBilling"])
HandlePlace(request, can) == HandleCommand("Place", request, can["Place"])

HandleCancel(request, can) == HandleCommand("Cancel", request, can["Cancel"])

HandleLoadOrder(request, can) == HandleLoad(request, can["LoadOrder"])
HandleGetOrder(request, can) == HandleGet(request, can["GetOrder"])
HandleHistoryOrder(request, can) == HandleHistory(request, can["HistoryOrder"])
HandleQueryByCustomerId(request, can) ==
  HandleQuery(request, can["QueryByCustomerId"])

OrderHandler(handler, request, can) ==
  CASE handler = "HandleCreate"       -> HandleCreate(request, can)
    [] handler = "HandleAddItem"      -> HandleAddItem(request, can)
    [] handler = "HandleRemoveItem"   -> HandleRemoveItem(request, can)
    [] handler = "HandleAddTag"       -> HandleAddTag(request, can)
    [] handler = "HandleRemoveTag"    -> HandleRemoveTag(request, can)
    [] handler = "HandleSetShipping"  -> HandleSetShipping(request, can)
    [] handler = "HandleSetBilling"   -> HandleSetBilling(request, can)
    [] handler = "HandleClearBilling" -> HandleClearBilling(request, can)
    [] handler = "HandlePlace"        -> HandlePlace(request, can)
    [] handler = "HandleCancel"       -> HandleCancel(request, can)
    [] handler = "HandleLoad"         -> HandleLoadOrder(request, can)
    [] handler = "HandleGet"          -> HandleGetOrder(request, can)
    [] handler = "HandleHistory"      -> HandleHistoryOrder(request, can)
    [] handler = "HandleQueryByCustomerId" -> HandleQueryByCustomerId(request, can)

OrderFunctions ==
  CommandNames \cup {"LoadOrder", "GetOrder", "HistoryOrder", "QueryByCustomerId"}

(* What a query finds. *)
OrderQuery(cloud, table, query, now) ==
  IF query.op = "none"
  THEN SelectOrderByCustomerId(cloud, table, query.pk, now)
  ELSE SelectOrderByCustomerIdWithCreateAt(cloud, table, query.pk, query.op,
                                           query.values, now)

(***************************************************************************)
(* The HTTP client: the request a call becomes.                            *)
(***************************************************************************)
QueryByCustomerId(call) ==
  ClientQuery(routePath, "by-customer-id", [NoQuery EXCEPT !.pk = call.arg])

QueryByCustomerIdWithCreateAt(call) ==
  IF call.op = "between" THEN Unsent
  ELSE ClientQuery(routePath, "by-customer-id",
         [pk |-> call.arg, op |-> call.op, value |-> Number(call.values[1]),
          value2 |-> Absent])

QueryByCustomerIdBetweenCreateAt(call) ==
  ClientQuery(routePath, "by-customer-id",
    [pk |-> call.arg, op |-> "between", value |-> Number(call.values[1]),
     value2 |-> Number(call.values[2])])

OrderClient(call, actor) ==
  CASE call.name \in CommandNames -> ClientApply(routePath, call, actor)
    [] call.name = "Load"    -> ClientLoad(routePath, call.id)
    [] call.name = "Get"     -> ClientGetView(routePath, call.id)
    [] call.name = "History" -> ClientHistory(routePath, call.id)
    [] call.name = "QueryByCustomerId" -> QueryByCustomerId(call)
    [] call.name = "QueryByCustomerIdWithCreateAt" ->
         QueryByCustomerIdWithCreateAt(call)
    [] call.name = "QueryByCustomerIdBetweenCreateAt" ->
         QueryByCustomerIdBetweenCreateAt(call)

=============================================================================
