--------------------------- MODULE SampleService ---------------------------
(***************************************************************************)
(* The sample aggregate of the example application and its service, as the *)
(* code generator writes them: an aggregate with a body, two commands,     *)
(* snapshots, and one index, by who created it and when.  There is nothing *)
(* hand-written, no state to guard and no projection.                      *)
(***************************************************************************)
EXTENDS Router, Handlers

CONSTANTS
  Nil,               \* an unset field
  SnapshotInterval   \* SnapshotEveryNEvents, 50

(***************************************************************************)
(* The aggregate.                                                          *)
(***************************************************************************)
NewSample ==
  [version |-> 0, createAt |-> 0, createBy |-> Nil, modifyAt |-> 0, modifyBy |-> Nil,
   body |-> Nil]

setCreated(agg, event) == [agg EXCEPT !.createAt = event.at, !.createBy = event.actor]

setModified(agg, event) == [agg EXCEPT !.modifyAt = event.at, !.modifyBy = event.actor]

RestoreSnapshot(event) == [event.arg EXCEPT !.version = event.version]

On(agg, event) ==
  LET at == [agg EXCEPT !.version = event.version, !.body = event.arg] IN
  CASE event.kind = "Created"  -> setModified(setCreated(at, event), event)
    [] event.kind = "Updated"  -> setModified(at, event)
    [] event.kind = "Snapshot" -> RestoreSnapshot(event)

Replay(records) ==
  LET after[k \in 0..Len(records)] ==
        IF k = 0 THEN NewSample ELSE On(after[k - 1], records[k])
  IN  after[Len(records)]

(***************************************************************************)
(* Commands.                                                               *)
(***************************************************************************)
CommandNames == {"Create", "Update"}

ValidateVersion(cmd, version) ==
  IF cmd.name = "Create" THEN version = 0 ELSE version # 0

(* No field has a constraint and no state is guarded. *)
SampleErrors(cmd, agg) ==
  <<IF ValidateVersion(cmd, agg.version) THEN "none"
    ELSE IF cmd.name = "Create" THEN "ErrAlreadyCreated" ELSE "ErrNotCreatedYet">>

Produces(name) == IF name = "Create" THEN "Created" ELSE "Updated"

BuildEvent(cmd, version, now) ==
  [kind |-> Produces(cmd.name), version |-> version, at |-> now, actor |-> cmd.actor,
   arg |-> cmd.arg]

(* Mutant of Snapshot: it does not advance the version. *)
SnapshotInPlace(agg, now) ==
  IF agg.version % SnapshotInterval # 0 THEN <<>>
  ELSE <<[kind |-> "Snapshot", version |-> agg.version, at |-> now,
          actor |-> "snapshot@system", arg |-> agg]>>

(* The builder's snapshot of an aggregate that an event has just changed. *)
Snapshot(agg, now) ==
  IF agg.version % SnapshotInterval # 0 THEN <<>>
  ELSE <<[kind |-> "Snapshot", version |-> agg.version + 1, at |-> now,
          actor |-> "snapshot@system", arg |-> agg]>>

EmitEvents(cmd, agg, now) ==
  LET event == BuildEvent(cmd, agg.version + 1, now)
  IN  <<event>> \o Snapshot(On(agg, event), now)

(***************************************************************************)
(* The view, its keys and the queries on it.                               *)
(***************************************************************************)
LoadedSample(id, records) ==
  [type |-> "Sample", id |-> id, state |-> Replay(records)]

PK(id) == Key("sample.id", id)
SK == Key("AGG", <<>>)

SampleGSI(m) ==
  <<[pk |-> Key("sample.create_by", <<m.state.createBy>>),
     sk |-> SortKey("sample.create_at", m.state.createAt)]>>

SampleViews(m) ==
  <<NewOpaqueDataFromProto([pk |-> PK(m.id), sk |-> SK, gsi |-> SampleGSI(m)],
                           m, 0, 0)>>

rehydrateSample(results) == [k \in DOMAIN results |-> ReHydrate(results[k])]

GetSample(cloud, table, id) ==
  {ReHydrate(od) : od \in StoreGet(cloud, table, PK(id), SK)}

SelectSampleByCreateBy(cloud, table, creator, now) ==
  rehydrateSample(StoreQuery(cloud, table, 1, Key("sample.create_by", <<creator>>),
                             NoCondition, now))

SelectSampleByCreateByWithCreateAt(cloud, table, creator, op, vals, now) ==
  rehydrateSample(StoreQuery(cloud, table, 1, Key("sample.create_by", <<creator>>),
                             SortCondition("sample.create_at", op, vals), now))

SampleQuery(cloud, table, query, now) ==
  IF query.op = "none"
  THEN SelectSampleByCreateBy(cloud, table, query.pk, now)
  ELSE SelectSampleByCreateByWithCreateAt(cloud, table, query.pk, query.op,
                                          query.values, now)

(***************************************************************************)
(* Routes and handlers.                                                    *)
(***************************************************************************)
routePath == <<"sample">>

RegisterRoutes ==
  <<Route("POST", routePath \o <<"create">>, "HandleCreate"),
    Route("POST", routePath \o <<"update">>, "HandleUpdate"),
    Route("GET", routePath \o <<"load", Param>>, "HandleLoad"),
    Route("GET", routePath \o <<Param>>, "HandleGet"),
    Route("GET", routePath \o <<Param, "history">>, "HandleHistory"),
    Route("GET", routePath \o <<"query", "by-create-by">>, "HandleQueryByCreateBy")>>

HandleCreate(request, can) == HandleCommand("Create", request, can["Create"])
HandleUpdate(request, can) == HandleCommand("Update", request, can["Update"])
HandleLoadSample(request, can) == HandleLoad(request, can["LoadSample"])
HandleGetSample(request, can) == HandleGet(request, can["GetSample"])
HandleHistorySample(request, can) == HandleHistory(request, can["HistorySample"])
HandleQueryByCreateBy(request, can) == HandleQuery(request, can["QueryByCreateBy"])

SampleHandler(handler, request, can) ==
  CASE handler = "HandleCreate"  -> HandleCreate(request, can)
    [] handler = "HandleUpdate"  -> HandleUpdate(request, can)
    [] handler = "HandleLoad"    -> HandleLoadSample(request, can)
    [] handler = "HandleGet"     -> HandleGetSample(request, can)
    [] handler = "HandleHistory" -> HandleHistorySample(request, can)
    [] handler = "HandleQueryByCreateBy" -> HandleQueryByCreateBy(request, can)

SampleFunctions ==
  CommandNames \cup {"LoadSample", "GetSample", "HistorySample", "QueryByCreateBy"}

(***************************************************************************)
(* The HTTP client.                                                        *)
(***************************************************************************)
QueryByCreateBy(call) ==
  ClientQuery(routePath, "by-create-by", [NoQuery EXCEPT !.pk = call.arg])

QueryByCreateByWithCreateAt(call) ==
  IF call.op = "between" THEN Unsent
  ELSE ClientQuery(routePath, "by-create-by",
         [pk |-> call.arg, op |-> call.op, value |-> Number(call.values[1]),
          value2 |-> Absent])

QueryByCreateByBetweenCreateAt(call) ==
  ClientQuery(routePath, "by-create-by",
    [pk |-> call.arg, op |-> "between", value |-> Number(call.values[1]),
     value2 |-> Number(call.values[2])])

SampleClient(call, actor) ==
  CASE call.name \in CommandNames -> ClientApply(routePath, call, actor)
    [] call.name = "Load"    -> ClientLoad(routePath, call.id)
    [] call.name = "Get"     -> ClientGetView(routePath, call.id)
    [] call.name = "History" -> ClientHistory(routePath, call.id)
    [] call.name = "QueryByCreateBy" -> QueryByCreateBy(call)
    [] call.name = "QueryByCreateByWithCreateAt" -> QueryByCreateByWithCreateAt(call)
    [] call.name = "QueryByCreateByBetweenCreateAt" ->
         QueryByCreateByBetweenCreateAt(call)

=============================================================================
