------------------------- MODULE NoSnapshotService -------------------------
(***************************************************************************)
(* The sample aggregate without snapshots, and its service: no index, so   *)
(* no query, and every load reads the whole stream.                        *)
(***************************************************************************)
EXTENDS Router, Handlers

CONSTANT Nil         \* an unset field

NewSample ==
  [version |-> 0, createAt |-> 0, createBy |-> Nil, modifyAt |-> 0, modifyBy |-> Nil,
   body |-> Nil]

setCreated(agg, event) == [agg EXCEPT !.createAt = event.at, !.createBy = event.actor]

setModified(agg, event) == [agg EXCEPT !.modifyAt = event.at, !.modifyBy = event.actor]

On(agg, event) ==
  LET at == [agg EXCEPT !.version = event.version, !.body = event.arg] IN
  CASE event.kind = "Created" -> setModified(setCreated(at, event), event)
    [] event.kind = "Updated" -> setModified(at, event)

Replay(records) ==
  LET after[k \in 0..Len(records)] ==
        IF k = 0 THEN NewSample ELSE On(after[k - 1], records[k])
  IN  after[Len(records)]

CommandNames == {"Create", "Update"}

ValidateVersion(cmd, version) ==
  IF cmd.name = "Create" THEN version = 0 ELSE version # 0

NoSnapshotErrors(cmd, agg) ==
  <<IF ValidateVersion(cmd, agg.version) THEN "none"
    ELSE IF cmd.name = "Create" THEN "ErrAlreadyCreated" ELSE "ErrNotCreatedYet">>

EmitEvents(cmd, agg, now) ==
  <<[kind |-> IF cmd.name = "Create" THEN "Created" ELSE "Updated",
     version |-> agg.version + 1, at |-> now, actor |-> cmd.actor, arg |-> cmd.arg]>>

LoadedSample(id, records) ==
  [type |-> "Sample", id |-> id, state |-> Replay(records)]

PK(id) == Key("samplenosnapshot.id", id)
SK == Key("AGG", <<>>)

NoSnapshotViews(m) ==
  <<NewOpaqueDataFromProto([pk |-> PK(m.id), sk |-> SK, gsi |-> <<>>],
                           m, 0, 0)>>

GetSample(cloud, table, id) ==
  {ReHydrate(od) : od \in StoreGet(cloud, table, PK(id), SK)}

routePath == <<"samplenosnapshot">>

RegisterRoutes ==
  <<Route("POST", routePath \o <<"create">>, "HandleCreate"),
    Route("POST", routePath \o <<"update">>, "HandleUpdate"),
    Route("GET", routePath \o <<"load", Param>>, "HandleLoad"),
    Route("GET", routePath \o <<Param>>, "HandleGet"),
    Route("GET", routePath \o <<Param, "history">>, "HandleHistory")>>

HandleCreate(request, can) == HandleCommand("Create", request, can["Create"])
HandleUpdate(request, can) == HandleCommand("Update", request, can["Update"])
HandleLoadSample(request, can) == HandleLoad(request, can["LoadSample"])
HandleGetSample(request, can) == HandleGet(request, can["GetSample"])
HandleHistorySample(request, can) == HandleHistory(request, can["HistorySample"])

NoSnapshotHandler(handler, request, can) ==
  CASE handler = "HandleCreate"  -> HandleCreate(request, can)
    [] handler = "HandleUpdate"  -> HandleUpdate(request, can)
    [] handler = "HandleLoad"    -> HandleLoadSample(request, can)
    [] handler = "HandleGet"     -> HandleGetSample(request, can)
    [] handler = "HandleHistory" -> HandleHistorySample(request, can)

NoSnapshotFunctions == CommandNames \cup {"LoadSample", "GetSample", "HistorySample"}

NoSnapshotClient(call, actor) ==
  CASE call.name \in CommandNames -> ClientApply(routePath, call, actor)
    [] call.name = "Load"    -> ClientLoad(routePath, call.id)
    [] call.name = "Get"     -> ClientGetView(routePath, call.id)
    [] call.name = "History" -> ClientHistory(routePath, call.id)

=============================================================================
