# protosource: a verification project

TLA+ models, TLC runs and TLAPS proofs for protosource, a Go framework for
event-sourced aggregates that are described in protobuf files. All source paths
are relative to `src/`.

## The system

A *command* (a protobuf message) goes to `Repository.Apply`, which rebuilds the
aggregate from its stored events, decides whether the command is legal, turns it
into events, stores them, and then writes a materialized view and projections of
the new state. Most of the per-aggregate code is generated from annotations; the
stores are interchangeable.

| component | state | operations | talks to |
|---|---|---|---|
| Repository (`protosource.go`) | none of its own between calls; one aggregate and one batch of events per running `Apply` | `Load`, `History`, `Apply`, `Save` | store, generated code, handlers |
| order aggregate (`gen/example/app/order/v1`) | version, state, items, tags, addresses, derived totals | `On`, `RestoreSnapshot`, `AfterOn`; per command `ValidateVersion`, `ProtoValidate`, `GuardState`, `Evaluate`, `EmitEvents`; `Builder` and its `Snapshot`; `Projections` | called by Repository |
| MemoryStore (`stores/memorystore`) | map from id to records, behind an RWMutex | `Save` appends, `Load` | Repository |
| BoltDBStore (`stores/boltdbstore`) | index file (id to shard, limits), shard files (id, version to record), open handles | `Save` puts by version, `Load`, `LoadTail`, `Close` | Repository, other processes through file locks |
| DynamoDBStore, CosmosDBStore | events table and aggregates table of a cloud database | conditional `Save`, `Load`, `LoadTail`, `SaveAggregate` | Repository, the database |
| opaque data (`gen/opaquedata`) | items with sparse index attributes and a TTL | put, get, delete, query | cloud stores, generated clients |
| sample aggregates (`gen/example/app/sample`, `samplenosnapshot`, `test`) | a body, with and without snapshots | as the order | called by Repository |
| handlers, adapters, `authz`, `httpclient` | none | client call, decoding, authorization, actor overwrite, error to status | HTTP, Repository, opaque data |
| router (`router.go`) | the route list | `Dispatch` | adapters, handlers |
| table set-up (`tables.go`, `containers.go`, `cmd/test*-setup`) | which tables exist, with which settings | create if absent, fix, release, delete | the cloud provider |
| Go generator (`cmd/protoc-gen-protosource`) | none | checks of a proto file, code from templates | protoc |
| TypeScript generator, command line tools | none | text; one call each | protoc; `httpclient` |
| serializers, compression | none | byte conversions | Repository |

What is hard in it:

* **`Apply` is not atomic** (`protosource.go:300-407`). Load, decision, save, view
  write and projection write are separate calls; other requests and failures come
  between any two. Only the store's refusal of a version that exists keeps two
  requests from both building on one state, and not every store refuses.
* **Errors that are swallowed.** A failed load is taken for an aggregate that does
  not exist (`:315`); view and projection writes are best effort (`:376-403`).
* **Replies that are lost.** A save may be stored although the caller is told it
  failed; the caller may send the command again.
* **Snapshots and tails.** The snapshot takes a version of its own, and a load reads
  only as many records as the snapshot interval. Both hang on one number and on
  `RestoreSnapshot` restoring every field.
* **Stores with a state of their own**: files and locks (bolt), batches, pages and
  expiry (cloud), records shared between goroutines (memory).
* **What clients are told.** A status is the only thing a client learns; it must say
  no more than what happened to the stream. Reads come from two places, the stream
  and the view table, of which the second lags.
* **Set-up that races and dies.** Tables are created by whoever starts first, in several
  calls, while another process may be deleting them.
* **Generated code.** Guards, keys, routes and replay follow from annotations; what the
  generator does not refuse should work, and the code checked in should be what it writes.

`PROJECT.json` lists each of these under "hazards" at its line, with the
properties that cover it, or a note where none does.

Correctness, per component: the Repository keeps one serial history of admissible
commands, never loses what it acknowledged, and its views are states of that
history; the aggregate's replay does not depend on where it starts and its life
cycle holds in the stream; a store returns what was saved, in order and only once; a request
reaches the handler of its route, is carried out only for a caller who may, and its answer is
true; a query finds the views its condition is about; set-up that reports success has left the
tables the stores use; what the generator accepts takes effect, or the exception is known.

## Modules

| module | stands for |
|---|---|
| `Order` | the order aggregate: `On`, `RestoreSnapshot`, `AfterOn`, commands, guards, evaluators, builder, projection. Operators only |
| `Repository` | `Repository.Apply` run by several actors over one of three kinds of store; extends `Order`. One action per step of the pipeline |
| `EventStream` | what `Apply` promises, abstractly: commands take effect one at a time, each on the current state. Knows nothing of orders: the aggregate comes in as operator constants |
| `KeyedStore` | what the bolt store promises, abstractly: one Save puts one batch, at once; nothing else changes anything |
| `BoltStore` | `BoltDBStore`: index file, shard files, handles, mutex and file locks, requests in steps, instances one after another |
| `CloudStore` | `DynamoDBStore` and `CosmosDBStore`: one stream read in pages, written in batches, expiring record by record |
| `Router` | patterns, `Dispatch`, and the two adapters in front of it |
| `OpaqueItems` | the item of a message, put, get and query in the view table of either cloud |
| `Handlers` | what the generated handlers and clients have in common, from the client's call to the status |
| `OrderService`, `SampleService`, `NoSnapshotService` | the generated keys, views, routes, handlers and clients of three examples; `OrderService` extends `Order` |
| `Service` | the composition: clients, adapter, router, authorizer, handlers, `Apply` and the reads, over streams and the view table |
| `TableSetup` | creating, repairing, releasing and deleting the tables and containers |
| `Protos` | the four example proto files, as data |
| `Generator` | the checks of `protoc-gen-protosource` and what its templates make of a file |
| `MCRepository`, `MCBoltStore`, `MCCloudStore`, `MCService`, `MCTableSetup`, `MCGenerator` | command sets, traffic, edits, small instances and symmetry for TLC |
| `Induction` | induction over the naturals, what the proofs use of multiples, and that finite sets can be sorted |
| `RepositoryProofs` | lemmas on replay, types of the operators of `Order`; `Repository`: type correctness and version positions, for every store; over the conditional-write store durability, snapshots, tail replay, optimistic concurrency, refinement of `EventStream`; life cycle, items, snapshots in every window, views and projections are past states |
| `BoltProofs` | `BoltStore`: its invariant, current loads, refinement of `KeyedStore` |
| `StoreProofs` | `CloudStore`: its invariant, no gaps, what was acknowledged, reads of several pages, complete tails |
| `SetupProofs` | `TableSetup`: its invariant, the tables a successful set-up leaves, their settings, races, deletion |
| `ServiceProofs` | `Service`: its invariant, what is stored, what is answered, what is read |
| `QueryProofs` | `Service`: what queries find, and the order of decimals as strings |
| `GeneratorProofs` | `Generator`: for every proto file, what the checks of the plugin suffice for, and the one removal they let through |

### Order

An aggregate is a record of a version and its data. `On` assigns the version from
the event before it looks at the kind (`order_v1.protosource.pb.go:117-118`), so
`OnData` speaks of the data alone. Customer fields, timestamps and the cancel
reason are left out: nothing reads them back. `price_cents * quantity` of a line
item is one number. `Totals` are derived by `AfterOn` only when the code calls it:
after a whole replay, before a view is written, and in `Builder.Snapshot` when a
snapshot is taken. An unset message and an empty string are both `Nil`; an `AddItem`
without an item passes the guards, and its event changes only `modify_by`.

### Repository

| action | code |
|---|---|
| `Load` | `Apply` to the end of loading (`:300-317`), any load error giving a new aggregate |
| `Decline` | an early return of steps 1 to 5 (`:319-355`), `ErrSkip` included |
| `Emit` | step 6 (`:357-358`) |
| `Save`, `SaveFails`, `SaveReplyLost` | step 7 (`:360-367`): stored; nothing stored; stored with the caller told otherwise |
| `Materialize` | step 8 (`:369-387`) |
| `Project` | step 9 and the return (`:389-406`) |
| `Crash` | the process dies; memory is lost |

`store` is which store the repository is wired to. "memory" appends whatever it gets
and has neither tails nor views; "bolt" puts each record under its version, replacing
what is there, and has tails; "cloud" (DynamoDB and Cosmos) refuses a batch any of
whose versions exists, and has tails and views. `acked` is auxiliary: the events of
commands whose `Apply` returned without error. `Faults` says what may fail.
One aggregate stands for all: every store call is keyed by the aggregate's id.
The actor of a command is the actor that issues it, because the generated handler overwrites
the field.

Names that TLA+ reserves or that clash differ slightly: `On` for a fresh
replay is `Replay`; `Builder.Snapshot` is `BuildSnapshot`.

### BoltStore

`index`, `nextShard` and `maxPerShard` are the index file's buckets, `records` the
shard files. Each bbolt transaction is one action, atomic and durable; a request is a
small program over them.

| action | code (`stores/boltdbstore/boltdbstore.go`) |
|---|---|
| `New` | `New`, `initIndex` (`:56-114`): waits for the index file's lock, writes defaults that are missing |
| `AssignShard` | `assignShard`, the first transaction of `Save` (`:271-307`) |
| `LookupShard` | `lookupShard`, the first transaction of `Load` and `LoadTail` (`:323-335`) |
| `OpenShared`, `Lock`, `OpenFile`, `OpenFails` | `openShard` (`:339-362`): look under RLock; take the mutex and look again; `bbolt.Open` waiting for the file lock with the mutex held |
| `Transact` | the transaction on the shard |
| `FindAfterClose`, `TransactStale` | what a request meets when `Close` has run: nil or a closed index handle (read without the mutex, so either), a closed shard handle |
| `Close`, `Crash` | handles and locks are given up, by the code (`:250-268`) or by the system |

Each instance lives in a process of its own. Of bbolt the model uses that an update is
atomic and durable, that a file has one owner and that opening waits for it.
`drained` says whether the owner of the store waits for its requests before it calls
`Close`, which the code leaves to the owner. Instances may be configured with different limits; the
first one's stays.

### CloudStore

The clients are what `Repository.Apply` makes of the store: `LoadTail`, some events on
top of it with the snapshots the builder adds, `Save`; or a `Load`. Of an event only the
version counts, of a snapshot which events it sums up, so that "the replay is complete"
can be said of a tail.

| action | code |
|---|---|
| `BeginRead`, `ReadPage`, `ReadFails` | the page loops of `Load` and `LoadTail` (`dynamodbstore.go:146-264`, `cosmosdbstore.go:206-285`) |
| `HistoryRead`, `Emit` | the caller: nothing, or `EmitEvents` and the expiry of `Repository.Save` (`protosource.go:435-441`) |
| `WriteBatch`, `WriteFails`, `WriteReplyLost`, `Crash` | the batch loop of `Save` (`dynamodbstore.go:96-142`, `cosmosdbstore.go:139-201`) |
| `Tick`, `Expire` | the clock, and the database deleting one expired record |

The database is external: pages are as short as it likes and may say that there is more
when there is not; a batch is atomic and refused if one of its versions exists; reads
are consistent, as the DynamoDB store asks and as a Cosmos account has to be set to. A retry by
the client library that finds its own records is `WriteReplyLost`.

### Router, OpaqueItems, Handlers and Service

A path is a sequence of segments, and so is an id: one that holds a slash has two. `Dispatch`
takes the first route that matches, then tells 404 from 405 (`router.go:68-120`). A sort key
is a sequence of its parts that ends where the first absent part begins; numbers in it
are compared by their decimals (`KeyLess`), as the stores compare strings; `QueryMeetsCondition` says of
what a query finds the same by arithmetic, with the leading digits of numbers (`Digits`, `Leading`, `Before`). `Meets` has
the sort conditions of both query languages, `gsiPairs` and `gsiSlots` the sparse index
attributes, `Unexpired` the filter on the item's expiry.

| action of `Service` | code |
|---|---|
| `Send` | the generated client builds method, path, query and body, or refuses the call (`httpclient.go:79-190`, `order_v1.protosource.client.pb.go`) |
| `Serve` | adapter, router, handler: authorize, decode, overwrite the actor; then the read, or `Apply` up to its save. The fault is none, an unreadable body, an authorizer that is down or a store that is |
| `Save` | `Repository.Save`; its reply may be lost |
| `SaveFails` | the store is out of reach or a version is taken |
| `Materialize` | the views of the command, of which any may be missing, then the answer (`protosource.go:369-404`) |
| `Browse` | a program that queries the view table through the generated client of the projection, which no handler offers |

A request keeps the call, the stage it is in, the events it decided on, what it was answered and
what it had been told before (`seen`). Everything of one request between two store
calls is one action: nothing shared is read in between. Streams hold all events of an
aggregate and a load reads all of it; windows are the subject of `Repository` and
`CloudStore`. Traces, content negotiation and CORS headers are left out, as are items
that fail to marshal and view reads that lag behind acknowledged view writes.

### TableSetup

A command is the list of calls it makes to the provider. `TableExists` skips the calls on a
table that is there, in whatever state (`tables.go:126-136`); `CreateTable`, `WaitActive`
and `WaitTimesOut` (two minutes), `EnablePITR`, `EnableTTL` are `dynamodbstore/tables.go`;
`ReadDatabase`, `CreateDatabase`, `CreateContainer` are `cosmosdbstore/containers.go`;
`DisableProtection`, `DeleteTable`, `DeleteContainer` and the lists themselves are the two
tools in `cmd/`. The provider is external: `BecomeActive`, `Vanish`, a second creation is
refused, settings are refused unless the table is active, deletion unless it is unprotected.
Faults: `CallFails`, `CreateReplyLost`, `DatabaseReplyLost`, `Crash`. Errors of settings and of the
repair and deletion commands do not end a command (`Ignored`). The read-only `status` command is left
out, as are the functions of `testdynamo-setup` that nothing calls.

### Protos and Generator

A proto file is a record of messages with their annotations (`ProtoFiles`), and `Legal` what protoc asks of it
before a plugin sees it: names and numbers that differ, types that are declared. `OrderFile`, `SampleFile`,
`NoSnapshotFile` and `TestFile` are the files under `proto/example/app`. An author edits a
file (`Edit`), then the plugin runs (`generate`): it skips the file, fails, or writes code.
`Accepted` is the conjunction of its checks (`protosourceify.go:1172-1254`),
`TemplatesRun` of those the templates make, `Generated` a record of what differs between files:
which fields each `On` case copies, its collection changes, the events, versions and states of each
command, the routes in their order, keys and projections. `Compiles` stands for the Go
compiler, as far as the properties need it. Messages are not nested.

## Runs

| run | what it asks | bounds |
|---|---|---|
| `cloud` | do racing commands leave one serial, admissible, durable history, and are stored views and projections past states of it? | 2 actors, 5 life cycle commands, interval 3, `MaxVersion` 5, failing loads, lost replies, failing view writes, crashes |
| `serial` | does a tail always find a snapshot and do views end up current for a single caller, with every kind of command? | 1 actor, 15 commands, interval 2, `MaxVersion` 6, failing saves, all three stores |
| `views_race` | violation: a view may stay behind for good | 2 actors, no faults |
| `bolt_race` | violation: bolt replaces stored events | 2 actors, no faults |
| `bolt_load_error` | violation: Create is carried out on an existing order | 1 actor, failing loads |
| `bolt_store` | is it one store, whatever races, dies or fails, and does every call return, unless a file stays open behind a `Close` that did not wait? | 2 instances with limits 1 and 2, 2 ids, 3 requests (2 saves of overlapping versions, a load or tail), crashes, failing opens |
| `bolt_close` | violation: a closed store holds a shard file | the same without faults, owners that do not wait |
| `cloud_store` | do pages and batches keep the stream whole, and what was acknowledged until its time? | interval 3, batches of 2, pages of at most 2, 1 or 2 events a command; 2 clients without expiry, 1 with lifetime 1 or 2 and clock to 3; all faults |
| `cloud_torn` | violation: an interval may stay without a snapshot | 2 clients, no faults, batches of 2 |
| `service` | is an answer true, a read about what was asked, an event bearing the name of somebody who may? | three applications, both clouds, both authorizers, 2 requests from a list of calls for each application, on one or two aggregates made at times 10 and 11; every fault |
| `table_setup` | does set-up leave the tables the stores use, whoever races, and does each command end? | 2 processes, 4 commands in all, both providers, all faults |
| `generator` | does what the generator accepts take effect, a removal keyed by a header apart; do its routes fit; do the models of services and generator agree? | the four files, each file that one edit of `MCGenerator`'s list makes of them (a collection's key renamed `id` or `actor` throughout is one), in the sample file a second edit of a key or of a command's events |

`MaxVersion` keeps a request from *starting* on a longer log; the log itself may grow
by two batches of two records beyond it, so every log holds at least one snapshot and
the next event after it, and with interval 2 two or three snapshots: enough to have a
tail with, without, and exactly starting at a snapshot. Two actors suffice for each hazard of the
list: all are about one request overtaking another. Intervals 2 and 3 replace the
50 of the code; the proofs hold for every interval. Requests end at `MaxVersion`, so
the runs switch deadlock checking off.

In `bolt_store` with limit 1 the second id needs a second shard while the second instance
would have room for it; three requests are enough for two to race for the mutex with a
third behind the file lock, or for a request of the first instance to outlive its `Close` beside
one of the second. In `cloud_store` a save of two events with a snapshot takes two
batches, in either split (event and event, snapshot; or event and snapshot, event), a tail two or three
pages, and streams grow to seven records, with snapshots at 4 and 7. Of an expiring stream the clock can move
between the batches of a save, so that with lifetime 1 the first is gone before the last is
written, and with lifetime 2 it is not yet. One client suffices there: what two do to each other is in
the stream that keeps its records, and `AckedKeptCorrect` covers any number of clients, lifetimes and times. Calls and
versions run out, so both runs switch deadlock checking off; that no bolt request is stuck
is `RequestsReturn`.

In `service` two requests are what every hazard of the list takes: a command overtaking a command, a
read or query beside a command that has saved and not yet written its views, a read after an
acknowledged command. The callers are one who may do everything, one who may create and read, and one who
is not known; all claim to be the first. Ids are one segment, two, none, and the words
`load` and `history` that routes begin with; the times 9 to 12 have one and two digits,
and conditions compare the ones with the others. In
`table_setup` four commands let a table be created, released, deleted and
created anew, with another process at any step beside it; `cleared` holds the processes whose command a
deletion came upon, and a creation that begins when it is over counts again. In `generator` one edit is what an
author forgets at a time; the second, of keys, lets two indexes meet, and the second, of events, two
commands share one. Requests, commands and runs of the plugin end, so these runs do not check for deadlock either; that
no set-up command is stuck is `CommandsReturn`.

**Fairness.** `FairSpec` asks only that `Continue` of each actor, once enabled, is
eventually taken: goroutines that run go on running. No fairness on `Load` (nobody has
to send a command) nor on `Crash`, and within `Continue` a save may fail each time.
Liveness is `ViewsConverge`: once the events stop, view and projection come to be, and
stay, current. In `BoltStore`, `FairSpec` asks the same of each request's `Continue`: the
mutex is handed on when it is free and bbolt polls for the file lock. No open has to
fail, which would end a wait, and nothing obliges anybody to open, close or call. `RequestsReturn` is claimed of
every request, with one way out: from some moment on a request of its instance waits, with the mutex, for a file that another
live process has open, and one of the two was closed by an owner that did not wait (`HeldUp`). `bolt_close` shows
how that comes about; a wait for the own process's lock, or for one whose owner was closed in time or died, is not excused.
In `TableSetup`, `FairSpec` asks that a command that runs goes on and that the provider finishes
what it began, creation or deletion. No call has to fail and nobody has to run a command. `CommandsReturn` rests
on the two-minute limit of the wait: a table deleted under a waiting creator never becomes active.

### What the violations show

* `views_race`: the two saves are ordered by the store, the two view writes by nothing.
  The write of the older state may come last and stay. The record carries a version
  field reserved for optimistic locking, which is not used.
* `bolt_race`: `BoltDBStore.Save` never looks whether a version exists. Two
  acknowledged commands, one of whose events are gone.
* `bolt_load_error`: a load error looks like a new aggregate. Over the cloud stores the conditional write
  then refuses the batch (run `cloud` has the same fault and passes); bolt
  accepts it.
* `bolt_close`: `openShard` does not look whether the store is closed. A request that
  had found its shard opens the file after `Close`; nobody closes it. The next
  instance's first request for that shard waits in `bbolt.Open` for as long as
  the old process lives, and all its other requests that need the mutex behind it.
* `cloud_torn`: one save stores an event at a multiple of the interval with its first
  batch; before its second, with the snapshot, another command is saved and takes the
  snapshot's version. The second batch is refused. Once the stream has grown by another
  interval's worth, less one, a tail has no snapshot and is not the whole stream, so `Apply`
  works on an aggregate rebuilt from the last events alone. With the batch limit of
  100 this takes a command that emits about that many events. `TailsComplete` in `cloud_store`
  shows that this is the only way: it holds as long as no save is cut between batches.

### Observed while modelling

Stated here without a run of their own. Where a text of the repository says otherwise, it is named:

* The history of an unknown aggregate is answered 200 with no records; no store reports one
  as not found, so the branch for it is not taken (`order_v1.protosource.lambda.pb.go:571`).
* `authz/authorizer.go:41` says that any other error counts as `ErrForbidden`, which is a 403; the generated handlers
  answer 503 (`order_v1.protosource.lambda.pb.go:811`). The text and the code disagree. `AnswersTellTheTruth`
  holds either way: both statuses say that nothing was stored.
* `docs/proto-annotations.md:229-240` presents `snapshot = {}` (the runtime's default interval) and
  `snapshot = { disabled: true }` as usable. The plugin accepts both and generates code that does not
  compile (`protosource.gotext:69-95`), so the text and the code disagree. `Compiles` says so, `MCGenerator` has these
  edits, and `DeclarationsTakeEffect` and `RoutesFit` are claimed of such files too: they are about the rest of the code.
* Two commands whose names differ in case share a route; the first gets all requests.
* A command with an unspecified life cycle may begin a stream; the check of
  `produces_events` against the life cycle takes any command that is not a creation for a mutation.
* `fix`, `delete` and `disable-protection` end with success when their calls failed, and `create` when
  the table it found was being deleted. A creator that dies before `enableTTL` leaves the setting off until `fix`.
* An event that removes needs a string field of the key's name and one domain field
  (`protosourceify.go:661-685`), but nobody asks that they be the same. If the elements of a collection have
  a key called `id`, the event's own id passes, and the generated code deletes by the id of
  the aggregate (`protosource.gotext:200`): the event is stored and removes nothing. `docs/collections.md:32,60-71`
  promises a removal by the key. `CollectionsChange` says exactly this of such events (`KeyedByHeader`: what they tell is
  read by nobody) and of all others that the one thing they tell is read; `MCGenerator` makes such files by
  renaming a key throughout (`KeyRenamed`).
* Numbers in sort keys sort as strings: 9 comes after 10. `QueryMeetsCondition` says what a query then finds; key values that hold the separator `#` may collide.

## Theorems

For every set of actors, commands, items and faults, every interval and `MaxVersion`:

* `TypeCorrect`: `Spec => []TypeOK`, any store.
* `PositionCorrect`: versions are positions, over bolt and cloud, any faults.
* `EventsImmutableCorrect`: no stored record changes, over memory and cloud.
* `BoltStore`, for any instances, requests, ids, limits and faults: `BoltTypes`,
  `ShardsStayWithinLimit`, `HistoriesStayTogether`, `LoadsReturnWhatIsStored` and the
  refinement `BoltImplementsKeyedStore`.
* `CloudStore`, for any clients, interval, sizes of pages and batches, lifetimes and faults:
  `StoreTypes`, `GaplessCorrect`, `AckedKeptCorrect`, `ReadsAreWindowsCorrect`,
  `RecordsImmutableCorrect`; and for any interval above 1 `TailsCompleteCorrect`, which rests on
  `ScheduleInvariant`.
* `Repository` over the cloud store: `AckedDurableCorrect`, `SnapshotOnScheduleCorrect`,
  `TailReplayCorrect`, `SaveExtendsCorrect`, `LifeCycleCorrect`, `ItemEventsCorrect`,
  `SnapshotInWindowCorrect`, `ViewIsPastCorrect`, `SummaryIsPastCorrect` and the refinement
  `StreamImplemented`.
* `TableSetup`, for any processes, number of commands and faults, in both clouds: `SetupTypes`,
  `SuccessMeansTablesCorrect`, `SettingsCompleteCorrect`, `RacersSucceedCorrect`,
  `DeletionReleasedCorrect`; they rest on `SetupInvariant`.
* `Service`, for any requests, callers, aggregates, calls and faults, the three applications, both
  clouds and both authorizers: `ServiceTypes`, `StoredAsGrantedCorrect`, `AnswersTellTheTruthCorrect`,
  `ReadsAnswerTheQuestionCorrect`, `LoadSeesAcknowledgedCorrect`; they rest on `ServiceInvariant`.
  Likewise `QueryMeetsConditionCorrect`, which rests on `QueryInvariant` besides.
* `Generator`, for any files and edits: `CodeInvariant` and `DeclarationsTakeEffectCorrect`.

The assumptions are those of the constants (`IntervalAssumption`,
`PayloadAssumption`, `RepositoryAssumption`, `BoltAssumption`, `CloudAssumption`, `SetupAssumption`,
`ServiceAssumption`, `QueryAssumption`) and, where a
theorem of `Repository` is about one store, that `StoreKinds` is restricted accordingly.
`ServiceAssumption` says of the traffic that it consists of calls the generated clients offer (`Calls`), that no segment
of an id is empty (`/a//b` is no path of theirs), and that commands name one of `Ids` or none; of the
streams seeded before the run, that they are older than it. `QueryAssumption` is the types of the generated methods: a
time is a number, a method with a range takes two, one without takes none; and seeds are commands of their application.

The argument. `LogInv` (RepositoryProofs) adds to the types that a request's
events have consecutive versions, beginning one after the version of the aggregate it loaded,
and that no request knows a version beyond the log. `CloudInv`, over the conditional-write store, adds:

* `DecidedOnPrefix`: what a request loaded is the replay of a prefix of the log, or a new
  order after a failed load, which is the replay of the empty prefix.
* `Decided`: its events are those its command, admissible there, emits on that state.
* `SavedAreStored`: after the save they are in the log.
* `SnapshotOnSchedule` and that a snapshot is the replay of everything before it.

A conditional write is accepted only if the batch's versions are free. As the log's
versions are positions, a request's prefix is then the whole log, and what was decided on the prefix holds
of the current state: that is `SaveExtendsCurrentState` and the step simulation of `EventStream`.
`TailReplayIsFull` needs the snapshot lemmas: any window of one interval that is not the
whole log contains a snapshot (`WindowHasSnapshot`), and a snapshot erases whatever
the replay began with (`SnapshotErases`). Replay is a recursive function over the
records; `RepositoryProofs` derives from its definition that it is a fold and that it composes
over concatenation, by induction on sequence length cast as an induction over sets of naturals.

`BoltInv` (BoltProofs) needs that the index is filled shard by shard (`ShardsFilled`: with
it the numbers `1..|Ids| + 1` are proved enough, by counting), that an open
store has seen a limit (`LimitKnown`), and that a request which has found its shard agrees with
the index (`ShardFound`), since an id's shard never changes (`IndexKeeps`). An id gets its
shard before it has a record, so assigning one is a stutter of `KeyedStore`, and a save
puts its whole batch where every reader will look.

`RepositoryProofs` also shows that what was replayed tells what happened: `History(log)` says that the state
after a log is cancelled or placed exactly if such an event is in it, that no event follows which its state
forbids, and that an item is in the order exactly if it was added and not removed since. A save extends the
log by one event that the guard and the evaluator admitted on its very replay, and perhaps a
snapshot, which changes neither state nor items. `SnapshotInWindow` is counting: snapshots sit right
after the multiples of the interval.

The views need that prefixes of the log never change: a request that has saved holds the
aggregate as it was right after its events (`Leads`, `HoldsPast`), and what it writes, now or later, is that
prefix's replay with the totals derived from it. A failed load leaves no totals where the replay
of an empty prefix would have derived some; `AfterOnFirst` says that deriving them again later
makes no difference.

`StoreInv` (StoreProofs) says where every client stands. A reader of a stream that keeps its records
holds one stretch of the table, ending where its read of a tail began or beginning at the first
record (`Reading`); a page continues that stretch from the key of its last record, so what others write
meanwhile does not matter (`PageOfTail`, `PageOfAll`). A writer's batch is a run of consecutive
versions, at most one beyond what is stored (`Writing`), and what it has written is there unless it expired.
A batch that is accepted therefore begins right behind the last record, whoever was faster, and a batch
cut short leaves no gap. That every finite set of versions has a last one and can be counted
off, and that an emission is such a run, are the inductions.

`ScheduleInv` (StoreProofs) adds what tails need, where records do not expire. Snapshots are at the `Due` places, right
after the multiples of the interval, and nowhere else, and each sums up every event before it
(`OnSchedule`). Any window of one interval has such a place, so a tail that is not the whole stream has a snapshot to begin
with. What makes this hard is the moment between two batches, when a stream ends where a snapshot
is due: then some client has written the event before and is about to write the snapshot (`Awaited`). Any other client's
record in that place leaves it `Overtaken`: its next batch will be refused, now or whenever it comes, so the
schedule is `Broken` for good, first because of that client, later because the save counts as `torn`. What a client has still
to write is on schedule as well (`InStep`), because its emission began on a tail that was complete.
An emission never ends where a snapshot is due, unless every place is such a one. This is where
the interval has to be above 1, and it is no formality. With interval 1 and an odd batch limit
a tail, a single record, can be read between the event and its snapshot, and tells of that event
only. The batch limit of both stores is 100: `cloud_store`'s properties hold at interval 1 with the even limit 2
as well, and fail with limit 1. The theorem allows any limit and so asks for an interval above 1.

`SetupInv` (SetupProofs) relates what a process has still to do to what there is. Its calls are those of its
command, in the order in which the code makes them (`Queued`, `CallsInOrder`). A table that exists has the keys the
stores use and, unless somebody released it, its protection, whoever made it (`TableSound`). What is not set on it, a process is about to
set: its creator, which no longer holds the call that creates it (`SettingsUnderway`). A creation that has not failed has made or found
each table, or is yet to make it (`Making`), unless a deletion came upon it. The delicate part is the second table: a process that fails
drops all its calls but counts as trouble for one table only. Because events come before aggregates, whoever fails at
the events has not yet created the aggregates table, and whoever is at the aggregates has nothing left to do for the events.

`ServiceInv` (ServiceProofs) has a part about what is stored and a part about each request. Streams are numbered
from 1 and contain only events the application can replay, each but the snapshots bearing the name of a caller who may
(`GoodStream`), and each event that was not there from the start is one some request decided on (`HasOrigin`); an item of the view
table lies where its keys say, and its message bears the id it is found by (`GoodTable`). The events of a
request continue some version the stream has, or once had last (`Continue`). A store takes
only versions that are free, so those it takes continue the last one; from then on they stay (`AreIn`), and no two requests
stored under one version (`Distinct`). What a client was told is therefore at most the stream's length, and a later load
shows it. For reads the proof follows the call through client, router and handler: the
path the client builds, held against the routes in their order, reaches the handler of the call, except for those ids
that a route takes for its own word (`Plain`). `Replay` of the sample
aggregates is a fold; all that is needed of it is the version it ends at, by induction over its length.

`QueryInv` (QueryProofs) is what a query needs besides. `QueryMeetsCondition` says that the views found are exactly
those the client's condition is about, each once, oldest first. It compares with what was in the table when the
query was answered, so each answered request carries its own part of the invariant (`QueryRight`), and the rest is
about the table. An item is indexed by what its message says (`Indexed`): the partition key
of each of its indexes names the customer, creator or state of the message, and the sort key its time. This holds because views are
written from aggregates replayed from events that bear numbers (`AllDated`). Then there are three steps:

* `DecimalOrder`: sort keys hold decimals, and the databases compare strings. Two numbers with as many digits are
  ordered as their decimals are, by strong induction over the number. Of others the leading digits decide, as many as
  the shorter number has (`LeadingIs`, `DecimalBefore`); that is the order `Before`, by which the property states
  conditions and order, and which for times in microseconds is that of the numbers until the year 2286.
* `QuerySelects`: DynamoDB's expression over key attributes and Cosmos's SQL over the document select the same
  items, since an item in an index has both of its keys and no view expires. Neither finds one twice, because a
  view is the only one of its type with its id.
* `HandledPassed`: client, router and handler pass the condition on as it was put, its
  operator and values included, for every query of the generated clients.

`IndexServes` puts the three together for one index.

The theorems of `Generator` need no assumption on `Files` and `Edits`, since the plugin only runs on what is
`Legal`. `CodeInv` says that what code there is was generated from the file as it stands, after
all checks. The rest is about one file, check by check: a collection event names a map of the aggregate and
has one field, which the template reads unless the collection is keyed by a header (`CheckedCollections`), a creation's later events also come from mutations, so
only the first event of a stream runs `setCreated` (`CheckedCreation`), no two annotations of a slot
have one order, so any sort of them gives the same key (`CheckedAnnotations`: finite sets can
be sorted, and an order that was chosen lists all of them). That the code compiles is not needed.

Only model-checked: `RoutesFit`, where paths are put together from
strings, which the provers cannot compute with, and `GeneratedAsWritten`, which is about four files: it
holds the model of the generator against the models of the services, all written by hand from the source, and notices when
one of them follows a change of its code and the other does not. It does not read the generated Go files; and liveness (`RequestsReturn`, `ViewsConverge`, `CommandsReturn`), since the prover
has no rule for fairness and `ENABLED`. What recursive definitions compute is checked over bounded
inputs, but for the few an induction over sets reaches.

## Not modelled

* The MySQL store: its INSERT names four columns and gives three values (`mysql_store.go:47`), so no save
  succeeds, and the reads have nothing to read.
* Serializers and compression: conversions without state. That they may fail is a failed load
  or save.
* The memory store's shared `History` (`memorystore.go:73`): `Load` returns the live history, in which
  `Repository` replaces packed by unpacked bytes. It is a race of Go's memory model, in a store for tests with one caller.
* The TypeScript generator, which writes text from the same annotations and checks nothing, and the command line tools, which
  make one call each of what `Service` models.
* The generated code of the `test` aggregate: the shapes of order and sample again. Its proto file is in `Generator`.
* `Add`, `Update` and `Delete` of the generated table clients and `opaquedata.Delete`: nothing calls them.
* Customer fields, cancel reasons, addresses beyond one value, prices beyond a number, wording, layout, logging, traces.
* Records whose stream lost its first events or its snapshot to expiry while later ones stay
  (`protosource.go:437`): `cloud_store` has them, and what `Apply` makes of the rest no text promises.
