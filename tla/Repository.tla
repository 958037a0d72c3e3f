----------------------------- MODULE Repository -----------------------------
(***************************************************************************)
(* The runtime of protosource.go: Repository.Apply run concurrently by     *)
(* several actors against one order, over the store that holds its events  *)
(* and the table that holds its materialized view and projection.          *)
(*                                                                         *)
(* Apply is not atomic.  It loads, decides on what it loaded, saves, then  *)
(* writes the view and then the projection; other requests, failures and   *)
(* the death of the process come between any two of these.  What it works  *)
(* on is local to the request.                                             *)
(*                                                                         *)
(* Aggregates do not interact (every store call is keyed by the aggregate  *)
(* id), so one aggregate stands for all.                                   *)
(***************************************************************************)
EXTENDS Order

CONSTANTS
  Commands,     \* the commands actors issue
  StoreKinds,   \* the stores it may be wired to: "memory", "bolt", "cloud"
  Faults,       \* what may fail: "load", "save", "reply", "view", "crash"
  MaxVersion    \* bound: no request starts on a log this long

VARIABLES
  store,        \* the store it is wired to, once and for all
  log,          \* the stored records, in the order a load returns them
  view,         \* the stored Order view (SK "AGG"), Nil if none
  summary,      \* the stored OrderSummary (SK "PROJ#OrderSummary"), or Nil
  pc,           \* where each actor's Apply is
  cmd,          \* its command
  agg,          \* its in-memory aggregate
  events        \* the events it emitted

(* Auxiliary: the events of the commands whose Apply returned no error. *)
VARIABLE acked

request == <<pc, cmd, agg, events>>
vars == <<store, log, view, summary, request, acked>>

ASSUME RepositoryAssumption ==
  /\ Commands \subseteq OrderCommands
  /\ StoreKinds \subseteq {"memory", "bolt", "cloud"}
  /\ MaxVersion \in Nat

NoCommand == [name |-> "None", arg |-> Nil]

Stages == {"idle", "decide", "save", "materialize", "project"}

TypeOK ==
  /\ store \in StoreKinds
  /\ log \in Seq(Event)
  /\ view \in Aggregates \cup {Nil}
  /\ summary \in Summaries \cup {Nil}
  /\ pc \in [Actors -> Stages]
  /\ cmd \in [Actors -> Commands \cup {NoCommand}]
  /\ agg \in [Actors -> Aggregates]
  /\ events \in [Actors -> Seq(Event)]
  /\ acked \in SUBSET Event

Init ==
  /\ store \in StoreKinds
  /\ log = <<>>
  /\ view = Nil
  /\ summary = Nil
  /\ pc = [c \in Actors |-> "idle"]
  /\ cmd = [c \in Actors |-> NoCommand]
  /\ agg = [c \in Actors |-> NewOrder]
  /\ events = [c \in Actors |-> <<>>]
  /\ acked = {}

(***************************************************************************)
(* The stores.  MemoryStore appends whatever it is given.  BoltDBStore     *)
(* puts each record under its version and replaces what is there.          *)
(* DynamoDBStore and CosmosDBStore ("cloud") refuse a batch any of whose   *)
(* versions exists, and they alone are given views.                        *)
(***************************************************************************)
HasTail == store \in {"bolt", "cloud"}
HasViews == store = "cloud"

LastRecords(l, n) == IF Len(l) <= n THEN l ELSE SubSeq(l, Len(l) - n + 1, Len(l))

(* loadHistory: the last interval's worth of records where the store can. *)
LoadWindow(l) == IF HasTail THEN LastRecords(l, SnapshotInterval) ELSE l

Versions(records) == {records[i].version : i \in DOMAIN records}

(* Mutant of Accepts: the conditional write is unconditional. *)
AcceptsAnything(l, records) == TRUE

Accepts(l, records) ==
  store = "cloud" => Versions(l) \cap Versions(records) = {}

(* Emitted records have consecutive versions, none beyond the first free   *)
(* one, so a keyed store's records in version order are again a sequence.  *)
Overlay(l, records) ==
  LET first == records[1].version
      last  == first + Len(records) - 1
  IN  [v \in 1..(IF last > Len(l) THEN last ELSE Len(l)) |->
         IF v \in first..last THEN records[v - first + 1] ELSE l[v]]

Written(l, records) ==
  IF store = "bolt" THEN Overlay(l, records) ELSE l \o records

(***************************************************************************)
(* Apply.                                                                  *)
(***************************************************************************)
(* The request returns or dies: what it held in memory is gone. *)
Leave(c) ==
  /\ pc' = [pc EXCEPT ![c] = "idle"]
  /\ cmd' = [cmd EXCEPT ![c] = NoCommand]
  /\ agg' = [agg EXCEPT ![c] = NewOrder]
  /\ events' = [events EXCEPT ![c] = <<>>]

(* loadAggregateVersion.  Any error of it (no records, a failed read, a    *)
(* record that does not decode) leaves Apply with a new aggregate.         *)
Load(c, command) ==
  /\ pc[c] = "idle"
  /\ Len(log) < MaxVersion
  /\ \/ agg' = [agg EXCEPT ![c] = Replay(LoadWindow(log))]
     \/ "load" \in Faults /\ agg' = [agg EXCEPT ![c] = NewOrder]
  /\ cmd' = [cmd EXCEPT ![c] = command]
  /\ pc' = [pc EXCEPT ![c] = "decide"]
  /\ UNCHANGED <<store, log, view, summary, events, acked>>

(* Steps 1 to 5 refuse the command, or Evaluate answers ErrSkip. *)
Decline(c) ==
  /\ pc[c] = "decide"
  /\ \/ ~Admissible(cmd[c], agg[c])
     \/ EvaluateSkips(cmd[c], agg[c].data)
  /\ Leave(c)
  /\ UNCHANGED <<store, log, view, summary, acked>>

(* Mutant of Emit: ErrSkip is taken for no error. *)
EmitWhenSkipped(c) ==
  /\ pc[c] = "decide"
  /\ Admissible(cmd[c], agg[c])
  /\ events' = [events EXCEPT ![c] = EmitEvents(cmd[c], c, agg[c])]
  /\ pc' = [pc EXCEPT ![c] = "save"]
  /\ UNCHANGED <<store, log, view, summary, cmd, agg, acked>>

(* Step 6. *)
Emit(c) ==
  /\ pc[c] = "decide"
  /\ Admissible(cmd[c], agg[c])
  /\ ~EvaluateSkips(cmd[c], agg[c].data)
  /\ events' = [events EXCEPT ![c] = EmitEvents(cmd[c], c, agg[c])]
  /\ pc' = [pc EXCEPT ![c] = "save"]
  /\ UNCHANGED <<store, log, view, summary, cmd, agg, acked>>

(* Apply returns the version of the last event and no error. *)
Acknowledge(c) ==
  /\ acked' = acked \cup {events[c][i] : i \in DOMAIN events[c]}
  /\ Leave(c)

(* Mutant of Save: a refused batch is taken for a stored one. *)
SaveIgnoringConflict(c) ==
  /\ pc[c] = "save"
  /\ log' = IF Accepts(log, events[c]) THEN Written(log, events[c]) ELSE log
  /\ IF HasViews
       THEN /\ pc' = [pc EXCEPT ![c] = "materialize"]
            /\ UNCHANGED <<cmd, agg, events, acked>>
       ELSE Acknowledge(c)
  /\ UNCHANGED <<store, view, summary>>

(* Step 7, the store takes the batch.  Without an AggregateStore there is  *)
(* nothing left to do.                                                     *)
Save(c) ==
  /\ pc[c] = "save"
  /\ Accepts(log, events[c])
  /\ log' = Written(log, events[c])
  /\ IF HasViews
       THEN /\ pc' = [pc EXCEPT ![c] = "materialize"]
            /\ UNCHANGED <<cmd, agg, events, acked>>
       ELSE Acknowledge(c)
  /\ UNCHANGED <<store, view, summary>>

(* Step 7 fails with nothing stored: a version exists, or the store is     *)
(* out of reach.                                                           *)
SaveFails(c) ==
  /\ pc[c] = "save"
  /\ ~Accepts(log, events[c]) \/ "save" \in Faults
  /\ Leave(c)
  /\ UNCHANGED <<store, log, view, summary, acked>>

(* Step 7 stores the batch, but the reply is lost or comes too late. *)
SaveReplyLost(c) ==
  /\ pc[c] = "save"
  /\ "reply" \in Faults
  /\ Accepts(log, events[c])
  /\ log' = Written(log, events[c])
  /\ Leave(c)
  /\ UNCHANGED <<store, view, summary, acked>>

(* Mutants of Materialize: without AfterOn; leaving for the projections a  *)
(* new aggregate that has seen the new events only; with the put-if-absent *)
(* of the event writes.                                                    *)
MaterializeWithoutAfterOn(c) ==
  LET current ==
        [version |-> events[c][Len(events[c])].version,
         data    |-> ReplayedFrom(agg[c].data, events[c])]
  IN
  /\ pc[c] = "materialize"
  /\ agg' = [agg EXCEPT ![c] = current]
  /\ view' = current \/ ("view" \in Faults /\ view' = view)
  /\ pc' = [pc EXCEPT ![c] = "project"]
  /\ UNCHANGED <<store, log, summary, cmd, events, acked>>

MaterializeOnPrototype(c) ==
  LET records == events[c]
      version == records[Len(records)].version
      current(data) ==
        [version |-> version, data |-> AfterOn(ReplayedFrom(data, records))]
  IN
  /\ pc[c] = "materialize"
  /\ agg' = [agg EXCEPT ![c] = current(NewData)]
  /\ view' = current(agg[c].data) \/ ("view" \in Faults /\ view' = view)
  /\ pc' = [pc EXCEPT ![c] = "project"]
  /\ UNCHANGED <<store, log, summary, cmd, events, acked>>

MaterializeIfAbsent(c) ==
  LET current ==
        [version |-> events[c][Len(events[c])].version,
         data    |-> AfterOn(ReplayedFrom(agg[c].data, events[c]))]
  IN
  /\ pc[c] = "materialize"
  /\ agg' = [agg EXCEPT ![c] = current]
  /\ view' = IF view = Nil THEN current ELSE view
  /\ pc' = [pc EXCEPT ![c] = "project"]
  /\ UNCHANGED <<store, log, summary, cmd, events, acked>>

(* Step 8.  The in-memory aggregate takes the new events; SaveAggregate    *)
(* replaces the stored view, or fails and is logged.                       *)
Materialize(c) ==
  LET current ==
        [version |-> events[c][Len(events[c])].version,
         data    |-> AfterOn(ReplayedFrom(agg[c].data, events[c]))]
  IN
  /\ pc[c] = "materialize"
  /\ agg' = [agg EXCEPT ![c] = current]
  /\ view' = current \/ ("view" \in Faults /\ view' = view)
  /\ pc' = [pc EXCEPT ![c] = "project"]
  /\ UNCHANGED <<store, log, summary, cmd, events, acked>>

(* Step 9, whatever became of step 8. *)
Project(c) ==
  /\ pc[c] = "project"
  /\ \/ summary' = OrderSummary(agg[c])
     \/ "view" \in Faults /\ summary' = summary
  /\ Acknowledge(c)
  /\ UNCHANGED <<store, log, view>>

Crash(c) ==
  /\ "crash" \in Faults
  /\ pc[c] # "idle"
  /\ Leave(c)
  /\ UNCHANGED <<store, log, view, summary, acked>>

Continue(c) ==
  \/ Decline(c) \/ Emit(c)
  \/ Save(c) \/ SaveFails(c) \/ SaveReplyLost(c)
  \/ Materialize(c) \/ Project(c)

Next ==
  \E c \in Actors :
    \/ \E command \in Commands : Load(c, command)
    \/ Continue(c)
    \/ Crash(c)

Spec == Init /\ [][Next]_vars

(* Code that has begun to run goes on running; nobody has to send a        *)
(* command, and nothing has to fail.                                       *)
FairSpec == Spec /\ \A c \in Actors : WF_vars(Continue(c))

-----------------------------------------------------------------------------
(***************************************************************************)
(* Properties.                                                             *)
(***************************************************************************)

(* A record's version is its position in the event stream: two requests    *)
(* that loaded the same version never both leave events in the stream.     *)
VersionIsPosition == \A i \in DOMAIN log : log[i].version = i

(* A snapshot follows exactly the events whose version is a multiple of    *)
(* the interval, however the events were divided among requests.           *)
SnapshotOnSchedule ==
  \A i \in DOMAIN log :
    log[i].kind = "Snapshot" <=>
      /\ i > 1
      /\ (i - 1) % SnapshotInterval = 0
      /\ log[i - 1].kind # "Snapshot"

(* Snapshot frequency and lookback window are one number, so the window a  *)
(* load reads starts at or before a snapshot unless it is the whole log.   *)
SnapshotInWindow ==
  Len(log) > SnapshotInterval =>
    \E i \in Len(log) - SnapshotInterval + 1..Len(log) :
      log[i].kind = "Snapshot"

(* Replaying the tail that a load reads gives the aggregate the whole      *)
(* history gives: RestoreSnapshot restores every field, and what lies      *)
(* before the snapshot leaves no trace.                                    *)
TailReplayIsFull == Replay(LoadWindow(log)) = Replay(log)

(* An acknowledged command's events stay in the stream, as they were.      *)
AckedDurable == \A e \in acked : \E i \in DOMAIN log : log[i] = e

(* AddItem.Evaluate keeps an item from being added twice and RemoveItem's  *)
(* from being removed when absent, also for racing and retried requests:   *)
(* the events of an item id alternate, beginning with an addition.         *)
ItemEventsAlternate ==
  \A item \in ItemIds :
    LET Adds(i) == log[i].kind = "ItemAdded" /\ log[i].arg # Nil
                     /\ log[i].arg.id = item
        Removes(i) == log[i].kind = "ItemRemoved" /\ log[i].arg = item
        Before(i) == {j \in 1..(i - 1) : Adds(j) \/ Removes(j)}
        Latest(i) == CHOOSE j \in Before(i) : \A k \in Before(i) : k <= j
    IN  \A i \in DOMAIN log :
          /\ Adds(i) => Before(i) = {} \/ Removes(Latest(i))
          /\ Removes(i) => Before(i) # {} /\ Adds(Latest(i))

(* The order's life cycle holds in the stream itself: one creation, first; *)
(* no draft event once placed or cancelled; at most one cancellation.      *)
LifeCycleInStream ==
  \A j \in DOMAIN log :
    LET Earlier(kinds) == \E i \in 1..(j - 1) : log[i].kind \in kinds IN
    /\ log[j].kind = "Created" <=> j = 1
    /\ log[j].kind \in {"ItemAdded", "ItemRemoved", "TagAdded", "TagRemoved",
                        "ShippingSet", "Placed"} =>
         ~Earlier({"Placed", "Cancelled"})
    /\ log[j].kind = "Cancelled" => ~Earlier({"Cancelled"})

(* The stored view is a state the order really went through, with its      *)
(* derived fields computed, and never ahead of the stream.                 *)
ViewIsPastState ==
  view # Nil =>
    /\ view.version \in 1..Len(log)
    /\ view = Replay(SubSeq(log, 1, view.version))

(* So is the stored projection, though it may lag behind the view or run   *)
(* ahead of it.                                                            *)
SummaryIsPastState ==
  summary # Nil =>
    \E v \in 1..Len(log) : summary = OrderSummary(Replay(SubSeq(log, 1, v)))

(* Events are immutable facts: no step removes or changes a stored one.    *)
EventsImmutable ==
  [][/\ Len(log) <= Len(log')
     /\ \A i \in DOMAIN log : log'[i] = log[i]]_vars

(* A creation command is carried out only for an order without events.     *)
CreationOnlyWhenAbsent ==
  [][\A c \in Actors : cmd[c].name = "Create" /\ Save(c) => log = <<>>]_vars

(* Optimistic concurrency: whatever was loaded and whenever, the events    *)
(* stored are those an admissible command emits on the state a load would  *)
(* find at the moment they are stored.                                     *)
SaveExtendsCurrentState ==
  [][log' # log =>
       \E c \in Actors :
         LET current == Replay(LoadWindow(log)) IN
         /\ pc[c] = "save"
         /\ Admissible(cmd[c], current)
         /\ ~EvaluateSkips(cmd[c], current.data)
         /\ log' = log \o EmitEvents(cmd[c], c, current)]_vars

(* Apply implements the atomic event stream. *)
Stream == INSTANCE EventStream WITH stream <- log
ImplementsStream == Stream!Spec

(* When the events stop, the view and the projection eventually are, and   *)
(* stay, the order's current state.                                        *)
ViewsCurrent ==
  HasViews /\ log # <<>> =>
    (view = Replay(log) /\ summary = OrderSummary(Replay(log)))
ViewsConverge == <>[]ViewsCurrent

=============================================================================
