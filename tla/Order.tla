------------------------------- MODULE Order -------------------------------
(***************************************************************************)
(* The order aggregate of the example application, as the code generator   *)
(* writes it (order_v1.protosource.pb.go), with its two hand-written       *)
(* extension files (order_evaluators.go, order_derived.go).  The module    *)
(* has no state of its own: it says how an event changes an aggregate,     *)
(* when a command is legal and which events a command emits.               *)
(*                                                                         *)
(* An aggregate is a version and the data the version stands for.  On      *)
(* assigns the version from the event whatever the event is, so the two    *)
(* are kept apart.  Data abstracts the fields no property tells apart:     *)
(* customer fields, timestamps and reasons are left out, item and tag      *)
(* values are small sets.                                                  *)
(***************************************************************************)
EXTENDS Naturals, Sequences, FiniteSets, Functions, TLC

CONSTANTS
  Actors,            \* who issues commands
  ItemIds,           \* keys of Order.items, the empty id (Nil) perhaps one
  Cents,             \* price_cents * quantity of a line item
  TagKeys,           \* keys of Order.tags
  TagValues,         \* values of Order.tags
  Addresses,         \* shipping addresses
  Billings,          \* populated Billing messages
  Nil,               \* an unset message or an empty string
  SnapshotInterval   \* every_n_events of the snapshot annotation

(* every_n_events is uint32 and has no upper bound in the annotation; the  *)
(* generator emits the snapshot machinery only for a positive interval.    *)
ASSUME IntervalAssumption == SnapshotInterval \in Nat \ {0}

ASSUME PayloadAssumption ==
  /\ IsFiniteSet(ItemIds)
  /\ Cents \subseteq Nat
  /\ Nil \notin Addresses \cup Billings \cup Actors

(***************************************************************************)
(* Messages and state.                                                     *)
(***************************************************************************)
States == {"UNSPECIFIED", "DRAFT", "PLACED", "PAID", "SHIPPED", "DELIVERED",
           "CANCELLED"}

SnapshotActor == "snapshot@system"

LineItems == [id : ItemIds, cents : Cents]
Tags == [key : TagKeys, value : TagValues]

ItemMaps == UNION {[S -> Cents] : S \in SUBSET ItemIds}
TagMaps == UNION {[S -> TagValues] : S \in SUBSET TagKeys}

(* AfterOn: the fields computed from the items, never from an event. *)
Totals(items) ==
  [itemCount |-> Cardinality(DOMAIN items), totalCents |-> SumFunction(items)]

NoTotals == [itemCount |-> 0, totalCents |-> 0]

Data ==
  [state : States, items : ItemMaps, tags : TagMaps,
   shipping : Addresses \cup {Nil}, billing : Billings \cup {Nil},
   totals : {Totals(m) : m \in ItemMaps} \cup {NoTotals},
   createBy : Actors \cup {Nil}, modifyBy : Actors \cup {Nil}]

EmptyMap == [x \in {} |-> Nil]

(* r.new(): the zero value of the prototype's type. *)
NewData ==
  [state |-> "UNSPECIFIED", items |-> EmptyMap, tags |-> EmptyMap, shipping |-> Nil,
   billing |-> Nil, totals |-> NoTotals, createBy |-> Nil, modifyBy |-> Nil]

NewOrder == [version |-> 0, data |-> NewData]

AfterOn(data) == [data EXCEPT !.totals = Totals(data.items)]

Aggregates == [version : Nat, data : Data]

EventKinds ==
  {"Created", "ItemAdded", "ItemRemoved", "TagAdded", "TagRemoved",
   "ShippingSet", "BillingSet", "BillingCleared", "Placed", "Cancelled"}

(* The payload a kind of event carries. *)
Payloads(kind) ==
  CASE kind = "ItemAdded"   -> LineItems \cup {Nil}
    [] kind = "ItemRemoved" -> ItemIds
    [] kind = "TagAdded"    -> Tags \cup {Nil}
    [] kind = "TagRemoved"  -> TagKeys
    [] kind = "ShippingSet" -> Addresses
    [] kind = "BillingSet"  -> Billings
    [] OTHER                -> {Nil}

Event ==
  {e \in [kind : EventKinds \cup {"Snapshot"}, version : Nat,
          actor : Actors \cup {SnapshotActor},
          arg : (UNION {Payloads(k) : k \in EventKinds}) \cup Data] :
     IF e.kind = "Snapshot" THEN e.actor = SnapshotActor /\ e.arg \in Data
     ELSE e.actor \in Actors /\ e.arg \in Payloads(e.kind)}

(***************************************************************************)
(* On: one event applied to the data of an aggregate.                      *)
(***************************************************************************)
Put(m, k, v) == [x \in DOMAIN m \cup {k} |-> IF x = k THEN v ELSE m[x]]

Drop(m, k) == Restrict(m, DOMAIN m \ {k})

(* Adding an element to a collection ignores an unset message. *)
Mutate(data, e) ==
  CASE e.kind = "Created" ->
         [data EXCEPT !.createBy = e.actor, !.state = "DRAFT"]
    [] e.kind = "ItemAdded" /\ e.arg # Nil ->
         [data EXCEPT !.items = Put(@, e.arg.id, e.arg.cents)]
    [] e.kind = "ItemRemoved" -> [data EXCEPT !.items = Drop(@, e.arg)]
    [] e.kind = "TagAdded" /\ e.arg # Nil ->
         [data EXCEPT !.tags = Put(@, e.arg.key, e.arg.value)]
    [] e.kind = "TagRemoved" -> [data EXCEPT !.tags = Drop(@, e.arg)]
    [] e.kind = "ShippingSet" -> [data EXCEPT !.shipping = e.arg]
    [] e.kind \in {"BillingSet", "BillingCleared"} ->
         [data EXCEPT !.billing = e.arg]
    [] e.kind = "Placed" -> [data EXCEPT !.state = "PLACED"]
    [] e.kind = "Cancelled" -> [data EXCEPT !.state = "CANCELLED"]
    [] OTHER -> data

(* Mutants of OnData: setModified runs for snapshots too; RestoreSnapshot   *)
(* forgets the items.                                                      *)
OnDataAlwaysModifies(data, e) ==
  [(IF e.kind = "Snapshot" THEN e.arg ELSE Mutate(data, e))
     EXCEPT !.modifyBy = e.actor]

OnDataKeepsItems(data, e) ==
  IF e.kind = "Snapshot" THEN [e.arg EXCEPT !.items = data.items]
  ELSE [Mutate(data, e) EXCEPT !.modifyBy = e.actor]

(* RestoreSnapshot assigns every field from the snapshot; every other      *)
(* event also records who modified the order.                              *)
OnData(data, e) ==
  IF e.kind = "Snapshot" THEN e.arg
  ELSE [Mutate(data, e) EXCEPT !.modifyBy = e.actor]

On(agg, e) == [version |-> e.version, data |-> OnData(agg.data, e)]

(* On of every record in turn, starting from the given data. *)
ReplayedFrom(data, records) ==
  LET after[i \in 0..Len(records)] ==
        IF i = 0 THEN data ELSE OnData(after[i - 1], records[i])
  IN  after[Len(records)]

(* A load: every record on a fresh aggregate, then AfterOn once. *)
Replay(records) ==
  IF records = <<>> THEN NewOrder
  ELSE [version |-> records[Len(records)].version,
        data    |-> AfterOn(ReplayedFrom(NewData, records))]

(***************************************************************************)
(* Commands.  The actor of a command is whoever issues it: the generated   *)
(* handler overwrites the field with the authenticated actor.              *)
(***************************************************************************)
Produces(name) ==
  CASE name = "Create"       -> "Created"
    [] name = "AddItem"      -> "ItemAdded"
    [] name = "RemoveItem"   -> "ItemRemoved"
    [] name = "AddTag"       -> "TagAdded"
    [] name = "RemoveTag"    -> "TagRemoved"
    [] name = "SetShipping"  -> "ShippingSet"
    [] name = "SetBilling"   -> "BillingSet"
    [] name = "ClearBilling" -> "BillingCleared"
    [] name = "Place"        -> "Placed"
    [] name = "Cancel"       -> "Cancelled"

CommandNames ==
  {"Create", "AddItem", "RemoveItem", "AddTag", "RemoveTag", "SetShipping",
   "SetBilling", "ClearBilling", "Place", "Cancel"}

(* A command's payload is its event's; SetBilling may also arrive without  *)
(* one, which ProtoValidate refuses.                                       *)
OrderCommands ==
  {c \in [name : CommandNames,
          arg : UNION {Payloads(k) : k \in EventKinds}] :
     \/ c.arg \in Payloads(Produces(c.name))
     \/ c.name = "SetBilling" /\ c.arg = Nil}

(* CREATION needs version 0, MUTATION refuses it. *)
ValidateVersion(cmd, version) ==
  IF cmd.name = "Create" THEN version = 0 ELSE version # 0

ProtoValidate(cmd) == cmd.name = "SetBilling" => cmd.arg # Nil

DraftOnly ==
  {"AddItem", "RemoveItem", "AddTag", "RemoveTag", "SetShipping", "Place"}

(* Mutant of GuardState: Cancel has no allowed_states. *)
GuardStateWithoutCancel(cmd, data) ==
  cmd.name \in DraftOnly => data.state = "DRAFT"

GuardState(cmd, data) ==
  /\ cmd.name \in DraftOnly => data.state = "DRAFT"
  /\ cmd.name = "Cancel" => data.state \in {"DRAFT", "PLACED", "PAID"}

(* Mutant of EvaluateAborts: AddItem has no evaluator. *)
EvaluateNeverAborts(cmd, data) == FALSE

(* GetItem().GetItemId(): an unset item has the empty id. *)
ItemIdOf(item) == IF item = Nil THEN Nil ELSE item.id

(* AddItem.Evaluate aborts when the id is already among the items. *)
EvaluateAborts(cmd, data) ==
  cmd.name = "AddItem" /\ ItemIdOf(cmd.arg) \in DOMAIN data.items

(* RemoveItem.Evaluate answers ErrSkip when there is nothing to remove. *)
EvaluateSkips(cmd, data) ==
  cmd.name = "RemoveItem" /\ cmd.arg \notin DOMAIN data.items

(* Steps 1 to 5 of the pipeline let the command through. *)
Admissible(cmd, agg) ==
  /\ ValidateVersion(cmd, agg.version)
  /\ ProtoValidate(cmd)
  /\ GuardState(cmd, agg.data)
  /\ ~EvaluateAborts(cmd, agg.data)

(***************************************************************************)
(* EmitEvents: the builder starts at the version of the aggregate it was   *)
(* given, on a clone of its data.                                          *)
(***************************************************************************)
NewBuilder(agg) ==
  [version |-> agg.version, data |-> agg.data, events |-> <<>>]

BuildEvent(b, kind, actor, arg) ==
  LET event == [kind |-> kind, version |-> b.version + 1, actor |-> actor,
                arg |-> arg]
  IN  [version |-> event.version, data |-> OnData(b.data, event),
       events |-> Append(b.events, event)]

(* The snapshot event: every field of the builder's order, derived fields  *)
(* brought up to date first, under the given version.                      *)
SnapshotOf(b, version) ==
  LET data == AfterOn(b.data)
  IN  [version |-> version, data |-> data,
       events |-> Append(b.events,
                    [kind |-> "Snapshot", version |-> version,
                     actor |-> SnapshotActor, arg |-> data])]

(* Mutants of BuildSnapshot: it looks at the version it would take itself; *)
(* it comes half as often.                                                 *)
BuildSnapshotEarly(b) ==
  IF (b.version + 1) % SnapshotInterval # 0 THEN b
  ELSE SnapshotOf(b, b.version + 1)

BuildSnapshotSeldom(b) ==
  IF b.version % (2 * SnapshotInterval) # 0 THEN b
  ELSE SnapshotOf(b, b.version + 1)

(* Builder.Snapshot, called after every event; AfterOn runs only when a    *)
(* snapshot is taken.                                                      *)
BuildSnapshot(b) ==
  IF b.version % SnapshotInterval # 0 THEN b ELSE SnapshotOf(b, b.version + 1)

EmitEvents(cmd, actor, agg) ==
  BuildSnapshot(BuildEvent(NewBuilder(agg), Produces(cmd.name), actor,
                           cmd.arg)).events

(* ProjectOrderSummary: the subset of fields the projection copies. *)
OrderSummary(agg) ==
  [state |-> agg.data.state, totals |-> agg.data.totals]

Summaries ==
  [state : States, totals : {Totals(m) : m \in ItemMaps} \cup {NoTotals}]

=============================================================================
