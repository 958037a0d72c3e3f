------------------------------- MODULE Protos -------------------------------
(***************************************************************************)
(* Proto files as the code generator sees them: messages, each with its    *)
(* role and the options of that role, and their fields with the index keys *)
(* they are part of.  The files are those of the example application.      *)
(*                                                                         *)
(* A package is named by the one part of its name that differs.  The key   *)
(* slots have the numbers of OpaqueKeyType: 1 and 2 are PK and SK, 2n + 1  *)
(* and 2n + 2 those of index n.                                            *)
(***************************************************************************)
EXTENDS Integers, Sequences, FiniteSets

Scalars == {"string", "int32", "int64"}
EnumTypes == {"State"}

(* shape is "one", "repeated" or "map"; slots are pairs of slot and order. *)
Field(name, number, type) ==
  [name |-> name, number |-> number, shape |-> "one", key |-> "none", type |-> type,
   slots |-> <<>>]

(* Fields numbered from 1, given as <<name, type>>. *)
Numbered(pairs) == [k \in DOMAIN pairs |-> Field(pairs[k][1], k, pairs[k][2])]

Shaped(fields, names, shape, key) ==
  [k \in DOMAIN fields |->
     IF fields[k].name \in names THEN [fields[k] EXCEPT !.shape = shape, !.key = key]
     ELSE fields[k]]

Annotated(fields, slots) ==
  [k \in DOMAIN fields |->
     IF fields[k].name \in DOMAIN slots
     THEN [fields[k] EXCEPT !.slots = slots[fields[k].name]] ELSE fields[k]]

NoCollection == [target |-> "", action |-> "none", key |-> ""]

Collection(target, action, key) == [target |-> target, action |-> action, key |-> key]

Message(role, name, fields) ==
  [role |-> role, name |-> name, fields |-> fields, lifecycle |-> "UNSPECIFIED",
   produces |-> <<>>, allowed |-> <<>>, sets |-> "", collection |-> NoCollection,
   everyN |-> 0, disabled |-> FALSE, ttl |-> 0]

CommandOf(name, lifecycle, produces, allowed, pairs) ==
  [Message("command", name,
           Numbered(<< <<"id", "string">>, <<"actor", "string">> >> \o pairs))
     EXCEPT !.lifecycle = lifecycle, !.produces = produces, !.allowed = allowed]

EventOf(name, sets, collection, pairs) ==
  [Message("event", name,
           Numbered(<< <<"id", "string">>, <<"version", "int64">>, <<"at", "int64">>,
                       <<"actor", "string">> >> \o pairs))
     EXCEPT !.sets = sets, !.collection = collection]

ListOf(name, element) ==
  Message("plain", name, Shaped(Numbered(<< <<"items", element>> >>), {"items"}, "repeated", "none"))

SnapshotEvery(n, aggregate) ==
  [Message("snapshot", "Snapshot",
           Numbered(<< <<"id", "string">>, <<"version", "int64">>, <<"at", "int64">>,
                       <<"actor", "string">>, <<"snapshot", aggregate>> >>))
     EXCEPT !.everyN = n]

File(package, values, messages) ==
  [package |-> package, enabled |-> TRUE, values |-> values, messages |-> messages]

(***************************************************************************)
(* What an author may write.  Slot 0 is the unspecified one.               *)
(***************************************************************************)
Fields ==
  [name : STRING, number : Nat, shape : {"one", "repeated", "map"}, key : STRING,
   type : STRING, slots : Seq((0..42) \X Int)]

Messages ==
  [role : {"aggregate", "command", "event", "projection", "snapshot", "plain"},
   name : STRING, fields : Seq(Fields),
   lifecycle : {"UNSPECIFIED", "CREATION", "MUTATION"},
   produces : Seq(STRING), allowed : Seq(STRING), sets : STRING,
   collection : [target : STRING, action : {"none", "UNSPECIFIED", "ADD", "REMOVE"},
                 key : STRING],
   everyN : Nat, disabled : BOOLEAN, ttl : Int]

ProtoFiles ==
  [package : STRING, enabled : BOOLEAN, values : SUBSET STRING, messages : Seq(Messages)]

(* What protoc demands before any plugin runs. *)
Legal(f) ==
  LET Names == {f.messages[k].name : k \in DOMAIN f.messages} IN
  /\ f \in ProtoFiles
  /\ \A j, k \in DOMAIN f.messages : j # k => f.messages[j].name # f.messages[k].name
  /\ \A k \in DOMAIN f.messages :
       LET fields == f.messages[k].fields IN
       /\ \A i, j \in DOMAIN fields :
            i # j => fields[i].name # fields[j].name /\ fields[i].number # fields[j].number
       /\ \A i \in DOMAIN fields :
            fields[i].type \in Scalars \cup EnumTypes \cup Names

(***************************************************************************)
(* The files.                                                              *)
(***************************************************************************)
Draft == <<"STATE_DRAFT">>

OrderFile ==
  File("order",
    {"STATE_UNSPECIFIED", "STATE_DRAFT", "STATE_PLACED", "STATE_PAID", "STATE_SHIPPED",
     "STATE_DELIVERED", "STATE_CANCELLED"},
    <<Message("aggregate", "Order",
        Annotated(Shaped(Numbered(
          << <<"id", "string">>, <<"version", "int64">>, <<"state", "State">>,
             <<"customer_id", "string">>, <<"customer_name", "string">>,
             <<"create_at", "int64">>, <<"create_by", "string">>,
             <<"modify_at", "int64">>, <<"modify_by", "string">>,
             <<"total_cents", "int64">>, <<"item_count", "int32">>,
             <<"shipping_address", "string">>, <<"placed_at", "int64">>,
             <<"items", "LineItem">>, <<"tags", "Tag">>, <<"billing", "Billing">> >>),
          {"items", "tags"}, "map", "string"),
          [customer_id |-> << <<3, 1>> >>, create_at |-> << <<4, 0>> >>])),
      ListOf("OrderList", "Order"),
      Message("plain", "LineItem",
        Numbered(<< <<"item_id", "string">>, <<"description", "string">>,
                    <<"price_cents", "int64">>, <<"quantity", "int32">> >>)),
      Message("plain", "Tag", Numbered(<< <<"key", "string">>, <<"value", "string">> >>)),
      Message("plain", "Billing",
        Numbered(<< <<"method", "string">>, <<"reference", "string">> >>)),
      CommandOf("Create", "CREATION", <<"Created">>, <<>>,
        << <<"customer_id", "string">>, <<"customer_name", "string">> >>),
      CommandOf("AddItem", "MUTATION", <<"ItemAdded">>, Draft, << <<"item", "LineItem">> >>),
      CommandOf("RemoveItem", "MUTATION", <<"ItemRemoved">>, Draft,
        << <<"item_id", "string">> >>),
      CommandOf("AddTag", "MUTATION", <<"TagAdded">>, Draft, << <<"tag", "Tag">> >>),
      CommandOf("RemoveTag", "MUTATION", <<"TagRemoved">>, Draft, << <<"key", "string">> >>),
      CommandOf("SetShipping", "MUTATION", <<"ShippingSet">>, Draft,
        << <<"shipping_address", "string">> >>),
      CommandOf("SetBilling", "MUTATION", <<"BillingSet">>, <<>>,
        << <<"billing", "Billing">> >>),
      CommandOf("ClearBilling", "MUTATION", <<"BillingCleared">>, <<>>, <<>>),
      CommandOf("Place", "MUTATION", <<"Placed">>, Draft, << <<"placed_at", "int64">> >>),
      CommandOf("Cancel", "MUTATION", <<"Cancelled">>,
        <<"STATE_DRAFT", "STATE_PLACED", "STATE_PAID">>, << <<"reason", "string">> >>),
      EventOf("Created", "STATE_DRAFT", NoCollection,
        << <<"customer_id", "string">>, <<"customer_name", "string">> >>),
      EventOf("ItemAdded", "", Collection("items", "ADD", "item_id"),
        << <<"item", "LineItem">> >>),
      EventOf("ItemRemoved", "", Collection("items", "REMOVE", "item_id"),
        << <<"item_id", "string">> >>),
      EventOf("TagAdded", "", Collection("tags", "ADD", "key"), << <<"tag", "Tag">> >>),
      EventOf("TagRemoved", "", Collection("tags", "REMOVE", "key"),
        << <<"key", "string">> >>),
      EventOf("ShippingSet", "", NoCollection, << <<"shipping_address", "string">> >>),
      EventOf("BillingSet", "", NoCollection, << <<"billing", "Billing">> >>),
      EventOf("BillingCleared", "", NoCollection, << <<"billing", "Billing">> >>),
      EventOf("Placed", "STATE_PLACED", NoCollection, << <<"placed_at", "int64">> >>),
      EventOf("Cancelled", "STATE_CANCELLED", NoCollection, << <<"reason", "string">> >>),
      Message("projection", "OrderSummary",
        Annotated(Numbered(
          << <<"id", "string">>, <<"state", "State">>, <<"customer_id", "string">>,
             <<"customer_name", "string">>, <<"total_cents", "int64">>,
             <<"item_count", "int32">>, <<"placed_at", "int64">>,
             <<"create_at", "int64">> >>),
          [state |-> << <<5, 1>> >>, customer_id |-> << <<3, 1>> >>,
           placed_at |-> << <<6, 0>> >>, create_at |-> << <<4, 0>> >>])),
      SnapshotEvery(50, "Order")>>)

(* The two sample files: one with an index and snapshots, one without. *)
SampleMessages(slots) ==
  <<Message("aggregate", "Sample",
      Annotated(Numbered(
        << <<"id", "string">>, <<"version", "int64">>, <<"create_at", "int64">>,
           <<"create_by", "string">>, <<"modify_at", "int64">>, <<"modify_by", "string">>,
           <<"body", "string">> >>), slots)),
    ListOf("SampleList", "Sample"),
    CommandOf("Create", "CREATION", <<"Created">>, <<>>, << <<"body", "string">> >>),
    CommandOf("Update", "MUTATION", <<"Updated">>, <<>>, << <<"body", "string">> >>),
    EventOf("Created", "", NoCollection, << <<"body", "string">> >>),
    EventOf("Updated", "", NoCollection, << <<"body", "string">> >>)>>

SampleFile ==
  File("sample", {},
    SampleMessages([create_by |-> << <<3, 1>> >>, create_at |-> << <<4, 0>> >>])
      \o <<SnapshotEvery(50, "Sample")>>)

NoSnapshotFile == File("samplenosnapshot", {}, SampleMessages(<<>>))

(* Four indexes: two with the same partition key, one with composite keys; *)
(* a creation that emits two events; events that expire.                   *)
TestFile ==
  LET Looks == << <<"body", "string">>, <<"color", "string">>, <<"shape", "string">>,
                  <<"number", "string">>, <<"shading", "string">> >>
  IN
  File("test", {"STATE_UNSPECIFIED", "STATE_UNLOCKED", "STATE_LOCKED"},
    <<[Message("aggregate", "Test",
         Annotated(Numbered(
           << <<"id", "string">>, <<"version", "int64">>, <<"create_at", "int64">>,
              <<"create_by", "string">>, <<"modify_at", "int64">>,
              <<"modify_by", "string">>, <<"body", "string">>, <<"state", "State">>,
              <<"color", "string">>, <<"shape", "string">>, <<"number", "string">>,
              <<"shading", "string">> >>),
           [create_at |-> << <<10, 0>> >>, create_by |-> << <<8, 2>> >>,
            state |-> << <<9, 0>> >>, color |-> << <<3, 0>>, <<5, 0>> >>,
            shape |-> << <<4, 0>>, <<8, 1>> >>, number |-> << <<6, 0>>, <<7, 1>> >>,
            shading |-> << <<7, 2>> >>]))
         EXCEPT !.ttl = 86400],
      ListOf("TestList", "Test"),
      CommandOf("Create", "CREATION", <<"Created", "Unlocked">>, <<>>, Looks),
      CommandOf("Update", "MUTATION", <<"Updated">>, <<"STATE_UNLOCKED">>, Looks),
      CommandOf("Lock", "MUTATION", <<"Locked">>, <<"STATE_UNLOCKED">>, <<>>),
      CommandOf("Unlock", "MUTATION", <<"Unlocked">>, <<"STATE_LOCKED">>, <<>>),
      EventOf("Created", "", NoCollection, Looks),
      EventOf("Updated", "", NoCollection, Looks),
      EventOf("Locked", "STATE_LOCKED", NoCollection, <<>>),
      EventOf("Unlocked", "STATE_UNLOCKED", NoCollection, <<>>),
      SnapshotEvery(3, "Test")>>)

=============================================================================
