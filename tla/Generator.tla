----------------------------- MODULE Generator -----------------------------
(***************************************************************************)
(* protoc-gen-protosource: what it refuses in a proto file, and what the   *)
(* code it writes for the others does (protosourceify.go and its           *)
(* templates).  A behaviour is an author's edits of one of the files       *)
(* followed by a run of the plugin.                                        *)
(*                                                                         *)
(* The wording of an error is left out: a check is a predicate.  So is     *)
(* whatever the templates write the same way for every file, and the       *)
(* command line tools.  No file nests annotated messages.                  *)
(***************************************************************************)
EXTENDS Protos, SequencesExt, Router

CONSTANTS
  Files,         \* the files an author may begin with
  Edits(_, _),   \* the files one edit of a file leads to, by edits before
  MaxEdits       \* bound on the edits

VARIABLES
  file,      \* the proto file
  edits,     \* the number of edits made
  plugin,    \* "idle", then "skipped", "failed" or "done"
  code       \* <<>>, or <<c>> for the generated code c

vars == <<file, edits, plugin, code>>

(***************************************************************************)
(* Types, as protoc-gen-star tells them: a repeated field has the type of  *)
(* its elements, a map that of a message; only a singular field is an      *)
(* embed or an enum.                                                       *)
(***************************************************************************)
ProtoKind(type) ==
  IF type \in Scalars THEN type ELSE IF type \in EnumTypes THEN "enum" ELSE "message"

ProtoType(f) == IF f.shape = "map" THEN "message" ELSE ProtoKind(f.type)

IsEmbed(f) == f.shape = "one" /\ ProtoKind(f.type) = "message"
IsEnum(f) == f.shape = "one" /\ ProtoKind(f.type) = "enum"

FieldNames(m) == {m.fields[k].name : k \in DOMAIN m.fields}

(* The field of this name, if there is one. *)
Lookup(m, name) == {g \in Range(m.fields) : g.name = name}

(***************************************************************************)
(* Roles and options.                                                      *)
(***************************************************************************)
OfRole(f, role) == {m \in Range(f.messages) : m.role = role}

Commands(f) == OfRole(f, "command")
Events(f) == OfRole(f, "event")

aggregateForFile(f) ==
  f.messages[Min({k \in DOMAIN f.messages : f.messages[k].role = "aggregate"})]

projectionsForFile(f) == OfRole(f, "projection")

(* Mutant of isCreationEvent: one creation that produces it is enough. *)
isCreationEventOfAny(name, f) ==
  \E c \in Commands(f) : name \in Range(c.produces) /\ c.lifecycle = "CREATION"

isCreationEvent(name, f) ==
  LET Producers == {c \in Commands(f) : name \in Range(c.produces)}
  IN  Producers # {} /\ \A c \in Producers : c.lifecycle = "CREATION"

snapshotEveryN(f) ==
  LET S == SelectSeq(f.messages, LAMBDA m : m.role = "snapshot")
  IN  IF S = <<>> \/ S[1].disabled THEN 0 ELSE S[1].everyN

eventTTLSeconds(f) == aggregateForFile(f).ttl

(***************************************************************************)
(* Checks of commands and events.                                          *)
(***************************************************************************)
Required(name, number, type) == [name |-> name, number |-> number, type |-> type]

commandFields == {Required("id", 1, "string"), Required("actor", 2, "string")}

eventFields ==
  {Required("id", 1, "string"), Required("version", 2, "int64"),
   Required("at", 3, "int64"), Required("actor", 4, "string")}

validateFields(m, required) ==
  \A r \in required : \E g \in Lookup(m, r.name) :
    g.number = r.number /\ ProtoType(g) = r.type

validateProducesEvents(cmd, f) ==
  /\ cmd.produces # <<>>
  /\ \A name \in Range(cmd.produces) : \E e \in Events(f) : e.name = name

validateAllowedStates(cmd, f) == Range(cmd.allowed) \subseteq f.values

validateSetsState(evt, f) == evt.sets # "" => evt.sets \in f.values

domainFields(evt) ==
  {g \in Range(evt.fields) : g.name \notin {"id", "version", "at", "actor"}}

(* The fields of an event that hold an element of the collection. *)
Elements(evt, target) == {g \in Range(evt.fields) : IsEmbed(g) /\ g.type = target.type}

validateCollectionMapping(evt, f) ==
  LET cm == evt.collection
      IsKey(m) == \E g \in Lookup(m, cm.key) : g.shape = "one" /\ g.type = "string"
  IN
  cm.action # "none" =>
    /\ cm.target # "" /\ cm.action # "UNSPECIFIED" /\ cm.key # ""
    /\ \E target \in Lookup(aggregateForFile(f), cm.target) :
         /\ target.shape = "map" /\ target.key = "string"
         /\ ProtoKind(target.type) = "message"
         /\ \E m \in Range(f.messages) : m.name = target.type /\ IsKey(m)
         /\ cm.action = "ADD" => Cardinality(Elements(evt, target)) = 1
    /\ cm.action = "REMOVE" => ~isCreationEvent(evt.name, f) /\ IsKey(evt)
    /\ Cardinality(domainFields(evt)) = 1

(* An embedded message must have the name it has on the aggregate.         *)
validateSingularEmbed(evt, f) ==
  LET Embeds == {g \in Range(aggregateForFile(f).fields) : IsEmbed(g)} IN
  evt.collection.action = "none" =>
    \A g \in Range(evt.fields) :
      IsEmbed(g) /\ (\E a \in Embeds : a.type = g.type) =>
        \E a \in Embeds : a.name = g.name

(***************************************************************************)
(* Checks of the file.                                                     *)
(***************************************************************************)
validateFileStructure(f) ==
  LET Creations == {c \in Commands(f) : c.lifecycle = "CREATION"}
      Others == UNION {Range(c.produces) : c \in Commands(f) \ Creations}
  IN
  /\ Cardinality(OfRole(f, "aggregate")) = 1
  /\ f.messages[1].role = "aggregate"
  /\ Cardinality(Creations) = 1
  /\ \A c \in Creations : \A k \in 2..Len(c.produces) : c.produces[k] \in Others
  /\ Cardinality(OfRole(f, "snapshot")) <= 1
  /\ \A m \in OfRole(f, "projection") : "id" \in FieldNames(m)

(* Equal types, but for the messages and enums of repeated fields and the  *)
(* enums of maps.                                                          *)
validateProjectionFields(proj, f) ==
  \A p \in Range(proj.fields) : \E a \in Lookup(aggregateForFile(f), p.name) :
    /\ p.shape = a.shape /\ ProtoType(p) = ProtoType(a)
    /\ p.shape = "map" =>
         /\ p.key = a.key /\ ProtoKind(p.type) = ProtoKind(a.type)
         /\ ProtoKind(p.type) = "message" => p.type = a.type
    /\ IsEmbed(p) \/ IsEnum(p) => p.type = a.type

validateAggregateList(f) ==
  LET agg == aggregateForFile(f) IN
  \E m \in Range(f.messages) :
    /\ m.name = agg.name \o "List"
    /\ Len(m.fields) = 1
    /\ LET items == m.fields[1] IN
       items.name = "items" /\ items.shape = "repeated" /\ items.number = 1
         /\ items.type = agg.name

(***************************************************************************)
(* Keys and indexes.  A key is the sequence of the fields annotated with   *)
(* its slot, in their order.                                               *)
(***************************************************************************)
AllSlots == 1..42
IndexPK(n) == 2 * n + 1
IndexSK(n) == 2 * n + 2

IsView(m) == m.role \in {"aggregate", "projection"}

hasOpaqueAnnotations(m) ==
  IsView(m) \/ \E k \in DOMAIN m.fields : m.fields[k].slots # <<>>

(* The annotations of a message with a slot, nth telling where they stand. *)
Annotations(m, slot) ==
  UNION {{[field |-> m.fields[k], order |-> m.fields[k].slots[j][2], nth |-> <<k, j>>] :
            j \in {i \in DOMAIN m.fields[k].slots : m.fields[k].slots[i][1] = slot}} :
         k \in DOMAIN m.fields}

(* In any order if their orders are equal: the sort is not a stable one.   *)
Mapping(m, slot) ==
  CHOOSE s \in SetToSeqs(Annotations(m, slot)) :
    \A j, k \in DOMAIN s : j < k => s[j].order <= s[k].order

UsedSlots(m) ==
  {s[1] : s \in UNION {Range(m.fields[k].slots) : k \in DOMAIN m.fields}} \cap AllSlots

opaqueKeyMappings(m) == [slot \in UsedSlots(m) |-> Mapping(m, slot)]

validateOpaqueAnnotations(m) ==
  LET mappings == opaqueKeyMappings(m) IN
  /\ IsView(m) => {1, 2} \cap UsedSlots(m) = {}
  /\ ~IsView(m) /\ UsedSlots(m) # {} => 1 \in UsedSlots(m)
  /\ \A slot \in UsedSlots(m) :
       \A k \in DOMAIN mappings[slot] :
         /\ mappings[slot][k].order >= IF Len(mappings[slot]) = 1 THEN 0 ELSE 1
         /\ k > 1 => mappings[slot][k - 1].order # mappings[slot][k].order
  /\ \A n \in 1..20 : IndexSK(n) \in UsedSlots(m) => IndexPK(n) \in UsedSlots(m)

opaqueReservedNames ==
  {"PK", "SK", "Hydrate"} \cup {"GSI" \o ToString(n) \o "PK" : n \in 1..20}
    \cup {"GSI" \o ToString(n) \o "SK" : n \in 1..20}

validateMessageNamesAgainstOpaque(f) ==
  \A k \in DOMAIN f.messages : f.messages[k].name \notin opaqueReservedNames

KeyFields(mapping) == [k \in DOMAIN mapping |-> mapping[k].field]

Keyed(m, slot) ==
  IF slot \in UsedSlots(m) THEN KeyFields(opaqueKeyMappings(m)[slot]) ELSE <<>>

NamesOf(fields) == [k \in DOMAIN fields |-> fields[k].name]

(* The indexes that have a partition key, by their numbers.  One whose     *)
(* partition key an earlier one has too is a duplicate.                    *)
opaqueUsedGSIs(m) ==
  LET Used == {n \in 1..20 : IndexPK(n) \in UsedSlots(m)} IN
  [n \in Used |->
     [pk |-> Keyed(m, IndexPK(n)), sk |-> Keyed(m, IndexSK(n)),
      dup |-> \E j \in Used : j < n /\ NamesOf(Keyed(m, IndexPK(j)))
                                        = NamesOf(Keyed(m, IndexPK(n)))]]

(***************************************************************************)
(* Names.  Lower, Dashed and Pascal are strings.ToLower, the same with     *)
(* dashes, and the Go name, of the names that occur.                       *)
(***************************************************************************)
Lower(name) ==
  [Create |-> "create", CREATE |-> "create", Update |-> "update", Lock |-> "lock",
   Unlock |-> "unlock", AddItem |-> "additem", RemoveItem |-> "removeitem",
   AddTag |-> "addtag", RemoveTag |-> "removetag", SetShipping |-> "setshipping",
   SetBilling |-> "setbilling", ClearBilling |-> "clearbilling", Place |-> "place",
   Cancel |-> "cancel", Load |-> "load", GSI1PK |-> "gsi1pk", Order |-> "order",
   OrderSummary |-> "ordersummary", Sample |-> "sample", Test |-> "test"][name]

Dashed(name) ==
  CASE name = "customer_id"   -> "customer-id"   [] name = "customer_name" -> "customer-name"
    [] name = "create_at"     -> "create-at"     [] name = "create_by"     -> "create-by"
    [] name = "modify_at"     -> "modify-at"     [] name = "modify_by"     -> "modify-by"
    [] name = "placed_at"     -> "placed-at"     [] name = "total_cents"   -> "total-cents"
    [] name = "item_count"    -> "item-count"
    [] name = "shipping_address" -> "shipping-address"
    [] OTHER -> name

Pascal(name) ==
  [id |-> "Id", version |-> "Version", state |-> "State", customer_id |-> "CustomerId",
   customer_name |-> "CustomerName", create_at |-> "CreateAt", create_by |-> "CreateBy",
   modify_at |-> "ModifyAt", modify_by |-> "ModifyBy", placed_at |-> "PlacedAt",
   shipping_address |-> "ShippingAddress", total_cents |-> "TotalCents",
   item_count |-> "ItemCount", items |-> "Items", tags |-> "Tags", billing |-> "Billing",
   body |-> "Body", color |-> "Color", shape |-> "Shape", number |-> "Number",
   shading |-> "Shading"][name]

Joined(parts, separator) ==
  FoldLeft(LAMBDA s, part : IF s = "" THEN part ELSE s \o separator \o part, "", parts)

queryRoutePath(fields) ==
  "by-" \o Joined([k \in DOMAIN fields |-> Dashed(fields[k].name)], "-and-")

(* Mutant of gsiQueryRoutePath: duplicates are not told apart. *)
gsiQueryRoutePathPlain(gsi) == queryRoutePath(gsi.pk)

gsiQueryRoutePath(gsi) ==
  queryRoutePath(gsi.pk) \o
    IF gsi.dup /\ gsi.sk # <<>>
    THEN "-with-" \o Joined([k \in DOMAIN gsi.sk |-> Dashed(gsi.sk[k].name)], "-and-")
    ELSE ""

GoNames(fields) == Joined([k \in DOMAIN fields |-> Pascal(fields[k].name)], "And")

QueryName(gsi) ==
  "QueryBy" \o GoNames(gsi.pk) \o
    IF gsi.dup /\ gsi.sk # <<>> THEN "With" \o GoNames(gsi.sk) ELSE ""

(***************************************************************************)
(* The templates.                                                          *)
(***************************************************************************)
routePrefix(f) == <<f.package>>

RegisterRoutes(f) ==
  LET cmds == SelectSeq(f.messages, LAMBDA m : m.role = "command")
      used == opaqueUsedGSIs(aggregateForFile(f))
      nums == SelectSeq([n \in 1..20 |-> n], LAMBDA n : n \in DOMAIN used)
  IN
  [k \in DOMAIN cmds |->
     Route("POST", routePrefix(f) \o <<Lower(cmds[k].name)>>, "Handle" \o cmds[k].name)]
  \o <<Route("GET", routePrefix(f) \o <<"load", Param>>, "HandleLoad"),
       Route("GET", routePrefix(f) \o <<Param>>, "HandleGet"),
       Route("GET", routePrefix(f) \o <<Param, "history">>, "HandleHistory")>>
  \o [k \in DOMAIN nums |->
        Route("GET", routePrefix(f) \o <<"query", gsiQueryRoutePath(used[nums[k]])>>,
              "Handle" \o QueryName(used[nums[k]]))]

(* What a case of the aggregate's On does: run setCreated or not, copy     *)
(* fields, or change a collection, and set the state.  In the case of a    *)
(* creation event the template knows no REMOVE.                            *)
OnCase(evt, f) ==
  LET agg    == aggregateForFile(f)
      cm     == evt.collection
      first  == isCreationEvent(evt.name, f)
      Target == Lookup(agg, cm.target)
      From   == IF cm.action = "ADD" THEN UNION {Elements(evt, t) : t \in Target}
                ELSE Lookup(evt, cm.key)
  IN
  [created |-> first,
   copies  |-> IF cm.action \in {"ADD", "REMOVE"} THEN {}
               ELSE (FieldNames(evt) \ {"id", "version", "at", "actor"})
                      \cap FieldNames(agg),
   changes |-> IF cm.action = "ADD" \/ (cm.action = "REMOVE" /\ ~first)
               THEN {[action |-> cm.action, target |-> cm.target, from |-> g.name,
                      key |-> cm.key] : g \in From}
               ELSE {},
   sets    |-> evt.sets]

(* The argument an event builder gets for a field.  "missing" is a getter  *)
(* that the command does not have.                                         *)
commandEventArg(g, cmd) ==
  IF g.name \in FieldNames(cmd) THEN "getter"
  ELSE IF g.shape # "one" \/ IsEmbed(g) THEN "nil" ELSE "missing"

EventArgs(evt, cmd) ==
  [name \in FieldNames(evt) \ {"id", "version", "at"} |->
     commandEventArg(CHOOSE g \in Lookup(evt, name) : TRUE, cmd)]

EventNamed(name, f) == CHOOSE e \in Events(f) : e.name = name

(* Mutant of CommandCode: a mutation is not kept from a new aggregate. *)
CommandCodeOnAny(cmd, f) ==
  [versions |-> IF cmd.lifecycle = "CREATION" THEN {"new"} ELSE {"new", "existing"},
   guarded  |-> cmd.allowed # <<>>,
   states   |-> Range(cmd.allowed),
   emits    |-> cmd.produces,
   args     |-> [k \in DOMAIN cmd.produces |-> EventArgs(EventNamed(cmd.produces[k], f), cmd)]]

CommandCode(cmd, f) ==
  [versions |-> CASE cmd.lifecycle = "CREATION" -> {"new"}
                  [] cmd.lifecycle = "MUTATION" -> {"existing"}
                  [] OTHER                      -> {"new", "existing"},
   guarded  |-> cmd.allowed # <<>>,
   states   |-> Range(cmd.allowed),
   emits    |-> cmd.produces,
   args     |-> [k \in DOMAIN cmd.produces |-> EventArgs(EventNamed(cmd.produces[k], f), cmd)]]

(* The methods PK, SK and GSI1PK to GSI20SK of a view. *)
ViewKeys(m, f) ==
  [pk  |-> <<Lower(aggregateForFile(f).name), "id">>,
   sk  |-> IF m.role = "aggregate" THEN <<"AGG">> ELSE <<"PROJ#", m.name>>,
   of  |-> Lower(m.name),
   gsi |-> [slot \in UsedSlots(m) \ {1, 2} |-> NamesOf(Keyed(m, slot))]]

projectionMatchingFields(proj, f) == FieldNames(proj) \cap FieldNames(aggregateForFile(f))

ByName(S, Of(_)) == [name \in {m.name : m \in S} |-> Of(CHOOSE m \in S : m.name = name)]

Generated(f) ==
  [of       |-> f,
   on       |-> ByName(Events(f), LAMBDA e : OnCase(e, f)),
   commands |-> ByName(Commands(f), LAMBDA c : CommandCode(c, f)),
   routes   |-> RegisterRoutes(f),
   queries  |-> opaqueUsedGSIs(aggregateForFile(f)),
   keys     |-> ByName({m \in Range(f.messages) : IsView(m)}, LAMBDA m : ViewKeys(m, f)),
   projects |-> ByName(projectionsForFile(f),
                       LAMBDA p : projectionMatchingFields(p, f)),
   interval |-> snapshotEveryN(f),
   ttl      |-> eventTTLSeconds(f)]

(***************************************************************************)
(* A run of the plugin.                                                    *)
(***************************************************************************)
Accepted(f) ==
  /\ validateFileStructure(f)
  /\ \A c \in Commands(f) :
       validateFields(c, commandFields) /\ validateProducesEvents(c, f)
         /\ validateAllowedStates(c, f)
  /\ \A e \in Events(f) :
       validateFields(e, eventFields) /\ validateSetsState(e, f)
         /\ validateCollectionMapping(e, f) /\ validateSingularEmbed(e, f)
  /\ \A m \in Range(f.messages) : hasOpaqueAnnotations(m) => validateOpaqueAnnotations(m)
  /\ \A p \in OfRole(f, "projection") : validateProjectionFields(p, f)
  /\ validateAggregateList(f)
  /\ validateMessageNamesAgainstOpaque(f)

(* queryParseExpr knows scalars and singular enums, and panics otherwise.  *)
queryParseExpr(g) == ProtoType(g) \in Scalars \/ IsEnum(g)

TemplatesRun(f) ==
  \A gsi \in Range(opaqueUsedGSIs(aggregateForFile(f))) :
    \A g \in Range(gsi.pk \o gsi.sk) : queryParseExpr(g)

generate ==
  /\ plugin = "idle"
  /\ \/ /\ ~file.enabled \/ file.messages = <<>>
        /\ plugin' = "skipped" /\ code' = <<>>
     \/ /\ file.enabled /\ file.messages # <<>>
        /\ IF Accepted(file) /\ TemplatesRun(file)
             THEN plugin' = "done" /\ code' = <<Generated(file)>>
             ELSE plugin' = "failed" /\ code' = <<>>
  /\ UNCHANGED <<file, edits>>

(* The author edits the file, which is not the generator's code.  protoc   *)
(* lets no other file through to the plugin than a legal one.              *)
Edit ==
  /\ plugin = "idle" /\ edits < MaxEdits
  /\ file' \in {f \in Edits(file, edits) : Legal(f)}
  /\ edits' = edits + 1
  /\ UNCHANGED <<plugin, code>>

Init == file \in {f \in Files : Legal(f)} /\ edits = 0 /\ plugin = "idle" /\ code = <<>>

Next == Edit \/ generate

Spec == Init /\ [][Next]_vars

-----------------------------------------------------------------------------
(***************************************************************************)
(* What the Go compiler accepts of the generated code, as far as it bears  *)
(* on the properties.                                                      *)
(***************************************************************************)
SameType(g, h) == g.shape = h.shape /\ g.key = h.key /\ g.type = h.type

HasField(m, name, type) ==
  \E g \in Lookup(m, name) : g.shape = "one" /\ g.type = type

Injective(s) == \A i, j \in DOMAIN s : i # j => s[i] # s[j]

(* Fields that templates name outright, and interfaces that need singular  *)
(* fields.                                                                 *)
FixedFieldsExist(f) ==
  LET agg == aggregateForFile(f) IN
  /\ HasField(agg, "id", "string") /\ HasField(agg, "version", "int64")
  /\ HasField(agg, "create_at", "int64") /\ HasField(agg, "create_by", "string")
  /\ HasField(agg, "modify_at", "int64") /\ HasField(agg, "modify_by", "string")
  /\ \A c \in Commands(f) : HasField(c, "id", "string") /\ HasField(c, "actor", "string")
  /\ \A e \in Events(f) : \A r \in eventFields : HasField(e, r.name, r.type)
  /\ \A p \in OfRole(f, "projection") : HasField(p, "id", "string")
  /\ (\E e \in Events(f) : e.sets # "") \/ (\E c \in Commands(f) : c.allowed # <<>>) =>
       HasField(agg, "state", "State")

(* The methods of snapshots are there with the annotation, the constant    *)
(* they use only with an interval.                                         *)
SnapshotsCompile(f) ==
  \A s \in OfRole(f, "snapshot") :
    /\ snapshotEveryN(f) > 0
    /\ s.name = "Snapshot" /\ HasField(s, "snapshot", aggregateForFile(f).name)
    /\ \A r \in eventFields : HasField(s, r.name, r.type)

AssignmentsCompile(c) ==
  LET agg == aggregateForFile(c.of) IN
  /\ \A e \in Events(c.of) : \A name \in c.on[e.name].copies :
       \A g \in Lookup(e, name), h \in Lookup(agg, name) : SameType(g, h)
  /\ \A p \in OfRole(c.of, "projection") : \A name \in c.projects[p.name] :
       \A g \in Lookup(p, name), h \in Lookup(agg, name) : SameType(g, h)
  /\ \A cmd \in Commands(c.of) : \A k \in DOMAIN cmd.produces :
       LET args == c.commands[cmd.name].args[k] IN
       \A name \in DOMAIN args :
         /\ args[name] # "missing"
         /\ args[name] = "getter" =>
              \A g \in Lookup(cmd, name), h \in Lookup(EventNamed(cmd.produces[k], c.of), name) :
                SameType(g, h)

NamesCompile(c) ==
  LET Keys(m) == [k \in DOMAIN opaqueUsedGSIs(m) |->
                    <<NamesOf(opaqueUsedGSIs(m)[k].pk), NamesOf(opaqueUsedGSIs(m)[k].sk)>>]
  IN
  /\ Injective([k \in DOMAIN c.routes |-> c.routes[k].handler])
  /\ \A m \in Range(c.of.messages) : IsView(m) => Injective(Keys(m))

Compiles(c) ==
  /\ FixedFieldsExist(c.of) /\ SnapshotsCompile(c.of)
  /\ AssignmentsCompile(c) /\ NamesCompile(c)

(***************************************************************************)
(* Properties.                                                             *)
(***************************************************************************)
(* A removal by a field that every event has: the checks look for a string *)
(* of the name of the key, and find that of the aggregate or the actor.    *)
KeyedByHeader(e) == e.collection.action = "REMOVE" /\ e.collection.key \in {"id", "actor"}

(* An event with a collection becomes the change it declares, of the one   *)
(* thing it tells; a removal by a header, and no other, of another thing.  *)
CollectionsChange(c) ==
  \A e \in Events(c.of) : e.collection.action # "none" =>
    \E change \in c.on[e.name].changes :
      /\ change.action = e.collection.action /\ change.target = e.collection.target
      /\ IF KeyedByHeader(e) THEN domainFields(e) \cap Lookup(e, change.from) = {}
         ELSE domainFields(e) = Lookup(e, change.from)

(* An embedded message that the aggregate could hold, it gets. *)
EmbedsLand(c) ==
  LET agg == aggregateForFile(c.of) IN
  \A e \in Events(c.of) : e.collection.action = "none" =>
    \A g \in Range(e.fields) :
      IsEmbed(g) /\ (\E a \in Range(agg.fields) : SameType(a, g)) =>
        g.name \in c.on[e.name].copies

(* setCreated runs for no event but the first of a stream, whatever        *)
(* commands the stream consists of.                                        *)
CreatedOnce(c) ==
  \A name \in DOMAIN c.commands :
    LET cmd == c.commands[name] IN
    \A k \in DOMAIN cmd.emits :
      c.on[cmd.emits[k]].created => k = 1 /\ cmd.versions = {"new"}

(* A request for a route reaches the handler of that route, except that    *)
(* commands whose names differ in case only share a path.                  *)
RoutesReached(c) ==
  \A k \in DOMAIN c.routes :
    LET route == c.routes[k]
        path  == [j \in DOMAIN route.segments |->
                    IF route.segments[j] = Param THEN "an id" ELSE route.segments[j]]
    IN  \/ Dispatch(c.routes, route.method, path).handler = route.handler
        \/ \E j \in 1..(k - 1) : c.routes[j].segments = route.segments
                                   /\ route.method = "POST"

(* Every annotation of a view that names a slot is part of a key that a    *)
(* query can use, and two fields of a key stand in a definite order.       *)
AnnotationsCount(c) ==
  \A m \in Range(c.of.messages) : IsView(m) =>
    LET gsi == c.keys[m.name].gsi IN
    /\ \A g \in Range(m.fields) : \A s \in Range(g.slots) : s[1] # 0 =>
         /\ s[1] \in DOMAIN gsi /\ g.name \in Range(gsi[s[1]])
         /\ \E n \in DOMAIN opaqueUsedGSIs(m) : s[1] \in {IndexPK(n), IndexSK(n)}
    /\ \A g, h \in Range(m.fields) : \A s \in Range(g.slots), t \in Range(h.slots) :
         g # h /\ s[1] = t[1] /\ s[1] # 0 => s[2] # t[2]

(* The views of an aggregate are different items of the table, each with   *)
(* all its fields.                                                         *)
ViewsComplete(c) ==
  /\ \A p \in OfRole(c.of, "projection") : c.projects[p.name] = FieldNames(p)
  /\ \A x, y \in DOMAIN c.keys : x # y => c.keys[x].sk # c.keys[y].sk

(* What the checks of the generator are there for: an event of a file it   *)
(* accepts takes its effect when it is replayed, a stream has one          *)
(* creation, each annotation of a view is part of a key, each view is      *)
(* complete and has a place of its own in the table.  They fall short in   *)
(* one case: an event that removes by a field named id or actor reads the  *)
(* header, and what it tells is read by nobody.                            *)
DeclarationsTakeEffect ==
  code # <<>> =>
    /\ CollectionsChange(code[1]) /\ EmbedsLand(code[1]) /\ CreatedOnce(code[1])
    /\ AnnotationsCount(code[1]) /\ ViewsComplete(code[1])

(* Each route of a file that the generator accepts leads to a handler of   *)
(* its own (gsiQueryRoutePath tells queries apart, RegisterRoutes orders   *)
(* them), whatever its snapshots are, unless two functions of the code     *)
(* have one name, which the compiler rejects.                              *)
RoutesFit == code # <<>> /\ NamesCompile(code[1]) => RoutesReached(code[1])

=============================================================================
