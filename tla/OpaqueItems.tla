---------------------------- MODULE OpaqueItems ----------------------------
(***************************************************************************)
(* Opaque data: how the views of an aggregate are kept in the aggregates   *)
(* table, whatever their type, and found again by key or through one of    *)
(* twenty indexes (gen/opaquedata and its adapters for DynamoDB and        *)
(* Cosmos).                                                                *)
(*                                                                         *)
(* The code's keys are strings, a type and field name followed by a value; *)
(* here they are records of the two.  The value of a sort key is a number  *)
(* in decimal, which the database compares as the string it is.  The keys  *)
(* of the indexes are a sequence that ends where those that are all "NA"   *)
(* begin.                                                                  *)
(*                                                                         *)
(* A table is a function from the primary keys that are taken to items.    *)
(***************************************************************************)
EXTENDS Naturals, Sequences, SequencesExt

Key(field, value) == [of |-> field, is |-> value]

(* The value is the sequence of the parts of an id, of a single name, or   *)
(* of the digits of a number.                                              *)
NA == Key("NA", <<>>)

Empty == Key("", <<>>)

(* %v of a natural number. *)
Decimal(n) ==
  LET after[k \in 0..n] == IF k < 10 THEN <<k>> ELSE Append(after[k \div 10], k % 10)
  IN  after[n]

SortKey(field, n) == Key(field, Decimal(n))

(***************************************************************************)
(* OpaqueData: a message with the keys it is found by.                     *)
(***************************************************************************)
GetTTL(ttl, now) == IF ttl = 0 THEN 0 ELSE now + ttl

(* The body is the message: marshalling and compression lose nothing. *)
NewOpaqueDataFromProto(keys, msg, ttl, now) ==
  [pk |-> keys.pk, sk |-> keys.sk, body |-> msg, t |-> GetTTL(ttl, now),
   gsi |-> keys.gsi]

ReHydrate(od) == od.body

(* The keys of the twenty indexes that are there. *)
HasPK(pair) == pair.pk \notin {NA, Empty}
HasSK(pair) == pair.sk \notin {NA, Empty}

gsiPairs(od) == od.gsi

(* GetItem of the DynamoDB adapter.  Attributes of an index are absent     *)
(* when there is nothing in them, except that a partition key always       *)
(* brings a sort key with it.                                              *)
GetItem(od) ==
  LET pairs == gsiPairs(od) IN
  [pk |-> od.pk, sk |-> od.sk, body |-> od.body, t |-> od.t,
   gsipk |-> [n \in {m \in DOMAIN pairs : HasPK(pairs[m])} |-> pairs[n].pk],
   gsisk |-> [n \in {m \in DOMAIN pairs : HasPK(pairs[m]) \/ HasSK(pairs[m])} |->
                IF HasSK(pairs[n]) THEN pairs[n].sk ELSE NA]]

gsiSlots(od) == od.gsi

(* The document of the Cosmos adapter: its id is the sort key, its ttl the *)
(* seconds that remain, at least one.                                      *)
marshalItem(od, now) ==
  LET slots == gsiSlots(od) IN
  [id |-> od.sk, pk |-> od.pk, sk |-> od.sk, body |-> od.body, t |-> od.t,
   ttl |-> IF od.t = 0 THEN 0 ELSE IF od.t - now < 1 THEN 1 ELSE od.t - now,
   gsipk |-> [n \in {m \in DOMAIN slots : HasPK(slots[m])} |-> slots[n].pk],
   gsisk |-> [n \in {m \in DOMAIN slots : HasPK(slots[m]) \/ HasSK(slots[m])} |->
                IF HasSK(slots[n]) THEN slots[n].sk ELSE NA]]

(* Reading an item back: absent attributes are empty. *)
unmarshalItem(item) ==
  [pk |-> item.pk, sk |-> item.sk, body |-> item.body, t |-> item.t,
   gsi |-> [n \in DOMAIN item.gsipk \cup DOMAIN item.gsisk |->
     [pk |-> IF n \in DOMAIN item.gsipk THEN item.gsipk[n] ELSE Empty,
      sk |-> IF n \in DOMAIN item.gsisk THEN item.gsisk[n] ELSE Empty]]]

(***************************************************************************)
(* The stores.                                                             *)
(***************************************************************************)
PutItem(table, item) ==
  [k \in DOMAIN table \cup {<<item.pk, item.sk>>} |->
     IF k = <<item.pk, item.sk>> THEN item ELSE table[k]]

DynamoPut(table, od) == PutItem(table, GetItem(od))

CosmosPut(table, od, now) == PutItem(table, marshalItem(od, now))

(* The item, if there is one. *)
DynamoGet(table, pk, sk) ==
  {unmarshalItem(table[k]) : k \in DOMAIN table \cap {<<pk, sk>>}}

CosmosGet(table, pk, sk) ==
  {unmarshalItem(table[k]) : k \in DOMAIN table \cap {<<pk, sk>>}}

(* Lexicographic order of two strings of digits. *)
DigitsLess(a, b) ==
  \/ IsStrictPrefix(a, b)
  \/ \E k \in DOMAIN a \cap DOMAIN b :
       a[k] < b[k] /\ SubSeq(a, 1, k - 1) = SubSeq(b, 1, k - 1)

(* "NA" sorts before the package name that begins every other key; keys of *)
(* different fields never meet in one partition of an index.               *)
KeyLess(a, b) ==
  IF a.of = b.of THEN DigitsLess(a.is, b.is) ELSE a.of = "NA"

Operators == {"eq", "lt", "le", "gt", "ge", "begins_with", "between"}

(* Mutant of Meets: "between" leaves its upper bound out. *)
MeetsHalfOpen(key, sort) ==
  CASE sort.op = "eq" -> key = sort.value
    [] sort.op = "lt" -> KeyLess(key, sort.value)
    [] sort.op = "le" -> ~KeyLess(sort.value, key)
    [] sort.op = "gt" -> KeyLess(sort.value, key)
    [] sort.op = "ge" -> ~KeyLess(key, sort.value)
    [] sort.op = "begins_with" ->
         key.of = sort.value.of /\ IsPrefix(sort.value.is, key.is)
    [] sort.op = "between" -> ~KeyLess(key, sort.value) /\ KeyLess(key, sort.value2)

(* What the database makes of a sort condition. *)
Meets(key, sort) ==
  CASE sort.op = "eq" -> key = sort.value
    [] sort.op = "lt" -> KeyLess(key, sort.value)
    [] sort.op = "le" -> ~KeyLess(sort.value, key)
    [] sort.op = "gt" -> KeyLess(sort.value, key)
    [] sort.op = "ge" -> ~KeyLess(key, sort.value)
    [] sort.op = "begins_with" ->
         key.of = sort.value.of /\ IsPrefix(sort.value.is, key.is)
    [] sort.op = "between" -> ~KeyLess(key, sort.value) /\ ~KeyLess(sort.value2, key)

NoCondition == [op |-> "none"]

Unexpired(item, now) == item.t = 0 \/ item.t > now

(* Items in the order of the index; those with equal keys in any order. *)
InOrder(items, n) ==
  CHOOSE s \in SetToSeqs(items) :
    \A j, k \in DOMAIN s : j < k => ~KeyLess(s[k].gsisk[n], s[j].gsisk[n])

(* DynamoDB lists an item in an index when it has both attributes. *)
DynamoQuery(table, n, pkValue, sort, now) ==
  LET Listed ==
        {item \in {table[k] : k \in DOMAIN table} :
           /\ n \in DOMAIN item.gsipk \cap DOMAIN item.gsisk
           /\ item.gsipk[n] = pkValue
           /\ sort.op # "none" => Meets(item.gsisk[n], sort)
           /\ Unexpired(item, now)}
  IN  [k \in DOMAIN InOrder(Listed, n) |-> unmarshalItem(InOrder(Listed, n)[k])]

(* Cosmos has no index of this kind: a query over all partitions, sorted   *)
(* by the client.                                                          *)
CosmosQuery(table, n, pkValue, sort, now) ==
  LET Found ==
        {item \in {table[k] : k \in DOMAIN table} :
           /\ n \in DOMAIN item.gsipk /\ item.gsipk[n] = pkValue
           /\ sort.op # "none" =>
                n \in DOMAIN item.gsisk /\ Meets(item.gsisk[n], sort)
           /\ Unexpired(item, now)}
  IN  [k \in DOMAIN InOrder(Found, n) |-> unmarshalItem(InOrder(Found, n)[k])]

(* The OpaqueStore a service is given. *)
StorePut(cloud, table, od, now) ==
  IF cloud = "dynamo" THEN DynamoPut(table, od) ELSE CosmosPut(table, od, now)

StoreGet(cloud, table, pk, sk) ==
  IF cloud = "dynamo" THEN DynamoGet(table, pk, sk) ELSE CosmosGet(table, pk, sk)

StoreQuery(cloud, table, n, pkValue, sort, now) ==
  IF cloud = "dynamo" THEN DynamoQuery(table, n, pkValue, sort, now)
  ELSE CosmosQuery(table, n, pkValue, sort, now)

=============================================================================
