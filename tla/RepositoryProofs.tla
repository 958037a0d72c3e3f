-------------------------- MODULE RepositoryProofs --------------------------
(***************************************************************************)
(* Proofs about Repository, for every set of actors, items and commands,   *)
(* every snapshot interval and every combination of faults.  First what    *)
(* holds over any store; then what the conditional write of DynamoDBStore  *)
(* and CosmosDBStore adds: what was acknowledged stays, commands are       *)
(* decided on the current state, a tail replays like the whole stream, and *)
(* the pipeline implements EventStream.                                    *)
(*                                                                         *)
(* The operators of Order come first.  The one fact by induction is that   *)
(* ReplayedFrom is a left fold: it is done once, on sets of natural        *)
(* numbers.                                                                *)
(***************************************************************************)
EXTENDS Repository, SequenceTheorems, Induction

-----------------------------------------------------------------------------
(***************************************************************************)
(* ReplayedFrom is the left fold of OnData.                                *)
(***************************************************************************)
(* f gives the data after each of the first n records. *)
Folds(f, data, records, n) ==
  f = [i \in 0..n |-> IF i = 0 THEN data ELSE OnData(f[i - 1], records[i])]

LEMMA FoldExists ==
  ASSUME NEW data, NEW records, NEW n \in Nat
  PROVE  \E f : Folds(f, data, records, n)
<1> DEFINE T == {m \in Nat : \E f : Folds(f, data, records, m)}
<1>1. 0 \in T
  <2> DEFINE f == [i \in 0..0 |-> data]
  <2>1. Folds(f, data, records, 0)
    BY DEF Folds
  <2>. QED
    BY <2>1
<1>2. ASSUME NEW m \in T PROVE m + 1 \in T
  <2>1. PICK f : Folds(f, data, records, m)
    OBVIOUS
  <2> DEFINE g == [i \in 0..(m + 1) |->
                     IF i = m + 1 THEN OnData(f[m], records[m + 1]) ELSE f[i]]
  <2>2. Folds(g, data, records, m + 1)
    BY <2>1 DEF Folds
  <2>. QED
    BY <2>2
<1>3. T = Nat
  <2> HIDE DEF T
  <2>1. T \in SUBSET Nat
    BY DEF T
  <2>. QED
    BY <1>1, <1>2, <2>1, SetInduction
<1>. QED
  BY <1>3

(* Two folds agree as far as their records do. *)
LEMMA FoldUnique ==
  ASSUME NEW data, NEW r, NEW s, NEW f, NEW g, NEW m \in Nat, NEW n \in Nat, n <= m,
         Folds(f, data, r, n), Folds(g, data, s, m), \A i \in 1..n : r[i] = s[i]
  PROVE  \A i \in 0..n : f[i] = g[i]
<1> DEFINE T == {i \in Nat : i <= n => f[i] = g[i]}
<1>1. 0 \in T
  BY DEF Folds
<1>2. ASSUME NEW i \in T PROVE i + 1 \in T
  <2>1. SUFFICES ASSUME i + 1 <= n PROVE f[i + 1] = g[i + 1]
    OBVIOUS
  <2>2. f[i] = g[i] /\ r[i + 1] = s[i + 1]
    BY <2>1
  <2>3. f[i + 1] = OnData(f[i], r[i + 1]) /\ g[i + 1] = OnData(g[i], s[i + 1])
    BY <2>1 DEF Folds
  <2>. QED
    BY <2>2, <2>3
<1>3. T = Nat
  <2> HIDE DEF T
  <2>1. T \in SUBSET Nat
    BY DEF T
  <2>. QED
    BY <1>1, <1>2, <2>1, SetInduction
<1>. QED
  BY <1>3

LEMMA ReplayedFromFold ==
  ASSUME NEW data, NEW records, Len(records) \in Nat
  PROVE  \E f : /\ Folds(f, data, records, Len(records))
               /\ ReplayedFrom(data, records) = f[Len(records)]
<1> DEFINE n == Len(records)
           h == CHOOSE f : f = [i \in 0..n |-> IF i = 0 THEN data
                                              ELSE OnData(f[i - 1], records[i])]
<1>1. Folds(h, data, records, n)
  BY FoldExists DEF Folds
<1>2. ReplayedFrom(data, records) = h[n]
  BY DEF ReplayedFrom
<1>. QED
  BY <1>1, <1>2

LEMMA ReplayedFromEmpty ==
  ASSUME NEW data
  PROVE  ReplayedFrom(data, <<>>) = data
<1>1. Len(<<>>) = 0
  OBVIOUS
<1>2. PICK f : Folds(f, data, <<>>, 0) /\ ReplayedFrom(data, <<>>) = f[0]
  BY <1>1, ReplayedFromFold, Zenon
<1>. QED
  BY <1>2 DEF Folds

LEMMA ReplayedFromAppend ==
  ASSUME NEW data, NEW S, NEW records \in Seq(S), NEW e \in S
  PROVE  ReplayedFrom(data, Append(records, e)) = OnData(ReplayedFrom(data, records), e)
<1> DEFINE n == Len(records)
           more == Append(records, e)
<1>1. /\ n \in Nat /\ Len(records) = n
      /\ Len(more) = n + 1 /\ more[n + 1] = e
      /\ \A i \in 1..n : more[i] = records[i]
  OBVIOUS
<1> HIDE DEF n, more
<1>2. PICK f : Folds(f, data, records, n) /\ ReplayedFrom(data, records) = f[n]
  BY <1>1, ReplayedFromFold
<1>3. PICK g : Folds(g, data, more, n + 1) /\ ReplayedFrom(data, more) = g[n + 1]
  BY <1>1, ReplayedFromFold
<1>4. \A i \in 0..n : f[i] = g[i]
  BY <1>1, <1>2, <1>3, FoldUnique
<1>5. g[n + 1] = OnData(g[n], e)
  BY <1>1, <1>3 DEF Folds
<1>. QED
  BY <1>1, <1>2, <1>3, <1>4, <1>5 DEF more

LEMMA ReplayedFromConcatAppend ==
  ASSUME NEW data, NEW S, NEW first \in Seq(S), NEW second \in Seq(S), NEW e \in S,
         NEW mid, mid = ReplayedFrom(data, first),
         ReplayedFrom(data, first \o second) = ReplayedFrom(mid, second)
  PROVE  ReplayedFrom(data, first \o Append(second, e))
           = ReplayedFrom(mid, Append(second, e))
<1>1. PICK both : both = first \o second
  OBVIOUS
<1>2. both \in Seq(S) /\ first \o Append(second, e) = Append(both, e)
  BY <1>1
<1>3. ReplayedFrom(data, Append(both, e)) = OnData(ReplayedFrom(data, both), e)
  BY <1>2, ReplayedFromAppend
<1>4. ReplayedFrom(mid, Append(second, e)) = OnData(ReplayedFrom(mid, second), e)
  BY ReplayedFromAppend
<1>. QED
  BY <1>1, <1>2, <1>3, <1>4, Zenon

(* Replaying a longer history is replaying its second part on what its     *)
(* first part gives: the fold over a concatenation.                        *)
LEMMA ReplayedFromConcat ==
  ASSUME NEW data, NEW S, NEW first \in Seq(S), NEW second \in Seq(S),
         NEW mid, mid = ReplayedFrom(data, first)
  PROVE  ReplayedFrom(data, first \o second) = ReplayedFrom(mid, second)
<1> DEFINE Pre(k) == SubSeq(second, 1, k)
           Agree(k) == ReplayedFrom(data, first \o Pre(k)) = ReplayedFrom(mid, Pre(k))
           T == {k \in Nat : k <= Len(second) => Agree(k)}
<1>1. 0 \in T
  <2>1. Pre(0) = <<>> /\ first \o <<>> = first
    OBVIOUS
  <2>. QED
    BY <2>1, ReplayedFromEmpty
<1>2. ASSUME NEW k \in T PROVE k + 1 \in T
  <2>1. SUFFICES ASSUME k + 1 <= Len(second) PROVE Agree(k + 1)
    OBVIOUS
  <2>2. /\ second[k + 1] \in S /\ Pre(k) \in Seq(S)
        /\ Pre(k + 1) = Append(Pre(k), second[k + 1])
    BY <2>1
  <2>3. Agree(k)
    BY <2>1
  <2> HIDE DEF Pre
  <2>4. PICK p, e : p = Pre(k) /\ e = second[k + 1]
    OBVIOUS
  <2>5. e \in S /\ p \in Seq(S) /\ Pre(k + 1) = Append(p, e)
    BY <2>2, <2>4
  <2>6. ReplayedFrom(data, first \o p) = ReplayedFrom(mid, p)
    BY <2>3, <2>4
  <2>7. ReplayedFrom(data, first \o Append(p, e)) = ReplayedFrom(mid, Append(p, e))
    BY <2>5, <2>6, ReplayedFromConcatAppend
  <2>. QED
    BY <2>5, <2>7, Zenon
<1>3. T = Nat
  <2> HIDE DEF T
  <2>1. T \in SUBSET Nat
    BY DEF T
  <2>. QED
    BY <1>1, <1>2, <2>1, SetInduction
<1>4. Pre(Len(second)) = second /\ Len(second) \in Nat
  OBVIOUS
<1>5. Agree(Len(second))
  BY <1>3, <1>4
<1> HIDE DEF Pre
<1>. QED
  BY <1>4, <1>5, Zenon

-----------------------------------------------------------------------------
(***************************************************************************)
(* Types.                                                                  *)
(***************************************************************************)
LEMMA PutType ==
  ASSUME NEW K, NEW V, NEW k \in K, NEW v \in V,
         NEW m \in UNION {[S -> V] : S \in SUBSET K}
  PROVE  Put(m, k, v) \in UNION {[S -> V] : S \in SUBSET K}
<1>1. PICK S \in SUBSET K : m \in [S -> V]
  OBVIOUS
<1>2. Put(m, k, v) \in [S \cup {k} -> V]
  BY <1>1 DEF Put
<1>. QED
  BY <1>2

LEMMA DropType ==
  ASSUME NEW K, NEW V, NEW k, NEW m \in UNION {[S -> V] : S \in SUBSET K}
  PROVE  Drop(m, k) \in UNION {[S -> V] : S \in SUBSET K}
<1>1. PICK S \in SUBSET K : m \in [S -> V]
  OBVIOUS
<1>2. Drop(m, k) \in [S \ {k} -> V]
  BY <1>1 DEF Drop, Restrict
<1>. QED
  BY <1>2

LEMMA NewOrderType == NewOrder \in Aggregates /\ NewData \in Data
<1>1. EmptyMap \in [{} -> Cents] /\ EmptyMap \in [{} -> TagValues]
  BY DEF EmptyMap
<1>2. EmptyMap \in ItemMaps /\ EmptyMap \in TagMaps
  BY <1>1 DEF ItemMaps, TagMaps
<1>. QED
  BY <1>2 DEF NewOrder, NewData, Data, Aggregates, States, NoTotals

LEMMA AfterOnType ==
  ASSUME NEW data \in Data
  PROVE  AfterOn(data) \in Data
BY DEF AfterOn, Data

(* Every event leaves the order's fields in their types. *)
LEMMA OnDataType ==
  ASSUME NEW data \in Data, NEW e \in Event
  PROVE  OnData(data, e) \in Data
<1>1. CASE e.kind = "Snapshot"
  BY <1>1 DEF OnData, Event
<1>2. CASE e.kind # "Snapshot"
  <2>1. e.kind \in EventKinds /\ e.actor \in Actors /\ e.arg \in Payloads(e.kind)
    BY <1>2 DEF Event
  <2>2. SUFFICES Mutate(data, e) \in Data
    BY <1>2, <2>1 DEF OnData, Data
  <2>3. CASE e.kind = "ItemAdded"
    <3>1. ASSUME e.arg # Nil
          PROVE  Put(data.items, e.arg.id, e.arg.cents) \in ItemMaps
      <4>1. e.arg.id \in ItemIds /\ e.arg.cents \in Cents
        BY <2>1, <2>3, <3>1 DEF Payloads, LineItems
      <4>2. data.items \in ItemMaps
        BY DEF Data
      <4>. QED
        BY <4>1, <4>2, PutType DEF ItemMaps
    <3>. QED
      BY <2>3, <3>1 DEF Mutate, Data
  <2>4. CASE e.kind = "ItemRemoved"
    <3>1. Drop(data.items, e.arg) \in ItemMaps
      BY DropType DEF ItemMaps, Data
    <3>. QED
      BY <2>4, <3>1 DEF Mutate, Data
  <2>5. CASE e.kind = "TagAdded"
    <3>1. ASSUME e.arg # Nil
          PROVE  Put(data.tags, e.arg.key, e.arg.value) \in TagMaps
      <4>1. e.arg.key \in TagKeys /\ e.arg.value \in TagValues
        BY <2>1, <2>5, <3>1 DEF Payloads, Tags
      <4>2. data.tags \in TagMaps
        BY DEF Data
      <4>. QED
        BY <4>1, <4>2, PutType DEF TagMaps
    <3>. QED
      BY <2>5, <3>1 DEF Mutate, Data
  <2>6. CASE e.kind = "TagRemoved"
    <3>1. Drop(data.tags, e.arg) \in TagMaps
      BY DropType DEF TagMaps, Data
    <3>. QED
      BY <2>6, <3>1 DEF Mutate, Data
  <2>7. CASE e.kind = "Created"
    BY <2>1, <2>7 DEF Mutate, Data, States
  <2>8. CASE e.kind = "ShippingSet"
    BY <2>1, <2>8 DEF Mutate, Data, Payloads
  <2>9. CASE e.kind = "BillingSet"
    BY <2>1, <2>9 DEF Mutate, Data, Payloads
  <2>10. CASE e.kind = "BillingCleared"
    BY <2>1, <2>10 DEF Mutate, Data, Payloads
  <2>11. CASE e.kind \in {"Placed", "Cancelled"}
    BY <2>11 DEF Mutate, Data, States
  <2>. QED
    BY <2>1, <2>3, <2>4, <2>5, <2>6, <2>7, <2>8, <2>9, <2>10, <2>11 DEF EventKinds
<1>. QED
  BY <1>1, <1>2

LEMMA ReplayedFromType ==
  ASSUME NEW data \in Data, NEW records \in Seq(Event)
  PROVE  ReplayedFrom(data, records) \in Data
<1>1. Len(records) \in Nat /\ \A i \in 1..Len(records) : records[i] \in Event
  OBVIOUS
<1>2. PICK f : /\ Folds(f, data, records, Len(records))
               /\ ReplayedFrom(data, records) = f[Len(records)]
  BY <1>1, ReplayedFromFold
<1> DEFINE T == {i \in Nat : i <= Len(records) => f[i] \in Data}
<1>3. 0 \in T
  BY <1>1, <1>2 DEF Folds
<1>4. ASSUME NEW i \in T PROVE i + 1 \in T
  <2>1. SUFFICES ASSUME i + 1 <= Len(records) PROVE f[i + 1] \in Data
    OBVIOUS
  <2>2. f[i] \in Data /\ records[i + 1] \in Event
    BY <1>1, <2>1
  <2>3. f[i + 1] = OnData(f[i], records[i + 1])
    BY <1>1, <1>2, <2>1 DEF Folds
  <2>. QED
    BY <2>2, <2>3, OnDataType
<1>5. T = Nat
  <2> HIDE DEF T
  <2>1. T \in SUBSET Nat
    BY DEF T
  <2>. QED
    BY <1>3, <1>4, <2>1, SetInduction
<1>. QED
  BY <1>1, <1>2, <1>5

LEMMA ReplayType ==
  ASSUME NEW records \in Seq(Event)
  PROVE  /\ Replay(records) \in Aggregates
         /\ records # <<>> => Replay(records).version = records[Len(records)].version
<1>1. CASE records = <<>>
  BY <1>1, NewOrderType DEF Replay
<1>2. CASE records # <<>>
  <2>1. records[Len(records)] \in Event
    BY <1>2
  <2>2. AfterOn(ReplayedFrom(NewData, records)) \in Data
    BY NewOrderType, ReplayedFromType, AfterOnType
  <2>3. records[Len(records)].version \in Nat
    BY <2>1 DEF Event
  <2>. QED
    BY <1>2, <2>2, <2>3 DEF Replay, Aggregates
<1>. QED
  BY <1>1, <1>2

LEMMA OrderSummaryType ==
  ASSUME NEW order \in Aggregates
  PROVE  OrderSummary(order) \in Summaries
BY DEF OrderSummary, Summaries, Aggregates, Data

-----------------------------------------------------------------------------
(***************************************************************************)
(* What a command emits.                                                   *)
(***************************************************************************)
LEMMA AppendToOne ==
  ASSUME NEW x, NEW y
  PROVE  Append(<<x>>, y) = <<x, y>>
<1> DEFINE S == {x, y}
<1>1. <<x>> \in Seq(S) /\ <<x, y>> \in Seq(S) /\ y \in S
  OBVIOUS
<1>2. /\ Append(<<x>>, y) \in Seq(S) /\ Len(Append(<<x>>, y)) = 2
      /\ Append(<<x>>, y)[1] = x /\ Append(<<x>>, y)[2] = y
  BY <1>1
<1>3. Len(<<x, y>>) = 2 /\ <<x, y>>[1] = x /\ <<x, y>>[2] = y
  OBVIOUS
<1>4. \A i \in 1..2 : Append(<<x>>, y)[i] = <<x, y>>[i]
  BY <1>2, <1>3
<1> HIDE DEF S
<1>. QED
  BY <1>1, <1>2, <1>3, <1>4, SeqEqual

LEMMA PairIsSeq ==
  ASSUME NEW S, NEW x \in S, NEW y \in S
  PROVE  /\ <<x, y>> \in Seq(S) /\ Len(<<x, y>>) = 2
         /\ <<x, y>>[1] = x /\ <<x, y>>[2] = y
OBVIOUS

LEMMA EventType ==
  ASSUME NEW kind \in EventKinds, NEW version \in Nat, NEW actor \in Actors,
         NEW arg \in Payloads(kind)
  PROVE  [kind |-> kind, version |-> version, actor |-> actor, arg |-> arg] \in Event
BY DEF Event, EventKinds

LEMMA SnapshotType ==
  ASSUME NEW version \in Nat, NEW data \in Data
  PROVE  [kind |-> "Snapshot", version |-> version, actor |-> SnapshotActor,
          arg |-> data] \in Event
BY DEF Event

LEMMA CommandPayload ==
  ASSUME NEW command \in OrderCommands, ProtoValidate(command)
  PROVE  /\ Produces(command.name) \in EventKinds
         /\ command.arg \in Payloads(Produces(command.name))
<1>1. command.name \in CommandNames
  BY DEF OrderCommands
<1>2. Produces(command.name) \in EventKinds
  BY <1>1 DEF Produces, CommandNames, EventKinds
<1>. QED
  BY <1>2 DEF OrderCommands, ProtoValidate

(* The events of a command: its own, then a snapshot when its version is a *)
(* multiple of the interval; consecutive versions after the aggregate's.   *)
LEMMA EmitEventsShape ==
  ASSUME NEW command \in OrderCommands, ProtoValidate(command), NEW actor \in Actors,
         NEW order \in Aggregates, NEW emitted, emitted = EmitEvents(command, actor, order)
  PROVE  /\ emitted \in Seq(Event)
         /\ Len(emitted) = IF (order.version + 1) % SnapshotInterval = 0 THEN 2 ELSE 1
         /\ \A i \in 1..Len(emitted) : emitted[i].version = order.version + i
         /\ emitted[1].kind = Produces(command.name) /\ emitted[1].kind # "Snapshot"
         /\ emitted[1].actor = actor /\ emitted[1].arg = command.arg
         /\ Len(emitted) = 2 =>
              /\ emitted[2].kind = "Snapshot"
              /\ emitted[2].arg = AfterOn(OnData(order.data, emitted[1]))
<1> DEFINE e == [kind |-> Produces(command.name), version |-> order.version + 1,
                 actor |-> actor, arg |-> command.arg]
           b == [version |-> order.version + 1, data |-> OnData(order.data, e),
                 events |-> <<e>>]
           snapshot == [kind |-> "Snapshot", version |-> order.version + 1 + 1,
                        actor |-> SnapshotActor, arg |-> AfterOn(b.data)]
<1>1. order.version \in Nat /\ order.data \in Data
  BY DEF Aggregates
<1>2. e \in Event /\ e.kind # "Snapshot"
  <2>1. Produces(command.name) \in EventKinds /\ command.arg \in Payloads(Produces(command.name))
    BY CommandPayload
  <2>2. e \in Event
    BY <1>1, <2>1, EventType
  <2>. QED
    BY <2>1, <2>2 DEF EventKinds
<1>3. snapshot \in Event
  BY <1>1, <1>2, OnDataType, AfterOnType, SnapshotType
<1>4. BuildEvent(NewBuilder(order), Produces(command.name), actor, command.arg) = b
  BY DEF BuildEvent, NewBuilder
<1>5. emitted = IF (order.version + 1) % SnapshotInterval # 0 THEN <<e>>
               ELSE <<e, snapshot>>
  <2>1. emitted = BuildSnapshot(b).events
    BY <1>4 DEF EmitEvents
  <2>2. /\ b.version = order.version + 1 /\ b.data = OnData(order.data, e)
        /\ b.events = <<e>>
    OBVIOUS
  <2>3. snapshot = [kind |-> "Snapshot", version |-> b.version + 1,
                    actor |-> SnapshotActor, arg |-> AfterOn(b.data)]
    OBVIOUS
  <2> HIDE DEF b, e, snapshot
  <2>4. Append(<<e>>, snapshot) = <<e, snapshot>>
    BY AppendToOne
  <2>5. SnapshotOf(b, b.version + 1).events = <<e, snapshot>>
    BY <2>2, <2>3, <2>4 DEF SnapshotOf
  <2>. QED
    BY <2>1, <2>2, <2>5 DEF BuildSnapshot
<1> HIDE DEF b
<1>6. CASE (order.version + 1) % SnapshotInterval # 0
  BY <1>1, <1>2, <1>5, <1>6
<1>7. CASE (order.version + 1) % SnapshotInterval = 0
  <2>1. emitted = <<e, snapshot>>
    BY <1>5, <1>7
  <2>2. e.version = order.version + 1 /\ snapshot.version = order.version + 2
    BY <1>1
  <2>3. /\ e.kind = Produces(command.name) /\ e.actor = actor /\ e.arg = command.arg
        /\ snapshot.kind = "Snapshot" /\ snapshot.arg = AfterOn(OnData(order.data, e))
    BY DEF b
  <2> HIDE DEF e, snapshot
  <2>4. /\ emitted \in Seq(Event) /\ Len(emitted) = 2
        /\ emitted[1] = e /\ emitted[2] = snapshot
    BY <1>2, <1>3, <2>1, PairIsSeq
  <2>5. \A i \in 1..2 : emitted[i].version = order.version + i
    BY <1>1, <2>2, <2>4
  <2>. QED
    BY <1>2, <1>7, <2>3, <2>4, <2>5
<1>. QED
  BY <1>6, <1>7

-----------------------------------------------------------------------------

(* Under a keyed store a record's version is its position. *)
Positions == store # "memory" => VersionIsPosition

(* What a request in flight knows.  agg[c].version never exceeds the log:  *)
(* a load returns the last record's version, and the log never shrinks.    *)
RequestOK(c) ==
  /\ pc[c] # "idle" => cmd[c] \in Commands
  /\ pc[c] \in {"decide", "save"} /\ store # "memory" => agg[c].version <= Len(log)
  /\ pc[c] = "save" =>
       ProtoValidate(cmd[c]) /\ events[c] = EmitEvents(cmd[c], c, agg[c])
  /\ pc[c] \in {"materialize", "project"} => events[c] # <<>>

(* The inductive invariant behind TypeOK and VersionIsPosition. *)
LogInv == TypeOK /\ Positions /\ \A c \in Actors : RequestOK(c)

-----------------------------------------------------------------------------
(***************************************************************************)
(* The stores.                                                             *)
(***************************************************************************)
LEMMA LastRecordsType ==
  ASSUME NEW S, NEW l \in Seq(S), NEW n \in Nat \ {0}
  PROVE  /\ LastRecords(l, n) \in Seq(S)
         /\ (LastRecords(l, n) = <<>>) = (l = <<>>)
         /\ l # <<>> => LastRecords(l, n)[Len(LastRecords(l, n))] = l[Len(l)]
<1>1. CASE Len(l) <= n
  BY <1>1 DEF LastRecords
<1>2. CASE ~(Len(l) <= n)
  <2> DEFINE from == Len(l) - n + 1
             w == SubSeq(l, from, Len(l))
  <2>1. LastRecords(l, n) = w
    BY <1>2 DEF LastRecords
  <2>2. from \in 1..Len(l) /\ Len(l) \in Nat /\ n = Len(l) - from + 1
    BY <1>2
  <2>3. w \in Seq(S) /\ Len(w) = n /\ w[n] = l[Len(l)]
    BY <2>2
  <2>4. w # <<>> /\ l # <<>>
    <3>1. Len(w) # 0 /\ Len(l) # 0
      BY <2>2, <2>3
    <3>. QED
      BY <3>1
  <2>. QED
    BY <2>1, <2>3, <2>4
<1>. QED
  BY <1>1, <1>2

LEMMA LoadWindowType ==
  ASSUME log \in Seq(Event)
  PROVE  /\ LoadWindow(log) \in Seq(Event)
         /\ (LoadWindow(log) = <<>>) = (log = <<>>)
         /\ log # <<>> => LoadWindow(log)[Len(LoadWindow(log))] = log[Len(log)]
<1>1. CASE HasTail
  BY <1>1, LastRecordsType, IntervalAssumption DEF LoadWindow
<1>2. CASE ~HasTail
  BY <1>2 DEF LoadWindow
<1>. QED
  BY <1>1, <1>2

(* A load sees the version of the last record stored. *)
LEMMA LoadVersion ==
  ASSUME log \in Seq(Event), VersionIsPosition
  PROVE  Replay(LoadWindow(log)).version = Len(log)
<1>1. CASE log = <<>>
  BY <1>1, LoadWindowType DEF Replay, NewOrder
<1>2. CASE log # <<>>
  <2>1. Len(log) \in DOMAIN log
    BY <1>2
  <2>2. log[Len(log)].version = Len(log)
    BY <2>1 DEF VersionIsPosition
  <2>. QED
    BY <1>2, <2>2, LoadWindowType, ReplayType
<1>. QED
  BY <1>1, <1>2

(* BoltDBStore: replacing the records from a known version on.             *)
LEMMA OverlayType ==
  ASSUME NEW l \in Seq(Event), \A i \in 1..Len(l) : l[i].version = i,
         NEW r \in Seq(Event), r # <<>>, NEW v \in Nat, v <= Len(l),
         \A i \in 1..Len(r) : r[i].version = v + i
  PROVE  /\ Overlay(l, r) \in Seq(Event)
         /\ Len(l) <= Len(Overlay(l, r))
         /\ \A i \in 1..Len(Overlay(l, r)) : Overlay(l, r)[i].version = i
<1> DEFINE first == r[1].version
           last == first + Len(r) - 1
           n == IF last > Len(l) THEN last ELSE Len(l)
           o == [i \in 1..n |-> IF i \in first..last THEN r[i - first + 1] ELSE l[i]]
<1>1. Len(r) \in Nat /\ Len(r) >= 1 /\ Len(l) \in Nat
  OBVIOUS
<1>2. first = v + 1 /\ last = v + Len(r)
  BY <1>1
<1> HIDE DEF first, last
<1>3. n \in Nat /\ Len(l) <= n
  BY <1>1, <1>2
<1>4. ASSUME NEW i \in 1..n PROVE o[i] \in Event /\ o[i].version = i
  <2>1. CASE i \in first..last
    <3>1. i - first + 1 \in 1..Len(r) /\ v + (i - first + 1) = i
      BY <1>1, <1>2, <2>1
    <3>2. r[i - first + 1] \in Event /\ r[i - first + 1].version = i
      BY <3>1
    <3>. QED
      BY <2>1, <3>2
  <2>2. CASE i \notin first..last
    <3>1. i \in 1..Len(l)
      BY <1>1, <1>2, <2>2
    <3>. QED
      BY <2>2, <3>1
  <2>. QED
    BY <2>1, <2>2
<1>5. Overlay(l, r) = o
  BY DEF Overlay, first, last
<1> HIDE DEF n, o
<1>6. o \in Seq(Event) /\ Len(o) = n
  <2>1. o \in [1..n -> Event]
    BY <1>4 DEF o
  <2>2. o \in Seq(Event)
    BY <1>3, <2>1, SeqDef
  <2>3. DOMAIN o = 1..n /\ DOMAIN o = 1..Len(o) /\ Len(o) \in Nat
    BY <2>1, <2>2, LenProperties
  <2>. QED
    BY <1>3, <2>2, <2>3
<1>. QED
  BY <1>3, <1>4, <1>5, <1>6

(* DynamoDBStore, CosmosDBStore: a conditional batch whose versions follow *)
(* a known one is taken only at the end of the log.                        *)
LEMMA AcceptedExtends ==
  ASSUME NEW l \in Seq(Event), \A i \in 1..Len(l) : l[i].version = i,
         NEW r \in Seq(Event), r # <<>>, NEW v \in Nat, v <= Len(l),
         \A i \in 1..Len(r) : r[i].version = v + i,
         Versions(l) \cap Versions(r) = {}
  PROVE  /\ v = Len(l)
         /\ \A i \in 1..Len(l \o r) : (l \o r)[i].version = i
<1>1. Len(l) \in Nat /\ Len(r) \in Nat /\ Len(r) >= 1
  OBVIOUS
<1>2. v = Len(l)
  <2>1. SUFFICES ASSUME v + 1 <= Len(l) PROVE FALSE
    BY <1>1
  <2>2. r[1].version = v + 1 /\ l[v + 1].version = v + 1
    BY <1>1, <2>1
  <2>3. v + 1 \in Versions(l) /\ v + 1 \in Versions(r)
    BY <1>1, <2>1, <2>2 DEF Versions
  <2>. QED
    BY <2>3
<1>3. ASSUME NEW i \in 1..Len(l \o r) PROVE (l \o r)[i].version = i
  <2>1. CASE i <= Len(l)
    BY <1>1, <2>1
  <2>2. CASE i > Len(l)
    <3>1. i - Len(l) \in 1..Len(r) /\ (l \o r)[i] = r[i - Len(l)]
      BY <1>1, <2>2
    <3>2. r[i - Len(l)].version = v + (i - Len(l))
      BY <3>1
    <3>. QED
      BY <1>1, <1>2, <3>1, <3>2
  <2>. QED
    BY <1>1, <2>1, <2>2
<1>. QED
  BY <1>2, <1>3

(* The events a request is about to save. *)
LEMMA Emitted ==
  ASSUME TypeOK, NEW c \in Actors, RequestOK(c), pc[c] = "save"
  PROVE  /\ events[c] \in Seq(Event) /\ events[c] # <<>>
         /\ agg[c].version \in Nat
         /\ \A i \in 1..Len(events[c]) : events[c][i].version = agg[c].version + i
<1>1. /\ cmd[c] \in OrderCommands /\ agg[c] \in Aggregates
      /\ ProtoValidate(cmd[c]) /\ events[c] = EmitEvents(cmd[c], c, agg[c])
  BY RepositoryAssumption DEF TypeOK, RequestOK
<1>2. /\ events[c] \in Seq(Event)
      /\ Len(events[c]) = IF (agg[c].version + 1) % SnapshotInterval = 0 THEN 2 ELSE 1
      /\ \A i \in 1..Len(events[c]) : events[c][i].version = agg[c].version + i
  BY <1>1, EmitEventsShape
<1>3. events[c] # <<>>
  BY <1>2
<1>. QED
  BY <1>1, <1>2, <1>3 DEF Aggregates

(* What storing a batch does to the log, whichever the store. *)
LEMMA WrittenLog ==
  ASSUME LogInv, NEW c \in Actors, pc[c] = "save", Accepts(log, events[c])
  PROVE  /\ Written(log, events[c]) \in Seq(Event)
         /\ Len(log) <= Len(Written(log, events[c]))
         /\ store # "memory" =>
              \A i \in 1..Len(Written(log, events[c])) :
                Written(log, events[c])[i].version = i
         /\ store = "cloud" =>
              agg[c].version = Len(log) /\ Written(log, events[c]) = log \o events[c]
<1>1. /\ events[c] \in Seq(Event) /\ events[c] # <<>>
      /\ agg[c].version \in Nat /\ log \in Seq(Event)
      /\ \A i \in 1..Len(events[c]) : events[c][i].version = agg[c].version + i
  BY Emitted DEF LogInv, TypeOK
<1>2. store # "memory" =>
        /\ agg[c].version <= Len(log)
        /\ \A i \in 1..Len(log) : log[i].version = i
  BY <1>1 DEF LogInv, RequestOK, Positions, VersionIsPosition
<1>3. PICK r : r = events[c]
  OBVIOUS
<1>4. CASE store = "bolt"
  <2>1. Written(log, r) = Overlay(log, r)
    BY <1>4 DEF Written
  <2>2. /\ Overlay(log, r) \in Seq(Event)
        /\ Len(log) <= Len(Overlay(log, r))
        /\ \A i \in 1..Len(Overlay(log, r)) : Overlay(log, r)[i].version = i
    BY <1>1, <1>2, <1>3, <1>4, OverlayType
  <2>. QED
    BY <1>3, <1>4, <2>1, <2>2
<1>5. CASE store = "cloud"
  <2>1. Written(log, r) = log \o r
    BY <1>5 DEF Written
  <2>2. Versions(log) \cap Versions(r) = {}
    BY <1>3, <1>5 DEF Accepts
  <2>3. /\ agg[c].version = Len(log)
        /\ \A i \in 1..Len(log \o r) : (log \o r)[i].version = i
    BY <1>1, <1>2, <1>3, <1>5, <2>2, AcceptedExtends
  <2>4. log \o r \in Seq(Event) /\ Len(log) <= Len(log \o r)
    BY <1>1, <1>3
  <2>. QED
    BY <1>3, <2>1, <2>3, <2>4
<1>6. CASE store = "memory"
  <2>1. Written(log, r) = log \o r
    BY <1>6 DEF Written
  <2>2. log \o r \in Seq(Event) /\ Len(log) <= Len(log \o r)
    BY <1>1, <1>3
  <2>. QED
    BY <1>3, <1>6, <2>1, <2>2
<1>7. store \in {"memory", "bolt", "cloud"}
  BY RepositoryAssumption DEF LogInv, TypeOK
<1>. QED
  BY <1>4, <1>5, <1>6, <1>7

-----------------------------------------------------------------------------
(***************************************************************************)
(* LogInv is inductive.                                                    *)
(***************************************************************************)
LEMMA InitLogInv == Init => LogInv
<1>1. SUFFICES ASSUME Init PROVE LogInv
  OBVIOUS
<1>2. TypeOK
  BY <1>1, NewOrderType DEF Init, TypeOK, Stages
<1>3. Positions
  BY <1>1 DEF Init, Positions, VersionIsPosition
<1>4. ASSUME NEW c \in Actors PROVE RequestOK(c)
  BY <1>1 DEF Init, RequestOK
<1>. QED
  BY <1>2, <1>3, <1>4 DEF LogInv

(* A request that ends, however it ends, leaves the others alone. *)
LEMMA LeaveType ==
  ASSUME LogInv, NEW c \in Actors, Leave(c)
  PROVE  /\ pc' \in [Actors -> Stages] /\ pc'[c] = "idle"
         /\ cmd' \in [Actors -> Commands \cup {NoCommand}]
         /\ agg' \in [Actors -> Aggregates]
         /\ events' \in [Actors -> Seq(Event)]
         /\ \A d \in Actors \ {c} : /\ pc'[d] = pc[d] /\ cmd'[d] = cmd[d]
                                    /\ agg'[d] = agg[d] /\ events'[d] = events[d]
<1>1. <<>> \in Seq(Event)
  OBVIOUS
<1>. QED
  BY <1>1, NewOrderType DEF LogInv, TypeOK, Leave, Stages

(* A request is not disturbed by others as long as the log does not shrink. *)
LEMMA OthersOK ==
  ASSUME NEW d \in Actors, RequestOK(d), store' = store,
         log \in Seq(Event), log' \in Seq(Event), Len(log) <= Len(log'),
         agg[d].version \in Nat,
         pc'[d] = pc[d], cmd'[d] = cmd[d], agg'[d] = agg[d], events'[d] = events[d]
  PROVE  RequestOK(d)'
<1>1. Len(log) \in Nat /\ Len(log') \in Nat
  OBVIOUS
<1>2. agg[d].version <= Len(log) => agg[d].version <= Len(log')
  BY <1>1
<1>. QED
  BY <1>2 DEF RequestOK

(* A request that leaves the log alone ends. *)
LEMMA EndOfRequest ==
  ASSUME LogInv, NEW c \in Actors, Leave(c), UNCHANGED store,
         log' \in Seq(Event), Len(log) <= Len(log'),
         Positions', view' \in Aggregates \cup {Nil},
         summary' \in Summaries \cup {Nil}, acked' \in SUBSET Event
  PROVE  LogInv'
<1>1. TypeOK'
  BY LeaveType DEF LogInv, TypeOK
<1>2. ASSUME NEW d \in Actors PROVE RequestOK(d)'
  <2>1. CASE d = c
    BY <2>1, LeaveType DEF RequestOK
  <2>2. CASE d # c
    <3>1. agg[d].version \in Nat
      BY DEF LogInv, TypeOK, Aggregates
    <3>. QED
      BY <2>2, <3>1, LeaveType, OthersOK DEF LogInv, TypeOK
  <2>. QED
    BY <2>1, <2>2
<1>. QED
  BY <1>1, <1>2 DEF LogInv

LEMMA LoadLogInv ==
  ASSUME LogInv, NEW c \in Actors, NEW command \in Commands, Load(c, command)
  PROVE  LogInv'
<1>1. /\ log \in Seq(Event) /\ agg \in [Actors -> Aggregates]
      /\ pc \in [Actors -> Stages] /\ cmd \in [Actors -> Commands \cup {NoCommand}]
      /\ log' = log /\ store' = store
  BY DEF LogInv, TypeOK, Load
<1>2. PICK loaded \in {Replay(LoadWindow(log)), NewOrder} :
        agg' = [agg EXCEPT ![c] = loaded]
  BY DEF Load
<1>3. loaded \in Aggregates /\ (store # "memory" => loaded.version <= Len(log))
  <2>1. Len(log) \in Nat
    BY <1>1
  <2>2. CASE loaded = NewOrder
    BY <2>1, <2>2, NewOrderType DEF NewOrder
  <2>3. CASE loaded = Replay(LoadWindow(log))
    <3>1. loaded \in Aggregates
      BY <1>1, <2>3, LoadWindowType, ReplayType
    <3>2. VersionIsPosition => loaded.version = Len(log)
      BY <1>1, <2>3, LoadVersion
    <3>. QED
      BY <2>1, <3>1, <3>2 DEF LogInv, Positions
  <2>. QED
    BY <1>2, <2>2, <2>3
<1>4. TypeOK'
  BY <1>1, <1>2, <1>3 DEF LogInv, TypeOK, Load, Stages
<1>5. Positions'
  BY <1>1 DEF LogInv, Positions, VersionIsPosition
<1>6. ASSUME NEW d \in Actors PROVE RequestOK(d)'
  <2>1. CASE d = c
    BY <1>1, <1>2, <1>3, <2>1 DEF RequestOK, Load
  <2>2. CASE d # c
    <3>1. /\ pc'[d] = pc[d] /\ cmd'[d] = cmd[d] /\ agg'[d] = agg[d]
          /\ events'[d] = events[d] /\ agg[d].version \in Nat
      BY <1>1, <2>2 DEF Load, Aggregates
    <3>2. Len(log) <= Len(log')
      BY <1>1
    <3>. QED
      BY <1>1, <3>1, <3>2, OthersOK DEF LogInv
  <2>. QED
    BY <2>1, <2>2
<1>. QED
  BY <1>4, <1>5, <1>6 DEF LogInv

LEMMA EmitLogInv ==
  ASSUME LogInv, NEW c \in Actors, Emit(c)
  PROVE  LogInv'
<1>1. /\ log \in Seq(Event) /\ agg \in [Actors -> Aggregates]
      /\ pc \in [Actors -> Stages] /\ cmd \in [Actors -> Commands \cup {NoCommand}]
      /\ events \in [Actors -> Seq(Event)]
      /\ log' = log /\ store' = store /\ cmd' = cmd /\ agg' = agg
  BY DEF LogInv, TypeOK, Emit
<1>2. PICK emitted : /\ emitted = EmitEvents(cmd[c], c, agg[c])
                     /\ events' = [events EXCEPT ![c] = emitted]
  BY DEF Emit
<1>3. cmd[c] \in OrderCommands /\ ProtoValidate(cmd[c])
  BY RepositoryAssumption DEF LogInv, RequestOK, Emit, Admissible
<1>4. emitted \in Seq(Event)
  BY <1>1, <1>2, <1>3, EmitEventsShape
<1>5. TypeOK'
  BY <1>1, <1>2, <1>4 DEF LogInv, TypeOK, Emit, Stages
<1>6. Positions'
  BY <1>1 DEF LogInv, Positions, VersionIsPosition
<1>7. ASSUME NEW d \in Actors PROVE RequestOK(d)'
  <2>1. CASE d = c
    <3>1. RequestOK(c) /\ pc[c] = "decide" /\ pc'[c] = "save"
      BY <1>1 DEF LogInv, Emit
    <3>. QED
      BY <1>1, <1>2, <1>3, <2>1, <3>1 DEF RequestOK
  <2>2. CASE d # c
    <3>1. /\ pc'[d] = pc[d] /\ events'[d] = events[d] /\ agg[d].version \in Nat
      BY <1>1, <1>2, <2>2 DEF Emit, Aggregates
    <3>2. Len(log) <= Len(log')
      BY <1>1
    <3>. QED
      BY <1>1, <3>1, <3>2, OthersOK DEF LogInv
  <2>. QED
    BY <2>1, <2>2
<1>. QED
  BY <1>5, <1>6, <1>7 DEF LogInv

(* The events a request saved are known to the type invariant. *)
LEMMA SavedType ==
  ASSUME LogInv, NEW c \in Actors
  PROVE  acked \cup {events[c][i] : i \in DOMAIN events[c]} \in SUBSET Event
<1>1. events[c] \in Seq(Event) /\ acked \in SUBSET Event
  BY DEF LogInv, TypeOK
<1>2. ASSUME NEW i \in DOMAIN events[c] PROVE events[c][i] \in Event
  BY <1>1
<1>. QED
  BY <1>1, <1>2

LEMMA StoredLogInv ==
  ASSUME LogInv, NEW c \in Actors, pc[c] = "save", Accepts(log, events[c]),
         log' = Written(log, events[c]), UNCHANGED store
  PROVE  log' \in Seq(Event) /\ Len(log) <= Len(log') /\ Positions'
<1>1. /\ log' \in Seq(Event) /\ Len(log) <= Len(log')
      /\ store # "memory" => \A i \in 1..Len(log') : log'[i].version = i
  BY WrittenLog
<1>2. DOMAIN log' = 1..Len(log')
  BY <1>1
<1>. QED
  BY <1>1, <1>2 DEF Positions, VersionIsPosition

LEMMA SaveLogInv ==
  ASSUME LogInv, NEW c \in Actors, Save(c)
  PROVE  LogInv'
<1>1. log' \in Seq(Event) /\ Len(log) <= Len(log') /\ Positions' /\ store' = store
  BY StoredLogInv DEF Save
<1>2. CASE HasViews
  <2>1. /\ pc' = [pc EXCEPT ![c] = "materialize"] /\ pc[c] = "save"
        /\ UNCHANGED <<cmd, agg, events, acked, view, summary>>
    BY <1>2 DEF Save
  <2>2. TypeOK'
    BY <1>1, <2>1 DEF LogInv, TypeOK, Stages
  <2>3. ASSUME NEW d \in Actors PROVE RequestOK(d)'
    <3>1. RequestOK(d) /\ agg[d].version \in Nat /\ pc \in [Actors -> Stages]
          /\ log \in Seq(Event)
      BY DEF LogInv, TypeOK, Aggregates
    <3>2. CASE d = c
      <4>1. events[c] # <<>>
        BY <2>1, Emitted DEF LogInv
      <4>. QED
        BY <2>1, <3>1, <3>2, <4>1 DEF RequestOK
    <3>3. CASE d # c
      BY <1>1, <2>1, <3>1, <3>3, OthersOK
    <3>. QED
      BY <3>2, <3>3
  <2>. QED
    BY <1>1, <2>2, <2>3 DEF LogInv
<1>3. CASE ~HasViews
  <2>1. Leave(c) /\ acked' \in SUBSET Event
    BY <1>3, SavedType DEF Save, Acknowledge
  <2>2. view' \in Aggregates \cup {Nil} /\ summary' \in Summaries \cup {Nil}
    BY DEF Save, LogInv, TypeOK
  <2>. QED
    BY <1>1, <2>1, <2>2, EndOfRequest
<1>. QED
  BY <1>2, <1>3

LEMMA MaterializeLogInv ==
  ASSUME LogInv, NEW c \in Actors, Materialize(c)
  PROVE  LogInv'
<1>1. /\ events[c] \in Seq(Event) /\ events[c] # <<>>
      /\ agg[c] \in Aggregates /\ pc \in [Actors -> Stages]
      /\ agg \in [Actors -> Aggregates] /\ log \in Seq(Event)
      /\ log' = log /\ store' = store /\ cmd' = cmd /\ events' = events
  BY DEF LogInv, TypeOK, RequestOK, Materialize
<1>2. PICK current :
        /\ current = [version |-> events[c][Len(events[c])].version,
                      data    |-> AfterOn(ReplayedFrom(agg[c].data, events[c]))]
        /\ agg' = [agg EXCEPT ![c] = current]
        /\ view' = current \/ view' = view
  BY DEF Materialize
<1>3. current \in Aggregates
  <2>1. events[c][Len(events[c])] \in Event
    BY <1>1
  <2>2. agg[c].data \in Data
    BY <1>1 DEF Aggregates
  <2>3. AfterOn(ReplayedFrom(agg[c].data, events[c])) \in Data
    BY <1>1, <2>2, ReplayedFromType, AfterOnType
  <2>4. events[c][Len(events[c])].version \in Nat
    BY <2>1 DEF Event
  <2>. QED
    BY <1>2, <2>3, <2>4 DEF Aggregates
<1>4. TypeOK'
  BY <1>1, <1>2, <1>3 DEF LogInv, TypeOK, Materialize, Stages
<1>5. Positions'
  BY <1>1 DEF LogInv, Positions, VersionIsPosition
<1>6. ASSUME NEW d \in Actors PROVE RequestOK(d)'
  <2>1. CASE d = c
    <3>1. RequestOK(c) /\ pc[c] = "materialize" /\ pc'[c] = "project"
      BY <1>1 DEF LogInv, Materialize
    <3>. QED
      BY <1>1, <2>1, <3>1 DEF RequestOK
  <2>2. CASE d # c
    <3>1. /\ pc'[d] = pc[d] /\ agg'[d] = agg[d] /\ agg[d].version \in Nat
      BY <1>1, <1>2, <2>2 DEF Materialize, Aggregates
    <3>2. Len(log) <= Len(log')
      BY <1>1
    <3>. QED
      BY <1>1, <3>1, <3>2, OthersOK DEF LogInv
  <2>. QED
    BY <2>1, <2>2
<1>. QED
  BY <1>4, <1>5, <1>6 DEF LogInv

LEMMA ProjectLogInv ==
  ASSUME LogInv, NEW c \in Actors, Project(c)
  PROVE  LogInv'
<1>1. Leave(c) /\ acked' \in SUBSET Event
  BY SavedType DEF Project, Acknowledge
<1>2. summary' \in Summaries \cup {Nil}
  BY OrderSummaryType DEF Project, LogInv, TypeOK
<1>3. /\ UNCHANGED <<store, log, view>> /\ view \in Aggregates \cup {Nil}
      /\ log \in Seq(Event) /\ Positions
  BY DEF Project, LogInv, TypeOK
<1>4. Len(log) <= Len(log') /\ Positions'
  BY <1>3 DEF Positions, VersionIsPosition
<1>. QED
  BY <1>1, <1>2, <1>3, <1>4, EndOfRequest

(* Decline, SaveFails, SaveReplyLost and Crash end the request. *)
LEMMA AbandonLogInv ==
  ASSUME LogInv, NEW c \in Actors, Leave(c), UNCHANGED <<store, view, summary, acked>>,
         \/ UNCHANGED log
         \/ pc[c] = "save" /\ Accepts(log, events[c]) /\ log' = Written(log, events[c])
  PROVE  LogInv'
<1>1. log' \in Seq(Event) /\ Len(log) <= Len(log') /\ Positions'
  <2>1. CASE UNCHANGED log
    BY <2>1 DEF LogInv, TypeOK, Positions, VersionIsPosition
  <2>2. CASE pc[c] = "save" /\ Accepts(log, events[c]) /\ log' = Written(log, events[c])
    BY <2>2, StoredLogInv
  <2>. QED
    BY <2>1, <2>2
<1>2. /\ view' \in Aggregates \cup {Nil} /\ summary' \in Summaries \cup {Nil}
      /\ acked' \in SUBSET Event
  BY DEF LogInv, TypeOK
<1>. QED
  BY <1>1, <1>2, EndOfRequest

LEMMA StepLogInv == LogInv /\ [Next]_vars => LogInv'
<1>1. SUFFICES ASSUME LogInv, [Next]_vars PROVE LogInv'
  OBVIOUS
<1>2. CASE Next
  <2>1. PICK c \in Actors :
          \/ \E command \in Commands : Load(c, command)
          \/ Continue(c)
          \/ Crash(c)
    BY <1>2 DEF Next
  <2>2. CASE \E command \in Commands : Load(c, command)
    BY <1>1, <2>2, LoadLogInv
  <2>3. CASE Decline(c)
    BY <1>1, <2>3, AbandonLogInv DEF Decline
  <2>4. CASE Emit(c)
    BY <1>1, <2>4, EmitLogInv
  <2>5. CASE Save(c)
    BY <1>1, <2>5, SaveLogInv
  <2>6. CASE SaveFails(c)
    BY <1>1, <2>6, AbandonLogInv DEF SaveFails
  <2>7. CASE SaveReplyLost(c)
    BY <1>1, <2>7, AbandonLogInv DEF SaveReplyLost
  <2>8. CASE Materialize(c)
    BY <1>1, <2>8, MaterializeLogInv
  <2>9. CASE Project(c)
    BY <1>1, <2>9, ProjectLogInv
  <2>10. CASE Crash(c)
    BY <1>1, <2>10, AbandonLogInv DEF Crash
  <2>. QED
    BY <2>1, <2>2, <2>3, <2>4, <2>5, <2>6, <2>7, <2>8, <2>9, <2>10 DEF Continue
<1>3. CASE UNCHANGED vars
  BY <1>1, <1>3 DEF vars, request, LogInv, TypeOK, Positions, VersionIsPosition, RequestOK
<1>. QED
  BY <1>1, <1>2, <1>3

(* LogInv holds throughout every behaviour of Repository. *)
THEOREM LogInvariant == Spec => []LogInv
BY InitLogInv, StepLogInv, PTL DEF Spec

(* Type correctness: whatever the store, the interleaving and the faults,  *)
(* log, views and requests hold orders and events of the declared types.   *)
THEOREM TypeCorrect == Spec => []TypeOK
<1>1. LogInv => TypeOK
  BY DEF LogInv
<1>. QED
  BY <1>1, LogInvariant, PTL

(* Under a keyed store (bbolt, DynamoDB, Cosmos DB) a record's version is  *)
(* its position in the event stream.  (MemoryStore appends what it gets.)  *)
THEOREM PositionCorrect == "memory" \notin StoreKinds => (Spec => []VersionIsPosition)
<1>1. SUFFICES ASSUME "memory" \notin StoreKinds PROVE Spec => []VersionIsPosition
  OBVIOUS
<1>2. LogInv => VersionIsPosition
  BY <1>1 DEF LogInv, TypeOK, Positions
<1>. QED
  BY <1>2, LogInvariant, PTL

-----------------------------------------------------------------------------
(***************************************************************************)
(* What Repository guarantees over DynamoDBStore or CosmosDBStore, whose   *)
(* conditional writes are its optimistic concurrency control: requests     *)
(* take effect one at a time, each on the current state of the order.      *)
(***************************************************************************)

(* A request decides on the order as it stood at the version it loaded, or *)
(* (when the load failed) at version 0; later records do not matter.       *)
DecidedOnPrefix(c) ==
  pc[c] \in {"decide", "save"} =>
    agg[c] = Replay(LoadWindow(SubSeq(log, 1, agg[c].version)))

Decided(c) ==
  pc[c] = "save" =>
    Admissible(cmd[c], agg[c]) /\ ~EvaluateSkips(cmd[c], agg[c].data)

Stored(e) == \E i \in DOMAIN log : log[i] = e

SavedAreStored(c) ==
  pc[c] \in {"materialize", "project"} =>
    \A i \in DOMAIN events[c] : Stored(events[c][i])

(* A snapshot that is due has been taken: it was in the same batch. *)
SnapshotTaken ==
  log # <<>> /\ Len(log) % SnapshotInterval = 0 => log[Len(log)].kind = "Snapshot"

CloudInv ==
  store = "cloud" =>
    /\ \A c \in Actors : DecidedOnPrefix(c) /\ Decided(c) /\ SavedAreStored(c)
    /\ AckedDurable
    /\ SnapshotOnSchedule /\ SnapshotTaken

-----------------------------------------------------------------------------
(* How the log changes: not at all, or one request appends its events to   *)
(* the log it decided on.                                                  *)
Appends(c) ==
  /\ pc[c] = "save"
  /\ agg[c].version = Len(log)
  /\ log' = log \o events[c]

LEMMA StoreAppends ==
  ASSUME LogInv, store = "cloud", NEW c \in Actors, Save(c) \/ SaveReplyLost(c)
  PROVE  Appends(c)
BY WrittenLog DEF Save, SaveReplyLost, Appends

LEMMA LogChanges ==
  ASSUME LogInv, store = "cloud", [Next]_vars
  PROVE  log' = log \/ \E c \in Actors : Appends(c)
<1>1. ASSUME NEW c \in Actors, Continue(c) PROVE log' = log \/ Appends(c)
  BY <1>1, StoreAppends
     DEF Continue, Decline, Emit, SaveFails, Materialize, Project
<1>. QED
  BY <1>1 DEF Next, Load, Crash, vars

LEMMA AppendedLog ==
  ASSUME LogInv, NEW c \in Actors, Appends(c)
  PROVE  /\ log \in Seq(Event) /\ log' \in Seq(Event) /\ events[c] \in Seq(Event)
         /\ Len(log') = Len(log) + Len(events[c])
         /\ \A i \in 1..Len(log) : log'[i] = log[i]
         /\ \A i \in 1..Len(events[c]) : log'[Len(log) + i] = events[c][i]
<1>1. log \in Seq(Event) /\ events[c] \in Seq(Event) /\ log' = log \o events[c]
  BY DEF LogInv, TypeOK, Appends
<1>. QED
  BY <1>1

(* A prefix of the log stays a prefix. *)
LEMMA PrefixStays ==
  ASSUME LogInv, store = "cloud", [Next]_vars, NEW v \in Nat, v <= Len(log)
  PROVE  SubSeq(log', 1, v) = SubSeq(log, 1, v)
<1>1. CASE log' = log
  BY <1>1
<1>2. ASSUME NEW c \in Actors, Appends(c)
      PROVE  SubSeq(log', 1, v) = SubSeq(log, 1, v)
  <2>1. log \in Seq(Event) /\ events[c] \in Seq(Event) /\ log' = log \o events[c]
    BY <1>2 DEF LogInv, TypeOK, Appends
  <2>2. PICK r \in Seq(Event) : log' = log \o r
    BY <2>1
  <2>. QED
    BY <2>1, <2>2
<1>. QED
  BY <1>1, <1>2, LogChanges

LEMMA StoredStays ==
  ASSUME LogInv, store = "cloud", [Next]_vars, NEW e, Stored(e)
  PROVE  Stored(e)'
<1>1. CASE log' = log
  BY <1>1 DEF Stored
<1>2. ASSUME NEW c \in Actors, Appends(c) PROVE Stored(e)'
  <2>1. PICK i \in DOMAIN log : log[i] = e
    BY DEF Stored
  <2>2. /\ DOMAIN log = 1..Len(log) /\ DOMAIN log' = 1..Len(log')
        /\ Len(log) \in Nat /\ Len(events[c]) \in Nat
    BY <1>2, AppendedLog
  <2>3. log'[i] = log[i] /\ Len(log') = Len(log) + Len(events[c])
    BY <1>2, <2>1, <2>2, AppendedLog
  <2>4. i \in DOMAIN log' /\ log'[i] = e
    BY <2>1, <2>2, <2>3
  <2>. QED
    BY <2>4 DEF Stored
<1>. QED
  BY <1>1, <1>2, LogChanges

-----------------------------------------------------------------------------
(***************************************************************************)
(* CloudInv is inductive.                                                  *)
(***************************************************************************)
LEMMA InitCloudInv == Init => CloudInv
<1>1. SUFFICES ASSUME Init PROVE CloudInv
  OBVIOUS
<1>2. ASSUME NEW c \in Actors PROVE DecidedOnPrefix(c) /\ Decided(c) /\ SavedAreStored(c)
  BY <1>1, <1>2 DEF Init, DecidedOnPrefix, Decided, SavedAreStored
<1>3. AckedDurable /\ SnapshotOnSchedule /\ SnapshotTaken
  BY <1>1 DEF Init, AckedDurable, SnapshotOnSchedule, SnapshotTaken
<1>. QED
  BY <1>2, <1>3 DEF CloudInv

(* What a request knows survives every step it does not take itself. *)
LEMMA OthersKnow ==
  ASSUME LogInv, store = "cloud", [Next]_vars, store' = store, NEW d \in Actors,
         DecidedOnPrefix(d), Decided(d), SavedAreStored(d),
         pc'[d] = pc[d], cmd'[d] = cmd[d], agg'[d] = agg[d], events'[d] = events[d]
  PROVE  DecidedOnPrefix(d)' /\ Decided(d)' /\ SavedAreStored(d)'
<1>1. ASSUME pc[d] \in {"decide", "save"}
      PROVE  SubSeq(log', 1, agg[d].version) = SubSeq(log, 1, agg[d].version)
  <2>1. agg[d].version \in Nat /\ agg[d].version <= Len(log)
    BY <1>1 DEF LogInv, TypeOK, Aggregates, RequestOK
  <2>. QED
    BY <2>1, PrefixStays
<1>2. DecidedOnPrefix(d)'
  BY <1>1 DEF DecidedOnPrefix, LoadWindow, HasTail
<1>3. SavedAreStored(d)'
  <2>1. SUFFICES ASSUME pc[d] \in {"materialize", "project"}, NEW i \in DOMAIN events[d]
                 PROVE  Stored(events[d][i])'
    BY DEF SavedAreStored, Stored
  <2>2. Stored(events[d][i])
    BY <2>1 DEF SavedAreStored
  <2>. QED
    BY <2>2, StoredStays
<1>. QED
  BY <1>2, <1>3 DEF Decided

LEMMA LoadKnows ==
  ASSUME LogInv, store = "cloud", NEW c \in Actors, NEW command \in Commands,
         Load(c, command)
  PROVE  DecidedOnPrefix(c)' /\ Decided(c)' /\ SavedAreStored(c)'
<1>1. /\ log \in Seq(Event) /\ log' = log /\ store' = store
      /\ pc'[c] = "decide" /\ VersionIsPosition
      /\ agg'[c] = Replay(LoadWindow(log)) \/ agg'[c] = NewOrder
  BY DEF LogInv, TypeOK, Positions, Load
<1>2. CASE agg'[c] = Replay(LoadWindow(log))
  <2>1. agg'[c].version = Len(log) /\ SubSeq(log, 1, Len(log)) = log
    BY <1>1, <1>2, LoadVersion
  <2>. QED
    BY <1>1, <1>2, <2>1
       DEF DecidedOnPrefix, Decided, SavedAreStored, LoadWindow, HasTail
<1>3. CASE agg'[c] = NewOrder
  <2>1. agg'[c].version = 0 /\ SubSeq(log, 1, 0) = <<>>
    BY <1>1, <1>3 DEF NewOrder
  <2>2. LoadWindow(<<>>) = <<>>
    BY IntervalAssumption DEF LoadWindow, LastRecords
  <2>3. Replay(<<>>) = NewOrder
    BY DEF Replay
  <2>. QED
    BY <1>1, <1>3, <2>1, <2>2, <2>3
       DEF DecidedOnPrefix, Decided, SavedAreStored, LoadWindow, HasTail
<1>. QED
  BY <1>1, <1>2, <1>3

LEMMA ContinueKnows ==
  ASSUME LogInv, CloudInv, store = "cloud", NEW c \in Actors, Continue(c) \/ Crash(c)
  PROVE  DecidedOnPrefix(c)' /\ Decided(c)' /\ SavedAreStored(c)'
<1>1. DecidedOnPrefix(c) /\ Decided(c) /\ SavedAreStored(c)
  BY DEF CloudInv
<1>2. /\ pc \in [Actors -> Stages] /\ agg \in [Actors -> Aggregates]
      /\ events \in [Actors -> Seq(Event)]
      /\ cmd \in [Actors -> Commands \cup {NoCommand}]
  BY DEF LogInv, TypeOK
<1>3. CASE Leave(c)
  <2>1. pc'[c] = "idle"
    BY <1>3, LeaveType
  <2>. QED
    BY <2>1 DEF DecidedOnPrefix, Decided, SavedAreStored
<1>4. CASE Emit(c)
  BY <1>1, <1>2, <1>4
     DEF Emit, DecidedOnPrefix, Decided, SavedAreStored, LoadWindow, HasTail
<1>5. CASE Save(c)
  <2>1. Appends(c) /\ pc'[c] = "materialize" /\ events' = events
    BY <1>2, <1>5, StoreAppends DEF Save, HasViews
  <2>2. /\ Len(log) \in Nat /\ DOMAIN events[c] = 1..Len(events[c])
        /\ Len(events[c]) \in Nat /\ DOMAIN log' = 1..Len(log')
        /\ Len(log') = Len(log) + Len(events[c])
    BY <2>1, AppendedLog
  <2>3. ASSUME NEW i \in DOMAIN events[c] PROVE Stored(events[c][i])'
    <3>1. Len(log) + i \in DOMAIN log' /\ log'[Len(log) + i] = events[c][i]
      BY <2>1, <2>2, AppendedLog
    <3>. QED
      BY <2>1, <3>1 DEF Stored
  <2>. QED
    BY <2>1, <2>3 DEF DecidedOnPrefix, Decided, SavedAreStored, Stored
<1>6. CASE Materialize(c)
  <2>1. /\ pc[c] = "materialize" /\ pc'[c] = "project"
        /\ log' = log /\ events' = events
    BY <1>2, <1>6 DEF Materialize
  <2>. QED
    BY <1>1, <2>1 DEF DecidedOnPrefix, Decided, SavedAreStored, Stored
<1>. QED
  BY <1>3, <1>4, <1>5, <1>6
     DEF Continue, Decline, SaveFails, SaveReplyLost, Project, Acknowledge, Crash

LEMMA AckedStep ==
  ASSUME LogInv, CloudInv, store = "cloud", [Next]_vars
  PROVE  AckedDurable'
<1>1. ASSUME NEW c \in Actors, Continue(c), NEW e \in acked'
      PROVE  Stored(e)
  <2>1. CASE e \in acked
    BY <2>1 DEF CloudInv, AckedDurable, Stored
  <2>2. CASE e \notin acked
    <3>1. Project(c)
      BY <1>1, <2>2 DEF Continue, Decline, Emit, Save, SaveFails, SaveReplyLost,
                        Materialize, HasViews
    <3>. QED
      BY <2>2, <3>1 DEF Project, Acknowledge, CloudInv, SavedAreStored
  <2>. QED
    BY <2>1, <2>2
<1>2. ASSUME NEW e \in acked' PROVE Stored(e)
  <2>1. CASE acked' = acked
    BY <2>1 DEF CloudInv, AckedDurable, Stored
  <2>2. CASE acked' # acked
    BY <1>1, <2>2 DEF Next, Load, Crash, vars
  <2>. QED
    BY <2>1, <2>2
<1>3. ASSUME NEW e \in acked' PROVE Stored(e)'
  BY <1>2, StoredStays
<1>. QED
  BY <1>3 DEF AckedDurable, Stored

LEMMA ScheduleStep ==
  ASSUME LogInv, CloudInv, store = "cloud", [Next]_vars
  PROVE  SnapshotOnSchedule' /\ SnapshotTaken'
<1>1. SnapshotOnSchedule /\ SnapshotTaken /\ log \in Seq(Event)
  BY DEF CloudInv, LogInv, TypeOK
<1>2. CASE log' = log
  BY <1>1, <1>2 DEF SnapshotOnSchedule, SnapshotTaken
<1>3. ASSUME NEW c \in Actors, Appends(c) PROVE SnapshotOnSchedule' /\ SnapshotTaken'
  <2> DEFINE L == Len(log)
             n == Len(events[c])
  <2>1. /\ cmd[c] \in OrderCommands /\ ProtoValidate(cmd[c]) /\ agg[c] \in Aggregates
        /\ agg[c].version = L /\ events[c] = EmitEvents(cmd[c], c, agg[c])
    BY <1>3, RepositoryAssumption DEF LogInv, TypeOK, RequestOK, Appends
  <2>2. /\ n = IF (L + 1) % SnapshotInterval = 0 THEN 2 ELSE 1
        /\ events[c][1].kind # "Snapshot"
        /\ n = 2 => events[c][2].kind = "Snapshot"
    BY <2>1, EmitEventsShape
  <2>3. /\ L \in Nat /\ DOMAIN log = 1..L /\ DOMAIN log' = 1..Len(log')
        /\ n \in Nat /\ Len(log') = L + n
        /\ \A i \in 1..L : log'[i] = log[i]
        /\ \A i \in 1..n : log'[L + i] = events[c][i]
    <3>1. /\ log' \in Seq(Event) /\ events[c] \in Seq(Event) /\ Len(log') = L + n
          /\ \A i \in 1..L : log'[i] = log[i]
          /\ \A i \in 1..n : log'[L + i] = events[c][i]
      BY <1>3, AppendedLog
    <3>2. L \in Nat /\ DOMAIN log = 1..L
      BY <1>1
    <3>3. DOMAIN log' = 1..Len(log') /\ n \in Nat
      BY <3>1
    <3>. QED
      BY <3>1, <3>2, <3>3
  <2> HIDE DEF L, n
  <2>4. /\ log'[L + 1] = events[c][1]
        /\ n = 2 => log'[L + 2] = events[c][2]
    BY <2>2, <2>3
  <2>5. SnapshotTaken'
    <3>1. CASE n = 1
      BY <2>2, <2>3, <2>4, <3>1 DEF SnapshotTaken
    <3>2. CASE n = 2
      BY <2>2, <2>3, <2>4, <3>2 DEF SnapshotTaken
    <3>. QED
      BY <2>2, <3>1, <3>2
  <2>6. ASSUME NEW i \in DOMAIN log'
        PROVE  log'[i].kind = "Snapshot" <=>
                 /\ i > 1
                 /\ (i - 1) % SnapshotInterval = 0
                 /\ log'[i - 1].kind # "Snapshot"
    <3>1. CASE i \in 1..L
      <4>1. i > 1 => i - 1 \in 1..L
        BY <2>3, <3>1
      <4>. QED
        BY <1>1, <2>3, <3>1, <4>1 DEF SnapshotOnSchedule
    <3>2. CASE i = L + 1
      <4>1. log'[i].kind # "Snapshot"
        BY <2>2, <2>4, <3>2
      <4>2. SUFFICES ASSUME i > 1, (i - 1) % SnapshotInterval = 0
                     PROVE  log'[i - 1].kind = "Snapshot"
        BY <4>1
      <4>3. L \in 1..L /\ log # <<>> /\ i - 1 = L
        BY <1>1, <2>3, <3>2, <4>2
      <4>4. log[L].kind = "Snapshot"
        BY <1>1, <4>2, <4>3 DEF SnapshotTaken, L
      <4>. QED
        BY <2>3, <4>3, <4>4
    <3>3. CASE i = L + 2 /\ n = 2
      <4>1. i > 1 /\ i - 1 = L + 1
        BY <2>3, <3>3
      <4>. QED
        BY <2>2, <2>4, <3>3, <4>1
    <3>. QED
      BY <2>2, <2>3, <3>1, <3>2, <3>3
  <2>. QED
    BY <2>5, <2>6 DEF SnapshotOnSchedule
<1>. QED
  BY <1>2, <1>3, LogChanges

LEMMA StepCloudInv == LogInv /\ CloudInv /\ [Next]_vars => CloudInv'
<1>1. SUFFICES ASSUME LogInv, CloudInv, [Next]_vars, store' = "cloud" PROVE CloudInv'
  BY DEF CloudInv
<1>2. store = "cloud" /\ store' = store
  BY <1>1 DEF Next, Load, Continue, Decline, Emit, Save, SaveFails, SaveReplyLost,
              Materialize, Project, Crash, vars
<1>3. ASSUME NEW d \in Actors
      PROVE  DecidedOnPrefix(d)' /\ Decided(d)' /\ SavedAreStored(d)'
  <2>1. DecidedOnPrefix(d) /\ Decided(d) /\ SavedAreStored(d)
    BY <1>1, <1>2 DEF CloudInv
  <2>2. /\ pc \in [Actors -> Stages] /\ agg \in [Actors -> Aggregates]
        /\ events \in [Actors -> Seq(Event)]
        /\ cmd \in [Actors -> Commands \cup {NoCommand}]
    BY <1>1 DEF LogInv, TypeOK
  <2>3. CASE UNCHANGED vars
    BY <1>1, <1>2, <2>1, <2>3, OthersKnow DEF vars, request
  <2>4. ASSUME NEW c \in Actors,
               \/ \E command \in Commands : Load(c, command)
               \/ Continue(c) \/ Crash(c)
        PROVE  DecidedOnPrefix(d)' /\ Decided(d)' /\ SavedAreStored(d)'
    <3>1. CASE d = c
      BY <1>1, <1>2, <2>4, <3>1, LoadKnows, ContinueKnows
    <3>2. CASE d # c
      <4>1. pc'[d] = pc[d] /\ cmd'[d] = cmd[d] /\ agg'[d] = agg[d] /\ events'[d] = events[d]
        <5>1. CASE Leave(c)
          BY <1>1, <3>2, <5>1, LeaveType
        <5>2. CASE (\E command \in Commands : Load(c, command)) \/ Emit(c) \/ Materialize(c)
          BY <2>2, <3>2, <5>2 DEF Load, Emit, Materialize
        <5>3. CASE Save(c)
          BY <1>2, <2>2, <3>2, <5>3 DEF Save, HasViews
        <5>. QED
          BY <2>4, <5>1, <5>2, <5>3
             DEF Continue, Decline, SaveFails, SaveReplyLost, Project, Acknowledge, Crash
      <4>. QED
        BY <1>1, <1>2, <2>1, <4>1, OthersKnow
    <3>. QED
      BY <3>1, <3>2
  <2>. QED
    BY <1>1, <2>3, <2>4 DEF Next
<1>4. AckedDurable' /\ SnapshotOnSchedule' /\ SnapshotTaken'
  BY <1>1, <1>2, AckedStep, ScheduleStep
<1>. QED
  BY <1>3, <1>4 DEF CloudInv

THEOREM CloudInvariant == Spec => [](LogInv /\ CloudInv)
<1>1. LogInv /\ CloudInv /\ [Next]_vars => (LogInv /\ CloudInv)'
  BY StepLogInv, StepCloudInv
<1>2. Init => LogInv /\ CloudInv
  BY InitLogInv, InitCloudInv
<1>. QED
  BY <1>1, <1>2, PTL DEF Spec

-----------------------------------------------------------------------------
(***************************************************************************)
(* What the tail of the log says.                                          *)
(***************************************************************************)
(* A snapshot erases what was replayed before it. *)
LEMMA SnapshotErases ==
  ASSUME NEW records \in Seq(Event), NEW i \in 1..Len(records),
         records[i].kind = "Snapshot", NEW data1, NEW data2
  PROVE  ReplayedFrom(data1, records) = ReplayedFrom(data2, records)
<1>1. PICK before, e, after :
        /\ before = SubSeq(records, 1, i - 1) /\ e = records[i]
        /\ after = SubSeq(records, i + 1, Len(records))
  OBVIOUS
<1>2. /\ before \in Seq(Event) /\ e \in Event /\ after \in Seq(Event)
      /\ Append(before, e) \in Seq(Event)
      /\ Append(before, e) = SubSeq(records, 1, i)
  BY <1>1
<1>3. records = Append(before, e) \o after
  <2>1. i \in Nat /\ i <= Len(records) /\ Len(records) \in Nat
    OBVIOUS
  <2>2. records = SubSeq(records, 1, i) \o SubSeq(records, i + 1, Len(records))
    BY <2>1
  <2>. QED
    BY <1>1, <1>2, <2>2
<1>4. ASSUME NEW data PROVE ReplayedFrom(data, records) = ReplayedFrom(e.arg, after)
  <2>1. ReplayedFrom(data, Append(before, e)) = OnData(ReplayedFrom(data, before), e)
    <3>1. before \in Seq(Event) /\ e \in Event
      BY <1>2
    <3>. QED
      BY <3>1, ReplayedFromAppend, Zenon
  <2>2. OnData(ReplayedFrom(data, before), e) = e.arg
    <3>1. e.kind = "Snapshot"
      BY <1>1
    <3>. QED
      BY <3>1 DEF OnData
  <2>3. PICK upTo \in Seq(Event) : upTo = Append(before, e)
    BY <1>2
  <2>4. e.arg = ReplayedFrom(data, upTo)
    BY <2>1, <2>2, <2>3, Zenon
  <2>5. ReplayedFrom(data, upTo \o after) = ReplayedFrom(e.arg, after)
    BY <1>2, <2>4, ReplayedFromConcat
  <2>. QED
    BY <1>3, <2>3, <2>5, Zenon
<1>. QED
  BY <1>4, Zenon

LEMMA WindowHasSnapshot ==
  ASSUME log \in Seq(Event), SnapshotOnSchedule, SnapshotTaken
  PROVE  SnapshotInWindow
<1> DEFINE L == Len(log)
           N == SnapshotInterval
<1>1. SUFFICES ASSUME L > N
               PROVE  \E i \in L - N + 1..L : log[i].kind = "Snapshot"
  BY DEF SnapshotInWindow
<1>2. L \in Nat /\ N \in Nat \ {0} /\ DOMAIN log = 1..L /\ log # <<>>
  BY <1>1, IntervalAssumption
<1> HIDE DEF L, N
<1>3. PICK k \in (L - 1) - N + 1..L - 1 : k % N = 0
  <2>1. L - 1 \in Nat
    BY <1>1, <1>2
  <2>. QED
    BY <1>2, <2>1, MultipleInWindow
<1>4. /\ k \in Nat
      /\ k + 1 \in L - N + 1..L /\ k + 1 \in DOMAIN log /\ k \in DOMAIN log
      /\ k + 1 > 1 /\ (k + 1) - 1 = k
  BY <1>1, <1>2, <1>3
<1>5. CASE log[k].kind # "Snapshot"
  BY <1>3, <1>4, <1>5 DEF SnapshotOnSchedule, N
<1>6. CASE log[k].kind = "Snapshot"
  <2>1. k > 1 /\ (k - 1) % N = 0
    BY <1>4, <1>6 DEF SnapshotOnSchedule, N
  <2>2. N = 1
    BY <1>2, <1>3, <1>4, <2>1, NeighboursAreMultiples
  <2>3. L % N = 0
    BY <1>2, <2>2
  <2>4. log[L].kind = "Snapshot"
    BY <1>2, <2>3 DEF SnapshotTaken, L, N
  <2>. QED
    BY <1>2, <2>2, <2>4
<1>. QED
  BY <1>5, <1>6

LEMMA TailIsFull ==
  ASSUME log \in Seq(Event), SnapshotInWindow, store = "cloud"
  PROVE  TailReplayIsFull
<1> DEFINE L == Len(log)
           N == SnapshotInterval
<1>1. L \in Nat /\ N \in Nat \ {0}
  BY IntervalAssumption
<1>2. LoadWindow(log) = IF L <= N THEN log ELSE SubSeq(log, L - N + 1, L)
  BY DEF LoadWindow, HasTail, LastRecords
<1>3. CASE L <= N
  BY <1>2, <1>3 DEF TailReplayIsFull
<1>4. CASE ~(L <= N)
  <2> HIDE DEF L, N
  <2>1. PICK before, window :
          before = SubSeq(log, 1, L - N) /\ window = SubSeq(log, L - N + 1, L)
    OBVIOUS
  <2>2. L - N \in 1..L
    BY <1>1, <1>4
  <2>3. /\ before \in Seq(Event) /\ window \in Seq(Event) /\ log = before \o window
        /\ Len(window) = N /\ \A i \in 1..N : window[i] = log[L - N + i]
    BY <1>1, <2>1, <2>2 DEF L
  <2>4. \E i \in 1..Len(window) : window[i].kind = "Snapshot"
    <3>1. PICK j \in L - N + 1..L : log[j].kind = "Snapshot"
      BY <1>1, <1>4 DEF SnapshotInWindow, L, N
    <3>2. j - (L - N) \in 1..N /\ L - N + (j - (L - N)) = j
      BY <1>1, <3>1
    <3>. QED
      BY <2>3, <3>1, <3>2
  <2>5. PICK mid : mid = ReplayedFrom(NewData, before)
    OBVIOUS
  <2>6. ReplayedFrom(NewData, log) = ReplayedFrom(mid, window)
    BY <2>3, <2>5, ReplayedFromConcat
  <2>7. ReplayedFrom(mid, window) = ReplayedFrom(NewData, window)
    BY <2>3, <2>4, SnapshotErases
  <2>8. window # <<>> /\ log # <<>> /\ window[Len(window)] = log[Len(log)]
    BY <1>1, <1>4, <2>3 DEF L
  <2>9. LoadWindow(log) = window
    BY <1>2, <1>4, <2>1
  <2>. QED
    BY <2>6, <2>7, <2>8, <2>9, Zenon DEF TailReplayIsFull, Replay
<1>. QED
  BY <1>3, <1>4

-----------------------------------------------------------------------------
(***************************************************************************)
(* The theorems.                                                           *)
(***************************************************************************)
CloudOnly == StoreKinds = {"cloud"}

LEMMA CloudState ==
  ASSUME CloudOnly, LogInv, CloudInv
  PROVE  /\ store = "cloud" /\ VersionIsPosition /\ AckedDurable
         /\ SnapshotOnSchedule /\ SnapshotInWindow /\ TailReplayIsFull
<1>1. store = "cloud" /\ log \in Seq(Event)
  BY DEF CloudOnly, LogInv, TypeOK
<1>2. AckedDurable /\ SnapshotOnSchedule /\ SnapshotTaken
  BY <1>1 DEF CloudInv
<1>3. VersionIsPosition
  BY <1>1 DEF LogInv, Positions
<1>. QED
  BY <1>1, <1>2, <1>3, WindowHasSnapshot, TailIsFull

(* An acknowledged command's events are in the stream, and stay there,     *)
(* whatever races, retries, lost replies and crashes follow.               *)
THEOREM AckedDurableCorrect == CloudOnly => (Spec => []AckedDurable)
<1>1. SUFFICES ASSUME CloudOnly PROVE Spec => []AckedDurable
  OBVIOUS
<1>2. LogInv /\ CloudInv => AckedDurable
  BY <1>1, CloudState
<1>. QED
  BY <1>2, CloudInvariant, PTL

(* Snapshots stand exactly where the annotated interval puts them, though  *)
(* no request sees more than the events it emits.                          *)
THEOREM SnapshotOnScheduleCorrect == CloudOnly => (Spec => []SnapshotOnSchedule)
<1>1. SUFFICES ASSUME CloudOnly PROVE Spec => []SnapshotOnSchedule
  OBVIOUS
<1>2. LogInv /\ CloudInv => SnapshotOnSchedule
  BY <1>1, CloudState
<1>. QED
  BY <1>2, CloudInvariant, PTL

(* The tail LoadTail reads rebuilds the order the whole history rebuilds.  *)
THEOREM TailReplayCorrect == CloudOnly => (Spec => []TailReplayIsFull)
<1>1. SUFFICES ASSUME CloudOnly PROVE Spec => []TailReplayIsFull
  OBVIOUS
<1>2. LogInv /\ CloudInv => TailReplayIsFull
  BY <1>1, CloudState
<1>. QED
  BY <1>2, CloudInvariant, PTL

(* A step that changes the log carries out an admissible command on the    *)
(* order as a load would find it at that very moment.                      *)
LEMMA SaveExtends ==
  ASSUME CloudOnly, LogInv, CloudInv, [Next]_vars, log' # log
  PROVE  \E c \in Actors :
           LET current == Replay(LoadWindow(log)) IN
           /\ pc[c] = "save" /\ cmd[c] \in Commands
           /\ Admissible(cmd[c], current)
           /\ ~EvaluateSkips(cmd[c], current.data)
           /\ log' = log \o EmitEvents(cmd[c], c, current)
<1>1. store = "cloud" /\ log \in Seq(Event)
  BY CloudState DEF LogInv, TypeOK
<1>2. PICK c \in Actors : Appends(c)
  BY <1>1, LogChanges
<1>3. agg[c] = Replay(LoadWindow(log))
  <2>1. SubSeq(log, 1, agg[c].version) = log
    BY <1>1, <1>2 DEF Appends
  <2>2. agg[c] = Replay(LoadWindow(SubSeq(log, 1, agg[c].version)))
    BY <1>1, <1>2 DEF CloudInv, DecidedOnPrefix, Appends
  <2>. QED
    BY <2>1, <2>2
<1>4. /\ pc[c] = "save" /\ cmd[c] \in Commands
      /\ Admissible(cmd[c], agg[c]) /\ ~EvaluateSkips(cmd[c], agg[c].data)
      /\ log' = log \o EmitEvents(cmd[c], c, agg[c])
  BY <1>1, <1>2 DEF CloudInv, Decided, LogInv, RequestOK, Appends
<1>. QED
  BY <1>3, <1>4

(* Optimistic concurrency works: no command is carried out on stale data.  *)
THEOREM SaveExtendsCorrect == CloudOnly => (Spec => SaveExtendsCurrentState)
<1>1. SUFFICES ASSUME CloudOnly PROVE Spec => SaveExtendsCurrentState
  OBVIOUS
<1>2. LogInv /\ CloudInv /\ [Next]_vars =>
        [log' # log =>
           \E c \in Actors :
             LET current == Replay(LoadWindow(log)) IN
             /\ pc[c] = "save"
             /\ Admissible(cmd[c], current)
             /\ ~EvaluateSkips(cmd[c], current.data)
             /\ log' = log \o EmitEvents(cmd[c], c, current)]_vars
  BY <1>1, SaveExtends
<1>. QED
  BY <1>2, CloudInvariant, PTL DEF Spec, SaveExtendsCurrentState

(* The abstract stream starts empty, as the log does. *)
LEMMA StreamInit == Init => Stream!Init
BY DEF Init, Stream!Init

LEMMA StreamStep == CloudOnly /\ LogInv /\ CloudInv /\ [Next]_vars => [Stream!Next]_log
<1>1. SUFFICES ASSUME CloudOnly, LogInv, CloudInv, [Next]_vars, log' # log
               PROVE  Stream!Next
  OBVIOUS
<1>2. PICK c \in Actors :
        LET current == Replay(LoadWindow(log)) IN
        /\ cmd[c] \in Commands
        /\ Admissible(cmd[c], current)
        /\ ~EvaluateSkips(cmd[c], current.data)
        /\ log' = log \o EmitEvents(cmd[c], c, current)
  BY <1>1, SaveExtends
<1>3. Replay(LoadWindow(log)) = Replay(log)
  BY <1>1, CloudState DEF TailReplayIsFull
<1>4. Stream!Accept(c, cmd[c])
  BY <1>2, <1>3 DEF Stream!Accept
<1>. QED
  BY <1>1, <1>2, <1>4 DEF Stream!Next

(* Refinement: Apply's interleaved load, decision and save, run by any     *)
(* number of actors under any faults, implement the atomic event stream.   *)
THEOREM StreamImplemented == CloudOnly => (Spec => ImplementsStream)
<1>1. SUFFICES ASSUME CloudOnly PROVE Spec => ImplementsStream
  OBVIOUS
<1>2. LogInv /\ CloudInv /\ [Next]_vars => [Stream!Next]_log
  BY <1>1, StreamStep
<1>. QED
  BY <1>2, StreamInit, CloudInvariant, PTL DEF Spec, ImplementsStream, Stream!Spec

(* Stored events are immutable facts wherever the store never replaces a   *)
(* record: MemoryStore, DynamoDBStore and CosmosDBStore.                   *)
THEOREM EventsImmutableCorrect == "bolt" \notin StoreKinds => (Spec => EventsImmutable)
<1>1. SUFFICES ASSUME "bolt" \notin StoreKinds PROVE Spec => EventsImmutable
  OBVIOUS
<1>2. ASSUME LogInv, [Next]_vars
      PROVE  [/\ Len(log) <= Len(log')
              /\ \A i \in DOMAIN log : log'[i] = log[i]]_vars
  <2>1. log \in Seq(Event)
    BY <1>2 DEF LogInv, TypeOK
  <2>2. CASE log' = log
    BY <2>1, <2>2
  <2>3. ASSUME NEW c \in Actors, pc[c] = "save", Accepts(log, events[c]),
               log' = Written(log, events[c])
        PROVE  Len(log) <= Len(log') /\ \A i \in DOMAIN log : log'[i] = log[i]
    <3>1. store # "bolt" /\ events[c] \in Seq(Event)
      BY <1>1, <1>2 DEF LogInv, TypeOK
    <3>2. PICK r \in Seq(Event) : log' = log \o r
      BY <2>3, <3>1 DEF Written
    <3>. QED
      BY <2>1, <3>2
  <2>. QED
    BY <1>2, <2>2, <2>3 DEF Next, Load, Continue, Decline, Emit, Save, SaveFails,
                            SaveReplyLost, Materialize, Project, Crash, vars
<1>. QED
  BY <1>2, LogInvariant, PTL DEF Spec, EventsImmutable

-----------------------------------------------------------------------------
(***************************************************************************)
(* What the evaluators and the state guards of the generated code make of  *)
(* the stream itself, over DynamoDBStore or CosmosDBStore.  They look at   *)
(* the loaded aggregate alone, never at the events; that the events of an  *)
(* order nevertheless keep its life cycle needs that what was replayed     *)
(* tells what happened.  That the views and projections a request writes   *)
(* are states the stream was in needs that a prefix of it never changes.   *)
(***************************************************************************)

DataOf(l) == ReplayedFrom(NewData, l)

(* The addition or removal of an item, and the latest one before n. *)
Adds(l, i, item) ==
  l[i].kind = "ItemAdded" /\ l[i].arg # Nil /\ l[i].arg.id = item

Removes(l, i, item) == l[i].kind = "ItemRemoved" /\ l[i].arg = item

Touches(l, i, item) == Adds(l, i, item) \/ Removes(l, i, item)

UntouchedBefore(l, n, item) == \A i \in 1..(n - 1) : ~Touches(l, i, item)

LatestBefore(l, n, i, item) ==
  /\ i \in 1..(n - 1)
  /\ Touches(l, i, item)
  /\ \A j \in 1..(n - 1) : Touches(l, j, item) => j <= i

AddedBefore(l, n, item) == \E i \in 1..(n - 1) : LatestBefore(l, n, i, item) /\ Adds(l, i, item)

RemovedBefore(l, n, item) ==
  \E i \in 1..(n - 1) : LatestBefore(l, n, i, item) /\ Removes(l, i, item)

Alternates(l, item) ==
  \A n \in 1..Len(l) :
    /\ Adds(l, n, item) => UntouchedBefore(l, n, item) \/ RemovedBefore(l, n, item)
    /\ Removes(l, n, item) => AddedBefore(l, n, item)

(* The order has an item exactly when the last thing that happened to it   *)
(* was its addition.                                                       *)
ItemTold(l, item) ==
  IF item \in DOMAIN DataOf(l).items THEN AddedBefore(l, Len(l) + 1, item)
  ELSE UntouchedBefore(l, Len(l) + 1, item) \/ RemovedBefore(l, Len(l) + 1, item)

(* Its state tells which of the closing events have not happened. *)
Happened(l, n, kinds) == \E i \in 1..(n - 1) : l[i].kind \in kinds

StateTold(l) ==
  LET n == Len(l) + 1
      state == DataOf(l).state
  IN  /\ state = "DRAFT" => ~Happened(l, n, {"Placed", "Cancelled"})
      /\ state \in {"PLACED", "PAID"} => ~Happened(l, n, {"Cancelled"})

DraftKinds ==
  {"ItemAdded", "ItemRemoved", "TagAdded", "TagRemoved", "ShippingSet", "Placed"}

LifeCycle(l) ==
  \A n \in 1..Len(l) :
    /\ l[n].kind = "Created" <=> n = 1
    /\ l[n].kind \in DraftKinds => ~Happened(l, n, {"Placed", "Cancelled"})
    /\ l[n].kind = "Cancelled" => ~Happened(l, n, {"Cancelled"})

History(l) ==
  /\ LifeCycle(l) /\ StateTold(l)
  /\ \A item \in ItemIds : Alternates(l, item) /\ ItemTold(l, item)

(* What the pipeline has seen to when an event is appended. *)
Guarded(l, e) ==
  LET data == DataOf(l) IN
  /\ e.kind = "Created" <=> l = <<>>
  /\ e.kind \in DraftKinds => data.state = "DRAFT"
  /\ e.kind = "Cancelled" => data.state \in {"DRAFT", "PLACED", "PAID"}
  /\ e.kind = "ItemAdded" /\ e.arg # Nil => e.arg.id \notin DOMAIN data.items
  /\ e.kind = "ItemRemoved" => e.arg \in DOMAIN data.items
  /\ e.kind = "Snapshot" => e.arg.items = data.items /\ e.arg.state = data.state

-----------------------------------------------------------------------------
(***************************************************************************)
(* One event more.                                                         *)
(***************************************************************************)
Extended(l, e, more) ==
  /\ Len(l) \in Nat /\ Len(more) = Len(l) + 1
  /\ more[Len(l) + 1] = e
  /\ \A i \in 1..Len(l) : more[i] = l[i]
  /\ DataOf(more) = OnData(DataOf(l), e)

LEMMA OneMore ==
  ASSUME NEW l \in Seq(Event), NEW e \in Event
  PROVE  Extended(l, e, Append(l, e))
<1> DEFINE more == Append(l, e)
<1>1. DataOf(more) = OnData(DataOf(l), e)
  BY ReplayedFromAppend, Zenon DEF DataOf
<1>2. /\ Len(l) \in Nat /\ Len(more) = Len(l) + 1
      /\ more[Len(l) + 1] = e
      /\ \A i \in 1..Len(l) : more[i] = l[i]
  OBVIOUS
<1> HIDE DEF more
<1>3. Extended(l, e, more)
  BY <1>1, <1>2, Zenon DEF Extended
<1>. QED
  BY <1>3 DEF more

LEMMA DataOfType ==
  ASSUME NEW l \in Seq(Event)
  PROVE  DataOf(l) \in Data
<1>1. NewData \in Data
  BY NewOrderType
<1>. QED
  BY <1>1, ReplayedFromType DEF DataOf

(* What precedes a position does not depend on what follows it. *)
LEMMA SameBefore ==
  ASSUME NEW l, NEW more, NEW k \in Nat, \A i \in 1..k : more[i] = l[i],
         NEW n \in 1..(k + 1), NEW item
  PROVE  /\ UntouchedBefore(more, n, item) <=> UntouchedBefore(l, n, item)
         /\ AddedBefore(more, n, item) <=> AddedBefore(l, n, item)
         /\ RemovedBefore(more, n, item) <=> RemovedBefore(l, n, item)
         /\ \A kinds : Happened(more, n, kinds) <=> Happened(l, n, kinds)
<1>1. \A i \in 1..(n - 1) : more[i] = l[i]
  OBVIOUS
<1>2. \A i \in 1..(n - 1) :
        /\ Adds(more, i, item) <=> Adds(l, i, item)
        /\ Removes(more, i, item) <=> Removes(l, i, item)
  BY <1>1 DEF Adds, Removes
<1>3. \A i \in 1..(n - 1) : LatestBefore(more, n, i, item) <=> LatestBefore(l, n, i, item)
  BY <1>2 DEF LatestBefore, Touches
<1>. QED
  BY <1>1, <1>2, <1>3 DEF UntouchedBefore, AddedBefore, RemovedBefore, Happened, Touches

LEMMA LifeCycleKept ==
  ASSUME NEW l \in Seq(Event), NEW e \in Event, NEW more, more = Append(l, e),
         LifeCycle(l), StateTold(l), Guarded(l, e)
  PROVE  LifeCycle(more) /\ StateTold(more)
<1> DEFINE k == Len(l)
<1>1. /\ k \in Nat /\ Len(more) = k + 1 /\ more[k + 1] = e
      /\ \A i \in 1..k : more[i] = l[i]
      /\ DataOf(more) = OnData(DataOf(l), e) /\ DataOf(l) \in Data
  <2>1. DataOf(l) \in Data
    BY DataOfType
  <2>2. Extended(l, e, more)
    BY OneMore, Zenon
  <2>. QED
    BY <2>1, <2>2, Zenon DEF Extended
<1>2. l = <<>> <=> k = 0
  OBVIOUS
<1>3. \A n \in 1..(k + 1) : \A kinds : Happened(more, n, kinds) <=> Happened(l, n, kinds)
  BY <1>1, SameBefore
<1>4. StateTold(l) <=>
        /\ DataOf(l).state = "DRAFT" => ~Happened(l, k + 1, {"Placed", "Cancelled"})
        /\ DataOf(l).state \in {"PLACED", "PAID"} => ~Happened(l, k + 1, {"Cancelled"})
  BY DEF StateTold
<1> HIDE DEF k
<1>5. LifeCycle(more)
  <2>1. SUFFICES ASSUME NEW n \in 1..(k + 1)
                 PROVE  /\ more[n].kind = "Created" <=> n = 1
                        /\ more[n].kind \in DraftKinds =>
                             ~Happened(more, n, {"Placed", "Cancelled"})
                        /\ more[n].kind = "Cancelled" => ~Happened(more, n, {"Cancelled"})
    BY <1>1 DEF LifeCycle
  <2>2. CASE n \in 1..k
    BY <1>1, <1>3, <2>2 DEF LifeCycle, k
  <2>3. CASE n = k + 1
    <3>1. more[n] = e /\ (n = 1 <=> l = <<>>)
      BY <1>1, <1>2, <2>3
    <3>2. e.kind \in DraftKinds => ~Happened(l, n, {"Placed", "Cancelled"})
      BY <1>4, <2>3 DEF Guarded
    <3>3. e.kind = "Cancelled" => ~Happened(l, n, {"Cancelled"})
      <4>1. Happened(l, n, {"Cancelled"}) => Happened(l, n, {"Placed", "Cancelled"})
        BY DEF Happened
      <4>. QED
        BY <1>4, <2>3, <4>1 DEF Guarded
    <3>. QED
      BY <1>3, <3>1, <3>2, <3>3 DEF Guarded
  <2>. QED
    BY <1>1, <2>2, <2>3
<1>6. StateTold(more)
  <2> DEFINE was == DataOf(l).state
             state == DataOf(more).state
  <2>1. ASSUME NEW kinds
        PROVE  Happened(more, k + 2, kinds) <=> Happened(l, k + 1, kinds) \/ e.kind \in kinds
    BY <1>1 DEF Happened
  <2>2. state = IF e.kind = "Created" THEN "DRAFT"
                ELSE IF e.kind = "Placed" THEN "PLACED"
                ELSE IF e.kind = "Cancelled" THEN "CANCELLED"
                ELSE was
    <3>1. DataOf(l) \in Data /\ state = OnData(DataOf(l), e).state
      BY <1>1
    <3>2. e.kind = "Snapshot" => OnData(DataOf(l), e).state = was
      BY DEF OnData, Guarded
    <3>3. ASSUME e.kind # "Snapshot"
          PROVE  OnData(DataOf(l), e).state = Mutate(DataOf(l), e).state
      <4>1. OnData(DataOf(l), e) = [Mutate(DataOf(l), e) EXCEPT !.modifyBy = e.actor]
        BY <3>3 DEF OnData
      <4>2. "state" \in DOMAIN Mutate(DataOf(l), e)
        BY <3>1 DEF Mutate, Data
      <4>. QED
        BY <4>1, <4>2
    <3>. QED
      BY <3>1, <3>2, <3>3 DEF Mutate, Data
  <2>3. l = <<>> => ~Happened(l, k + 1, {"Placed", "Cancelled"})
    BY <1>1, <1>2 DEF Happened
  <2>4. Happened(l, k + 1, {"Cancelled"}) => Happened(l, k + 1, {"Placed", "Cancelled"})
    BY DEF Happened
  <2>. QED
    BY <1>1, <1>4, <2>1, <2>2, <2>3, <2>4 DEF StateTold, Guarded, DraftKinds
<1>. QED
  BY <1>5, <1>6

LEMMA ItemsOn ==
  ASSUME NEW data \in Data, NEW e \in Event, NEW item,
         e.kind = "Snapshot" => e.arg.items = data.items
  PROVE  item \in DOMAIN OnData(data, e).items <=>
           CASE e.kind = "ItemAdded" /\ e.arg # Nil ->
                  e.arg.id = item \/ item \in DOMAIN data.items
             [] e.kind = "ItemRemoved" -> item # e.arg /\ item \in DOMAIN data.items
             [] OTHER -> item \in DOMAIN data.items
<1>1. e.kind # "Snapshot" => OnData(data, e).items = Mutate(data, e).items
  <2>1. SUFFICES ASSUME e.kind # "Snapshot"
                 PROVE  OnData(data, e).items = Mutate(data, e).items
    OBVIOUS
  <2>2. OnData(data, e) = [Mutate(data, e) EXCEPT !.modifyBy = e.actor]
    BY <2>1 DEF OnData
  <2>3. "items" \in DOMAIN Mutate(data, e)
    BY DEF Mutate, Data
  <2>. QED
    BY <2>2, <2>3
<1>2. CASE e.kind = "Snapshot"
  BY <1>2 DEF OnData
<1>3. CASE e.kind = "ItemAdded" /\ e.arg # Nil
  <2>1. Mutate(data, e).items = Put(data.items, e.arg.id, e.arg.cents)
    BY <1>3 DEF Mutate, Data
  <2>. QED
    BY <1>1, <1>3, <2>1 DEF Put
<1>4. CASE e.kind = "ItemRemoved"
  <2>1. Mutate(data, e).items = Drop(data.items, e.arg)
    BY <1>4 DEF Mutate, Data
  <2>2. DOMAIN Drop(data.items, e.arg) = DOMAIN data.items \ {e.arg}
    BY DEF Drop, Restrict
  <2>. QED
    BY <1>1, <1>4, <2>1, <2>2
<1>5. CASE ~(e.kind = "ItemAdded" /\ e.arg # Nil) /\ e.kind # "ItemRemoved"
            /\ e.kind # "Snapshot"
  <2>1. Mutate(data, e).items = data.items
    BY <1>5 DEF Mutate, Data
  <2>. QED
    BY <1>1, <1>5, <2>1
<1>. QED
  BY <1>2, <1>3, <1>4, <1>5

(* What an appended event makes of the latest addition or removal. *)
LEMMA LatestAfter ==
  ASSUME NEW l, NEW more, NEW k \in Nat, \A i \in 1..k : more[i] = l[i], NEW item
  PROVE  /\ Adds(more, k + 1, item) => AddedBefore(more, k + 2, item)
         /\ Removes(more, k + 1, item) => RemovedBefore(more, k + 2, item)
         /\ ~Touches(more, k + 1, item) =>
              /\ UntouchedBefore(l, k + 1, item) => UntouchedBefore(more, k + 2, item)
              /\ AddedBefore(l, k + 1, item) => AddedBefore(more, k + 2, item)
              /\ RemovedBefore(l, k + 1, item) => RemovedBefore(more, k + 2, item)
<1>1. (k + 2) - 1 = k + 1 /\ (k + 1) - 1 = k /\ 1..(k + 1) = 1..k \cup {k + 1}
  OBVIOUS
<1>2. Touches(more, k + 1, item) => LatestBefore(more, k + 2, k + 1, item)
  BY <1>1 DEF LatestBefore
<1>3. \A i \in 1..k :
        /\ Adds(more, i, item) <=> Adds(l, i, item)
        /\ Removes(more, i, item) <=> Removes(l, i, item)
        /\ Touches(more, i, item) <=> Touches(l, i, item)
  BY DEF Adds, Removes, Touches
<1>4. ASSUME ~Touches(more, k + 1, item), NEW i \in 1..k
      PROVE  LatestBefore(l, k + 1, i, item) => LatestBefore(more, k + 2, i, item)
  BY <1>1, <1>3, <1>4 DEF LatestBefore
<1>. QED
  BY <1>1, <1>2, <1>3, <1>4 DEF UntouchedBefore, AddedBefore, RemovedBefore, Touches

LEMMA ItemKept ==
  ASSUME NEW l \in Seq(Event), NEW e \in Event, NEW more, more = Append(l, e),
         NEW item, Alternates(l, item), ItemTold(l, item), Guarded(l, e)
  PROVE  Alternates(more, item) /\ ItemTold(more, item)
<1> DEFINE k == Len(l)
<1>1. /\ k \in Nat /\ Len(more) = k + 1 /\ more[k + 1] = e
      /\ \A i \in 1..k : more[i] = l[i]
      /\ DataOf(more) = OnData(DataOf(l), e)
  <2>1. Extended(l, e, more)
    BY OneMore, Zenon
  <2>. QED
    BY <2>1, Zenon DEF Extended
<1>2. DataOf(l) \in Data
  BY DataOfType
<1>3. IF item \in DOMAIN DataOf(l).items THEN AddedBefore(l, k + 1, item)
      ELSE UntouchedBefore(l, k + 1, item) \/ RemovedBefore(l, k + 1, item)
  BY DEF ItemTold
<1>4. \A n \in 1..k :
        /\ Adds(l, n, item) => UntouchedBefore(l, n, item) \/ RemovedBefore(l, n, item)
        /\ Removes(l, n, item) => AddedBefore(l, n, item)
  BY DEF Alternates
<1> HIDE DEF k
<1>5. \A n \in 1..(k + 1) :
        /\ UntouchedBefore(more, n, item) <=> UntouchedBefore(l, n, item)
        /\ AddedBefore(more, n, item) <=> AddedBefore(l, n, item)
        /\ RemovedBefore(more, n, item) <=> RemovedBefore(l, n, item)
  BY <1>1, SameBefore
<1>6. /\ Adds(more, k + 1, item) => item \notin DOMAIN DataOf(l).items
      /\ Removes(more, k + 1, item) => item \in DOMAIN DataOf(l).items
  BY <1>1 DEF Adds, Removes, Guarded
<1>7. Alternates(more, item)
  <2>1. SUFFICES ASSUME NEW n \in 1..(k + 1)
                 PROVE  /\ Adds(more, n, item) =>
                             UntouchedBefore(more, n, item) \/ RemovedBefore(more, n, item)
                        /\ Removes(more, n, item) => AddedBefore(more, n, item)
    BY <1>1 DEF Alternates
  <2>2. CASE n \in 1..k
    BY <1>1, <1>4, <1>5, <2>2 DEF Adds, Removes
  <2>3. CASE n = k + 1
    BY <1>3, <1>5, <1>6, <2>3
  <2>. QED
    BY <1>1, <2>2, <2>3
<1>8. ItemTold(more, item)
  <2>1. /\ Adds(more, k + 1, item) => AddedBefore(more, k + 2, item)
        /\ Removes(more, k + 1, item) => RemovedBefore(more, k + 2, item)
        /\ ~Touches(more, k + 1, item) =>
             /\ UntouchedBefore(l, k + 1, item) => UntouchedBefore(more, k + 2, item)
             /\ AddedBefore(l, k + 1, item) => AddedBefore(more, k + 2, item)
             /\ RemovedBefore(l, k + 1, item) => RemovedBefore(more, k + 2, item)
    BY <1>1, LatestAfter
  <2>2. /\ Adds(more, k + 1, item) => item \in DOMAIN DataOf(more).items
        /\ Removes(more, k + 1, item) => item \notin DOMAIN DataOf(more).items
        /\ ~Touches(more, k + 1, item) =>
             (item \in DOMAIN DataOf(more).items <=> item \in DOMAIN DataOf(l).items)
    <3>1. e.kind = "Snapshot" => e.arg.items = DataOf(l).items
      BY DEF Guarded
    <3>2. item \in DOMAIN DataOf(more).items <=>
            CASE e.kind = "ItemAdded" /\ e.arg # Nil ->
                   e.arg.id = item \/ item \in DOMAIN DataOf(l).items
              [] e.kind = "ItemRemoved" ->
                   item # e.arg /\ item \in DOMAIN DataOf(l).items
              [] OTHER -> item \in DOMAIN DataOf(l).items
      BY <1>1, <1>2, <3>1, ItemsOn
    <3>. QED
      BY <1>1, <3>2 DEF Adds, Removes, Touches
  <2>3. Len(more) + 1 = k + 2
    BY <1>1
  <2>. QED
    BY <1>3, <2>1, <2>2, <2>3 DEF ItemTold, Touches
<1>. QED
  BY <1>7, <1>8

LEMMA HistoryKept ==
  ASSUME NEW l \in Seq(Event), NEW e \in Event, History(l), Guarded(l, e)
  PROVE  History(Append(l, e))
BY LifeCycleKept, ItemKept DEF History

-----------------------------------------------------------------------------
(***************************************************************************)
(* What a request saves.                                                   *)
(***************************************************************************)
(* Derived fields left behind by an earlier load make no difference to the *)
(* next event.                                                             *)
LEMMA MutateIgnoresTotals ==
  ASSUME NEW data \in Data, NEW e \in Event, NEW t
  PROVE  Mutate([data EXCEPT !.totals = t], e) = [Mutate(data, e) EXCEPT !.totals = t]
<1>1. CASE e.kind = "Created"
  BY <1>1 DEF Mutate, Data
<1>2. CASE e.kind = "ItemAdded"
  BY <1>2 DEF Mutate, Data
<1>3. CASE e.kind = "ItemRemoved"
  BY <1>3 DEF Mutate, Data
<1>4. CASE e.kind = "TagAdded"
  BY <1>4 DEF Mutate, Data
<1>5. CASE e.kind = "TagRemoved"
  BY <1>5 DEF Mutate, Data
<1>6. CASE e.kind = "ShippingSet"
  BY <1>6 DEF Mutate, Data
<1>7. CASE e.kind \in {"BillingSet", "BillingCleared"}
  BY <1>7 DEF Mutate, Data
<1>8. CASE e.kind \in {"Placed", "Cancelled"}
  BY <1>8 DEF Mutate, Data
<1>9. CASE e.kind = "Snapshot"
  BY <1>9 DEF Mutate
<1>. QED
  BY <1>1, <1>2, <1>3, <1>4, <1>5, <1>6, <1>7, <1>8, <1>9 DEF Event, EventKinds

LEMMA AfterOnFirst ==
  ASSUME NEW data \in Data, NEW e \in Event
  PROVE  AfterOn(OnData(AfterOn(data), e)) = AfterOn(OnData(data, e))
<1>1. CASE e.kind = "Snapshot"
  BY <1>1 DEF OnData
<1>2. CASE e.kind # "Snapshot"
  <2>1. PICK t, other : t = Totals(data.items) /\ other = [data EXCEPT !.totals = t]
    OBVIOUS
  <2>2. AfterOn(data) = other
    BY <2>1 DEF AfterOn
  <2>3. /\ OnData(other, e) = [Mutate(other, e) EXCEPT !.modifyBy = e.actor]
        /\ OnData(data, e) = [Mutate(data, e) EXCEPT !.modifyBy = e.actor]
    BY <1>2 DEF OnData
  <2>4. Mutate(other, e) = [Mutate(data, e) EXCEPT !.totals = t]
    BY <2>1, MutateIgnoresTotals
  <2>5. PICK d \in Data : d = OnData(data, e)
    BY OnDataType
  <2>6. OnData(other, e) = [d EXCEPT !.totals = t]
    BY <2>3, <2>4, <2>5
  <2>7. [d EXCEPT !.totals = t].items = d.items
    BY <2>5 DEF Data
  <2>8. AfterOn([d EXCEPT !.totals = t]) = AfterOn(d)
    <3>1. PICK u : u = Totals(d.items)
      OBVIOUS
    <3>2. /\ AfterOn(d) = [d EXCEPT !.totals = u]
          /\ AfterOn([d EXCEPT !.totals = t]) = [[d EXCEPT !.totals = t] EXCEPT !.totals = u]
      BY <2>7, <3>1 DEF AfterOn
    <3>. QED
      BY <2>5, <3>2 DEF Data
  <2>. QED
    BY <2>2, <2>5, <2>6, <2>8
<1>. QED
  BY <1>1, <1>2

LEMMA ConcatOne ==
  ASSUME NEW l \in Seq(Event), NEW r \in Seq(Event), NEW e \in Event
  PROVE  Len(r) = 1 /\ e = r[1] => l \o r = Append(l, e)
<1>1. PICK m, both : m = Append(l, e) /\ both = l \o r
  OBVIOUS
<1>2. /\ m \in Seq(Event) /\ Len(m) = Len(l) + 1 /\ m[Len(l) + 1] = e
      /\ \A i \in 1..Len(l) : m[i] = l[i]
  BY <1>1
<1>3. /\ both \in Seq(Event) /\ Len(both) = Len(l) + Len(r)
      /\ \A i \in 1..Len(l) : both[i] = l[i]
      /\ \A i \in 1..Len(r) : both[Len(l) + i] = r[i]
  BY <1>1
<1>4. ASSUME Len(r) = 1, e = r[1] PROVE both = m
  <2>1. Len(both) = Len(l) + 1 /\ both[Len(l) + 1] = e
    BY <1>3, <1>4
  <2>2. Len(both) = Len(m) /\ \A i \in 1..Len(both) : both[i] = m[i]
    BY <1>2, <1>3, <2>1
  <2>. QED
    BY <1>2, <1>3, <2>2, SeqEqual
<1>. QED
  BY <1>1, <1>4, Zenon

LEMMA ConcatTwo ==
  ASSUME NEW l \in Seq(Event), NEW r \in Seq(Event), NEW e \in Event, NEW s \in Event
  PROVE  Len(r) = 2 /\ e = r[1] /\ s = r[2] => l \o r = Append(Append(l, e), s)
<1>1. PICK m : m = Append(l, e)
  OBVIOUS
<1>2. /\ m \in Seq(Event) /\ Len(m) = Len(l) + 1 /\ m[Len(l) + 1] = e
      /\ \A i \in 1..Len(l) : m[i] = l[i]
  BY <1>1
<1>3. PICK m2, both : m2 = Append(m, s) /\ both = l \o r
  OBVIOUS
<1>4. /\ m2 \in Seq(Event) /\ Len(m2) = Len(l) + 2
      /\ m2[Len(l) + 2] = s /\ m2[Len(l) + 1] = e
      /\ \A i \in 1..Len(l) : m2[i] = l[i]
  BY <1>2, <1>3
<1>5. /\ both \in Seq(Event) /\ Len(both) = Len(l) + Len(r)
      /\ \A i \in 1..Len(l) : both[i] = l[i]
      /\ \A i \in 1..Len(r) : both[Len(l) + i] = r[i]
  BY <1>3
<1>6. ASSUME Len(r) = 2, e = r[1], s = r[2] PROVE both = m2
  <2>1. Len(both) = Len(l) + 2 /\ both[Len(l) + 1] = e /\ both[Len(l) + 2] = s
    BY <1>5, <1>6
  <2>2. Len(both) = Len(m2) /\ \A i \in 1..Len(both) : both[i] = m2[i]
    BY <1>4, <1>5, <2>1
  <2>. QED
    BY <1>4, <1>5, <2>2, SeqEqual
<1>. QED
  BY <1>1, <1>3, <1>6, Zenon

(* The order a load finds is what the whole stream tells. *)
LEMMA CurrentOrder ==
  ASSUME CloudOnly, LogInv, CloudInv, NEW current, current = Replay(LoadWindow(log))
  PROVE  /\ current \in Aggregates /\ current = Replay(log)
         /\ current.version = Len(log)
         /\ log # <<>> => current.data = AfterOn(DataOf(log))
         /\ log = <<>> => current.data = DataOf(log)
         /\ current.data.items = DataOf(log).items
         /\ current.data.state = DataOf(log).state
<1>1. log \in Seq(Event) /\ VersionIsPosition /\ current = Replay(log)
  BY CloudState DEF LogInv, TypeOK, TailReplayIsFull
<1>2. current \in Aggregates
  BY <1>1, ReplayType
<1>3. CASE log = <<>>
  <2>1. current = [version |-> 0, data |-> NewData] /\ DataOf(log) = NewData
    BY <1>1, <1>3, ReplayedFromEmpty DEF Replay, NewOrder, DataOf
  <2>. QED
    BY <1>1, <1>2, <1>3, <2>1
<1>4. CASE log # <<>>
  <2>1. current = [version |-> log[Len(log)].version, data |-> AfterOn(DataOf(log))]
    BY <1>1, <1>4 DEF Replay, DataOf
  <2>2. Len(log) \in DOMAIN log
    BY <1>1, <1>4
  <2>3. log[Len(log)].version = Len(log)
    BY <1>1, <2>2 DEF VersionIsPosition
  <2>4. DataOf(log) \in Data
    BY <1>1, DataOfType
  <2>5. /\ AfterOn(DataOf(log)).items = DataOf(log).items
        /\ AfterOn(DataOf(log)).state = DataOf(log).state
    BY <2>4 DEF AfterOn, Data
  <2>. QED
    BY <1>1, <1>2, <1>4, <2>1, <2>3, <2>5
<1>. QED
  BY <1>3, <1>4

(* It appends one event its guards and its evaluator allow, and perhaps a  *)
(* snapshot of what that event leads to.                                   *)
LEMMA SavedEvents ==
  ASSUME CloudOnly, LogInv, CloudInv, [Next]_vars, log' # log
  PROVE  \E e \in Event :
           /\ Guarded(log, e)
           /\ \/ log' = Append(log, e)
              \/ \E s \in Event :
                   /\ Guarded(Append(log, e), s)
                   /\ log' = Append(Append(log, e), s)
<1>1. PICK c \in Actors :
        LET current == Replay(LoadWindow(log)) IN
        /\ pc[c] = "save" /\ cmd[c] \in Commands
        /\ Admissible(cmd[c], current)
        /\ ~EvaluateSkips(cmd[c], current.data)
        /\ log' = log \o EmitEvents(cmd[c], c, current)
  BY SaveExtends
<1>2. PICK current, command, r :
        /\ current = Replay(LoadWindow(log))
        /\ command = cmd[c]
        /\ r = EmitEvents(command, c, current)
  OBVIOUS
<1>3. /\ command \in OrderCommands /\ log \in Seq(Event)
      /\ Admissible(command, current) /\ ~EvaluateSkips(command, current.data)
      /\ log' = log \o r
  BY <1>1, <1>2, RepositoryAssumption DEF LogInv, TypeOK
<1>4. /\ current \in Aggregates
      /\ current.version = Len(log)
      /\ log # <<>> => current.data = AfterOn(DataOf(log))
      /\ log = <<>> => current.data = DataOf(log)
      /\ current.data.items = DataOf(log).items
      /\ current.data.state = DataOf(log).state
  BY <1>2, CurrentOrder
<1>5. /\ r \in Seq(Event) /\ Len(r) \in {1, 2}
      /\ r[1].kind = Produces(command.name) /\ r[1].kind # "Snapshot"
      /\ r[1].arg = command.arg
      /\ Len(r) = 2 =>
           /\ r[2].kind = "Snapshot"
           /\ r[2].arg = AfterOn(OnData(current.data, r[1]))
  <2>1. ProtoValidate(command)
    BY <1>3 DEF Admissible
  <2>. QED
    BY <1>2, <1>3, <1>4, <2>1, EmitEventsShape
<1>6. PICK e \in Event : e = r[1]
  BY <1>5
<1>7. Guarded(log, e)
  <2>1. log = <<>> <=> current.version = 0
    BY <1>3, <1>4
  <2>2. /\ ValidateVersion(command, current.version)
        /\ GuardState(command, current.data)
        /\ ~EvaluateAborts(command, current.data)
        /\ ~EvaluateSkips(command, current.data)
        /\ command.name \in CommandNames
    BY <1>3 DEF Admissible, OrderCommands
  <2>3. e.kind = "Created" <=> log = <<>>
    BY <1>5, <1>6, <2>1, <2>2 DEF ValidateVersion, Produces, CommandNames
  <2>4. e.kind \in DraftKinds => DataOf(log).state = "DRAFT"
    BY <1>4, <1>5, <1>6, <2>2
       DEF GuardState, DraftOnly, DraftKinds, Produces, CommandNames
  <2>5. e.kind = "Cancelled" => DataOf(log).state \in {"DRAFT", "PLACED", "PAID"}
    BY <1>4, <1>5, <1>6, <2>2 DEF GuardState, Produces, CommandNames
  <2>6. e.kind = "ItemAdded" /\ e.arg # Nil => e.arg.id \notin DOMAIN DataOf(log).items
    BY <1>4, <1>5, <1>6, <2>2 DEF EvaluateAborts, ItemIdOf, Produces, CommandNames
  <2>7. e.kind = "ItemRemoved" => e.arg \in DOMAIN DataOf(log).items
    BY <1>4, <1>5, <1>6, <2>2 DEF EvaluateSkips, Produces, CommandNames
  <2>. QED
    BY <1>5, <1>6, <2>3, <2>4, <2>5, <2>6, <2>7 DEF Guarded
<1>8. CASE Len(r) = 1
  <2>1. log \o r = Append(log, e)
    BY <1>3, <1>5, <1>6, <1>8, ConcatOne, Zenon
  <2>. QED
    BY <1>3, <1>7, <2>1
<1>9. CASE Len(r) = 2
  <2>1. PICK s \in Event : s = r[2]
    <3>1. 2 \in DOMAIN r
      BY <1>5, <1>9
    <3>. QED
      BY <1>5, <3>1
  <2>2. log \o r = Append(Append(log, e), s)
    BY <1>3, <1>5, <1>6, <1>9, <2>1, ConcatTwo, Zenon
  <2>3. DataOf(Append(log, e)) = OnData(DataOf(log), e)
    BY <1>3, OneMore DEF Extended
  <2>4. DataOf(log) \in Data /\ OnData(DataOf(log), e) \in Data
    BY <1>3, DataOfType, OnDataType
  <2>5. s.arg = AfterOn(OnData(DataOf(log), e))
    <3>1. CASE log = <<>>
      BY <1>4, <1>5, <1>6, <1>9, <2>1, <3>1
    <3>2. CASE log # <<>>
      BY <1>4, <1>5, <1>6, <1>9, <2>1, <2>4, <3>2, AfterOnFirst
    <3>. QED
      BY <3>1, <3>2
  <2>6. /\ s.arg.items = DataOf(Append(log, e)).items
        /\ s.arg.state = DataOf(Append(log, e)).state
    BY <2>3, <2>4, <2>5 DEF AfterOn, Data
  <2>7. s.kind = "Snapshot" /\ Append(log, e) # <<>>
    BY <1>3, <1>5, <1>9, <2>1
  <2>8. Guarded(Append(log, e), s)
    BY <2>6, <2>7 DEF Guarded, DraftKinds
  <2>. QED
    BY <1>3, <1>7, <2>2, <2>8
<1>. QED
  BY <1>5, <1>8, <1>9

LEMMA InitHistory == Init => History(log)
<1>1. SUFFICES ASSUME Init PROVE History(log)
  OBVIOUS
<1>2. log = <<>> /\ Len(log) = 0 /\ DataOf(log) = NewData
  BY <1>1, ReplayedFromEmpty DEF Init, DataOf
<1>3. \A item \in ItemIds : Alternates(log, item) /\ ItemTold(log, item)
  BY <1>2 DEF Alternates, ItemTold, UntouchedBefore, NewData, EmptyMap
<1>4. LifeCycle(log) /\ StateTold(log)
  BY <1>2 DEF LifeCycle, StateTold, NewData
<1>. QED
  BY <1>3, <1>4 DEF History

LEMMA StepHistory ==
  CloudOnly /\ LogInv /\ CloudInv /\ History(log) /\ [Next]_vars => History(log)'
<1>1. SUFFICES ASSUME CloudOnly, LogInv, CloudInv, History(log), [Next]_vars
               PROVE  History(log')
  OBVIOUS
<1>2. CASE log' = log
  BY <1>1, <1>2
<1>3. CASE log' # log
  <2>1. PICK e \in Event :
           /\ Guarded(log, e)
           /\ \/ log' = Append(log, e)
              \/ \E s \in Event :
                   /\ Guarded(Append(log, e), s)
                   /\ log' = Append(Append(log, e), s)
    BY <1>1, <1>3, SavedEvents
  <2>2. log \in Seq(Event)
    BY <1>1 DEF LogInv, TypeOK
  <2>3. PICK more \in Seq(Event) : more = Append(log, e)
    <3>1. Append(log, e) \in Seq(Event)
      BY <2>1, <2>2
    <3>. QED
      BY <3>1
  <2>4. History(more)
    BY <1>1, <2>1, <2>2, <2>3, HistoryKept
  <2>5. CASE log' = more
    BY <2>4, <2>5
  <2>6. ASSUME NEW s \in Event, Guarded(more, s), log' = Append(more, s)
        PROVE  History(log')
    <3>1. History(Append(more, s))
      BY <2>3, <2>4, <2>6, HistoryKept
    <3>. QED
      BY <2>6, <3>1
  <2>. QED
    BY <2>1, <2>3, <2>5, <2>6
<1>. QED
  BY <1>2, <1>3

-----------------------------------------------------------------------------
(***************************************************************************)
(* The theorems.                                                           *)
(***************************************************************************)
LEMMA HistoryInvariant == CloudOnly => (Spec => []History(log))
<1>1. SUFFICES ASSUME CloudOnly PROVE Spec => []History(log)
  OBVIOUS
<1>2. LogInv /\ CloudInv /\ History(log) /\ [Next]_vars => History(log)'
  BY <1>1, StepHistory
<1>. QED
  BY <1>2, InitHistory, CloudInvariant, PTL DEF Spec

(* The order's life cycle holds in the stream itself, though its guards    *)
(* look at the loaded state alone: one creation, first; no draft event     *)
(* after the order was placed or cancelled; at most one cancellation.      *)
THEOREM LifeCycleCorrect == CloudOnly => (Spec => []LifeCycleInStream)
<1>1. SUFFICES ASSUME CloudOnly PROVE Spec => []LifeCycleInStream
  OBVIOUS
<1>2. LogInv /\ History(log) => LifeCycleInStream
  <2>1. SUFFICES ASSUME LogInv, LifeCycle(log) PROVE LifeCycleInStream
    BY DEF History
  <2>2. DOMAIN log = 1..Len(log)
    BY <2>1 DEF LogInv, TypeOK
  <2>. QED
    BY <2>1, <2>2 DEF LifeCycle, LifeCycleInStream, DraftKinds, Happened
<1>. QED
  BY <1>1, <1>2, LogInvariant, HistoryInvariant, PTL

(* The events of an item alternate, beginning with its addition, though    *)
(* the evaluators look at the loaded items alone.                          *)
THEOREM ItemEventsCorrect == CloudOnly => (Spec => []ItemEventsAlternate)
<1>1. SUFFICES ASSUME CloudOnly PROVE Spec => []ItemEventsAlternate
  OBVIOUS
<1>2. LogInv /\ History(log) => ItemEventsAlternate
  <2>1. SUFFICES ASSUME LogInv, NEW item \in ItemIds, Alternates(log, item),
                        NEW n \in DOMAIN log
        PROVE LET Before == {j \in 1..(n - 1) : Touches(log, j, item)}
                  Latest == CHOOSE j \in Before : \A k \in Before : k <= j
              IN  /\ Adds(log, n, item) => Before = {} \/ Removes(log, Latest, item)
                  /\ Removes(log, n, item) => Before # {} /\ Adds(log, Latest, item)
    BY Zenon DEF History, ItemEventsAlternate, Touches, Adds, Removes
  <2> DEFINE Before == {j \in 1..(n - 1) : Touches(log, j, item)}
             Latest == CHOOSE j \in Before : \A k \in Before : k <= j
  <2>2. DOMAIN log = 1..Len(log) /\ Len(log) \in Nat
    BY <2>1 DEF LogInv, TypeOK
  <2>3. ASSUME NEW i \in 1..(n - 1), LatestBefore(log, n, i, item)
        PROVE  i \in Before /\ Latest = i
    <3>1. i \in Before /\ \A k \in Before : k <= i
      BY <2>3 DEF LatestBefore
    <3>2. \A j, k \in Before : j <= k /\ k <= j => j = k
      BY <2>2
    <3> HIDE DEF Before
    <3>. QED
      BY <3>1, <3>2
  <2>4. UntouchedBefore(log, n, item) => Before = {}
    BY DEF UntouchedBefore
  <2> HIDE DEF Before, Latest
  <2>5. /\ Adds(log, n, item) =>
             UntouchedBefore(log, n, item) \/ RemovedBefore(log, n, item)
        /\ Removes(log, n, item) => AddedBefore(log, n, item)
    BY <2>1, <2>2 DEF Alternates
  <2>6. /\ Adds(log, n, item) => Before = {} \/ Removes(log, Latest, item)
        /\ Removes(log, n, item) => Before # {} /\ Adds(log, Latest, item)
    BY <2>3, <2>4, <2>5 DEF AddedBefore, RemovedBefore
  <2>. QED
    BY <2>6 DEF Before, Latest
<1>. QED
  BY <1>1, <1>2, LogInvariant, HistoryInvariant, PTL

(* The window a load reads holds a snapshot unless it is the whole stream. *)
THEOREM SnapshotInWindowCorrect == CloudOnly => (Spec => []SnapshotInWindow)
<1>1. SUFFICES ASSUME CloudOnly PROVE Spec => []SnapshotInWindow
  OBVIOUS
<1>2. LogInv /\ CloudInv => SnapshotInWindow
  BY <1>1, CloudState
<1>. QED
  BY <1>2, CloudInvariant, PTL

-----------------------------------------------------------------------------
(***************************************************************************)
(* The stored view and projection, over DynamoDBStore or CosmosDBStore:    *)
(* whatever order requests write them in, and whichever of these writes    *)
(* fail, what is stored is a state the order went through.                 *)
(***************************************************************************)

(* The order as it was when the stream ended at a version. *)
Past(l, version) ==
  [version |-> version, data |-> AfterOn(DataOf(SubSeq(l, 1, version)))]

(* What a request goes on to write: its aggregate and its events lead to   *)
(* the past state at the version of its last event.                        *)
Leads(c) ==
  pc[c] = "materialize" =>
    LET version == events[c][Len(events[c])].version IN
    /\ version \in 1..Len(log)
    /\ AfterOn(ReplayedFrom(agg[c].data, events[c])) = Past(log, version).data

HoldsPast(c) ==
  pc[c] = "project" =>
    agg[c].version \in 1..Len(log) /\ agg[c] = Past(log, agg[c].version)

ViewPast == view # Nil => view.version \in 1..Len(log) /\ view = Past(log, view.version)

SummaryPast == summary # Nil => \E v \in 1..Len(log) : summary = OrderSummary(Past(log, v))

ViewInv == ViewPast /\ SummaryPast /\ \A c \in Actors : Leads(c) /\ HoldsPast(c)

-----------------------------------------------------------------------------
LEMMA PastIsReplay ==
  ASSUME log \in Seq(Event), VersionIsPosition, NEW v \in 1..Len(log)
  PROVE  Past(log, v) = Replay(SubSeq(log, 1, v))
<1>1. PICK l : l = SubSeq(log, 1, v)
  OBVIOUS
<1>2. l # <<>> /\ Len(l) = v /\ l[v] = log[v] /\ v \in DOMAIN log
  BY <1>1
<1>3. l[Len(l)].version = v
  BY <1>2 DEF VersionIsPosition
<1>. QED
  BY <1>1, <1>2, <1>3 DEF Past, Replay, DataOf

LEMMA PastStays ==
  ASSUME CloudOnly, LogInv, [Next]_vars
  PROVE  /\ Len(log) \in Nat /\ Len(log') \in Nat /\ Len(log) <= Len(log')
         /\ \A v \in 1..Len(log) : v \in 1..Len(log') /\ Past(log', v) = Past(log, v)
<1>1. store = "cloud" /\ log \in Seq(Event)
  BY DEF LogInv, TypeOK, CloudOnly
<1>2. Len(log) \in Nat /\ Len(log') \in Nat /\ Len(log) <= Len(log')
  <2>1. ASSUME NEW c \in Actors, Appends(c)
        PROVE  Len(log') \in Nat /\ Len(log) <= Len(log')
    BY <1>1, <2>1, AppendedLog
  <2>. QED
    BY <1>1, <2>1, LogChanges
<1>3. \A v \in 1..Len(log) : SubSeq(log', 1, v) = SubSeq(log, 1, v)
  BY <1>1, PrefixStays
<1>4. \A v \in 1..Len(log) : Past(log', v) = Past(log, v)
  BY <1>3, Zenon DEF Past
<1>5. \A v \in 1..Len(log) : v \in 1..Len(log')
  BY <1>2
<1>. QED
  BY <1>2, <1>4, <1>5

(* Replaying one event, or an event and a snapshot, on a loaded order gives *)
(* what the whole stream gives, once derived fields are computed.          *)
LEMMA ReplayOnLoaded ==
  ASSUME NEW data \in Data, NEW r \in Seq(Event), Len(r) \in {1, 2},
         Len(r) = 2 => r[2].kind = "Snapshot"
  PROVE  AfterOn(ReplayedFrom(AfterOn(data), r)) = AfterOn(ReplayedFrom(data, r))
<1>1. CASE Len(r) = 1
  <2>1. PICK e \in Event : e = r[1]
    <3>1. 1 \in DOMAIN r
      BY <1>1
    <3>. QED
      BY <3>1
  <2>2. PICK empty \in Seq(Event) : empty = <<>>
    <3>1. <<>> \in Seq(Event)
      OBVIOUS
    <3>. QED
      BY <3>1
  <2>3. r = Append(empty, e)
    <3>1. empty \o r = Append(empty, e)
      BY <1>1, <2>1, ConcatOne, Zenon
    <3>2. empty \o r = r
      BY <2>2
    <3>. QED
      BY <3>1, <3>2
  <2>4. ASSUME NEW d PROVE ReplayedFrom(d, r) = OnData(d, e)
    <3>1. ReplayedFrom(d, Append(empty, e)) = OnData(ReplayedFrom(d, empty), e)
      BY ReplayedFromAppend
    <3>2. ReplayedFrom(d, empty) = d
      BY <2>2, ReplayedFromEmpty
    <3>. QED
      BY <2>3, <3>1, <3>2, Zenon
  <2>5. ReplayedFrom(AfterOn(data), r) = OnData(AfterOn(data), e)
    BY <2>4
  <2>6. ReplayedFrom(data, r) = OnData(data, e)
    BY <2>4
  <2>. QED
    BY <2>5, <2>6, AfterOnFirst
<1>2. CASE Len(r) = 2
  <2>1. 2 \in 1..Len(r) /\ r[2].kind = "Snapshot"
    BY <1>2
  <2>2. ReplayedFrom(AfterOn(data), r) = ReplayedFrom(data, r)
    BY <2>1, SnapshotErases
  <2>. QED
    BY <2>2
<1>. QED
  BY <1>1, <1>2

(* A request whose events have just been stored. *)
LEMMA SaveLeads ==
  ASSUME CloudOnly, LogInv, CloudInv, [Next]_vars, NEW c \in Actors, Save(c)
  PROVE  Leads(c)' /\ HoldsPast(c)'
<1>1. /\ store = "cloud" /\ log \in Seq(Event) /\ cmd[c] \in OrderCommands
      /\ pc \in [Actors -> Stages]
  BY RepositoryAssumption DEF LogInv, TypeOK, CloudOnly, Save, RequestOK
<1>2. /\ Appends(c) /\ pc'[c] = "materialize" /\ events' = events /\ agg' = agg
  BY <1>1, StoreAppends DEF Save, HasViews
<1>3. agg[c] = Replay(LoadWindow(log))
  <2>1. SubSeq(log, 1, agg[c].version) = log
    BY <1>1, <1>2 DEF Appends
  <2>2. agg[c] = Replay(LoadWindow(SubSeq(log, 1, agg[c].version)))
    BY <1>1, <1>2 DEF CloudInv, DecidedOnPrefix, Appends
  <2>. QED
    BY <2>1, <2>2
<1>4. PICK a, r : a = agg[c] /\ r = events[c]
  OBVIOUS
<1>5. /\ a \in Aggregates /\ a.version = Len(log)
      /\ log # <<>> => a.data = AfterOn(DataOf(log))
      /\ log = <<>> => a.data = DataOf(log)
  BY <1>3, <1>4, CurrentOrder
<1>6. /\ r \in Seq(Event) /\ Len(r) \in {1, 2}
      /\ Len(r) = 2 => r[2].kind = "Snapshot"
      /\ \A i \in 1..Len(r) : r[i].version = a.version + i
  <2>1. ProtoValidate(cmd[c]) /\ r = EmitEvents(cmd[c], c, a)
    BY <1>2, <1>4 DEF LogInv, RequestOK, Appends
  <2>. QED
    BY <1>1, <1>5, <2>1, EmitEventsShape
<1>7. PICK l : l = log'
  OBVIOUS
<1>8. /\ l \in Seq(Event) /\ l = log \o r /\ Len(l) = Len(log) + Len(r)
      /\ r[Len(r)].version = Len(l) /\ Len(l) \in 1..Len(l) /\ SubSeq(l, 1, Len(l)) = l
  <2>1. l \in Seq(Event) /\ l = log \o r /\ Len(l) = Len(log) + Len(r)
    BY <1>2, <1>4, <1>7, AppendedLog DEF Appends
  <2>2. Len(r) \in 1..Len(r) /\ Len(log) \in Nat /\ Len(r) \in Nat
    <3>1. Len(log) \in Nat
      BY <1>1
    <3>2. \A k \in {1, 2} : k \in 1..k /\ k \in Nat
      OBVIOUS
    <3>. QED
      BY <1>6, <3>1, <3>2, Zenon
  <2>3. r[Len(r)].version = Len(l)
    BY <1>5, <1>6, <2>1, <2>2
  <2>4. Len(l) \in 1..Len(l)
    BY <2>1, <2>2
  <2>5. SubSeq(l, 1, Len(l)) = l
    BY <2>1
  <2>. QED
    BY <2>1, <2>3, <2>4, <2>5
<1>9. DataOf(l) = ReplayedFrom(DataOf(log), r)
  BY <1>1, <1>6, <1>8, ReplayedFromConcat DEF DataOf
<1>10. AfterOn(ReplayedFrom(a.data, r)) = AfterOn(ReplayedFrom(DataOf(log), r))
  <2>1. CASE log = <<>>
    BY <1>5, <2>1
  <2>2. CASE log # <<>>
    <3>1. PICK data \in Data : data = DataOf(log)
      BY <1>1, DataOfType
    <3>2. AfterOn(ReplayedFrom(AfterOn(data), r)) = AfterOn(ReplayedFrom(data, r))
      BY <1>6, ReplayOnLoaded
    <3>. QED
      BY <1>5, <2>2, <3>1, <3>2
  <2>. QED
    BY <2>1, <2>2
<1>11. Past(l, Len(l)).data = AfterOn(ReplayedFrom(a.data, r))
  BY <1>8, <1>9, <1>10 DEF Past
<1>. QED
  BY <1>2, <1>4, <1>7, <1>8, <1>11 DEF Leads, HoldsPast

(* A request that another one leaves alone. *)
LEMMA OthersLead ==
  ASSUME CloudOnly, LogInv, [Next]_vars, NEW d \in Actors, Leads(d), HoldsPast(d),
         pc'[d] = pc[d], agg'[d] = agg[d], events'[d] = events[d]
  PROVE  Leads(d)' /\ HoldsPast(d)'
BY PastStays DEF Leads, HoldsPast

LEMMA OwnStep ==
  ASSUME CloudOnly, LogInv, CloudInv, ViewInv, [Next]_vars, NEW c \in Actors,
         (\E command \in Commands : Load(c, command)) \/ Continue(c) \/ Crash(c)
  PROVE  /\ Leads(c)' /\ HoldsPast(c)'
         /\ \A d \in Actors \ {c} :
              pc'[d] = pc[d] /\ agg'[d] = agg[d] /\ events'[d] = events[d]
<1>1. /\ pc \in [Actors -> Stages] /\ agg \in [Actors -> Aggregates]
      /\ events \in [Actors -> Seq(Event)] /\ store = "cloud"
  BY DEF LogInv, TypeOK, CloudOnly
<1>2. CASE Leave(c)
  BY <1>2, LeaveType DEF Leads, HoldsPast
<1>3. CASE (\E command \in Commands : Load(c, command)) \/ Emit(c)
  BY <1>1, <1>3 DEF Load, Emit, Leads, HoldsPast
<1>4. CASE Save(c)
  BY <1>1, <1>4, SaveLeads DEF Save, HasViews
<1>5. CASE Materialize(c)
  <2>1. PICK version : version = events[c][Len(events[c])].version
    OBVIOUS
  <2>2. /\ version \in 1..Len(log)
        /\ AfterOn(ReplayedFrom(agg[c].data, events[c])) = Past(log, version).data
    BY <1>5, <2>1 DEF ViewInv, Leads, Materialize
  <2>3. /\ pc'[c] = "project" /\ log' = log
        /\ agg'[c] = [version |-> version,
                      data |-> AfterOn(ReplayedFrom(agg[c].data, events[c]))]
    BY <1>1, <1>5, <2>1 DEF Materialize
  <2>4. agg'[c] = Past(log, version) /\ agg'[c].version = version
    BY <2>2, <2>3 DEF Past
  <2>5. Leads(c)' /\ HoldsPast(c)'
    BY <2>2, <2>3, <2>4 DEF Leads, HoldsPast
  <2>. QED
    BY <1>1, <1>5, <2>5 DEF Materialize
<1>. QED
  BY <1>2, <1>3, <1>4, <1>5
     DEF Continue, Decline, SaveFails, SaveReplyLost, Project, Acknowledge, Crash

(* Who writes the view, and who the projection. *)
LEMMA StoredPast ==
  ASSUME CloudOnly, LogInv, CloudInv, ViewInv, [Next]_vars
  PROVE  ViewPast' /\ SummaryPast'
<1>1. /\ view' = view \/ \E c \in Actors : Materialize(c)
      /\ summary' = summary \/ \E c \in Actors : Project(c)
  BY DEF Next, Load, Continue, Decline, Emit, Save, SaveFails, SaveReplyLost,
         Materialize, Project, Crash, vars
<1>2. ASSUME view' = view PROVE ViewPast'
  BY <1>2, PastStays DEF ViewInv, ViewPast
<1>3. ASSUME NEW c \in Actors, Materialize(c), view' # view PROVE ViewPast'
  <2>1. PICK version : version = events[c][Len(events[c])].version
    OBVIOUS
  <2>2. /\ version \in 1..Len(log)
        /\ AfterOn(ReplayedFrom(agg[c].data, events[c])) = Past(log, version).data
    BY <1>3, <2>1 DEF ViewInv, Leads, Materialize
  <2>3. /\ log' = log
        /\ view' = [version |-> version,
                    data |-> AfterOn(ReplayedFrom(agg[c].data, events[c]))]
    BY <1>3, <2>1 DEF Materialize
  <2>4. view' = Past(log, version) /\ view'.version = version
    BY <2>2, <2>3 DEF Past
  <2>. QED
    BY <2>2, <2>3, <2>4 DEF ViewPast
<1>4. ASSUME summary' = summary PROVE SummaryPast'
  BY <1>4, PastStays DEF ViewInv, SummaryPast
<1>5. ASSUME NEW c \in Actors, Project(c), summary' # summary PROVE SummaryPast'
  <2>1. agg[c].version \in 1..Len(log) /\ agg[c] = Past(log, agg[c].version)
    BY <1>5 DEF ViewInv, HoldsPast, Project
  <2>2. log' = log /\ summary' = OrderSummary(agg[c])
    BY <1>5 DEF Project
  <2>. QED
    BY <2>1, <2>2 DEF SummaryPast
<1>. QED
  BY <1>1, <1>2, <1>3, <1>4, <1>5

LEMMA StepViewInv == CloudOnly /\ LogInv /\ CloudInv /\ ViewInv /\ [Next]_vars => ViewInv'
<1>1. SUFFICES ASSUME CloudOnly, LogInv, CloudInv, ViewInv, [Next]_vars PROVE ViewInv'
  OBVIOUS
<1>2. ASSUME NEW d \in Actors PROVE Leads(d)' /\ HoldsPast(d)'
  <2>1. Leads(d) /\ HoldsPast(d)
    BY <1>1 DEF ViewInv
  <2>2. CASE UNCHANGED vars
    BY <1>1, <2>1, <2>2, OthersLead DEF vars, request
  <2>3. ASSUME NEW c \in Actors,
               (\E command \in Commands : Load(c, command)) \/ Continue(c) \/ Crash(c)
        PROVE  Leads(d)' /\ HoldsPast(d)'
    BY <1>1, <2>1, <2>3, OwnStep, OthersLead
  <2>. QED
    BY <1>1, <2>2, <2>3 DEF Next
<1>. QED
  BY <1>1, <1>2, StoredPast DEF ViewInv

LEMMA InitViewInv == Init => ViewInv
BY DEF Init, ViewInv, ViewPast, SummaryPast, Leads, HoldsPast

THEOREM ViewInvariant == CloudOnly => (Spec => []ViewInv)
<1>1. SUFFICES ASSUME CloudOnly PROVE Spec => []ViewInv
  OBVIOUS
<1>2. LogInv /\ CloudInv /\ ViewInv /\ [Next]_vars => ViewInv'
  BY <1>1, StepViewInv
<1>. QED
  BY <1>2, InitViewInv, CloudInvariant, PTL DEF Spec

-----------------------------------------------------------------------------
(* The stored view is a state the order went through, derived fields       *)
(* included, though SaveAggregate replaces it without looking at it.       *)
THEOREM ViewIsPastCorrect == CloudOnly => (Spec => []ViewIsPastState)
<1>1. SUFFICES ASSUME CloudOnly PROVE Spec => []ViewIsPastState
  OBVIOUS
<1>2. LogInv /\ CloudInv /\ ViewInv => ViewIsPastState
  <2>1. SUFFICES ASSUME LogInv, CloudInv, ViewPast, view # Nil
                 PROVE  /\ view.version \in 1..Len(log)
                        /\ view = Replay(SubSeq(log, 1, view.version))
    BY DEF ViewInv, ViewIsPastState
  <2>2. log \in Seq(Event) /\ VersionIsPosition
    BY <1>1, <2>1, CloudState DEF LogInv, TypeOK
  <2>. QED
    BY <2>1, <2>2, PastIsReplay DEF ViewPast
<1>. QED
  BY <1>1, <1>2, CloudInvariant, ViewInvariant, PTL

(* The stored projection is the projection of a state the order went       *)
(* through, not necessarily the one the view shows.                        *)
THEOREM SummaryIsPastCorrect == CloudOnly => (Spec => []SummaryIsPastState)
<1>1. SUFFICES ASSUME CloudOnly PROVE Spec => []SummaryIsPastState
  OBVIOUS
<1>2. LogInv /\ CloudInv /\ ViewInv => SummaryIsPastState
  <2>1. SUFFICES ASSUME LogInv, CloudInv, SummaryPast, summary # Nil
                 PROVE  \E v \in 1..Len(log) :
                          summary = OrderSummary(Replay(SubSeq(log, 1, v)))
    BY DEF ViewInv, SummaryIsPastState
  <2>2. log \in Seq(Event) /\ VersionIsPosition
    BY <1>1, <2>1, CloudState DEF LogInv, TypeOK
  <2>3. PICK v \in 1..Len(log) : summary = OrderSummary(Past(log, v))
    BY <2>1 DEF SummaryPast
  <2>. QED
    BY <2>2, <2>3, PastIsReplay
<1>. QED
  BY <1>1, <1>2, CloudInvariant, ViewInvariant, PTL

=============================================================================
