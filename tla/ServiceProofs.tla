---------------------------- MODULE ServiceProofs ----------------------------
(***************************************************************************)
(* A generated service stores what callers are entitled to, answers the    *)
(* truth, and reads what it was asked for: for every number of requests,   *)
(* clients, aggregates and applications, whatever fails, in either cloud.  *)
(*                                                                         *)
(* The invariant says of a request how far what it decided is from the     *)
(* stream of its aggregate: its events continue some version the stream    *)
(* has, the stores take only those that continue the last, and so nothing  *)
(* acknowledged is ever displaced.  That reads meet their aggregate needs  *)
(* the whole way of a request: the path the client makes, the first route  *)
(* that fits, and the handler of that route.                               *)
(***************************************************************************)
EXTENDS Service, Induction

(* What a request consists of. *)
Fields ==
  {"call", "caller", "stage", "status", "events", "version", "seen", "found", "listed"}

(* A sequence, of whatever it consists of. *)
IsList(s) == Len(s) \in Nat /\ s = [k \in 1..Len(s) |-> s[k]]

(* An event the application can replay. *)
Replayable(event) ==
  /\ app = "sample" =>
       /\ event.kind \in {"Created", "Updated", "Snapshot"}
       /\ event.kind = "Snapshot" => "version" \in DOMAIN event.arg
  /\ app = "samplenosnapshot" => event.kind \in {"Created", "Updated"}

(* What StoredAsGranted says of an event. *)
Granted(event) ==
  \/ Original(event)
  \/ event.kind = "Snapshot"
  \/ authorizer = "allowall" /\ event.actor = "Unknown"
  \/ authorizer = "external" /\ event.actor \in DOMAIN Grants
       /\ Holds(event.actor, event.kind)

GoodStream(s) ==
  /\ IsList(s)
  /\ \A k \in DOMAIN s : s[k].version = k /\ Replayable(s[k]) /\ Granted(s[k])

(* An item is where its keys say, and its message bears the id it is       *)
(* found by.                                                               *)
GoodTable(t) ==
  \A key \in DOMAIN t : key = <<t[key].pk, t[key].sk>> /\ t[key].pk.is = t[key].body.id

(* Events that continue a stream at a version it has, or once had last. *)
Continue(events, s) ==
  \E n \in 0..Len(s) : \A k \in DOMAIN events : events[k].version = n + k

(* The events of a command are in the stream as they were emitted. *)
AreIn(events, s) ==
  \A k \in DOMAIN events :
    /\ events[k].version \in DOMAIN s
    /\ SameEvent(s[events[k].version], events[k])

Stored(r) == r.events # <<>> /\ (r.stage = "saved" \/ r.status = 200)

Decided(r) ==
  /\ r.call.name \in CommandNames /\ r.call.id \in Ids
  /\ IsList(r.events)
  /\ \A k \in DOMAIN r.events : Replayable(r.events[k]) /\ Granted(r.events[k])
  /\ Continue(r.events, streams[r.call.id])
  /\ r.status \in {0, 200, 500}
  /\ Stored(r) => AreIn(r.events, streams[r.call.id])

(* What LoadSeesAcknowledged and ReadsAnswerTheQuestion say of a request. *)
SeesAcknowledged(r) ==
  r.call.name \in {"Load", "History"} /\ Plain(r.call) /\ r.status \in {200, 404}
  => r.version >= r.seen

AnswersTheQuestion(r) ==
  r.call.name \in {"Load", "Get", "History", "GetOrderSummary"}
    /\ r.status = 200 /\ Plain(r.call)
  => r.found \in {<<r.call.id>>} \cup
                   IF r.call.name = "GetOrderSummary" THEN {<<>>} ELSE {}

GoodCall(call) ==
  /\ call.name \in Calls[app]
  /\ call.id \in Seq(Range(call.id) \ {""})
  /\ call.name \in CommandNames => call.id \in Ids \cup {<<>>}

GoodRequest(r) ==
  /\ DOMAIN r = Fields
  /\ GoodCall(r.call)
  /\ r.stage \in {"sent", "saving", "saved", "done"}
  /\ r.status \in Statuses
  /\ r.status = 0 <=> r.stage # "done"
  /\ r.stage = "sent" =>
       r.events = <<>> /\ r.call.name \notin Direct /\ Client(r.call, Claimed) # Unsent
  /\ r.stage \in {"saving", "saved"} => r.events # <<>>
  /\ r.events # <<>> => Decided(r)
  /\ r.version \in Nat /\ r.seen \in Nat
  /\ r.seen <= Len(Stream(r.call.id))
  /\ IsCommand(r) /\ r.status = 200 => r.version <= Len(Stream(r.call.id))
  /\ SeesAcknowledged(r)
  /\ AnswersTheQuestion(r)

(* No two commands stored events under the same version. *)
Distinct ==
  \A i, j \in DOMAIN requests :
    /\ i # j /\ requests[i].call.id = requests[j].call.id
    /\ Stored(requests[i]) /\ Stored(requests[j])
    => LastVersion(requests[i].events) # LastVersion(requests[j].events)

(* An event is an original one, or one of a request. *)
HasOrigin(id, event) ==
  ~Original(event) =>
    \E i \in DOMAIN requests :
      /\ requests[i].call.id = id
      /\ \E k \in DOMAIN requests[i].events : SameEvent(requests[i].events[k], event)

ServiceInv ==
  /\ app \in Apps /\ cloud \in Clouds /\ authorizer \in Authorizers
  /\ DOMAIN streams = Ids
  /\ \A id \in Ids : GoodStream(streams[id])
  /\ \A id \in Ids : \A k \in DOMAIN streams[id] : HasOrigin(id, streams[id][k])
  /\ GoodTable(table)
  /\ IsList(requests)
  /\ \A i \in DOMAIN requests : GoodRequest(requests[i])
  /\ Distinct
-----------------------------------------------------------------------------
(***************************************************************************)
(* Sequences and sets of numbers.                                          *)
(***************************************************************************)
LEMMA ListFacts ==
  ASSUME NEW s, IsList(s)
  PROVE  /\ Len(s) \in Nat /\ DOMAIN s = 1..Len(s)
         /\ \A T : (\A k \in 1..Len(s) : s[k] \in T) => s \in Seq(T)
<1>1. PICK n \in Nat : n = Len(s)
  BY DEF IsList
<1>2. s = [k \in 1..n |-> s[k]]
  BY <1>1, Zenon DEF IsList
<1>3. DOMAIN s = 1..n
  BY <1>2, Zenon
<1>4. ASSUME NEW T, \A k \in 1..n : s[k] \in T
      PROVE  s \in Seq(T)
  <2>1. s \in [1..n -> T]
    BY <1>2, <1>4
  <2>. QED
    BY <2>1
<1>5. \A T : (\A k \in 1..n : s[k] \in T) => s \in Seq(T)
  BY <1>4
<1>. QED
  BY <1>1, <1>3, <1>5

(* A sequence over a set is a list.                                        *)
LEMMA SeqIsList ==
  ASSUME NEW T, NEW s \in Seq(T)
  PROVE  IsList(s)
BY DEF IsList

(* What is appended comes last: a request that is sent.                    *)
LEMMA ListAppend ==
  ASSUME NEW s, IsList(s), NEW x
  PROVE  /\ IsList(Append(s, x))
         /\ DOMAIN Append(s, x) = 1..(Len(s) + 1) /\ DOMAIN s = 1..Len(s)
         /\ Len(Append(s, x)) = Len(s) + 1 /\ Len(s) \in Nat
         /\ Append(s, x)[Len(s) + 1] = x
         /\ \A k \in DOMAIN s : Append(s, x)[k] = s[k]
<1>1. PICK T : T = {s[k] : k \in 1..Len(s)} \cup {x}
  OBVIOUS
<1>2. s \in Seq(T) /\ x \in T
  BY <1>1, ListFacts
<1>3. /\ Append(s, x) \in Seq(T)
      /\ DOMAIN Append(s, x) = 1..(Len(s) + 1) /\ DOMAIN s = 1..Len(s)
      /\ Len(Append(s, x)) = Len(s) + 1 /\ Len(s) \in Nat
  BY <1>2
<1>4. Append(s, x)[Len(s) + 1] = x /\ \A k \in 1..Len(s) : Append(s, x)[k] = s[k]
  BY <1>2
<1>. QED
  BY <1>3, <1>4, SeqIsList

(* c is t behind s. *)
IsJoin(s, t, c) ==
  /\ IsList(c)
  /\ Len(s) \in Nat /\ Len(t) \in Nat /\ Len(c) = Len(s) + Len(t)
  /\ DOMAIN s = 1..Len(s) /\ DOMAIN t = 1..Len(t) /\ DOMAIN c = 1..(Len(s) + Len(t))
  /\ \A k \in DOMAIN s : k \in DOMAIN c /\ c[k] = s[k]
  /\ \A k \in DOMAIN t : Len(s) + k \in DOMAIN c /\ c[Len(s) + k] = t[k]
  /\ \A k \in DOMAIN c : k \in DOMAIN s \/ \E j \in DOMAIN t : k = Len(s) + j

(* Joining two lists: a stream and the events that are saved.              *)
LEMMA ListConcat ==
  ASSUME NEW s, IsList(s), NEW t, IsList(t)
  PROVE  IsJoin(s, t, s \o t)
<1>1. PICK T : T = {s[k] : k \in 1..Len(s)} \cup {t[k] : k \in 1..Len(t)}
  OBVIOUS
<1>2. s \in Seq(T) /\ t \in Seq(T)
  BY <1>1, ListFacts
<1>3. PICK m \in Nat : m = Len(s) /\ DOMAIN s = 1..m
  BY <1>2
<1>4. PICK n \in Nat : n = Len(t) /\ DOMAIN t = 1..n
  BY <1>2
<1>5. PICK c : c = s \o t
  OBVIOUS
<1>6. c \in Seq(T) /\ Len(c) = m + n /\ DOMAIN c = 1..(m + n)
  BY <1>2, <1>3, <1>4, <1>5
<1>7. \A k \in 1..m : c[k] = s[k]
  BY <1>2, <1>3, <1>5
<1>8. \A k \in 1..n : c[m + k] = t[k]
  BY <1>2, <1>3, <1>4, <1>5
<1>9. ASSUME NEW k \in 1..(m + n), k \notin 1..m
      PROVE  \E j \in 1..n : k = m + j
  <2>1. k - m \in 1..n /\ k = m + (k - m)
    BY <1>9
  <2>. QED
    BY <2>1
<1>10. /\ \A k \in 1..m : k \in 1..(m + n)
       /\ \A k \in 1..n : m + k \in 1..(m + n)
  OBVIOUS
<1>11. IsList(c)
  BY <1>6, SeqIsList
<1>12. IsJoin(s, t, c)
  <2>1. /\ IsList(c) /\ Len(s) \in Nat /\ Len(t) \in Nat /\ Len(c) = Len(s) + Len(t)
        /\ DOMAIN s = 1..Len(s) /\ DOMAIN t = 1..Len(t)
        /\ DOMAIN c = 1..(Len(s) + Len(t))
    BY <1>3, <1>4, <1>6, <1>11
  <2>2. \A k \in DOMAIN s : k \in DOMAIN c /\ c[k] = s[k]
    BY <1>3, <1>6, <1>7, <1>10
  <2>3. \A k \in DOMAIN t : Len(s) + k \in DOMAIN c /\ c[Len(s) + k] = t[k]
    BY <1>3, <1>4, <1>6, <1>8, <1>10
  <2>4. ASSUME NEW k \in DOMAIN c, k \notin DOMAIN s
        PROVE  \E j \in DOMAIN t : k = Len(s) + j
    <3>1. k \in 1..(m + n) /\ k \notin 1..m
      BY <1>3, <1>6, <2>4
    <3>2. PICK j \in 1..n : k = m + j
      BY <1>9, <3>1
    <3>. QED
      BY <1>3, <1>4, <3>2
  <2>. QED
    BY <2>1, <2>2, <2>3, <2>4, Zenon DEF IsJoin
<1>. QED
  BY <1>5, <1>12

(* A list of one.                                                          *)
LEMMA SingleList ==
  ASSUME NEW x
  PROVE  IsList(<<x>>) /\ Len(<<x>>) = 1 /\ DOMAIN <<x>> = {1} /\ <<x>>[1] = x
<1>1. <<x>> \in Seq({x}) /\ Len(<<x>>) = 1 /\ <<x>>[1] = x
  OBVIOUS
<1>2. DOMAIN <<x>> = {1}
  OBVIOUS
<1>. QED
  BY <1>1, <1>2, SeqIsList

(* A list of two.                                                          *)
LEMMA PairList ==
  ASSUME NEW x, NEW y
  PROVE  /\ IsList(<<x, y>>) /\ Len(<<x, y>>) = 2 /\ DOMAIN <<x, y>> = {1, 2}
         /\ <<x, y>>[1] = x /\ <<x, y>>[2] = y
<1>1. <<x, y>> \in Seq({x, y}) /\ Len(<<x, y>>) = 2
  OBVIOUS
<1>2. <<x, y>>[1] = x /\ <<x, y>>[2] = y
  OBVIOUS
<1>3. DOMAIN <<x, y>> = {1, 2}
  OBVIOUS
<1>. QED
  BY <1>1, <1>2, <1>3, SeqIsList

(* A set of numbers has a least one: the first route that fits.            *)
LEMMA LeastExists ==
  ASSUME NEW Ns \in SUBSET Nat, NEW s \in Ns
  PROVE  \E n \in Ns : \A m \in Ns : n <= m
<1> DEFINE T == {n \in Nat : \A m \in Ns : n <= m}
<1>1. SUFFICES ASSUME \A n \in Ns : \E m \in Ns : ~(n <= m)
               PROVE  FALSE
  OBVIOUS
<1>2. 0 \in T
  OBVIOUS
<1>3. ASSUME NEW n \in T PROVE n + 1 \in T
  <2>1. n \notin Ns
    BY <1>1
  <2>. QED
    BY <2>1
<1>4. T = Nat
  <2> HIDE DEF T
  <2>1. T \in SUBSET Nat
    BY DEF T
  <2>. QED
    BY <1>2, <1>3, <2>1, SetInduction
<1>5. s + 1 \in T
  <2> HIDE DEF T
  <2>1. s \in Nat
    OBVIOUS
  <2>. QED
    BY <1>4, <2>1
<1>. QED
  BY <1>5

(* The least number of a set is one of it (Dispatch takes the first        *)
(* route).                                                                 *)
LEMMA MinIsLeast ==
  ASSUME NEW Ns \in SUBSET Nat, Ns # {}
  PROVE  Min(Ns) \in Ns
<1>1. PICK k \in Ns : TRUE
  OBVIOUS
<1>2. PICK n \in Ns : \A m \in Ns : n <= m
  BY <1>1, LeastExists
<1>. QED
  BY <1>2 DEF Min

(* A set of bounded numbers has a greatest one: the version last           *)
(* acknowledged.                                                           *)
LEMMA GreatestExists ==
  ASSUME NEW n \in Nat, NEW Ns \in SUBSET (0..n), Ns # {}
  PROVE  \E m \in Ns : \A k \in Ns : k <= m
<1> DEFINE T == {j \in 0..n : n - j \in Ns}
<1>1. T \in SUBSET Nat /\ \E k \in T : TRUE
  <2>1. PICK k \in Ns : TRUE
    OBVIOUS
  <2>2. n - k \in 0..n /\ n - (n - k) = k
    BY <2>1
  <2>3. n - k \in T
    BY <2>2
  <2>4. T \in SUBSET Nat
    OBVIOUS
  <2>. QED
    BY <2>3, <2>4
<1>2. PICK j \in T : \A i \in T : j <= i
  <2> HIDE DEF T
  <2>. QED
    BY <1>1, LeastExists
<1>3. j \in 0..n /\ n - j \in Ns
  OBVIOUS
<1>4. ASSUME NEW k \in Ns PROVE k <= n - j
  <2>1. n - k \in 0..n /\ n - (n - k) = k
    OBVIOUS
  <2>2. n - k \in T
    BY <2>1
  <2>. QED
    BY <1>2, <1>3, <2>1, <2>2
<1>. QED
  BY <1>3, <1>4

(* The list without elements.                                              *)
LEMMA EmptyList ==
  ASSUME NEW s, IsList(s), Len(s) = 0
  PROVE  s = <<>>
<1>1. s = [k \in 1..Len(s) |-> s[k]]
  BY Zenon DEF IsList
<1>. QED
  BY <1>1

-----------------------------------------------------------------------------
(***************************************************************************)
(* The version an aggregate has after its events: that of the last one.    *)
(***************************************************************************)
SFolds(f, records, n) ==
  f = [k \in 0..n |-> IF k = 0 THEN S!NewSample ELSE S!On(f[k - 1], records[k])]

(* The replay of a sample, as a function of how many records it has read.  *)
LEMMA SFoldExists ==
  ASSUME NEW records, NEW n \in Nat
  PROVE  \E f : SFolds(f, records, n)
<1> DEFINE T == {m \in Nat : \E f : SFolds(f, records, m)}
<1>1. 0 \in T
  <2> DEFINE f == [k \in 0..0 |-> S!NewSample]
  <2>1. SFolds(f, records, 0)
    BY DEF SFolds
  <2>. QED
    BY <2>1
<1>2. ASSUME NEW m \in T PROVE m + 1 \in T
  <2>1. PICK f : SFolds(f, records, m)
    OBVIOUS
  <2> DEFINE g == [k \in 0..(m + 1) |->
                     IF k = m + 1 THEN S!On(f[m], records[m + 1]) ELSE f[k]]
  <2>2. SFolds(g, records, m + 1)
    BY <2>1 DEF SFolds
  <2>. QED
    BY <2>2
<1>3. T = Nat
  <2> HIDE DEF T
  <2>1. T \in SUBSET Nat
    BY DEF T
  <2>. QED
    BY <1>1, <1>2, <2>1, SetInduction
<1>. QED
  BY <1>3

(* What Replay of a sample returns is where that function ends.            *)
LEMMA SReplayFold ==
  ASSUME NEW records, Len(records) \in Nat
  PROVE  \E f : SFolds(f, records, Len(records)) /\ S!Replay(records) = f[Len(records)]
<1> DEFINE n == Len(records)
           h == CHOOSE f : f = [k \in 0..n |-> IF k = 0 THEN S!NewSample
                                              ELSE S!On(f[k - 1], records[k])]
<1>1. SFolds(h, records, n)
  BY SFoldExists DEF SFolds
<1>2. S!Replay(records) = h[n]
  BY DEF S!Replay
<1>. QED
  BY <1>1, <1>2

(* On of a sample takes the version of the event, Snapshot that of its     *)
(* argument.                                                               *)
LEMMA SOnVersion ==
  ASSUME NEW agg, "version" \in DOMAIN agg, NEW event,
         event.kind \in {"Created", "Updated", "Snapshot"},
         event.kind = "Snapshot" => "version" \in DOMAIN event.arg
  PROVE  "version" \in DOMAIN S!On(agg, event) /\ S!On(agg, event).version = event.version
<1> DEFINE at == [agg EXCEPT !.version = event.version, !.body = event.arg]
<1>1. "version" \in DOMAIN at /\ at.version = event.version
  OBVIOUS
<1> HIDE DEF at
<1>2. CASE event.kind = "Created"
  <2>1. S!On(agg, event) = S!setModified(S!setCreated(at, event), event)
    BY <1>2 DEF S!On, at
  <2>. QED
    BY <1>1, <2>1 DEF S!setModified, S!setCreated
<1>3. CASE event.kind = "Updated"
  <2>1. S!On(agg, event) = S!setModified(at, event)
    BY <1>3 DEF S!On, at
  <2>. QED
    BY <1>1, <2>1 DEF S!setModified
<1>4. CASE event.kind = "Snapshot"
  <2>1. S!On(agg, event) = S!RestoreSnapshot(event)
    BY <1>4 DEF S!On, at
  <2>. QED
    BY <1>4, <2>1 DEF S!RestoreSnapshot
<1>. QED
  BY <1>2, <1>3, <1>4

(* A replayed sample has the version of the last record.                   *)
LEMMA SReplayVersion ==
  ASSUME app = "sample", NEW s, IsList(s),
         \A k \in DOMAIN s : s[k].version = k /\ Replayable(s[k])
  PROVE  "version" \in DOMAIN S!Replay(s) /\ S!Replay(s).version = Len(s)
<1>1. PICK n \in Nat : n = Len(s) /\ DOMAIN s = 1..n
  BY ListFacts
<1>2. PICK f : SFolds(f, s, n) /\ S!Replay(s) = f[n]
  BY <1>1, SReplayFold
<1> DEFINE Right(m) == "version" \in DOMAIN f[m] /\ f[m].version = m
           T == {m \in Nat : m <= n => Right(m)}
<1>3. 0 \in T
  BY <1>2 DEF SFolds, S!NewSample
<1>4. ASSUME NEW m \in T PROVE m + 1 \in T
  <2>1. SUFFICES ASSUME m + 1 <= n PROVE Right(m + 1)
    OBVIOUS
  <2>2. f[m + 1] = S!On(f[m], s[m + 1])
    BY <1>2, <2>1 DEF SFolds
  <2>3. "version" \in DOMAIN f[m]
    BY <2>1
  <2>4. s[m + 1].version = m + 1 /\ Replayable(s[m + 1])
    BY <1>1, <2>1
  <2>5. \A agg, e : "version" \in DOMAIN agg /\ Replayable(e) =>
          "version" \in DOMAIN S!On(agg, e) /\ S!On(agg, e).version = e.version
    BY SOnVersion DEF Replayable
  <2>. QED
    BY <2>2, <2>3, <2>4, <2>5
<1>5. T = Nat
  <2> HIDE DEF T
  <2>1. T \in SUBSET Nat
    BY DEF T
  <2>. QED
    BY <1>3, <1>4, <2>1, SetInduction
<1>6. Right(n)
  BY <1>5
<1>. QED
  BY <1>1, <1>2, <1>6

NFolds(f, records, n) ==
  f = [k \in 0..n |-> IF k = 0 THEN N!NewSample ELSE N!On(f[k - 1], records[k])]

(* The replay of a sample without snapshots, record by record.             *)
LEMMA NFoldExists ==
  ASSUME NEW records, NEW n \in Nat
  PROVE  \E f : NFolds(f, records, n)
<1> DEFINE T == {m \in Nat : \E f : NFolds(f, records, m)}
<1>1. 0 \in T
  <2> DEFINE f == [k \in 0..0 |-> N!NewSample]
  <2>1. NFolds(f, records, 0)
    BY DEF NFolds
  <2>. QED
    BY <2>1
<1>2. ASSUME NEW m \in T PROVE m + 1 \in T
  <2>1. PICK f : NFolds(f, records, m)
    OBVIOUS
  <2> DEFINE g == [k \in 0..(m + 1) |->
                     IF k = m + 1 THEN N!On(f[m], records[m + 1]) ELSE f[k]]
  <2>2. NFolds(g, records, m + 1)
    BY <2>1 DEF NFolds
  <2>. QED
    BY <2>2
<1>3. T = Nat
  <2> HIDE DEF T
  <2>1. T \in SUBSET Nat
    BY DEF T
  <2>. QED
    BY <1>1, <1>2, <2>1, SetInduction
<1>. QED
  BY <1>3

(* What its Replay returns is where that function ends.                    *)
LEMMA NReplayFold ==
  ASSUME NEW records, Len(records) \in Nat
  PROVE  \E f : NFolds(f, records, Len(records)) /\ N!Replay(records) = f[Len(records)]
<1> DEFINE n == Len(records)
           h == CHOOSE f : f = [k \in 0..n |-> IF k = 0 THEN N!NewSample
                                              ELSE N!On(f[k - 1], records[k])]
<1>1. NFolds(h, records, n)
  BY NFoldExists DEF NFolds
<1>2. N!Replay(records) = h[n]
  BY DEF N!Replay
<1>. QED
  BY <1>1, <1>2

(* On of a sample without snapshots takes the version of the event.        *)
LEMMA NOnVersion ==
  ASSUME NEW agg, "version" \in DOMAIN agg, NEW event,
         event.kind \in {"Created", "Updated"}
  PROVE  "version" \in DOMAIN N!On(agg, event) /\ N!On(agg, event).version = event.version
<1> DEFINE at == [agg EXCEPT !.version = event.version, !.body = event.arg]
<1>1. "version" \in DOMAIN at /\ at.version = event.version
  OBVIOUS
<1> HIDE DEF at
<1>2. CASE event.kind = "Created"
  <2>1. N!On(agg, event) = N!setModified(N!setCreated(at, event), event)
    BY <1>2 DEF N!On, at
  <2>. QED
    BY <1>1, <2>1 DEF N!setModified, N!setCreated
<1>3. CASE event.kind = "Updated"
  <2>1. N!On(agg, event) = N!setModified(at, event)
    BY <1>3 DEF N!On, at
  <2>. QED
    BY <1>1, <2>1 DEF N!setModified
<1>. QED
  BY <1>2, <1>3

(* A replayed sample without snapshots has the version of the last record. *)
LEMMA NReplayVersion ==
  ASSUME app = "samplenosnapshot", NEW s, IsList(s),
         \A k \in DOMAIN s : s[k].version = k /\ Replayable(s[k])
  PROVE  "version" \in DOMAIN N!Replay(s) /\ N!Replay(s).version = Len(s)
<1>1. PICK n \in Nat : n = Len(s) /\ DOMAIN s = 1..n
  BY ListFacts
<1>2. PICK f : NFolds(f, s, n) /\ N!Replay(s) = f[n]
  BY <1>1, NReplayFold
<1> DEFINE Right(m) == "version" \in DOMAIN f[m] /\ f[m].version = m
           T == {m \in Nat : m <= n => Right(m)}
<1>3. 0 \in T
  BY <1>2 DEF NFolds, N!NewSample
<1>4. ASSUME NEW m \in T PROVE m + 1 \in T
  <2>1. SUFFICES ASSUME m + 1 <= n PROVE Right(m + 1)
    OBVIOUS
  <2>2. f[m + 1] = N!On(f[m], s[m + 1])
    BY <1>2, <2>1 DEF NFolds
  <2>3. "version" \in DOMAIN f[m]
    BY <2>1
  <2>4. s[m + 1].version = m + 1 /\ Replayable(s[m + 1])
    BY <1>1, <2>1
  <2>5. \A agg, e : "version" \in DOMAIN agg /\ Replayable(e) =>
          "version" \in DOMAIN N!On(agg, e) /\ N!On(agg, e).version = e.version
    BY NOnVersion DEF Replayable
  <2>. QED
    BY <2>2, <2>3, <2>4, <2>5
<1>5. T = Nat
  <2> HIDE DEF T
  <2>1. T \in SUBSET Nat
    BY DEF T
  <2>. QED
    BY <1>3, <1>4, <2>1, SetInduction
<1>6. Right(n)
  BY <1>5
<1>. QED
  BY <1>1, <1>2, <1>6

-----------------------------------------------------------------------------
(***************************************************************************)
(* What a command emits.                                                   *)
(***************************************************************************)
Kind(name) == Of(O!Produces(name), S!Produces(name), S!Produces(name))

Emits(e, cmd, s, now) ==
  /\ IsList(e) /\ 1 \in DOMAIN e
  /\ \A k \in DOMAIN e :
       /\ e[k].version = Len(s) + k /\ e[k].at = now /\ Replayable(e[k])
       /\ \/ e[k].kind = "Snapshot"
          \/ e[k].kind = Kind(cmd.name) /\ e[k].actor = cmd.actor

(* A list that consists of an event, or of an event and a snapshot. *)
LEMMA EmitsOne ==
  ASSUME NEW cmd, NEW s, Len(s) \in Nat, NEW now, NEW event,
         event.version = Len(s) + 1, event.at = now, Replayable(event),
         event.kind = Kind(cmd.name), event.actor = cmd.actor
  PROVE  Emits(<<event>>, cmd, s, now)
<1>1. IsList(<<event>>) /\ DOMAIN <<event>> = {1} /\ <<event>>[1] = event
  BY SingleList
<1>. QED
  BY <1>1 DEF Emits

(* An event followed by a snapshot (the sample, when the interval is met). *)
LEMMA EmitsTwo ==
  ASSUME NEW cmd, NEW s, Len(s) \in Nat, NEW now, NEW event, NEW snapshot,
         event.version = Len(s) + 1, event.at = now, Replayable(event),
         event.kind = Kind(cmd.name), event.actor = cmd.actor,
         snapshot.version = Len(s) + 2, snapshot.at = now, Replayable(snapshot),
         snapshot.kind = "Snapshot"
  PROVE  Emits(<<event, snapshot>>, cmd, s, now)
<1>1. /\ IsList(<<event, snapshot>>) /\ DOMAIN <<event, snapshot>> = {1, 2}
      /\ <<event, snapshot>>[1] = event /\ <<event, snapshot>>[2] = snapshot
  BY PairList
<1>. QED
  BY <1>1 DEF Emits

(* A list of length two is the pair of what it consists of.                *)
LEMMA PairOf ==
  ASSUME NEW x, NEW y, NEW p, IsList(p), Len(p) = 2, p[1] = x, p[1 + 1] = y
  PROVE  p = <<x, y>>
<1>1. IsList(<<x, y>>) /\ Len(<<x, y>>) = 2 /\ <<x, y>>[1] = x /\ <<x, y>>[2] = y
  BY PairList
<1>2. p = [k \in 1..2 |-> p[k]] /\ <<x, y>> = [k \in 1..2 |-> <<x, y>>[k]]
  BY <1>1, Zenon DEF IsList
<1>3. \A k \in 1..2 : p[k] = <<x, y>>[k]
  BY <1>1
<1>. QED
  BY <1>2, <1>3

(* A path of two parts, put together.                                      *)
LEMMA TwoParts ==
  ASSUME NEW x, NEW y
  PROVE  <<x>> \o <<y>> = <<x, y>> /\ Append(<<x>>, y) = <<x, y>>
<1>1. PICK p : p = <<x>> \o <<y>>
  OBVIOUS
<1>2. IsList(p) /\ Len(p) = 2 /\ p[1] = x /\ p[1 + 1] = y
  <2>1. IsJoin(<<x>>, <<y>>, p)
    BY <1>1, ListConcat, SingleList
  <2>2. PICK a, b : a = <<x>> /\ b = <<y>>
    OBVIOUS
  <2>3. /\ IsJoin(a, b, p) /\ Len(a) = 1 /\ Len(b) = 1
        /\ 1 \in DOMAIN a /\ a[1] = x /\ 1 \in DOMAIN b /\ b[1] = y
    BY <2>1, <2>2, SingleList
  <2>. QED
    BY <2>3 DEF IsJoin
<1>3. PICK q : q = Append(<<x>>, y)
  OBVIOUS
<1>4. IsList(q) /\ Len(q) = 2 /\ q[1] = x /\ q[1 + 1] = y
  BY <1>3, ListAppend, SingleList
<1>. QED
  BY <1>1, <1>2, <1>3, <1>4, PairOf

(* EmitEvents of an order: one event, with the next version, of the kind   *)
(* of the command and by its actor.                                        *)
LEMMA OrderEmits ==
  ASSUME app = "order", NEW cmd, NEW s, IsList(s),
         \A k \in DOMAIN s : s[k].version = k, NEW now
  PROVE  Emits(O!OrderEvents(cmd, O!Replay(s), now), cmd, s, now)
<1>1. PICK n \in Nat : n = Len(s) /\ DOMAIN s = 1..n
  BY ListFacts
<1>2. PICK agg : agg = O!Replay(s)
  OBVIOUS
<1>3. agg.version = n
  <2>1. CASE s = <<>>
    <3>1. n = 0
      BY <1>1, <2>1
    <3>. QED
      BY <1>2, <2>1, <3>1 DEF O!Replay, O!NewOrder
  <2>2. CASE s # <<>>
    <3>1. n # 0
      <4>1. SUFFICES ASSUME n = 0 PROVE FALSE
        OBVIOUS
      <4>2. s = [k \in 1..0 |-> s[k]]
        BY <1>1, <4>1 DEF IsList
      <4>. QED
        BY <2>2, <4>2
    <3>2. s[n].version = n
      BY <1>1, <3>1
    <3>. QED
      BY <1>1, <1>2, <2>2, <3>2 DEF O!Replay
  <2>. QED
    BY <2>1, <2>2
<1> DEFINE first == [kind |-> O!Produces(cmd.name), version |-> n + 1,
                     actor |-> cmd.actor, arg |-> cmd.arg]
           built == O!BuildEvent(O!NewBuilder(agg), O!Produces(cmd.name), cmd.actor, cmd.arg)
           events == O!EmitEvents(cmd, cmd.actor, agg)
           Timed(e) == [kind |-> e.kind, version |-> e.version, at |-> now,
                        actor |-> e.actor, arg |-> e.arg]
           timed == [k \in DOMAIN events |-> Timed(events[k])]
<1>4. built.version = n + 1 /\ built.events = <<first>>
  BY <1>3 DEF O!BuildEvent, O!NewBuilder
<1>5. timed = O!OrderEvents(cmd, agg, now)
  BY DEF O!OrderEvents
<1>6. Kind(cmd.name) = O!Produces(cmd.name)
  BY DEF Kind, Of
<1>7. \A e : Replayable(e)
  BY DEF Replayable
<1>8. CASE built.version % SnapshotInterval # 0
  <2>1. events = <<first>>
    BY <1>4, <1>8 DEF O!EmitEvents, O!BuildSnapshot
  <2>2. timed = <<Timed(first)>>
    BY <2>1
  <2>3. Emits(<<Timed(first)>>, cmd, s, now)
    BY <1>1, <1>6, <1>7, EmitsOne
  <2>. QED
    BY <1>2, <1>5, <2>2, <2>3
<1>9. CASE ~(built.version % SnapshotInterval # 0)
  <2> DEFINE second == [kind |-> "Snapshot", version |-> n + 1 + 1,
                        actor |-> O!SnapshotActor, arg |-> O!AfterOn(built.data)]
  <2>1. events = Append(built.events, second)
    BY <1>4, <1>9 DEF O!EmitEvents, O!BuildSnapshot, O!SnapshotOf
  <2>2. events = <<first, second>>
    <3> HIDE DEF first, second, events, built
    <3>. QED
      BY <1>4, <2>1, TwoParts
  <2>3. timed = <<Timed(first), Timed(second)>>
    BY <2>2
  <2>4. Emits(<<Timed(first), Timed(second)>>, cmd, s, now)
    BY <1>1, <1>6, <1>7, EmitsTwo
  <2>. QED
    BY <1>2, <1>5, <2>3, <2>4
<1>. QED
  BY <1>8, <1>9

(* EmitEvents of a sample: the event, and a snapshot when the interval is  *)
(* met.                                                                    *)
LEMMA SampleEmits ==
  ASSUME app = "sample", NEW cmd, NEW s, IsList(s),
         \A k \in DOMAIN s : s[k].version = k /\ Replayable(s[k]), NEW now
  PROVE  Emits(S!EmitEvents(cmd, S!Replay(s), now), cmd, s, now)
<1>1. PICK n \in Nat : n = Len(s) /\ DOMAIN s = 1..n
  BY ListFacts
<1>2. PICK agg : agg = S!Replay(s)
  OBVIOUS
<1>3. "version" \in DOMAIN agg /\ agg.version = n
  BY <1>1, <1>2, SReplayVersion
<1> DEFINE first == S!BuildEvent(cmd, agg.version + 1, now)
           after == S!On(agg, first)
           second == [kind |-> "Snapshot", version |-> after.version + 1, at |-> now,
                      actor |-> "snapshot@system", arg |-> after]
<1>4. /\ first.kind = S!Produces(cmd.name) /\ first.version = n + 1 /\ first.at = now
      /\ first.actor = cmd.actor
  BY <1>3 DEF S!BuildEvent
<1>5. first.kind \in {"Created", "Updated"}
  BY <1>4 DEF S!Produces
<1>6. Kind(cmd.name) = S!Produces(cmd.name)
  BY DEF Kind, Of
<1>7. "version" \in DOMAIN after /\ after.version = n + 1
  <2> HIDE DEF first
  <2>. QED
    BY <1>3, <1>4, <1>5, SOnVersion
<1>8. Replayable(first)
  BY <1>5 DEF Replayable
<1>9. S!EmitEvents(cmd, agg, now) = <<first>> \o S!Snapshot(after, now)
  BY DEF S!EmitEvents
<1> HIDE DEF first, after
<1>10. CASE after.version % SnapshotInterval # 0
  <2>1. S!Snapshot(after, now) = <<>>
    BY <1>10 DEF S!Snapshot
  <2>2. S!EmitEvents(cmd, agg, now) = <<first>>
    BY <1>9, <2>1
  <2>3. Emits(<<first>>, cmd, s, now)
    BY <1>1, <1>4, <1>6, <1>8, EmitsOne
  <2>. QED
    BY <1>2, <2>2, <2>3
<1>11. CASE ~(after.version % SnapshotInterval # 0)
  <2>1. S!Snapshot(after, now) = <<second>>
    BY <1>11 DEF S!Snapshot
  <2>2. S!EmitEvents(cmd, agg, now) = <<first, second>>
    <3> HIDE DEF second
    <3>. QED
      BY <1>9, <2>1, TwoParts
  <2>3. second.kind = "Snapshot" /\ second.version = n + 2 /\ second.at = now
    BY <1>7
  <2>4. Replayable(second)
    BY <1>7 DEF Replayable
  <2> HIDE DEF second
  <2>5. Emits(<<first, second>>, cmd, s, now)
    BY <1>1, <1>4, <1>6, <1>8, <2>3, <2>4, EmitsTwo
  <2>. QED
    BY <1>2, <2>2, <2>5
<1>. QED
  BY <1>10, <1>11

(* EmitEvents of a sample without snapshots: one event.                    *)
LEMMA NoSnapshotEmits ==
  ASSUME app = "samplenosnapshot", NEW cmd, NEW s, IsList(s),
         \A k \in DOMAIN s : s[k].version = k /\ Replayable(s[k]), NEW now
  PROVE  Emits(N!EmitEvents(cmd, N!Replay(s), now), cmd, s, now)
<1>1. PICK n \in Nat : n = Len(s) /\ DOMAIN s = 1..n
  BY ListFacts
<1>2. PICK agg : agg = N!Replay(s)
  OBVIOUS
<1>3. "version" \in DOMAIN agg /\ agg.version = n
  BY <1>1, <1>2, NReplayVersion
<1> DEFINE first == [kind |-> IF cmd.name = "Create" THEN "Created" ELSE "Updated",
                     version |-> agg.version + 1, at |-> now, actor |-> cmd.actor,
                     arg |-> cmd.arg]
<1>4. N!EmitEvents(cmd, agg, now) = <<first>>
  BY DEF N!EmitEvents
<1>5. Kind(cmd.name) = S!Produces(cmd.name)
  BY DEF Kind, Of
<1>6. /\ first.kind = S!Produces(cmd.name) /\ first.version = n + 1 /\ first.at = now
      /\ first.actor = cmd.actor /\ first.kind \in {"Created", "Updated"}
  BY <1>3 DEF S!Produces
<1>7. Replayable(first)
  BY <1>6 DEF Replayable
<1> HIDE DEF first
<1>8. Emits(<<first>>, cmd, s, now)
  BY <1>1, <1>5, <1>6, <1>7, EmitsOne
<1>. QED
  BY <1>2, <1>4, <1>8

(* EmitEvents of whichever application it is.                              *)
LEMMA EmitEventsGood ==
  ASSUME app \in Apps, NEW cmd, NEW s, IsList(s),
         \A k \in DOMAIN s : s[k].version = k /\ Replayable(s[k]), NEW now
  PROVE  Emits(EmitEvents(cmd, s, now), cmd, s, now)
<1>1. app \in {"order", "sample", "samplenosnapshot"}
  BY ServiceAssumption DEF Calls
<1>2. CASE app = "order"
  BY <1>2, OrderEmits DEF EmitEvents, Of
<1>3. CASE app = "sample"
  BY <1>3, SampleEmits DEF EmitEvents, Of
<1>4. CASE app = "samplenosnapshot"
  BY <1>4, NoSnapshotEmits DEF EmitEvents, Of
<1>. QED
  BY <1>1, <1>2, <1>3, <1>4

-----------------------------------------------------------------------------
(***************************************************************************)
(* The aggregates that are there at the start.                             *)
(***************************************************************************)
LEMMA StreamExtended ==
  ASSUME NEW s, GoodStream(s), NEW e, IsList(e),
         \A k \in DOMAIN e :
           e[k].version = Len(s) + k /\ Replayable(e[k]) /\ Granted(e[k])
  PROVE  GoodStream(s \o e)
<1>1. IsList(s)
  BY DEF GoodStream
<1>2. PICK t : t = s \o e
  OBVIOUS
<1>3. IsJoin(s, e, t)
  BY <1>1, <1>2, ListConcat
<1>4. ASSUME NEW k \in DOMAIN t
      PROVE  t[k].version = k /\ Replayable(t[k]) /\ Granted(t[k])
  <2>1. CASE k \in DOMAIN s
    BY <1>3, <2>1 DEF GoodStream, IsJoin
  <2>2. CASE k \notin DOMAIN s
    <3>1. PICK j \in DOMAIN e : k = Len(s) + j
      BY <1>3, <1>4, <2>2 DEF IsJoin
    <3>2. t[k] = e[j]
      BY <1>3, <3>1 DEF IsJoin
    <3>. QED
      BY <3>1, <3>2
  <2>. QED
    BY <2>1, <2>2
<1>. QED
  BY <1>2, <1>3, <1>4 DEF GoodStream, IsJoin

SeedFolds(f, made, id, n) ==
  f = [k \in 0..n |->
         IF k = 0 THEN <<>>
         ELSE IF made[k].id = id
              THEN f[k - 1] \o EmitEvents(made[k], f[k - 1], made[k].at)
              ELSE f[k - 1]]

(* The events of the commands before the start, command by command.        *)
LEMMA SeedFoldExists ==
  ASSUME NEW made, NEW id, NEW n \in Nat
  PROVE  \E f : SeedFolds(f, made, id, n)
<1> DEFINE Step(k, b) == IF made[k].id = id THEN b \o EmitEvents(made[k], b, made[k].at)
                        ELSE b
           T == {m \in Nat : \E f : SeedFolds(f, made, id, m)}
<1>1. 0 \in T
  <2> DEFINE f == [k \in 0..0 |-> <<>>]
  <2>1. SeedFolds(f, made, id, 0)
    BY DEF SeedFolds
  <2>. QED
    BY <2>1
<1>2. ASSUME NEW m \in T PROVE m + 1 \in T
  <2>1. PICK f : SeedFolds(f, made, id, m)
    OBVIOUS
  <2>2. f = [k \in 0..m |-> IF k = 0 THEN <<>> ELSE Step(k, f[k - 1])]
    BY <2>1, Zenon DEF SeedFolds
  <2> DEFINE g == [k \in 0..(m + 1) |-> IF k = m + 1 THEN Step(m + 1, f[m]) ELSE f[k]]
  <2>3. g = [k \in 0..(m + 1) |-> IF k = 0 THEN <<>> ELSE Step(k, g[k - 1])]
    <3> HIDE DEF Step
    <3>. QED
      BY <2>2
  <2>4. SeedFolds(g, made, id, m + 1)
    <3> HIDE DEF g
    <3>. QED
      BY <2>3, Zenon DEF SeedFolds
  <2>. QED
    BY <2>4
<1>3. T = Nat
  <2> HIDE DEF T
  <2>1. T \in SUBSET Nat
    BY DEF T
  <2>. QED
    BY <1>1, <1>2, <2>1, SetInduction
<1>. QED
  BY <1>3

(* What Seeded returns is where that function ends.                        *)
LEMMA SeededFold ==
  ASSUME NEW id, Len(Seed[app]) \in Nat
  PROVE  \E f : /\ SeedFolds(f, Seed[app], id, Len(Seed[app]))
               /\ Seeded(id) = f[Len(Seed[app])]
<1> DEFINE made == Seed[app]
           n == Len(made)
           h == CHOOSE f :
                  f = [k \in 0..n |->
                         IF k = 0 THEN <<>>
                         ELSE IF made[k].id = id
                              THEN f[k - 1] \o EmitEvents(made[k], f[k - 1], made[k].at)
                              ELSE f[k - 1]]
<1>1. PICK g : SeedFolds(g, made, id, n)
  BY SeedFoldExists, Zenon
<1>2. Seeded(id) = h[n]
  BY DEF Seeded
<1>3. SeedFolds(h, made, id, n)
  BY <1>1, Zenon DEF SeedFolds
<1>. QED
  BY <1>2, <1>3

AllOriginal(s) == \A k \in DOMAIN s : Original(s[k])

(* The aggregates there at the start have streams in order, of original    *)
(* events.                                                                 *)
LEMMA SeededGood ==
  ASSUME app \in Apps, NEW id
  PROVE  GoodStream(Seeded(id)) /\ AllOriginal(Seeded(id))
<1>1. /\ Seed[app] \in Seq(Range(Seed[app])) 
      /\ \A k \in DOMAIN Seed[app] : Seed[app][k].at < StartTime
  BY ServiceAssumption
<1>2. PICK n \in Nat : n = Len(Seed[app]) /\ DOMAIN Seed[app] = 1..n
  BY <1>1
<1>3. PICK made : made = Seed[app]
  OBVIOUS
<1>4. PICK f : SeedFolds(f, made, id, n) /\ Seeded(id) = f[n]
  BY <1>2, <1>3, SeededFold
<1> DEFINE Good(m) == GoodStream(f[m]) /\ AllOriginal(f[m])
           T == {m \in Nat : m <= n => Good(m)}
<1>5. 0 \in T
  <2>1. f[0] = <<>>
    BY <1>4 DEF SeedFolds
  <2>2. IsList(<<>>) /\ DOMAIN <<>> = {}
    BY DEF IsList
  <2>3. Good(0)
    BY <2>1, <2>2 DEF GoodStream, AllOriginal
  <2>. QED
    BY <2>3
<1>6. ASSUME NEW m \in T PROVE m + 1 \in T
  <2>1. SUFFICES ASSUME m + 1 <= n PROVE Good(m + 1)
    OBVIOUS
  <2>2. PICK b : b = f[m]
    OBVIOUS
  <2>3. PICK cmd : cmd = made[m + 1]
    OBVIOUS
  <2>4. f[m + 1] = IF cmd.id = id THEN b \o EmitEvents(cmd, b, cmd.at) ELSE b
    BY <1>4, <2>1, <2>2, <2>3 DEF SeedFolds
  <2>5. GoodStream(b) /\ AllOriginal(b)
    BY <2>1, <2>2
  <2>6. CASE cmd.id # id
    BY <2>4, <2>5, <2>6
  <2>7. CASE cmd.id = id
    <3>1. PICK e : e = EmitEvents(cmd, b, cmd.at)
      OBVIOUS
    <3>2. f[m + 1] = b \o e
      BY <2>4, <2>7, <3>1
    <3>3. Emits(e, cmd, b, cmd.at)
      BY <2>5, <3>1, EmitEventsGood DEF GoodStream
    <3>4. cmd.at < StartTime
      BY <1>1, <1>2, <1>3, <2>1, <2>3
    <3>5. \A k \in DOMAIN e : Original(e[k]) /\ Granted(e[k])
      BY <3>3, <3>4 DEF Emits, Original, Granted
    <3>6. GoodStream(b \o e)
      BY <2>5, <3>3, <3>5, StreamExtended DEF Emits
    <3>7. IsList(b) /\ IsList(e)
      BY <2>5, <3>3 DEF GoodStream, Emits
    <3>8. AllOriginal(b \o e)
      <4>1. PICK t : t = b \o e
        OBVIOUS
      <4>2. IsJoin(b, e, t)
        BY <3>7, <4>1, ListConcat
      <4>3. \A k \in DOMAIN t : Original(t[k])
        BY <2>5, <3>5, <4>2, Zenon DEF AllOriginal, IsJoin
      <4>. QED
        BY <4>1, <4>3 DEF AllOriginal
    <3>. QED
      BY <3>2, <3>6, <3>8
  <2>. QED
    BY <2>6, <2>7
<1>7. T = Nat
  <2> HIDE DEF T
  <2>1. T \in SUBSET Nat
    BY DEF T
  <2>. QED
    BY <1>5, <1>6, <2>1, SetInduction
<1>8. Good(n)
  BY <1>7
<1>. QED
  BY <1>4, <1>8

-----------------------------------------------------------------------------
(***************************************************************************)
(* The aggregates table: each item is where its keys say, and its message  *)
(* bears the id it is found by.                                            *)
(***************************************************************************)
OfItself(od) == od.pk.is = od.body.id

(* A put leaves every item where its keys say, in either cloud.            *)
LEMMA StorePutGood ==
  ASSUME NEW t, GoodTable(t), NEW od, OfItself(od), NEW now
  PROVE  GoodTable(StorePut(cloud, t, od, now))
<1>1. ASSUME NEW item, item.pk = od.pk, item.sk = od.sk, item.body = od.body
      PROVE  GoodTable(PutItem(t, item))
  BY <1>1 DEF GoodTable, PutItem, OfItself
<1>2. GoodTable(DynamoPut(t, od))
  <2>1. GetItem(od).pk = od.pk /\ GetItem(od).sk = od.sk /\ GetItem(od).body = od.body
    BY DEF GetItem
  <2>. QED
    BY <1>1, <2>1 DEF DynamoPut
<1>3. GoodTable(CosmosPut(t, od, now))
  <2>1. /\ marshalItem(od, now).pk = od.pk /\ marshalItem(od, now).sk = od.sk
        /\ marshalItem(od, now).body = od.body
    BY DEF marshalItem
  <2>. QED
    BY <1>1, <2>1 DEF CosmosPut
<1>. QED
  BY <1>2, <1>3 DEF StorePut

PutFolds(f, before, views, written, now, n) ==
  f = [k \in 0..n |->
         IF k = 0 THEN before
         ELSE IF k \in written THEN StorePut(cloud, f[k - 1], views[k], now)
         ELSE f[k - 1]]

(* The table after the first views that are put.                           *)
LEMMA PutFoldExists ==
  ASSUME NEW before, NEW views, NEW written, NEW now, NEW n \in Nat
  PROVE  \E f : PutFolds(f, before, views, written, now, n)
<1> DEFINE Step(k, b) == IF k \in written THEN StorePut(cloud, b, views[k], now) ELSE b
           T == {m \in Nat : \E f : PutFolds(f, before, views, written, now, m)}
<1>1. 0 \in T
  <2> DEFINE f == [k \in 0..0 |-> before]
  <2>1. PutFolds(f, before, views, written, now, 0)
    BY DEF PutFolds
  <2>. QED
    BY <2>1
<1>2. ASSUME NEW m \in T PROVE m + 1 \in T
  <2>1. PICK f : PutFolds(f, before, views, written, now, m)
    OBVIOUS
  <2>2. f = [k \in 0..m |-> IF k = 0 THEN before ELSE Step(k, f[k - 1])]
    BY <2>1, Zenon DEF PutFolds
  <2> DEFINE g == [k \in 0..(m + 1) |-> IF k = m + 1 THEN Step(m + 1, f[m]) ELSE f[k]]
  <2>3. g = [k \in 0..(m + 1) |-> IF k = 0 THEN before ELSE Step(k, g[k - 1])]
    <3> HIDE DEF Step
    <3>. QED
      BY <2>2
  <2>4. PutFolds(g, before, views, written, now, m + 1)
    <3> HIDE DEF g
    <3>. QED
      BY <2>3, Zenon DEF PutFolds
  <2>. QED
    BY <2>4
<1>3. T = Nat
  <2> HIDE DEF T
  <2>1. T \in SUBSET Nat
    BY DEF T
  <2>. QED
    BY <1>1, <1>2, <2>1, SetInduction
<1>. QED
  BY <1>3

(* What PutAll returns is where that function ends.                        *)
LEMMA PutAllFold ==
  ASSUME NEW before, NEW views, NEW written, NEW now, Len(views) \in Nat
  PROVE  \E f : /\ PutFolds(f, before, views, written, now, Len(views))
               /\ PutAll(before, views, written, now) = f[Len(views)]
<1> DEFINE n == Len(views)
           h == CHOOSE f :
                  f = [k \in 0..n |->
                         IF k = 0 THEN before
                         ELSE IF k \in written THEN StorePut(cloud, f[k - 1], views[k], now)
                         ELSE f[k - 1]]
<1>1. PutFolds(h, before, views, written, now, n)
  BY PutFoldExists DEF PutFolds
<1>2. PutAll(before, views, written, now) = h[n]
  BY DEF PutAll
<1>. QED
  BY <1>1, <1>2

(* Writing views leaves every item where its keys say, whichever get       *)
(* through.                                                                *)
LEMMA PutAllGood ==
  ASSUME NEW before, GoodTable(before), NEW views, IsList(views),
         \A k \in DOMAIN views : OfItself(views[k]), NEW written, NEW now
  PROVE  GoodTable(PutAll(before, views, written, now))
<1>1. PICK n \in Nat : n = Len(views) /\ DOMAIN views = 1..n
  BY ListFacts
<1>2. PICK f : /\ PutFolds(f, before, views, written, now, n)
               /\ PutAll(before, views, written, now) = f[n]
  BY <1>1, PutAllFold
<1> DEFINE T == {m \in Nat : m <= n => GoodTable(f[m])}
<1>3. 0 \in T
  BY <1>2 DEF PutFolds
<1>4. ASSUME NEW m \in T PROVE m + 1 \in T
  <2>1. SUFFICES ASSUME m + 1 <= n PROVE GoodTable(f[m + 1])
    OBVIOUS
  <2>2. f[m + 1] = IF m + 1 \in written THEN StorePut(cloud, f[m], views[m + 1], now)
                   ELSE f[m]
    BY <1>2, <2>1 DEF PutFolds
  <2>3. GoodTable(f[m]) /\ OfItself(views[m + 1])
    BY <1>1, <2>1
  <2>. QED
    BY <2>2, <2>3, StorePutGood
<1>5. T = Nat
  <2> HIDE DEF T
  <2>1. T \in SUBSET Nat
    BY DEF T
  <2>. QED
    BY <1>3, <1>4, <2>1, SetInduction
<1>6. GoodTable(f[n])
  BY <1>5
<1>. QED
  BY <1>2, <1>6

(* The views of an aggregate bear its id (PK of the generated code).       *)
LEMMA ViewsGood ==
  ASSUME app \in Apps, NEW id, NEW records
  PROVE  /\ IsList(Views(id, records))
         /\ \A k \in DOMAIN Views(id, records) : OfItself(Views(id, records)[k])
<1>1. app \in {"order", "sample", "samplenosnapshot"}
  BY ServiceAssumption DEF Calls
<1>2. ASSUME NEW od, OfItself(od)
      PROVE  IsList(<<od>>) /\ \A k \in DOMAIN <<od>> : OfItself(<<od>>[k])
  BY <1>2, SingleList
<1>3. ASSUME NEW od, OfItself(od), NEW oe, OfItself(oe)
      PROVE  IsList(<<od, oe>>) /\ \A k \in DOMAIN <<od, oe>> : OfItself(<<od, oe>>[k])
  BY <1>3, PairList
<1>4. CASE app = "order"
  <2>1. PICK m : m = O!LoadedOrder(id, records)
    OBVIOUS
  <2>2. PICK p : p = O!ProjectOrderSummary(m)
    OBVIOUS
  <2>3. PICK first : first = O!NewOpaqueDataFromProto(O!OrderKeys(m), m, 0, 0)
    OBVIOUS
  <2>4. PICK second : second = O!NewOpaqueDataFromProto(O!OrderSummaryKeys(p), p, 0, 0)
    OBVIOUS
  <2>5. Views(id, records) = <<first, second>>
    BY <1>4, <2>1, <2>2, <2>3, <2>4 DEF Views, Loaded, Of, O!OrderViews
  <2>6. OfItself(first)
    BY <2>3 DEF OfItself, O!NewOpaqueDataFromProto, O!OrderKeys, O!OrderPK, O!Key
  <2>7. OfItself(second)
    BY <2>4 DEF OfItself, O!NewOpaqueDataFromProto, O!OrderSummaryKeys, O!OrderPK, O!Key
  <2>. QED
    BY <1>3, <2>5, <2>6, <2>7
<1>5. CASE app = "sample"
  <2>1. PICK m : m = S!LoadedSample(id, records)
    OBVIOUS
  <2>2. PICK first : first = S!NewOpaqueDataFromProto([pk |-> S!PK(m.id), sk |-> S!SK,
                                 gsi |-> S!SampleGSI(m)], m, 0, 0)
    OBVIOUS
  <2>3. Views(id, records) = <<first>>
    BY <1>5, <2>1, <2>2 DEF Views, Loaded, Of, S!SampleViews
  <2>4. OfItself(first)
    BY <2>2 DEF OfItself, S!NewOpaqueDataFromProto, S!PK, S!Key
  <2>. QED
    BY <1>2, <2>3, <2>4
<1>6. CASE app = "samplenosnapshot"
  <2>1. PICK m : m = N!LoadedSample(id, records)
    OBVIOUS
  <2>2. PICK first : first = N!NewOpaqueDataFromProto([pk |-> N!PK(m.id), sk |-> N!SK,
                                 gsi |-> <<>>], m, 0, 0)
    OBVIOUS
  <2>3. Views(id, records) = <<first>>
    BY <1>6, <2>1, <2>2 DEF Views, Loaded, Of, N!NoSnapshotViews
  <2>4. OfItself(first)
    BY <2>2 DEF OfItself, N!NewOpaqueDataFromProto, N!PK, N!Key
  <2>. QED
    BY <1>2, <2>3, <2>4
<1>. QED
  BY <1>1, <1>4, <1>5, <1>6

TableFolds(f, ids, n) ==
  f = [k \in 0..n |->
         IF k = 0 THEN [x \in {} |-> Nil]
         ELSE PutAll(f[k - 1], Views(ids[k], Seeded(ids[k])),
                     DOMAIN Views(ids[k], Seeded(ids[k])), StartTime)]

(* The table at the start, aggregate by aggregate.                         *)
LEMMA TableFoldExists ==
  ASSUME NEW ids, NEW n \in Nat
  PROVE  \E f : TableFolds(f, ids, n)
<1> DEFINE Step(k, b) == PutAll(b, Views(ids[k], Seeded(ids[k])),
                                DOMAIN Views(ids[k], Seeded(ids[k])), StartTime)
           none == [x \in {} |-> Nil]
           T == {m \in Nat : \E f : TableFolds(f, ids, m)}
<1>1. 0 \in T
  <2> DEFINE f == [k \in 0..0 |-> none]
  <2>1. TableFolds(f, ids, 0)
    BY DEF TableFolds
  <2>. QED
    BY <2>1
<1>2. ASSUME NEW m \in T PROVE m + 1 \in T
  <2>1. PICK f : TableFolds(f, ids, m)
    OBVIOUS
  <2>2. f = [k \in 0..m |-> IF k = 0 THEN none ELSE Step(k, f[k - 1])]
    BY <2>1, Zenon DEF TableFolds
  <2> DEFINE g == [k \in 0..(m + 1) |-> IF k = m + 1 THEN Step(m + 1, f[m]) ELSE f[k]]
  <2>3. g = [k \in 0..(m + 1) |-> IF k = 0 THEN none ELSE Step(k, g[k - 1])]
    <3> HIDE DEF Step, none
    <3>. QED
      BY <2>2
  <2>4. TableFolds(g, ids, m + 1)
    <3> HIDE DEF g
    <3>. QED
      BY <2>3, Zenon DEF TableFolds
  <2>. QED
    BY <2>4
<1>3. T = Nat
  <2> HIDE DEF T
  <2>1. T \in SUBSET Nat
    BY DEF T
  <2>. QED
    BY <1>1, <1>2, <2>1, SetInduction
<1>. QED
  BY <1>3

(* The items there at the start are where their keys say.                  *)
LEMMA SeededTableGood ==
  ASSUME app \in Apps, NEW ids, Len(ids) \in Nat
  PROVE  GoodTable(SeededTable(ids))
<1> DEFINE n == Len(ids)
           h == CHOOSE f :
                  f = [k \in 0..n |->
                         IF k = 0 THEN [x \in {} |-> Nil]
                         ELSE PutAll(f[k - 1], Views(ids[k], Seeded(ids[k])),
                                     DOMAIN Views(ids[k], Seeded(ids[k])), StartTime)]
<1>1. PICK g : TableFolds(g, ids, n)
  BY TableFoldExists, Zenon
<1>2. SeededTable(ids) = h[n]
  BY DEF SeededTable
<1>3. TableFolds(h, ids, n)
  BY <1>1, Zenon DEF TableFolds
<1>4. PICK f : TableFolds(f, ids, n) /\ SeededTable(ids) = f[n]
  BY <1>2, <1>3
<1> HIDE DEF h
<1> DEFINE T == {m \in Nat : m <= n => GoodTable(f[m])}
<1>5. 0 \in T
  <2>1. f[0] = [x \in {} |-> Nil]
    BY <1>4 DEF TableFolds
  <2>. QED
    BY <2>1 DEF GoodTable
<1>6. ASSUME NEW m \in T PROVE m + 1 \in T
  <2>1. SUFFICES ASSUME m + 1 <= n PROVE GoodTable(f[m + 1])
    OBVIOUS
  <2>2. PICK views : views = Views(ids[m + 1], Seeded(ids[m + 1]))
    OBVIOUS
  <2>3. f[m + 1] = PutAll(f[m], views, DOMAIN views, StartTime)
    BY <1>4, <2>1, <2>2 DEF TableFolds
  <2>4. IsList(views) /\ \A k \in DOMAIN views : OfItself(views[k])
    BY <2>2, ViewsGood
  <2>5. GoodTable(f[m])
    BY <2>1
  <2>. QED
    BY <2>3, <2>4, <2>5, PutAllGood
<1>7. T = Nat
  <2> HIDE DEF T
  <2>1. T \in SUBSET Nat
    BY DEF T
  <2>. QED
    BY <1>5, <1>6, <2>1, SetInduction
<1>8. GoodTable(f[n])
  BY <1>7
<1>. QED
  BY <1>4, <1>8

(* The elements of a finite set, one after the other. *)
LEMMA SetToSeqLen ==
  ASSUME NEW X, IsFiniteSet(X)
  PROVE  /\ Cardinality(X) \in Nat
         /\ SetToSeq(X) \in [1..Cardinality(X) -> X]
<1>1. PICK n \in Nat : n = Cardinality(X)
  BY FS_CardinalityType
<1>2. ExistsBijection(1..n, X)
  BY <1>1, FS_CardinalityType
<1>3. PICK g : g \in Bijection(1..n, X)
  BY <1>2 DEF ExistsBijection
<1>4. g \in [1..n -> X] /\ IsInjective(g)
  BY <1>3 DEF Bijection, Injection, IsInjective
<1>. QED
  BY <1>1, <1>4 DEF SetToSeq

-----------------------------------------------------------------------------
(***************************************************************************)
(* The start.                                                              *)
(***************************************************************************)
LEMMA InitGood ==
  ASSUME Init
  PROVE  ServiceInv
<1>1. /\ app \in Apps /\ cloud \in Clouds /\ authorizer \in Authorizers
      /\ DOMAIN streams = Ids /\ \A id \in Ids : streams[id] = Seeded(id)
      /\ requests = <<>>
  BY DEF Init
<1>2. \A id \in Ids : GoodStream(streams[id]) /\ AllOriginal(streams[id])
  BY <1>1, SeededGood
<1>3. \A id \in Ids : \A k \in DOMAIN streams[id] : HasOrigin(id, streams[id][k])
  BY <1>2 DEF AllOriginal, HasOrigin
<1>4. GoodTable(table)
  <2>1. PICK X : X = {id \in Ids : Seeded(id) # <<>>}
    OBVIOUS
  <2>2. IsFiniteSet(X)
    BY <2>1, FS_Subset, ServiceAssumption
  <2>3. SetToSeq(X) \in [1..Cardinality(X) -> X] /\ Cardinality(X) \in Nat
    BY <2>2, SetToSeqLen
  <2>4. Len(SetToSeq(X)) \in Nat
    BY <2>3
  <2>5. table = SeededTable(SetToSeq(X))
    BY <2>1 DEF Init
  <2>. QED
    BY <1>1, <2>4, <2>5, SeededTableGood
<1>5. IsList(requests) /\ DOMAIN requests = {}
  BY <1>1 DEF IsList
<1>. QED
  BY <1>1, <1>2, <1>3, <1>4, <1>5 DEF ServiceInv, Distinct

-----------------------------------------------------------------------------
(***************************************************************************)
(* From the client to the handler.                                         *)
(***************************************************************************)
LEMMA Applications ==
  ASSUME app \in Apps
  PROVE  app = "order" \/ app = "sample" \/ app = "samplenosnapshot"
BY ServiceAssumption DEF Calls

(* The body of a request is the command, and nothing else is. *)
LEMMA ClientBody ==
  ASSUME app \in Apps, NEW call, GoodCall(call), call.name \notin Direct,
         Client(call, Claimed) # Unsent
  PROVE  /\ call.name \in CommandNames =>
              /\ Client(call, Claimed).body = setActorField(call, Claimed)
              /\ Client(call, Claimed).method = "POST"
         /\ call.name \notin CommandNames => Client(call, Claimed).body.name = "none"
<1>1. call.name \in Calls[app]
  BY DEF GoodCall
<1>2. CASE app = "order"
  <2>1. CASE call.name \in O!CommandNames
    <3>1. Client(call, Claimed) = O!ClientApply(O!routePath, call, Claimed)
      BY <1>2, <2>1 DEF Client, Of, O!OrderClient, O!CommandNames
    <3>. QED
      BY <1>2, <2>1, <3>1
         DEF O!ClientApply, O!setActorField, setActorField, CommandNames, Of
  <2>2. CASE call.name \notin O!CommandNames
    <3>1. call.name \in {"Load", "Get", "History", "QueryByCustomerId",
                         "QueryByCustomerIdWithCreateAt",
                         "QueryByCustomerIdBetweenCreateAt"}
      BY <1>1, <1>2, <2>2 DEF Calls
    <3>2. \E path, query : Client(call, Claimed) = O!ClientGet(path, query)
      <4>1. CASE call.name = "Load"
        BY <1>2, <4>1 DEF Client, Of, O!OrderClient, O!ClientLoad, O!CommandNames
      <4>2. CASE call.name = "Get"
        BY <1>2, <4>2 DEF Client, Of, O!OrderClient, O!ClientGetView, O!CommandNames
      <4>3. CASE call.name = "History"
        BY <1>2, <4>3 DEF Client, Of, O!OrderClient, O!ClientHistory, O!CommandNames
      <4>4. CASE call.name = "QueryByCustomerId"
        BY <1>2, <4>4 DEF Client, Of, O!OrderClient, O!QueryByCustomerId,
                          O!ClientQuery, O!CommandNames
      <4>5. CASE call.name = "QueryByCustomerIdWithCreateAt"
        <5>1. Client(call, Claimed) = O!QueryByCustomerIdWithCreateAt(call)
          BY <1>2, <4>5 DEF Client, Of, O!OrderClient, O!CommandNames
        <5>2. call.op # "between"
          BY <5>1 DEF O!QueryByCustomerIdWithCreateAt, O!Unsent, Unsent
        <5>. QED
          BY <5>1, <5>2 DEF O!QueryByCustomerIdWithCreateAt, O!ClientQuery
      <4>6. CASE call.name = "QueryByCustomerIdBetweenCreateAt"
        BY <1>2, <4>6 DEF Client, Of, O!OrderClient, O!QueryByCustomerIdBetweenCreateAt,
                          O!ClientQuery, O!CommandNames
      <4>. QED
        BY <3>1, <4>1, <4>2, <4>3, <4>4, <4>5, <4>6
    <3>. QED
      BY <1>2, <2>2, <3>2 DEF O!ClientGet, O!NoBody, CommandNames, Of
  <2>. QED
    BY <2>1, <2>2
<1>3. CASE app = "sample"
  <2>1. CASE call.name \in S!CommandNames
    <3>1. Client(call, Claimed) = S!ClientApply(S!routePath, call, Claimed)
      BY <1>3, <2>1 DEF Client, Of, S!SampleClient, S!CommandNames
    <3>. QED
      BY <1>3, <2>1, <3>1
         DEF S!ClientApply, S!setActorField, setActorField, CommandNames, Of
  <2>2. CASE call.name \notin S!CommandNames
    <3>1. call.name \in {"Load", "Get", "History", "QueryByCreateBy",
                         "QueryByCreateByWithCreateAt", "QueryByCreateByBetweenCreateAt"}
      BY <1>1, <1>3, <2>2 DEF Calls
    <3>2. \E path, query : Client(call, Claimed) = S!ClientGet(path, query)
      <4>1. CASE call.name = "Load"
        BY <1>3, <4>1 DEF Client, Of, S!SampleClient, S!ClientLoad, S!CommandNames
      <4>2. CASE call.name = "Get"
        BY <1>3, <4>2 DEF Client, Of, S!SampleClient, S!ClientGetView, S!CommandNames
      <4>3. CASE call.name = "History"
        BY <1>3, <4>3 DEF Client, Of, S!SampleClient, S!ClientHistory, S!CommandNames
      <4>4. CASE call.name = "QueryByCreateBy"
        BY <1>3, <4>4 DEF Client, Of, S!SampleClient, S!QueryByCreateBy,
                          S!ClientQuery, S!CommandNames
      <4>5. CASE call.name = "QueryByCreateByWithCreateAt"
        <5>1. Client(call, Claimed) = S!QueryByCreateByWithCreateAt(call)
          BY <1>3, <4>5 DEF Client, Of, S!SampleClient, S!CommandNames
        <5>2. call.op # "between"
          BY <5>1 DEF S!QueryByCreateByWithCreateAt, S!Unsent, Unsent
        <5>. QED
          BY <5>1, <5>2 DEF S!QueryByCreateByWithCreateAt, S!ClientQuery
      <4>6. CASE call.name = "QueryByCreateByBetweenCreateAt"
        BY <1>3, <4>6 DEF Client, Of, S!SampleClient, S!QueryByCreateByBetweenCreateAt,
                          S!ClientQuery, S!CommandNames
      <4>. QED
        BY <3>1, <4>1, <4>2, <4>3, <4>4, <4>5, <4>6
    <3>. QED
      BY <1>3, <2>2, <3>2 DEF S!ClientGet, S!NoBody, CommandNames, Of
  <2>. QED
    BY <2>1, <2>2
<1>4. CASE app = "samplenosnapshot"
  <2>1. CASE call.name \in N!CommandNames
    <3>1. Client(call, Claimed) = N!ClientApply(N!routePath, call, Claimed)
      BY <1>4, <2>1 DEF Client, Of, N!NoSnapshotClient, N!CommandNames
    <3>. QED
      BY <1>4, <2>1, <3>1
         DEF N!ClientApply, N!setActorField, setActorField, CommandNames, Of
  <2>2. CASE call.name \notin N!CommandNames
    <3>1. call.name \in {"Load", "Get", "History"}
      BY <1>1, <1>4, <2>2 DEF Calls
    <3>2. \E path, query : Client(call, Claimed) = N!ClientGet(path, query)
      <4>1. CASE call.name = "Load"
        BY <1>4, <4>1 DEF Client, Of, N!NoSnapshotClient, N!ClientLoad, N!CommandNames
      <4>2. CASE call.name = "Get"
        BY <1>4, <4>2 DEF Client, Of, N!NoSnapshotClient, N!ClientGetView, N!CommandNames
      <4>3. CASE call.name = "History"
        BY <1>4, <4>3 DEF Client, Of, N!NoSnapshotClient, N!ClientHistory, N!CommandNames
      <4>. QED
        BY <3>1, <4>1, <4>2, <4>3
    <3>. QED
      BY <1>4, <2>2, <3>2 DEF N!ClientGet, N!NoBody, CommandNames, Of
  <2>. QED
    BY <2>1, <2>2
<1>. QED
  BY <1>2, <1>3, <1>4, Applications

(* What a handler makes of a request: an answer of its own, the command of *)
(* its body when the caller may give it, or a read.                        *)
Refuses(reply) == reply.do = "answer" /\ reply.status \in {400, 401, 403, 503}

Decides(reply, body, can) ==
  \/ Refuses(reply)
  \/ /\ reply.do = "apply"
     /\ \E name \in CommandNames :
          /\ body.name = name /\ can[name].error = "none"
          /\ reply.cmd = setActorField(body, can[name].user)

Reads(reply) == Refuses(reply) \/ reply.do \in {"load", "history", "get", "query"}

ReadHandlers ==
  {"HandleLoad", "HandleGet", "HandleHistory", "HandleQueryByCustomerId",
   "HandleQueryByCreateBy"}

Replies(h, reply, body, can) ==
  IF h \in ReadHandlers THEN Reads(reply) ELSE Decides(reply, body, can)

(* What the authorizer's errors are answered with, and a missing id. *)
LEMMA ORefusals ==
  /\ \A e : Refuses(O!authzErrorResponse(e))
  /\ \A code : Refuses(O!errorResponse(400, code))
<1>1. ASSUME NEW status \in {400, 401, 403, 503}, NEW code
      PROVE  Refuses(O!errorResponse(status, code))
  BY DEF Refuses, O!errorResponse
<1>2. ASSUME NEW e PROVE Refuses(O!authzErrorResponse(e))
  <2>1. CASE e = "unauthenticated"
    BY <1>1, <2>1 DEF O!authzErrorResponse
  <2>2. CASE e = "forbidden"
    BY <1>1, <2>2 DEF O!authzErrorResponse
  <2>3. CASE e # "unauthenticated" /\ e # "forbidden"
    BY <1>1, <2>3 DEF O!authzErrorResponse
  <2>. QED
    BY <2>1, <2>2, <2>3
<1>. QED
  BY <1>1, <1>2

(* Likewise. *)
LEMMA SRefusals ==
  /\ \A e : Refuses(S!authzErrorResponse(e))
  /\ \A code : Refuses(S!errorResponse(400, code))
<1>1. ASSUME NEW status \in {400, 401, 403, 503}, NEW code
      PROVE  Refuses(S!errorResponse(status, code))
  BY DEF Refuses, S!errorResponse
<1>2. ASSUME NEW e PROVE Refuses(S!authzErrorResponse(e))
  <2>1. CASE e = "unauthenticated"
    BY <1>1, <2>1 DEF S!authzErrorResponse
  <2>2. CASE e = "forbidden"
    BY <1>1, <2>2 DEF S!authzErrorResponse
  <2>3. CASE e # "unauthenticated" /\ e # "forbidden"
    BY <1>1, <2>3 DEF S!authzErrorResponse
  <2>. QED
    BY <2>1, <2>2, <2>3
<1>. QED
  BY <1>1, <1>2

(* Likewise. *)
LEMMA NRefusals ==
  /\ \A e : Refuses(N!authzErrorResponse(e))
  /\ \A code : Refuses(N!errorResponse(400, code))
<1>1. ASSUME NEW status \in {400, 401, 403, 503}, NEW code
      PROVE  Refuses(N!errorResponse(status, code))
  BY DEF Refuses, N!errorResponse
<1>2. ASSUME NEW e PROVE Refuses(N!authzErrorResponse(e))
  <2>1. CASE e = "unauthenticated"
    BY <1>1, <2>1 DEF N!authzErrorResponse
  <2>2. CASE e = "forbidden"
    BY <1>1, <2>2 DEF N!authzErrorResponse
  <2>3. CASE e # "unauthenticated" /\ e # "forbidden"
    BY <1>1, <2>3 DEF N!authzErrorResponse
  <2>. QED
    BY <2>1, <2>2, <2>3
<1>. QED
  BY <1>1, <1>2

(* A command handler of the order service refuses, or applies the body     *)
(* under the name the authorizer gave.                                     *)
LEMMA OrderCommand ==
  ASSUME app = "order", NEW name \in O!CommandNames, NEW request, NEW can
  PROVE  Decides(O!HandleCommand(name, request, can[name]), request.body, can)
<1>1. PICK v : v = can[name]
  OBVIOUS
<1>2. PICK reply : reply = O!HandleCommand(name, request, v)
  OBVIOUS
<1>. SUFFICES Decides(reply, request.body, can)
  BY <1>1, <1>2
<1>3. ASSUME v.error # "none" PROVE Decides(reply, request.body, can)
  BY <1>2, <1>3 DEF O!HandleCommand, O!authzErrorResponse, O!errorResponse, Decides, Refuses
<1>4. ASSUME v.error = "none", v.user = "" \/ request.body.name # name
      PROVE  Decides(reply, request.body, can)
  <2>1. \/ reply = O!errorResponse(401, "CMD_NO_ACTOR")
        \/ reply = O!errorResponse(400, "CMD_UNMARSHAL")
    BY <1>2, <1>4 DEF O!HandleCommand
  <2>. QED
    BY <2>1 DEF O!errorResponse, Decides, Refuses
<1>5. ASSUME v.error = "none", v.user # "", request.body.name = name
      PROVE  Decides(reply, request.body, can)
  <2>1. reply = [do |-> "apply", cmd |-> O!setActorField(request.body, v.user)]
    BY <1>2, <1>5 DEF O!HandleCommand
  <2>2. name \in CommandNames
    BY DEF CommandNames, Of
  <2>3. reply.do = "apply" /\ reply.cmd = setActorField(request.body, v.user)
    BY <2>1 DEF O!setActorField, setActorField
  <2>. QED
    BY <1>1, <1>5, <2>2, <2>3 DEF Decides
<1>. QED
  BY <1>3, <1>4, <1>5

(* The read handlers of the order service refuse or read, and never apply. *)
LEMMA OrderRead ==
  ASSUME NEW request, NEW v
  PROVE  /\ Reads(O!HandleLoad(request, v))
         /\ Reads(O!HandleGet(request, v))
         /\ Reads(O!HandleHistory(request, v))
         /\ Reads(O!HandleQuery(request, v))
<1>1. v.error # "none" => Reads(O!authzErrorResponse(v.error))
  BY ORefusals DEF Reads
<1>2. Reads(O!HandleLoad(request, v))
  BY <1>1 DEF O!HandleLoad, O!errorResponse, Reads, Refuses
<1>3. Reads(O!HandleGet(request, v))
  BY <1>1 DEF O!HandleGet, O!errorResponse, Reads, Refuses
<1>4. Reads(O!HandleHistory(request, v))
  BY <1>1 DEF O!HandleHistory, O!errorResponse, Reads, Refuses
<1>5. \A code : Reads(O!errorResponse(400, code))
  BY ORefusals DEF Reads
<1>6. \A pk, op, values :
        Reads([do |-> "query", pk |-> pk, op |-> op, values |-> values])
  BY DEF Reads, Refuses
<1>7. Reads(O!HandleQuery(request, v))
  <2>1. CASE v.error # "none"
    BY <1>1, <2>1 DEF O!HandleQuery
  <2>2. CASE v.error = "none"
    BY <1>5, <1>6, <2>2, ZenonT(40) DEF O!HandleQuery
  <2>. QED
    BY <2>1, <2>2
<1>. QED
  BY <1>2, <1>3, <1>4, <1>7

(* Each handler of the order service.                                      *)
LEMMA OrderHandlerReplies ==
  ASSUME app = "order", NEW request, NEW can,
         NEW h \in {"HandleCreate", "HandleAddItem", "HandleRemoveItem", "HandleAddTag",
         "HandleRemoveTag", "HandleSetShipping", "HandleSetBilling",
         "HandleClearBilling", "HandlePlace", "HandleCancel", "HandleLoad",
         "HandleGet", "HandleHistory", "HandleQueryByCustomerId"}
  PROVE  Replies(h, O!OrderHandler(h, request, can), request.body, can)
<1>1. CASE h = "HandleCreate"
  <2>1. O!OrderHandler(h, request, can)
          = O!HandleCommand("Create", request, can["Create"])
    BY <1>1 DEF O!OrderHandler, O!HandleCreate
  <2>2. "Create" \in O!CommandNames
    BY DEF O!CommandNames
  <2>. QED
    BY <1>1, <2>1, <2>2, OrderCommand DEF Replies, ReadHandlers
<1>2. CASE h = "HandleAddItem"
  <2>1. O!OrderHandler(h, request, can)
          = O!HandleCommand("AddItem", request, can["AddItem"])
    BY <1>2 DEF O!OrderHandler, O!HandleAddItem
  <2>2. "AddItem" \in O!CommandNames
    BY DEF O!CommandNames
  <2>. QED
    BY <1>2, <2>1, <2>2, OrderCommand DEF Replies, ReadHandlers
<1>3. CASE h = "HandleRemoveItem"
  <2>1. O!OrderHandler(h, request, can)
          = O!HandleCommand("RemoveItem", request, can["RemoveItem"])
    BY <1>3 DEF O!OrderHandler, O!HandleRemoveItem
  <2>2. "RemoveItem" \in O!CommandNames
    BY DEF O!CommandNames
  <2>. QED
    BY <1>3, <2>1, <2>2, OrderCommand DEF Replies, ReadHandlers
<1>4. CASE h = "HandleAddTag"
  <2>1. O!OrderHandler(h, request, can)
          = O!HandleCommand("AddTag", request, can["AddTag"])
    BY <1>4 DEF O!OrderHandler, O!HandleAddTag
  <2>2. "AddTag" \in O!CommandNames
    BY DEF O!CommandNames
  <2>. QED
    BY <1>4, <2>1, <2>2, OrderCommand DEF Replies, ReadHandlers
<1>5. CASE h = "HandleRemoveTag"
  <2>1. O!OrderHandler(h, request, can)
          = O!HandleCommand("RemoveTag", request, can["RemoveTag"])
    BY <1>5 DEF O!OrderHandler, O!HandleRemoveTag
  <2>2. "RemoveTag" \in O!CommandNames
    BY DEF O!CommandNames
  <2>. QED
    BY <1>5, <2>1, <2>2, OrderCommand DEF Replies, ReadHandlers
<1>6. CASE h = "HandleSetShipping"
  <2>1. O!OrderHandler(h, request, can)
          = O!HandleCommand("SetShipping", request, can["SetShipping"])
    BY <1>6 DEF O!OrderHandler, O!HandleSetShipping
  <2>2. "SetShipping" \in O!CommandNames
    BY DEF O!CommandNames
  <2>. QED
    BY <1>6, <2>1, <2>2, OrderCommand DEF Replies, ReadHandlers
<1>7. CASE h = "HandleSetBilling"
  <2>1. O!OrderHandler(h, request, can)
          = O!HandleCommand("SetBilling", request, can["SetBilling"])
    BY <1>7 DEF O!OrderHandler, O!HandleSetBilling
  <2>2. "SetBilling" \in O!CommandNames
    BY DEF O!CommandNames
  <2>. QED
    BY <1>7, <2>1, <2>2, OrderCommand DEF Replies, ReadHandlers
<1>8. CASE h = "HandleClearBilling"
  <2>1. O!OrderHandler(h, request, can)
          = O!HandleCommand("ClearBilling", request, can["ClearBilling"])
    BY <1>8 DEF O!OrderHandler, O!HandleClearBilling
  <2>2. "ClearBilling" \in O!CommandNames
    BY DEF O!CommandNames
  <2>. QED
    BY <1>8, <2>1, <2>2, OrderCommand DEF Replies, ReadHandlers
<1>9. CASE h = "HandlePlace"
  <2>1. O!OrderHandler(h, request, can)
          = O!HandleCommand("Place", request, can["Place"])
    BY <1>9 DEF O!OrderHandler, O!HandlePlace
  <2>2. "Place" \in O!CommandNames
    BY DEF O!CommandNames
  <2>. QED
    BY <1>9, <2>1, <2>2, OrderCommand DEF Replies, ReadHandlers
<1>10. CASE h = "HandleCancel"
  <2>1. O!OrderHandler(h, request, can)
          = O!HandleCommand("Cancel", request, can["Cancel"])
    BY <1>10 DEF O!OrderHandler, O!HandleCancel
  <2>2. "Cancel" \in O!CommandNames
    BY DEF O!CommandNames
  <2>. QED
    BY <1>10, <2>1, <2>2, OrderCommand DEF Replies, ReadHandlers
<1>11. CASE h = "HandleLoad"
  <2>1. \E v : O!OrderHandler(h, request, can) = O!HandleLoad(request, v)
    BY <1>11 DEF O!OrderHandler, O!HandleLoadOrder
  <2>. QED
    BY <1>11, <2>1, OrderRead DEF Replies, ReadHandlers
<1>12. CASE h = "HandleGet"
  <2>1. \E v : O!OrderHandler(h, request, can) = O!HandleGet(request, v)
    BY <1>12 DEF O!OrderHandler, O!HandleGetOrder
  <2>. QED
    BY <1>12, <2>1, OrderRead DEF Replies, ReadHandlers
<1>13. CASE h = "HandleHistory"
  <2>1. \E v : O!OrderHandler(h, request, can) = O!HandleHistory(request, v)
    BY <1>13 DEF O!OrderHandler, O!HandleHistoryOrder
  <2>. QED
    BY <1>13, <2>1, OrderRead DEF Replies, ReadHandlers
<1>14. CASE h = "HandleQueryByCustomerId"
  <2>1. \E v : O!OrderHandler(h, request, can) = O!HandleQuery(request, v)
    BY <1>14 DEF O!OrderHandler, O!HandleQueryByCustomerId
  <2>. QED
    BY <1>14, <2>1, OrderRead DEF Replies, ReadHandlers
<1>. QED
  BY <1>1, <1>2, <1>3, <1>4, <1>5, <1>6, <1>7, <1>8, <1>9, <1>10, <1>11,
     <1>12, <1>13, <1>14

(* A command handler of the sample service, likewise.                      *)
LEMMA SampleCommand ==
  ASSUME app = "sample", NEW name \in S!CommandNames, NEW request, NEW can
  PROVE  Decides(S!HandleCommand(name, request, can[name]), request.body, can)
<1>1. PICK v : v = can[name]
  OBVIOUS
<1>2. PICK reply : reply = S!HandleCommand(name, request, v)
  OBVIOUS
<1>. SUFFICES Decides(reply, request.body, can)
  BY <1>1, <1>2
<1>3. ASSUME v.error # "none" PROVE Decides(reply, request.body, can)
  BY <1>2, <1>3 DEF S!HandleCommand, S!authzErrorResponse, S!errorResponse, Decides, Refuses
<1>4. ASSUME v.error = "none", v.user = "" \/ request.body.name # name
      PROVE  Decides(reply, request.body, can)
  <2>1. \/ reply = S!errorResponse(401, "CMD_NO_ACTOR")
        \/ reply = S!errorResponse(400, "CMD_UNMARSHAL")
    BY <1>2, <1>4 DEF S!HandleCommand
  <2>. QED
    BY <2>1 DEF S!errorResponse, Decides, Refuses
<1>5. ASSUME v.error = "none", v.user # "", request.body.name = name
      PROVE  Decides(reply, request.body, can)
  <2>1. reply = [do |-> "apply", cmd |-> S!setActorField(request.body, v.user)]
    BY <1>2, <1>5 DEF S!HandleCommand
  <2>2. name \in CommandNames
    BY DEF CommandNames, Of
  <2>3. reply.do = "apply" /\ reply.cmd = setActorField(request.body, v.user)
    BY <2>1 DEF S!setActorField, setActorField
  <2>. QED
    BY <1>1, <1>5, <2>2, <2>3 DEF Decides
<1>. QED
  BY <1>3, <1>4, <1>5

(* The read handlers of the sample service, likewise.                      *)
LEMMA SampleRead ==
  ASSUME NEW request, NEW v
  PROVE  /\ Reads(S!HandleLoad(request, v))
         /\ Reads(S!HandleGet(request, v))
         /\ Reads(S!HandleHistory(request, v))
         /\ Reads(S!HandleQuery(request, v))
<1>1. v.error # "none" => Reads(S!authzErrorResponse(v.error))
  BY SRefusals DEF Reads
<1>2. Reads(S!HandleLoad(request, v))
  BY <1>1 DEF S!HandleLoad, S!errorResponse, Reads, Refuses
<1>3. Reads(S!HandleGet(request, v))
  BY <1>1 DEF S!HandleGet, S!errorResponse, Reads, Refuses
<1>4. Reads(S!HandleHistory(request, v))
  BY <1>1 DEF S!HandleHistory, S!errorResponse, Reads, Refuses
<1>5. \A code : Reads(S!errorResponse(400, code))
  BY SRefusals DEF Reads
<1>6. \A pk, op, values :
        Reads([do |-> "query", pk |-> pk, op |-> op, values |-> values])
  BY DEF Reads, Refuses
<1>7. Reads(S!HandleQuery(request, v))
  <2>1. CASE v.error # "none"
    BY <1>1, <2>1 DEF S!HandleQuery
  <2>2. CASE v.error = "none"
    BY <1>5, <1>6, <2>2, ZenonT(40) DEF S!HandleQuery
  <2>. QED
    BY <2>1, <2>2
<1>. QED
  BY <1>2, <1>3, <1>4, <1>7

(* Each handler of the sample service.                                     *)
LEMMA SampleHandlerReplies ==
  ASSUME app = "sample", NEW request, NEW can,
         NEW h \in {"HandleCreate", "HandleUpdate", "HandleLoad", "HandleGet",
         "HandleHistory", "HandleQueryByCreateBy"}
  PROVE  Replies(h, S!SampleHandler(h, request, can), request.body, can)
<1>1. CASE h = "HandleCreate"
  <2>1. S!SampleHandler(h, request, can)
          = S!HandleCommand("Create", request, can["Create"])
    BY <1>1 DEF S!SampleHandler, S!HandleCreate
  <2>2. "Create" \in S!CommandNames
    BY DEF S!CommandNames
  <2>. QED
    BY <1>1, <2>1, <2>2, SampleCommand DEF Replies, ReadHandlers
<1>2. CASE h = "HandleUpdate"
  <2>1. S!SampleHandler(h, request, can)
          = S!HandleCommand("Update", request, can["Update"])
    BY <1>2 DEF S!SampleHandler, S!HandleUpdate
  <2>2. "Update" \in S!CommandNames
    BY DEF S!CommandNames
  <2>. QED
    BY <1>2, <2>1, <2>2, SampleCommand DEF Replies, ReadHandlers
<1>3. CASE h = "HandleLoad"
  <2>1. \E v : S!SampleHandler(h, request, can) = S!HandleLoad(request, v)
    BY <1>3 DEF S!SampleHandler, S!HandleLoadSample
  <2>. QED
    BY <1>3, <2>1, SampleRead DEF Replies, ReadHandlers
<1>4. CASE h = "HandleGet"
  <2>1. \E v : S!SampleHandler(h, request, can) = S!HandleGet(request, v)
    BY <1>4 DEF S!SampleHandler, S!HandleGetSample
  <2>. QED
    BY <1>4, <2>1, SampleRead DEF Replies, ReadHandlers
<1>5. CASE h = "HandleHistory"
  <2>1. \E v : S!SampleHandler(h, request, can) = S!HandleHistory(request, v)
    BY <1>5 DEF S!SampleHandler, S!HandleHistorySample
  <2>. QED
    BY <1>5, <2>1, SampleRead DEF Replies, ReadHandlers
<1>6. CASE h = "HandleQueryByCreateBy"
  <2>1. \E v : S!SampleHandler(h, request, can) = S!HandleQuery(request, v)
    BY <1>6 DEF S!SampleHandler, S!HandleQueryByCreateBy
  <2>. QED
    BY <1>6, <2>1, SampleRead DEF Replies, ReadHandlers
<1>. QED
  BY <1>1, <1>2, <1>3, <1>4, <1>5, <1>6

(* A command handler of the sample without snapshots, likewise.            *)
LEMMA NoSnapshotCommand ==
  ASSUME app = "samplenosnapshot", NEW name \in N!CommandNames, NEW request, NEW can
  PROVE  Decides(N!HandleCommand(name, request, can[name]), request.body, can)
<1>1. PICK v : v = can[name]
  OBVIOUS
<1>2. PICK reply : reply = N!HandleCommand(name, request, v)
  OBVIOUS
<1>. SUFFICES Decides(reply, request.body, can)
  BY <1>1, <1>2
<1>3. ASSUME v.error # "none" PROVE Decides(reply, request.body, can)
  BY <1>2, <1>3 DEF N!HandleCommand, N!authzErrorResponse, N!errorResponse, Decides, Refuses
<1>4. ASSUME v.error = "none", v.user = "" \/ request.body.name # name
      PROVE  Decides(reply, request.body, can)
  <2>1. \/ reply = N!errorResponse(401, "CMD_NO_ACTOR")
        \/ reply = N!errorResponse(400, "CMD_UNMARSHAL")
    BY <1>2, <1>4 DEF N!HandleCommand
  <2>. QED
    BY <2>1 DEF N!errorResponse, Decides, Refuses
<1>5. ASSUME v.error = "none", v.user # "", request.body.name = name
      PROVE  Decides(reply, request.body, can)
  <2>1. reply = [do |-> "apply", cmd |-> N!setActorField(request.body, v.user)]
    BY <1>2, <1>5 DEF N!HandleCommand
  <2>2. name \in CommandNames
    BY DEF CommandNames, Of
  <2>3. reply.do = "apply" /\ reply.cmd = setActorField(request.body, v.user)
    BY <2>1 DEF N!setActorField, setActorField
  <2>. QED
    BY <1>1, <1>5, <2>2, <2>3 DEF Decides
<1>. QED
  BY <1>3, <1>4, <1>5

(* The read handlers of the sample without snapshots, likewise.            *)
LEMMA NoSnapshotRead ==
  ASSUME NEW request, NEW v
  PROVE  /\ Reads(N!HandleLoad(request, v))
         /\ Reads(N!HandleGet(request, v))
         /\ Reads(N!HandleHistory(request, v))
<1>1. v.error # "none" => Reads(N!authzErrorResponse(v.error))
  BY NRefusals DEF Reads
<1>2. Reads(N!HandleLoad(request, v))
  BY <1>1 DEF N!HandleLoad, N!errorResponse, Reads, Refuses
<1>3. Reads(N!HandleGet(request, v))
  BY <1>1 DEF N!HandleGet, N!errorResponse, Reads, Refuses
<1>4. Reads(N!HandleHistory(request, v))
  BY <1>1 DEF N!HandleHistory, N!errorResponse, Reads, Refuses
<1>. QED
  BY <1>2, <1>3, <1>4

(* Each handler of the sample without snapshots.                           *)
LEMMA NoSnapshotHandlerReplies ==
  ASSUME app = "samplenosnapshot", NEW request, NEW can,
         NEW h \in {"HandleCreate", "HandleUpdate", "HandleLoad", "HandleGet",
         "HandleHistory"}
  PROVE  Replies(h, N!NoSnapshotHandler(h, request, can), request.body, can)
<1>1. CASE h = "HandleCreate"
  <2>1. N!NoSnapshotHandler(h, request, can)
          = N!HandleCommand("Create", request, can["Create"])
    BY <1>1 DEF N!NoSnapshotHandler, N!HandleCreate
  <2>2. "Create" \in N!CommandNames
    BY DEF N!CommandNames
  <2>. QED
    BY <1>1, <2>1, <2>2, NoSnapshotCommand DEF Replies, ReadHandlers
<1>2. CASE h = "HandleUpdate"
  <2>1. N!NoSnapshotHandler(h, request, can)
          = N!HandleCommand("Update", request, can["Update"])
    BY <1>2 DEF N!NoSnapshotHandler, N!HandleUpdate
  <2>2. "Update" \in N!CommandNames
    BY DEF N!CommandNames
  <2>. QED
    BY <1>2, <2>1, <2>2, NoSnapshotCommand DEF Replies, ReadHandlers
<1>3. CASE h = "HandleLoad"
  <2>1. \E v : N!NoSnapshotHandler(h, request, can) = N!HandleLoad(request, v)
    BY <1>3 DEF N!NoSnapshotHandler, N!HandleLoadSample
  <2>. QED
    BY <1>3, <2>1, NoSnapshotRead DEF Replies, ReadHandlers
<1>4. CASE h = "HandleGet"
  <2>1. \E v : N!NoSnapshotHandler(h, request, can) = N!HandleGet(request, v)
    BY <1>4 DEF N!NoSnapshotHandler, N!HandleGetSample
  <2>. QED
    BY <1>4, <2>1, NoSnapshotRead DEF Replies, ReadHandlers
<1>5. CASE h = "HandleHistory"
  <2>1. \E v : N!NoSnapshotHandler(h, request, can) = N!HandleHistory(request, v)
    BY <1>5 DEF N!NoSnapshotHandler, N!HandleHistorySample
  <2>. QED
    BY <1>5, <2>1, NoSnapshotRead DEF Replies, ReadHandlers
<1>. QED
  BY <1>1, <1>2, <1>3, <1>4, <1>5

(* The authorizer lets nobody in but under a name he has. *)
LEMMA Authorized ==
  ASSUME authorizer \in Authorizers, NEW caller, NEW f, NEW down,
         Authorize(caller, f, down).error = "none"
  PROVE  \/ authorizer = "allowall" /\ Authorize(caller, f, down).user = "Unknown"
         \/ /\ authorizer = "external"
            /\ Authorize(caller, f, down).user \in DOMAIN Grants
            /\ f \in Grants[Authorize(caller, f, down).user]
<1>1. authorizer \in {"allowall", "external"}
  BY ServiceAssumption
<1>. QED
  BY <1>1 DEF Authorize, Allowed, Denied

(* The router answers itself or picks a route. *)
LEMMA DispatchFound ==
  ASSUME NEW routes, IsList(routes), NEW method, NEW path, NEW reply,
         reply = Dispatch(routes, method, path)
  PROVE  \/ reply.status \in {404, 405}
         \/ /\ reply.status = 0
            /\ \E k \in DOMAIN routes :
                 routes[k].method = method /\ reply.handler = routes[k].handler
<1> DEFINE Fit == {k \in Matching(routes, path) : routes[k].method = method}
<1>1. CASE Fit = {}
  BY <1>1, ZenonT(40) DEF Dispatch
<1>2. CASE Fit # {}
  <2>1. Fit \in SUBSET Nat /\ Fit \subseteq DOMAIN routes
    BY ListFacts DEF Matching
  <2>2. Min(Fit) \in Fit
    BY <1>2, <2>1, MinIsLeast
  <2>3. reply = [status |-> 0, handler |-> routes[Min(Fit)].handler,
                 id |-> PathId(routes[Min(Fit)].segments, path)]
    BY <1>2 DEF Dispatch
  <2>4. routes[Min(Fit)].method = method
    BY <2>2
  <2> HIDE DEF Fit
  <2>5. PICK k \in Fit : k = Min(Fit)
    BY <2>2
  <2>. QED
    BY <2>1, <2>3, <2>4, <2>5
<1>. QED
  BY <1>1, <1>2

(* A route that fits and that no earlier route does gets the request. *)
LEMMA DispatchTo ==
  ASSUME NEW routes, IsList(routes), NEW method, NEW path, NEW k \in DOMAIN routes,
         routes[k].method = method, matchSegments(routes[k].segments, path),
         \A j \in 1..(k - 1) : routes[j].method # method
                               \/ ~matchSegments(routes[j].segments, path)
  PROVE  Dispatch(routes, method, path) =
           [status |-> 0, handler |-> routes[k].handler,
            id |-> PathId(routes[k].segments, path)]
<1> DEFINE Fit == {j \in Matching(routes, path) : routes[j].method = method}
<1>1. Fit \in SUBSET Nat /\ DOMAIN routes = 1..Len(routes) /\ Len(routes) \in Nat
  BY ListFacts DEF Matching
<1>2. k \in Fit
  BY DEF Matching
<1>3. \A j \in Fit : k <= j
  BY <1>1 DEF Matching
<1>4. Min(Fit) = k
  <2> HIDE DEF Fit
  <2>1. \A n \in Fit : (\A m \in Fit : n <= m) => n = k
    BY <1>1, <1>2, <1>3
  <2>. QED
    BY <1>2, <1>3, <2>1 DEF Min
<1>. QED
  BY <1>2, <1>4 DEF Dispatch

(* The routes of a service: commands come by POST, reads by GET. *)
GoodRoutes(routes, handlers) ==
  /\ IsList(routes)
  /\ \A k \in DOMAIN routes :
       /\ routes[k].handler \in handlers
       /\ routes[k].method = "POST" => routes[k].handler \notin ReadHandlers

(* Routes are good when each of them is.                                   *)
LEMMA RoutesOf ==
  ASSUME NEW X, NEW routes \in Seq(X), NEW handlers,
         \A x \in X :
           /\ x.handler \in handlers
           /\ x.method = "POST" => x.handler \notin ReadHandlers
  PROVE  GoodRoutes(routes, handlers)
<1>1. \A k \in DOMAIN routes : routes[k] \in X
  OBVIOUS
<1>. QED
  BY <1>1, SeqIsList DEF GoodRoutes

OrderHandlers ==
  {"HandleCreate",
   "HandleAddItem",
   "HandleRemoveItem",
   "HandleAddTag",
   "HandleRemoveTag",
   "HandleSetShipping",
   "HandleSetBilling",
   "HandleClearBilling",
   "HandlePlace",
   "HandleCancel",
   "HandleLoad",
   "HandleGet",
   "HandleHistory",
   "HandleQueryByCustomerId"}

SampleHandlers ==
  {"HandleCreate", "HandleUpdate", "HandleLoad", "HandleGet",
   "HandleHistory", "HandleQueryByCreateBy"}

NoSnapshotHandlers ==
  {"HandleCreate", "HandleUpdate", "HandleLoad", "HandleGet", "HandleHistory"}

(* What RegisterRoutes of the order service registers.                     *)
LEMMA OrderRoutes ==
  GoodRoutes(O!RegisterRoutes, OrderHandlers)
<1>1. PICK p1, p2, p3, p4, p5, p6, p7, p8, p9, p10, p11, p12, p13, p14 :
        O!RegisterRoutes =
          <<[method |-> "POST", segments |-> p1, handler |-> "HandleCreate"],
            [method |-> "POST", segments |-> p2, handler |-> "HandleAddItem"],
            [method |-> "POST", segments |-> p3, handler |-> "HandleRemoveItem"],
            [method |-> "POST", segments |-> p4, handler |-> "HandleAddTag"],
            [method |-> "POST", segments |-> p5, handler |-> "HandleRemoveTag"],
            [method |-> "POST", segments |-> p6, handler |-> "HandleSetShipping"],
            [method |-> "POST", segments |-> p7, handler |-> "HandleSetBilling"],
            [method |-> "POST", segments |-> p8, handler |-> "HandleClearBilling"],
            [method |-> "POST", segments |-> p9, handler |-> "HandlePlace"],
            [method |-> "POST", segments |-> p10, handler |-> "HandleCancel"],
            [method |-> "GET", segments |-> p11, handler |-> "HandleLoad"],
            [method |-> "GET", segments |-> p12, handler |-> "HandleGet"],
            [method |-> "GET", segments |-> p13, handler |-> "HandleHistory"],
            [method |-> "GET", segments |-> p14, handler |-> "HandleQueryByCustomerId"]>>
  BY DEF O!RegisterRoutes, O!Route
<1> DEFINE X ==
          {[method |-> "POST", segments |-> p1, handler |-> "HandleCreate"],
           [method |-> "POST", segments |-> p2, handler |-> "HandleAddItem"],
           [method |-> "POST", segments |-> p3, handler |-> "HandleRemoveItem"],
           [method |-> "POST", segments |-> p4, handler |-> "HandleAddTag"],
           [method |-> "POST", segments |-> p5, handler |-> "HandleRemoveTag"],
           [method |-> "POST", segments |-> p6, handler |-> "HandleSetShipping"],
           [method |-> "POST", segments |-> p7, handler |-> "HandleSetBilling"],
           [method |-> "POST", segments |-> p8, handler |-> "HandleClearBilling"],
           [method |-> "POST", segments |-> p9, handler |-> "HandlePlace"],
           [method |-> "POST", segments |-> p10, handler |-> "HandleCancel"],
           [method |-> "GET", segments |-> p11, handler |-> "HandleLoad"],
           [method |-> "GET", segments |-> p12, handler |-> "HandleGet"],
           [method |-> "GET", segments |-> p13, handler |-> "HandleHistory"],
           [method |-> "GET", segments |-> p14, handler |-> "HandleQueryByCustomerId"]}
<1>2. O!RegisterRoutes \in Seq(X)
  BY <1>1
<1>3. \A x \in X :
        /\ x.handler \in OrderHandlers
        /\ x.method = "POST" => x.handler \notin ReadHandlers
  BY DEF OrderHandlers, ReadHandlers
<1> HIDE DEF X
<1>. QED
  BY <1>2, <1>3, RoutesOf

(* What RegisterRoutes of the sample service registers.                    *)
LEMMA SampleRoutes ==
  GoodRoutes(S!RegisterRoutes, SampleHandlers)
<1>1. PICK p1, p2, p3, p4, p5, p6 :
        S!RegisterRoutes =
          <<[method |-> "POST", segments |-> p1, handler |-> "HandleCreate"],
            [method |-> "POST", segments |-> p2, handler |-> "HandleUpdate"],
            [method |-> "GET", segments |-> p3, handler |-> "HandleLoad"],
            [method |-> "GET", segments |-> p4, handler |-> "HandleGet"],
            [method |-> "GET", segments |-> p5, handler |-> "HandleHistory"],
            [method |-> "GET", segments |-> p6, handler |-> "HandleQueryByCreateBy"]>>
  BY DEF S!RegisterRoutes, S!Route
<1> DEFINE X ==
          {[method |-> "POST", segments |-> p1, handler |-> "HandleCreate"],
           [method |-> "POST", segments |-> p2, handler |-> "HandleUpdate"],
           [method |-> "GET", segments |-> p3, handler |-> "HandleLoad"],
           [method |-> "GET", segments |-> p4, handler |-> "HandleGet"],
           [method |-> "GET", segments |-> p5, handler |-> "HandleHistory"],
           [method |-> "GET", segments |-> p6, handler |-> "HandleQueryByCreateBy"]}
<1>2. S!RegisterRoutes \in Seq(X)
  BY <1>1
<1>3. \A x \in X :
        /\ x.handler \in SampleHandlers
        /\ x.method = "POST" => x.handler \notin ReadHandlers
  BY DEF SampleHandlers, ReadHandlers
<1> HIDE DEF X
<1>. QED
  BY <1>2, <1>3, RoutesOf

(* What RegisterRoutes of the sample without snapshots registers.          *)
LEMMA NoSnapshotRoutes ==
  GoodRoutes(N!RegisterRoutes, NoSnapshotHandlers)
<1>1. PICK p1, p2, p3, p4, p5 :
        N!RegisterRoutes =
          <<[method |-> "POST", segments |-> p1, handler |-> "HandleCreate"],
            [method |-> "POST", segments |-> p2, handler |-> "HandleUpdate"],
            [method |-> "GET", segments |-> p3, handler |-> "HandleLoad"],
            [method |-> "GET", segments |-> p4, handler |-> "HandleGet"],
            [method |-> "GET", segments |-> p5, handler |-> "HandleHistory"]>>
  BY DEF N!RegisterRoutes, N!Route
<1> DEFINE X ==
          {[method |-> "POST", segments |-> p1, handler |-> "HandleCreate"],
           [method |-> "POST", segments |-> p2, handler |-> "HandleUpdate"],
           [method |-> "GET", segments |-> p3, handler |-> "HandleLoad"],
           [method |-> "GET", segments |-> p4, handler |-> "HandleGet"],
           [method |-> "GET", segments |-> p5, handler |-> "HandleHistory"]}
<1>2. N!RegisterRoutes \in Seq(X)
  BY <1>1
<1>3. \A x \in X :
        /\ x.handler \in NoSnapshotHandlers
        /\ x.method = "POST" => x.handler \notin ReadHandlers
  BY DEF NoSnapshotHandlers, ReadHandlers
<1> HIDE DEF X
<1>. QED
  BY <1>2, <1>3, RoutesOf

(* The routes of the application. *)
LEMMA RegisteredRoutes ==
  ASSUME app \in Apps
  PROVE  GoodRoutes(RegisterRoutes,
                    Of(OrderHandlers, SampleHandlers, NoSnapshotHandlers))
<1>1. CASE app = "order"
  BY <1>1, OrderRoutes DEF RegisterRoutes, Of
<1>2. CASE app = "sample"
  BY <1>2, SampleRoutes DEF RegisterRoutes, Of
<1>3. CASE app = "samplenosnapshot"
  BY <1>3, NoSnapshotRoutes DEF RegisterRoutes, Of
<1>. QED
  BY <1>1, <1>2, <1>3, Applications

(* What comes of a request before anything is read: an answer, a command   *)
(* that is the client's but for the actor, whom the authorizer named and   *)
(* who holds its function, or a read.                                      *)
Entitled(actor, name) ==
  \/ authorizer = "allowall" /\ actor = "Unknown"
  \/ authorizer = "external" /\ actor \in DOMAIN Grants /\ name \in Grants[actor]

HandledAs(reply, call) ==
  \/ reply.do = "answer" /\ reply.status \in {400, 401, 403, 404, 405, 503}
  \/ /\ reply.do = "apply" /\ call.name \in CommandNames
     /\ reply.cmd.name = call.name /\ reply.cmd.id = call.id
     /\ Entitled(reply.cmd.actor, call.name)
  \/ reply.do \in {"load", "history", "get", "query"} /\ call.name \notin CommandNames

(* Adapter, router, authorizer and handler together.                       *)
LEMMA HandledGood ==
  ASSUME app \in Apps, authorizer \in Authorizers, NEW r, GoodCall(r.call),
         r.call.name \notin Direct, Client(r.call, Claimed) # Unsent, NEW fault
  PROVE  HandledAs(Handled(r, fault), r.call)
<1>1. PICK routes : routes = RegisterRoutes
  OBVIOUS
<1>2. PICK request : request = Client(r.call, Claimed)
  OBVIOUS
<1>3. /\ r.call.name \in CommandNames =>
           /\ request.body = setActorField(r.call, Claimed)
           /\ request.method = "POST"
      /\ r.call.name \notin CommandNames => request.body.name = "none"
  BY <1>2, ClientBody
<1>4. PICK can : can = [f \in Functions |-> Authorize(r.caller, f, fault = "authorizer")]
  OBVIOUS
<1>5. PICK routed : routed = IF fault # "body" THEN Dispatch(routes, request.method, request.path)
                             ELSE Unreadable
  OBVIOUS
<1>6. PICK inner : inner = [id |-> routed.id, query |-> request.query, body |-> request.body]
  OBVIOUS
<1>7. Handled(r, fault) = IF routed.status # 0 THEN errorResponse(routed.status, "ROUTER")
                          ELSE Handler(routed.handler, inner, can)
  BY <1>1, <1>2, <1>4, <1>5, <1>6 DEF Handled, LambdaWrapRouter, HTTPWrapRouter
<1>8. \/ routed.status \in {400, 404, 405}
      \/ /\ routed.status = 0
         /\ \E k \in DOMAIN routes :
              routes[k].method = request.method /\ routed.handler = routes[k].handler
  <2>1. CASE fault = "body"
    BY <1>5, <2>1 DEF Unreadable
  <2>2. CASE fault # "body"
    <3>1. IsList(routes)
      BY <1>1, RegisteredRoutes DEF GoodRoutes
    <3>2. routed = Dispatch(routes, request.method, request.path)
      BY <1>5, <2>2
    <3>. QED
      BY <3>1, <3>2, DispatchFound
  <2>. QED
    BY <2>1, <2>2
<1>9. CASE routed.status \in {400, 404, 405}
  <2>1. Handled(r, fault) = errorResponse(routed.status, "ROUTER")
    BY <1>7, <1>9
  <2>. QED
    BY <1>9, <2>1 DEF errorResponse, HandledAs
<1>10. ASSUME routed.status = 0,
              NEW k \in DOMAIN routes, routes[k].method = request.method,
              routed.handler = routes[k].handler
       PROVE  HandledAs(Handled(r, fault), r.call)
  <2>1. PICK h : h = routed.handler
    OBVIOUS
  <2>2. PICK reply : reply = Handler(h, inner, can)
    OBVIOUS
  <2>3. reply = Handled(r, fault)
    BY <1>7, <1>10, <2>1, <2>2
  <2>4. /\ h \in Of(OrderHandlers, SampleHandlers, NoSnapshotHandlers)
        /\ request.method = "POST" => h \notin ReadHandlers
    BY <1>1, <1>10, <2>1, RegisteredRoutes DEF GoodRoutes
  <2>5. Replies(h, reply, inner.body, can)
    <3>1. CASE app = "order"
      <4>1. reply = O!OrderHandler(h, inner, can)
        BY <2>2, <3>1 DEF Handler, Of
      <4>. QED
        BY <2>4, <3>1, <4>1, OrderHandlerReplies DEF OrderHandlers, Of
    <3>2. CASE app = "sample"
      <4>1. reply = S!SampleHandler(h, inner, can)
        BY <2>2, <3>2 DEF Handler, Of
      <4>. QED
        BY <2>4, <3>2, <4>1, SampleHandlerReplies DEF SampleHandlers, Of
    <3>3. CASE app = "samplenosnapshot"
      <4>1. reply = N!NoSnapshotHandler(h, inner, can)
        BY <2>2, <3>3 DEF Handler, Of
      <4>. QED
        BY <2>4, <3>3, <4>1, NoSnapshotHandlerReplies DEF NoSnapshotHandlers, Of
    <3>. QED
      BY <3>1, <3>2, <3>3, Applications
  <2>6. inner.body = request.body
    BY <1>6
  <2>7. CASE Refuses(reply)
    BY <2>3, <2>7 DEF Refuses, HandledAs
  <2>8. CASE h \in ReadHandlers
    <3>1. r.call.name \notin CommandNames
      BY <1>3, <2>4, <2>8
    <3>. QED
      BY <2>3, <2>5, <2>7, <2>8, <3>1 DEF Replies, Reads, HandledAs
  <2>9. ASSUME h \notin ReadHandlers, ~Refuses(reply)
        PROVE  HandledAs(reply, r.call)
    <3>1. PICK name \in CommandNames :
            /\ request.body.name = name /\ can[name].error = "none"
            /\ reply.cmd = setActorField(request.body, can[name].user)
      BY <2>5, <2>6, <2>9 DEF Replies, Decides
    <3>2. reply.do = "apply"
      BY <2>5, <2>9 DEF Replies, Decides
    <3>3. "none" \notin CommandNames
      BY Applications DEF CommandNames, Of, O!CommandNames, S!CommandNames, N!CommandNames
    <3>4. /\ r.call.name \in CommandNames
          /\ request.body = setActorField(r.call, Claimed)
      BY <1>3, <3>1, <3>3
    <3>5. /\ name = r.call.name
          /\ reply.cmd.name = r.call.name /\ reply.cmd.id = r.call.id
          /\ reply.cmd.actor = can[name].user
      BY <3>1, <3>4 DEF setActorField
    <3>6. name \in Functions
      BY <3>1, Applications DEF Functions, CommandNames, Of, O!OrderFunctions,
         S!SampleFunctions, N!NoSnapshotFunctions
    <3>7. can[name] = Authorize(r.caller, name, fault = "authorizer")
      BY <1>4, <3>6
    <3>8. Entitled(can[name].user, name)
      BY <3>1, <3>7, Authorized DEF Entitled
    <3>. QED
      BY <3>2, <3>4, <3>5, <3>8 DEF HandledAs
  <2>. QED
    BY <2>3, <2>7, <2>8, <2>9
<1>. QED
  BY <1>8, <1>9, <1>10

-----------------------------------------------------------------------------
(***************************************************************************)
(* The routes of the reads.                                                *)
(***************************************************************************)
LEMMA TripleList ==
  ASSUME NEW x, NEW y, NEW z
  PROVE  /\ IsList(<<x, y, z>>) /\ Len(<<x, y, z>>) = 3 /\ DOMAIN <<x, y, z>> = {1, 2, 3}
         /\ <<x, y, z>>[1] = x /\ <<x, y, z>>[2] = y /\ <<x, y, z>>[3] = z
<1>1. <<x, y, z>> \in Seq({x, y, z}) /\ Len(<<x, y, z>>) = 3
  OBVIOUS
<1>2. <<x, y, z>>[1] = x /\ <<x, y, z>>[2] = y /\ <<x, y, z>>[3] = z
  OBVIOUS
<1>3. DOMAIN <<x, y, z>> = {1, 2, 3}
  OBVIOUS
<1>. QED
  BY <1>1, <1>2, <1>3, SeqIsList

(* A list of length three is the triple of what it consists of.            *)
LEMMA TripleOf ==
  ASSUME NEW x, NEW y, NEW z, NEW p, IsList(p), Len(p) = 3,
         p[1] = x, p[2] = y, p[3] = z
  PROVE  p = <<x, y, z>>
<1>1. /\ IsList(<<x, y, z>>) /\ Len(<<x, y, z>>) = 3
      /\ <<x, y, z>>[1] = x /\ <<x, y, z>>[2] = y /\ <<x, y, z>>[3] = z
  BY TripleList
<1>2. p = [k \in 1..3 |-> p[k]] /\ <<x, y, z>> = [k \in 1..3 |-> <<x, y, z>>[k]]
  BY <1>1, Zenon DEF IsList
<1>3. \A k \in 1..3 : p[k] = <<x, y, z>>[k]
  BY <1>1
<1>. QED
  BY <1>2, <1>3

(* A path of three parts, put together either way.                         *)
LEMMA ThreeParts ==
  ASSUME NEW x, NEW y, NEW z
  PROVE  <<x>> \o <<y, z>> = <<x, y, z>> /\ <<x, y>> \o <<z>> = <<x, y, z>>
<1>1. <<x>> \o <<y, z>> = <<x, y, z>>
  <2>1. PICK a, b, p : a = <<x>> /\ b = <<y, z>> /\ p = <<x>> \o <<y, z>>
    OBVIOUS
  <2>2. IsJoin(a, b, p)
    BY <2>1, ListConcat, SingleList, PairList
  <2>3. /\ Len(a) = 1 /\ DOMAIN a = {1} /\ a[1] = x
        /\ Len(b) = 2 /\ DOMAIN b = {1, 2} /\ b[1] = y /\ b[2] = z
    BY <2>1, SingleList, PairList
  <2>4. IsList(p) /\ Len(p) = 3 /\ p[1] = x /\ p[2] = y /\ p[3] = z
    BY <2>2, <2>3 DEF IsJoin
  <2>5. p = <<x, y, z>>
    BY <2>4, TripleOf
  <2>. QED
    BY <2>1, <2>5
<1>2. <<x, y>> \o <<z>> = <<x, y, z>>
  <2>1. PICK a, b, p : a = <<x, y>> /\ b = <<z>> /\ p = <<x, y>> \o <<z>>
    OBVIOUS
  <2>2. IsJoin(a, b, p)
    BY <2>1, ListConcat, SingleList, PairList
  <2>3. /\ Len(b) = 1 /\ DOMAIN b = {1} /\ b[1] = z
        /\ Len(a) = 2 /\ DOMAIN a = {1, 2} /\ a[1] = x /\ a[2] = y
    BY <2>1, SingleList, PairList
  <2>4. IsList(p) /\ Len(p) = 3 /\ p[1] = x /\ p[2] = y /\ p[3] = z
    BY <2>2, <2>3 DEF IsJoin
  <2>5. p = <<x, y, z>>
    BY <2>4, TripleOf
  <2>. QED
    BY <2>1, <2>5
<1>. QED
  BY <1>1, <1>2

(* The parameter of a path, if there is one. *)
LEMMA OneParam ==
  ASSUME NEW pattern, IsList(pattern), NEW path, NEW k \in DOMAIN pattern,
         \A j \in DOMAIN pattern : pattern[j] = Param <=> j = k
  PROVE  PathId(pattern, path) = path[k]
<1>1. {j \in DOMAIN pattern : pattern[j] = Param} = {k}
  OBVIOUS
<1>2. k \in Nat
  BY ListFacts
<1>3. Max({k}) = k
  BY <1>2 DEF Max
<1>. QED
  BY <1>1, <1>3 DEF PathId

(* Reading an aggregate: three routes behind those of the commands. *)
ReadRoutes(routes, base, n) ==
  /\ IsList(routes) /\ n \in Nat /\ n + 3 \in DOMAIN routes
  /\ \A j \in 1..n : routes[j].method = "POST"
  /\ routes[n + 1] = Route("GET", <<base, "load", Param>>, "HandleLoad")
  /\ routes[n + 2] = Route("GET", <<base, Param>>, "HandleGet")
  /\ routes[n + 3] = Route("GET", <<base, Param, "history">>, "HandleHistory")

Routed(handler, x) == [status |-> 0, handler |-> handler, id |-> x]

(* First match takes a plain read to its own handler; the history of an    *)
(* aggregate with the id "load" goes elsewhere.                            *)
LEMMA ReadsRouted ==
  ASSUME NEW routes, NEW base, base # Param, NEW n, ReadRoutes(routes, base, n),
         NEW x
  PROVE  /\ Dispatch(routes, "GET", <<base, "load", x>>) = Routed("HandleLoad", x)
         /\ Dispatch(routes, "GET", <<base, x>>) = Routed("HandleGet", x)
         /\ x # "load" => Dispatch(routes, "GET", <<base, x, "history">>)
                            = Routed("HandleHistory", x)
<1>1. /\ IsList(routes) /\ n \in Nat
      /\ n + 1 \in DOMAIN routes /\ n + 2 \in DOMAIN routes /\ n + 3 \in DOMAIN routes
  BY ListFacts DEF ReadRoutes
<1>2. PICK load : load = <<base, "load", Param>>
  OBVIOUS
<1>3. PICK get : get = <<base, Param>>
  OBVIOUS
<1>4. PICK history : history = <<base, Param, "history">>
  OBVIOUS
<1>5. /\ routes[n + 1].method = "GET" /\ routes[n + 1].handler = "HandleLoad"
      /\ routes[n + 1].segments = load
      /\ routes[n + 2].method = "GET" /\ routes[n + 2].handler = "HandleGet"
      /\ routes[n + 2].segments = get
      /\ routes[n + 3].method = "GET" /\ routes[n + 3].handler = "HandleHistory"
      /\ routes[n + 3].segments = history
      /\ \A j \in 1..n : routes[j].method # "GET"
  BY <1>2, <1>3, <1>4 DEF ReadRoutes, Route
<1>6. /\ IsList(load) /\ Len(load) = 3 /\ DOMAIN load = {1, 2, 3}
      /\ load[1] = base /\ load[2] = "load" /\ load[3] = Param
  BY <1>2, TripleList
<1>7. /\ IsList(get) /\ Len(get) = 2 /\ DOMAIN get = {1, 2}
      /\ get[1] = base /\ get[2] = Param
  BY <1>3, PairList
<1>8. /\ IsList(history) /\ Len(history) = 3 /\ DOMAIN history = {1, 2, 3}
      /\ history[1] = base /\ history[2] = Param /\ history[3] = "history"
  BY <1>4, TripleList
<1>9. "load" # Param /\ "history" # Param
  BY DEF Param
<1>10. Dispatch(routes, "GET", <<base, "load", x>>) = Routed("HandleLoad", x)
  <2>1. PICK path : path = <<base, "load", x>>
    OBVIOUS
  <2>2. Len(path) = 3 /\ path[1] = base /\ path[2] = "load" /\ path[3] = x
    BY <2>1, TripleList
  <2>3. matchSegments(load, path)
    BY <1>6, <2>2 DEF matchSegments
  <2>4. Dispatch(routes, "GET", path) =
          [status |-> 0, handler |-> "HandleLoad", id |-> PathId(load, path)]
    <3>1. \A j \in 1..((n + 1) - 1) : routes[j].method # "GET"
      BY <1>1, <1>5
    <3>. QED
      BY <1>1, <1>5, <2>3, <3>1, DispatchTo
  <2>5. PathId(load, path) = x
    BY <1>6, <1>9, <2>2, OneParam
  <2>. QED
    BY <2>1, <2>4, <2>5 DEF Routed
<1>11. Dispatch(routes, "GET", <<base, x>>) = Routed("HandleGet", x)
  <2>1. PICK path : path = <<base, x>>
    OBVIOUS
  <2>2. Len(path) = 2 /\ path[1] = base /\ path[2] = x
    BY <2>1, PairList
  <2>3. matchSegments(get, path) /\ ~matchSegments(load, path)
    BY <1>6, <1>7, <2>2 DEF matchSegments
  <2>4. Dispatch(routes, "GET", path) =
          [status |-> 0, handler |-> "HandleGet", id |-> PathId(get, path)]
    <3>1. \A j \in 1..((n + 2) - 1) : j \in 1..n \/ j = n + 1
      BY <1>1
    <3>2. \A j \in 1..((n + 2) - 1) :
            routes[j].method # "GET" \/ ~matchSegments(routes[j].segments, path)
      BY <1>5, <2>3, <3>1
    <3>. QED
      BY <1>1, <1>5, <2>3, <3>2, DispatchTo
  <2>5. PathId(get, path) = x
    BY <1>7, <1>9, <2>2, OneParam
  <2>. QED
    BY <2>1, <2>4, <2>5 DEF Routed
<1>12. ASSUME x # "load"
       PROVE  Dispatch(routes, "GET", <<base, x, "history">>) = Routed("HandleHistory", x)
  <2>1. PICK path : path = <<base, x, "history">>
    OBVIOUS
  <2>2. Len(path) = 3 /\ path[1] = base /\ path[2] = x /\ path[3] = "history"
    BY <2>1, TripleList
  <2>3. /\ matchSegments(history, path) /\ ~matchSegments(load, path)
        /\ ~matchSegments(get, path)
    BY <1>6, <1>7, <1>8, <1>9, <1>12, <2>2 DEF matchSegments
  <2>4. Dispatch(routes, "GET", path) =
          [status |-> 0, handler |-> "HandleHistory", id |-> PathId(history, path)]
    <3>1. \A j \in 1..((n + 3) - 1) : j \in 1..n \/ j = n + 1 \/ j = n + 2
      BY <1>1
    <3>2. \A j \in 1..((n + 3) - 1) :
            routes[j].method # "GET" \/ ~matchSegments(routes[j].segments, path)
      BY <1>5, <2>3, <3>1
    <3>. QED
      BY <1>1, <1>5, <2>3, <3>2, DispatchTo
  <2>5. PathId(history, path) = x
    BY <1>8, <1>9, <2>2, OneParam
  <2>. QED
    BY <2>1, <2>4, <2>5 DEF Routed
<1>. QED
  BY <1>10, <1>11, <1>12

(* Routes that are there as RegisterRoutes puts them together.             *)
LEMMA ReadRoutesGiven ==
  ASSUME NEW routes, IsList(routes), NEW base, NEW n \in Nat, n + 3 \in DOMAIN routes,
         NEW p, NEW q, NEW w,
         p = <<base>> \o <<"load", Param>>, q = <<base>> \o <<Param>>,
         w = <<base>> \o <<Param, "history">>,
         routes[n + 1] = [method |-> "GET", segments |-> p, handler |-> "HandleLoad"],
         routes[n + 2] = [method |-> "GET", segments |-> q, handler |-> "HandleGet"],
         routes[n + 3] = [method |-> "GET", segments |-> w, handler |-> "HandleHistory"],
         \A j \in 1..n : routes[j].method = "POST"
  PROVE  ReadRoutes(routes, base, n)
<1>1. /\ p = <<base, "load", Param>> /\ q = <<base, Param>>
      /\ w = <<base, Param, "history">>
  BY ThreeParts, TwoParts
<1>. QED
  BY <1>1 DEF ReadRoutes, Route

(* The reads of the order service follow its ten commands.                 *)
LEMMA OrderReads ==
  ReadRoutes(O!RegisterRoutes, "order", 10)
<1>1. PICK p, q, w, p1, p2, p3, p4, p5, p6, p7, p8, p9, p10, p14 :
        /\ p = <<"order">> \o <<"load", Param>> /\ q = <<"order">> \o <<Param>>
        /\ w = <<"order">> \o <<Param, "history">>
        /\ O!RegisterRoutes =
             <<[method |-> "POST", segments |-> p1, handler |-> "HandleCreate"],
               [method |-> "POST", segments |-> p2, handler |-> "HandleAddItem"],
               [method |-> "POST", segments |-> p3, handler |-> "HandleRemoveItem"],
               [method |-> "POST", segments |-> p4, handler |-> "HandleAddTag"],
               [method |-> "POST", segments |-> p5, handler |-> "HandleRemoveTag"],
               [method |-> "POST", segments |-> p6, handler |-> "HandleSetShipping"],
               [method |-> "POST", segments |-> p7, handler |-> "HandleSetBilling"],
               [method |-> "POST", segments |-> p8, handler |-> "HandleClearBilling"],
               [method |-> "POST", segments |-> p9, handler |-> "HandlePlace"],
               [method |-> "POST", segments |-> p10, handler |-> "HandleCancel"],
               [method |-> "GET", segments |-> p, handler |-> "HandleLoad"],
               [method |-> "GET", segments |-> q, handler |-> "HandleGet"],
               [method |-> "GET", segments |-> w, handler |-> "HandleHistory"],
               [method |-> "GET", segments |-> p14, handler |-> "HandleQueryByCustomerId"]>>
  BY DEF O!RegisterRoutes, O!Route, O!routePath, O!Param, Param
<1>2. PICK routes : routes = O!RegisterRoutes
  OBVIOUS
<1>3. routes[10 + 1] = [method |-> "GET", segments |-> p, handler |-> "HandleLoad"]
  BY <1>1, <1>2
<1>4. routes[10 + 2] = [method |-> "GET", segments |-> q, handler |-> "HandleGet"]
  BY <1>1, <1>2
<1>5. routes[10 + 3] = [method |-> "GET", segments |-> w, handler |-> "HandleHistory"]
  BY <1>1, <1>2
<1>6. \A j \in 1..10 : routes[j].method = "POST"
  BY <1>1, <1>2
<1>7. IsList(routes) /\ 10 + 3 \in DOMAIN routes
  <2>1. IsList(routes)
    BY <1>2, OrderRoutes DEF GoodRoutes
  <2>2. Len(routes) = 14
    BY <1>1, <1>2
  <2>3. DOMAIN routes = 1..14
    BY <2>1, <2>2, ListFacts
  <2>. QED
    BY <2>1, <2>3
<1>8. /\ p = <<"order">> \o <<"load", Param>> /\ q = <<"order">> \o <<Param>>
      /\ w = <<"order">> \o <<Param, "history">>
  BY <1>1
<1>9. ReadRoutes(routes, "order", 10)
  BY <1>3, <1>4, <1>5, <1>6, <1>7, <1>8, ReadRoutesGiven
<1>. QED
  BY <1>2, <1>9

(* The reads of the sample service follow its two commands.                *)
LEMMA SampleReads ==
  ReadRoutes(S!RegisterRoutes, "sample", 2)
<1>1. PICK p, q, w, p1, p2, p6 :
        /\ p = <<"sample">> \o <<"load", Param>> /\ q = <<"sample">> \o <<Param>>
        /\ w = <<"sample">> \o <<Param, "history">>
        /\ S!RegisterRoutes =
             <<[method |-> "POST", segments |-> p1, handler |-> "HandleCreate"],
               [method |-> "POST", segments |-> p2, handler |-> "HandleUpdate"],
               [method |-> "GET", segments |-> p, handler |-> "HandleLoad"],
               [method |-> "GET", segments |-> q, handler |-> "HandleGet"],
               [method |-> "GET", segments |-> w, handler |-> "HandleHistory"],
               [method |-> "GET", segments |-> p6, handler |-> "HandleQueryByCreateBy"]>>
  BY DEF S!RegisterRoutes, S!Route, S!routePath, S!Param, Param
<1>2. PICK routes : routes = S!RegisterRoutes
  OBVIOUS
<1>3. routes[2 + 1] = [method |-> "GET", segments |-> p, handler |-> "HandleLoad"]
  BY <1>1, <1>2
<1>4. routes[2 + 2] = [method |-> "GET", segments |-> q, handler |-> "HandleGet"]
  BY <1>1, <1>2
<1>5. routes[2 + 3] = [method |-> "GET", segments |-> w, handler |-> "HandleHistory"]
  BY <1>1, <1>2
<1>6. \A j \in 1..2 : routes[j].method = "POST"
  BY <1>1, <1>2
<1>7. IsList(routes) /\ 2 + 3 \in DOMAIN routes
  BY <1>1, <1>2, SampleRoutes DEF GoodRoutes
<1>8. /\ p = <<"sample">> \o <<"load", Param>> /\ q = <<"sample">> \o <<Param>>
      /\ w = <<"sample">> \o <<Param, "history">>
  BY <1>1
<1>9. ReadRoutes(routes, "sample", 2)
  BY <1>3, <1>4, <1>5, <1>6, <1>7, <1>8, ReadRoutesGiven
<1>. QED
  BY <1>2, <1>9

(* The reads of the sample without snapshots follow its two commands.      *)
LEMMA NoSnapshotReads ==
  ReadRoutes(N!RegisterRoutes, "samplenosnapshot", 2)
<1>1. PICK p, q, w, p1, p2 :
        /\ p = <<"samplenosnapshot">> \o <<"load", Param>>
        /\ q = <<"samplenosnapshot">> \o <<Param>>
        /\ w = <<"samplenosnapshot">> \o <<Param, "history">>
        /\ N!RegisterRoutes =
             <<[method |-> "POST", segments |-> p1, handler |-> "HandleCreate"],
               [method |-> "POST", segments |-> p2, handler |-> "HandleUpdate"],
               [method |-> "GET", segments |-> p, handler |-> "HandleLoad"],
               [method |-> "GET", segments |-> q, handler |-> "HandleGet"],
               [method |-> "GET", segments |-> w, handler |-> "HandleHistory"]>>
  BY DEF N!RegisterRoutes, N!Route, N!routePath, N!Param, Param
<1>2. PICK routes : routes = N!RegisterRoutes
  OBVIOUS
<1>3. routes[2 + 1] = [method |-> "GET", segments |-> p, handler |-> "HandleLoad"]
  BY <1>1, <1>2
<1>4. routes[2 + 2] = [method |-> "GET", segments |-> q, handler |-> "HandleGet"]
  BY <1>1, <1>2
<1>5. routes[2 + 3] = [method |-> "GET", segments |-> w, handler |-> "HandleHistory"]
  BY <1>1, <1>2
<1>6. \A j \in 1..2 : routes[j].method = "POST"
  BY <1>1, <1>2
<1>7. IsList(routes) /\ 2 + 3 \in DOMAIN routes
  BY <1>1, <1>2, NoSnapshotRoutes DEF GoodRoutes
<1>8. /\ p = <<"samplenosnapshot">> \o <<"load", Param>>
      /\ q = <<"samplenosnapshot">> \o <<Param>>
      /\ w = <<"samplenosnapshot">> \o <<Param, "history">>
  BY <1>1
<1>9. ReadRoutes(routes, "samplenosnapshot", 2)
  BY <1>3, <1>4, <1>5, <1>6, <1>7, <1>8, ReadRoutesGiven
<1>. QED
  BY <1>2, <1>9

ReadNames == {"Load", "Get", "History"}

(* The request of a read, of an aggregate whose id is one path segment. *)
ReadPath(name, base, x) ==
  CASE name = "Load" -> <<base, "load", x>>
    [] name = "Get" -> <<base, x>>
    [] name = "History" -> <<base, x, "history">>

Base == Of("order", "sample", "samplenosnapshot")

(* The paths the client puts together.                                     *)
LEMMA ReadPaths ==
  ASSUME NEW base, NEW x
  PROVE  /\ <<base>> \o <<"load">> \o <<x>> = ReadPath("Load", base, x)
         /\ <<base>> \o <<x>> = ReadPath("Get", base, x)
         /\ <<base>> \o <<x>> \o <<"history">> = ReadPath("History", base, x)
<1>1. <<base>> \o <<"load">> \o <<x>> = <<base, "load", x>>
  <2>1. PICK p : p = <<base>> \o <<"load">>
    OBVIOUS
  <2>2. p = <<base, "load">>
    BY <2>1, TwoParts
  <2>3. p \o <<x>> = <<base, "load", x>>
    BY <2>2, ThreeParts
  <2>. QED
    BY <2>1, <2>3
<1>2. <<base>> \o <<x>> \o <<"history">> = <<base, x, "history">>
  <2>1. PICK p : p = <<base>> \o <<x>>
    OBVIOUS
  <2>2. p = <<base, x>>
    BY <2>1, TwoParts
  <2>3. p \o <<"history">> = <<base, x, "history">>
    BY <2>2, ThreeParts
  <2>. QED
    BY <2>1, <2>3
<1>3. <<base>> \o <<x>> = <<base, x>>
  BY TwoParts
<1>4. /\ ReadPath("Load", base, x) = <<base, "load", x>>
      /\ ReadPath("Get", base, x) = <<base, x>>
      /\ ReadPath("History", base, x) = <<base, x, "history">>
  BY DEF ReadPath
<1>. QED
  BY <1>1, <1>2, <1>3, <1>4

(* Load, Get and History of the client.                                    *)
LEMMA ClientReads ==
  ASSUME app \in Apps, NEW call, call.name \in ReadNames, NEW x,
         call.id = <<x>>
  PROVE  /\ Client(call, Claimed).method = "GET"
         /\ Client(call, Claimed).path = ReadPath(call.name, Base, x)
<1>1. PICK name : name = call.name
  OBVIOUS
<1>2. CASE app = "order"
  <2>1. O!routePath = <<"order">> /\ Base = "order"
    BY <1>2 DEF O!routePath, Base, Of
  <2>2. CASE name = "Load"
    <3>1. Client(call, Claimed) = O!ClientLoad(O!routePath, call.id)
      BY <1>1, <1>2, <2>2 DEF Client, Of, O!OrderClient, O!CommandNames
    <3>2. PICK path : path = O!routePath \o <<"load">> \o call.id
      OBVIOUS
    <3>3. path = ReadPath("Load", Base, x)
      BY <2>1, <3>2, ReadPaths
    <3>. QED
      BY <1>1, <2>2, <3>1, <3>2, <3>3 DEF O!ClientLoad, O!ClientGet
  <2>3. CASE name = "Get"
    <3>1. Client(call, Claimed) = O!ClientGetView(O!routePath, call.id)
      BY <1>1, <1>2, <2>3 DEF Client, Of, O!OrderClient, O!CommandNames
    <3>2. PICK path : path = O!routePath \o call.id
      OBVIOUS
    <3>3. path = ReadPath("Get", Base, x)
      BY <2>1, <3>2, ReadPaths
    <3>. QED
      BY <1>1, <2>3, <3>1, <3>2, <3>3 DEF O!ClientGetView, O!ClientGet
  <2>4. CASE name = "History"
    <3>1. Client(call, Claimed) = O!ClientHistory(O!routePath, call.id)
      BY <1>1, <1>2, <2>4 DEF Client, Of, O!OrderClient, O!CommandNames
    <3>2. PICK path : path = O!routePath \o call.id \o <<"history">>
      OBVIOUS
    <3>3. path = ReadPath("History", Base, x)
      BY <2>1, <3>2, ReadPaths
    <3>. QED
      BY <1>1, <2>4, <3>1, <3>2, <3>3 DEF O!ClientHistory, O!ClientGet
  <2>. QED
    BY <1>1, <2>2, <2>3, <2>4 DEF ReadNames
<1>3. CASE app = "sample"
  <2>1. S!routePath = <<"sample">> /\ Base = "sample"
    BY <1>3 DEF S!routePath, Base, Of
  <2>2. CASE name = "Load"
    <3>1. Client(call, Claimed) = S!ClientLoad(S!routePath, call.id)
      BY <1>1, <1>3, <2>2 DEF Client, Of, S!SampleClient, S!CommandNames
    <3>2. PICK path : path = S!routePath \o <<"load">> \o call.id
      OBVIOUS
    <3>3. path = ReadPath("Load", Base, x)
      BY <2>1, <3>2, ReadPaths
    <3>. QED
      BY <1>1, <2>2, <3>1, <3>2, <3>3 DEF S!ClientLoad, S!ClientGet
  <2>3. CASE name = "Get"
    <3>1. Client(call, Claimed) = S!ClientGetView(S!routePath, call.id)
      BY <1>1, <1>3, <2>3 DEF Client, Of, S!SampleClient, S!CommandNames
    <3>2. PICK path : path = S!routePath \o call.id
      OBVIOUS
    <3>3. path = ReadPath("Get", Base, x)
      BY <2>1, <3>2, ReadPaths
    <3>. QED
      BY <1>1, <2>3, <3>1, <3>2, <3>3 DEF S!ClientGetView, S!ClientGet
  <2>4. CASE name = "History"
    <3>1. Client(call, Claimed) = S!ClientHistory(S!routePath, call.id)
      BY <1>1, <1>3, <2>4 DEF Client, Of, S!SampleClient, S!CommandNames
    <3>2. PICK path : path = S!routePath \o call.id \o <<"history">>
      OBVIOUS
    <3>3. path = ReadPath("History", Base, x)
      BY <2>1, <3>2, ReadPaths
    <3>. QED
      BY <1>1, <2>4, <3>1, <3>2, <3>3 DEF S!ClientHistory, S!ClientGet
  <2>. QED
    BY <1>1, <2>2, <2>3, <2>4 DEF ReadNames
<1>4. CASE app = "samplenosnapshot"
  <2>1. N!routePath = <<"samplenosnapshot">> /\ Base = "samplenosnapshot"
    BY <1>4 DEF N!routePath, Base, Of
  <2>2. CASE name = "Load"
    <3>1. Client(call, Claimed) = N!ClientLoad(N!routePath, call.id)
      BY <1>1, <1>4, <2>2 DEF Client, Of, N!NoSnapshotClient, N!CommandNames
    <3>2. PICK path : path = N!routePath \o <<"load">> \o call.id
      OBVIOUS
    <3>3. path = ReadPath("Load", Base, x)
      BY <2>1, <3>2, ReadPaths
    <3>. QED
      BY <1>1, <2>2, <3>1, <3>2, <3>3 DEF N!ClientLoad, N!ClientGet
  <2>3. CASE name = "Get"
    <3>1. Client(call, Claimed) = N!ClientGetView(N!routePath, call.id)
      BY <1>1, <1>4, <2>3 DEF Client, Of, N!NoSnapshotClient, N!CommandNames
    <3>2. PICK path : path = N!routePath \o call.id
      OBVIOUS
    <3>3. path = ReadPath("Get", Base, x)
      BY <2>1, <3>2, ReadPaths
    <3>. QED
      BY <1>1, <2>3, <3>1, <3>2, <3>3 DEF N!ClientGetView, N!ClientGet
  <2>4. CASE name = "History"
    <3>1. Client(call, Claimed) = N!ClientHistory(N!routePath, call.id)
      BY <1>1, <1>4, <2>4 DEF Client, Of, N!NoSnapshotClient, N!CommandNames
    <3>2. PICK path : path = N!routePath \o call.id \o <<"history">>
      OBVIOUS
    <3>3. path = ReadPath("History", Base, x)
      BY <2>1, <3>2, ReadPaths
    <3>. QED
      BY <1>1, <2>4, <3>1, <3>2, <3>3 DEF N!ClientHistory, N!ClientGet
  <2>. QED
    BY <1>1, <2>2, <2>3, <2>4 DEF ReadNames
<1>. QED
  BY <1>2, <1>3, <1>4, Applications

(* The reads of whichever application it is.                               *)
LEMMA RoutedReads ==
  ASSUME app \in Apps
  PROVE  Base # Param /\ \E n : ReadRoutes(RegisterRoutes, Base, n)
<1>1. CASE app = "order"
  <2>1. RegisterRoutes = O!RegisterRoutes /\ Base = "order"
    BY <1>1 DEF RegisterRoutes, Of, Base
  <2>2. "order" # Param
    BY DEF Param
  <2>. QED
    BY <2>1, <2>2, OrderReads, Zenon
<1>2. CASE app = "sample"
  <2>1. RegisterRoutes = S!RegisterRoutes /\ Base = "sample"
    BY <1>2 DEF RegisterRoutes, Of, Base
  <2>2. "sample" # Param
    BY DEF Param
  <2>. QED
    BY <2>1, <2>2, SampleReads, Zenon
<1>3. CASE app = "samplenosnapshot"
  <2>1. RegisterRoutes = N!RegisterRoutes /\ Base = "samplenosnapshot"
    BY <1>3 DEF RegisterRoutes, Of, Base
  <2>2. "samplenosnapshot" # Param
    BY DEF Param
  <2>. QED
    BY <2>1, <2>2, NoSnapshotReads, Zenon
<1>. QED
  BY <1>1, <1>2, <1>3, Applications

(* What a handler of a read does. *)
ReadOf(name) ==
  CASE name = "Load" -> "load" [] name = "Get" -> "get" [] name = "History" -> "history"

HandlerOf(name) ==
  CASE name = "Load" -> "HandleLoad" [] name = "Get" -> "HandleGet"
    [] name = "History" -> "HandleHistory"

ReadsIt(reply, name, x) ==
  Refuses(reply) \/ (reply.do = ReadOf(name) /\ reply.id = <<x>>)

(* The handler of a read refuses it or reads the aggregate of the path.    *)
LEMMA HandlerReads ==
  ASSUME app \in Apps, NEW name \in ReadNames, NEW inner, NEW can,
         inner.id # ""
  PROVE  ReadsIt(Handler(HandlerOf(name), inner, can), name, inner.id)
<1>. PICK reply : reply = Handler(HandlerOf(name), inner, can)
  OBVIOUS
<1>. SUFFICES ReadsIt(reply, name, inner.id)
  OBVIOUS
<1>1. CASE app = "order"
  <2>0. /\ \A e : Refuses(O!authzErrorResponse(e))
        /\ \A code : Refuses(O!errorResponse(400, code))
    BY ORefusals
  <2>1. \A v : \/ Refuses(O!HandleLoad(inner, v))
              \/ /\ O!HandleLoad(inner, v).do = "load"
                 /\ O!HandleLoad(inner, v).id = <<inner.id>>
    BY <2>0 DEF O!HandleLoad, O!extractID
  <2>2. \A v : \/ Refuses(O!HandleGet(inner, v))
              \/ /\ O!HandleGet(inner, v).do = "get"
                 /\ O!HandleGet(inner, v).id = <<inner.id>>
    BY <2>0 DEF O!HandleGet, O!extractID
  <2>3. \A v : \/ Refuses(O!HandleHistory(inner, v))
              \/ /\ O!HandleHistory(inner, v).do = "history"
                 /\ O!HandleHistory(inner, v).id = <<inner.id>>
    BY <2>0 DEF O!HandleHistory, O!extractID
  <2>4. CASE name = "Load"
    <3>1. \E v : reply = O!HandleLoad(inner, v)
      BY <1>1, <2>4 DEF Handler, Of, HandlerOf, O!OrderHandler, O!HandleLoadOrder
    <3>. QED
      BY <2>1, <2>4, <3>1 DEF ReadOf, ReadsIt
  <2>5. CASE name = "Get"
    <3>1. \E v : reply = O!HandleGet(inner, v)
      BY <1>1, <2>5 DEF Handler, Of, HandlerOf, O!OrderHandler, O!HandleGetOrder
    <3>. QED
      BY <2>2, <2>5, <3>1 DEF ReadOf, ReadsIt
  <2>6. CASE name = "History"
    <3>1. \E v : reply = O!HandleHistory(inner, v)
      BY <1>1, <2>6 DEF Handler, Of, HandlerOf, O!OrderHandler, O!HandleHistoryOrder
    <3>. QED
      BY <2>3, <2>6, <3>1 DEF ReadOf, ReadsIt
  <2>. QED
    BY <2>4, <2>5, <2>6 DEF ReadNames
<1>2. CASE app = "sample"
  <2>0. /\ \A e : Refuses(S!authzErrorResponse(e))
        /\ \A code : Refuses(S!errorResponse(400, code))
    BY SRefusals
  <2>1. \A v : \/ Refuses(S!HandleLoad(inner, v))
              \/ /\ S!HandleLoad(inner, v).do = "load"
                 /\ S!HandleLoad(inner, v).id = <<inner.id>>
    BY <2>0 DEF S!HandleLoad, S!extractID
  <2>2. \A v : \/ Refuses(S!HandleGet(inner, v))
              \/ /\ S!HandleGet(inner, v).do = "get"
                 /\ S!HandleGet(inner, v).id = <<inner.id>>
    BY <2>0 DEF S!HandleGet, S!extractID
  <2>3. \A v : \/ Refuses(S!HandleHistory(inner, v))
              \/ /\ S!HandleHistory(inner, v).do = "history"
                 /\ S!HandleHistory(inner, v).id = <<inner.id>>
    BY <2>0 DEF S!HandleHistory, S!extractID
  <2>4. CASE name = "Load"
    <3>1. \E v : reply = S!HandleLoad(inner, v)
      BY <1>2, <2>4 DEF Handler, Of, HandlerOf, S!SampleHandler, S!HandleLoadSample
    <3>. QED
      BY <2>1, <2>4, <3>1 DEF ReadOf, ReadsIt
  <2>5. CASE name = "Get"
    <3>1. \E v : reply = S!HandleGet(inner, v)
      BY <1>2, <2>5 DEF Handler, Of, HandlerOf, S!SampleHandler, S!HandleGetSample
    <3>. QED
      BY <2>2, <2>5, <3>1 DEF ReadOf, ReadsIt
  <2>6. CASE name = "History"
    <3>1. \E v : reply = S!HandleHistory(inner, v)
      BY <1>2, <2>6 DEF Handler, Of, HandlerOf, S!SampleHandler, S!HandleHistorySample
    <3>. QED
      BY <2>3, <2>6, <3>1 DEF ReadOf, ReadsIt
  <2>. QED
    BY <2>4, <2>5, <2>6 DEF ReadNames
<1>3. CASE app = "samplenosnapshot"
  <2>0. /\ \A e : Refuses(N!authzErrorResponse(e))
        /\ \A code : Refuses(N!errorResponse(400, code))
    BY NRefusals
  <2>1. \A v : \/ Refuses(N!HandleLoad(inner, v))
              \/ /\ N!HandleLoad(inner, v).do = "load"
                 /\ N!HandleLoad(inner, v).id = <<inner.id>>
    BY <2>0 DEF N!HandleLoad, N!extractID
  <2>2. \A v : \/ Refuses(N!HandleGet(inner, v))
              \/ /\ N!HandleGet(inner, v).do = "get"
                 /\ N!HandleGet(inner, v).id = <<inner.id>>
    BY <2>0 DEF N!HandleGet, N!extractID
  <2>3. \A v : \/ Refuses(N!HandleHistory(inner, v))
              \/ /\ N!HandleHistory(inner, v).do = "history"
                 /\ N!HandleHistory(inner, v).id = <<inner.id>>
    BY <2>0 DEF N!HandleHistory, N!extractID
  <2>4. CASE name = "Load"
    <3>1. \E v : reply = N!HandleLoad(inner, v)
      BY <1>3, <2>4 DEF Handler, Of, HandlerOf, N!NoSnapshotHandler, N!HandleLoadSample
    <3>. QED
      BY <2>1, <2>4, <3>1 DEF ReadOf, ReadsIt
  <2>5. CASE name = "Get"
    <3>1. \E v : reply = N!HandleGet(inner, v)
      BY <1>3, <2>5 DEF Handler, Of, HandlerOf, N!NoSnapshotHandler, N!HandleGetSample
    <3>. QED
      BY <2>2, <2>5, <3>1 DEF ReadOf, ReadsIt
  <2>6. CASE name = "History"
    <3>1. \E v : reply = N!HandleHistory(inner, v)
      BY <1>3, <2>6 DEF Handler, Of, HandlerOf, N!NoSnapshotHandler, N!HandleHistorySample
    <3>. QED
      BY <2>3, <2>6, <3>1 DEF ReadOf, ReadsIt
  <2>. QED
    BY <2>4, <2>5, <2>6 DEF ReadNames
<1>. QED
  BY <1>1, <1>2, <1>3, Applications

(* A list of length one is the tuple of its element.                       *)
LEMMA SingleOf ==
  ASSUME NEW x, NEW p, IsList(p), Len(p) = 1, p[1] = x
  PROVE  p = <<x>>
<1>1. IsList(<<x>>) /\ Len(<<x>>) = 1 /\ <<x>>[1] = x
  BY SingleList
<1>2. p = [k \in 1..1 |-> p[k]] /\ <<x>> = [k \in 1..1 |-> <<x>>[k]]
  BY <1>1, Zenon DEF IsList
<1>3. \A k \in 1..1 : p[k] = <<x>>[k]
  BY <1>1
<1>. QED
  BY <1>2, <1>3

(* A plain read is refused, or is a read of the aggregate asked for.       *)
LEMMA HandledRead ==
  ASSUME app \in Apps, NEW r, GoodCall(r.call), Plain(r.call),
         r.call.name \in ReadNames, NEW fault
  PROVE  LET reply == Handled(r, fault)
         IN  \/ reply.do = "answer" /\ reply.status \in {400, 401, 403, 503}
             \/ reply.do = ReadOf(r.call.name) /\ reply.id = r.call.id
<1>1. PICK call, id : call = r.call /\ id = r.call.id
  OBVIOUS
<1>2. PICK x : id = <<x>> /\ x # ""
  <2>1. id \in Seq(Range(id) \ {""}) /\ Len(id) = 1
    BY <1>1 DEF GoodCall, Plain
  <2>2. id[1] # ""
    <3>1. PICK T : T = Range(id) \ {""}
      OBVIOUS
    <3>2. id \in Seq(T) /\ Len(id) = 1
      BY <2>1, <3>1
    <3>3. id[1] \in T
      BY <3>2
    <3>. QED
      BY <3>1, <3>3
  <2>3. IsList(id)
    BY <2>1, SeqIsList, Zenon
  <2>4. id = <<id[1]>>
    BY <2>1, <2>3, SingleOf
  <2>. QED
    BY <2>2, <2>4
<1>3. call.name \in ReadNames /\ (call.name = "History" => x # "load")
  BY <1>1, <1>2 DEF Plain
<1>4. PICK routes, request : routes = RegisterRoutes /\ request = Client(call, Claimed)
  OBVIOUS
<1>5. request.method = "GET" /\ request.path = ReadPath(call.name, Base, x)
  <2>1. call.name \in ReadNames /\ call.id = <<x>>
    BY <1>1, <1>2
  <2>2. /\ Client(call, Claimed).method = "GET"
        /\ Client(call, Claimed).path = ReadPath(call.name, Base, x)
    BY <2>1, ClientReads, Zenon
  <2>. QED
    BY <1>4, <2>2
<1>6. PICK can : can = [f \in Functions |-> Authorize(r.caller, f, fault = "authorizer")]
  OBVIOUS
<1>7. PICK routed : routed = IF fault # "body"
                            THEN Dispatch(routes, request.method, request.path)
                            ELSE Unreadable
  OBVIOUS
<1>8. PICK inner : inner = [id |-> routed.id, query |-> request.query,
                            body |-> request.body]
  OBVIOUS
<1>9. PICK reply : reply = IF routed.status # 0 THEN errorResponse(routed.status, "ROUTER")
                           ELSE Handler(routed.handler, inner, can)
  OBVIOUS
<1>10. reply = Handled(r, fault)
  BY <1>1, <1>4, <1>6, <1>7, <1>8, <1>9 DEF Handled, LambdaWrapRouter, HTTPWrapRouter
<1>11. \/ Refuses(reply)
       \/ reply.do = ReadOf(call.name) /\ reply.id = id
  <2>1. CASE fault = "body"
    <3>1. routed = Unreadable
      BY <1>7, <2>1
    <3>2. routed.status = 400
      BY <3>1 DEF Unreadable
    <3>3. reply = [do |-> "answer", status |-> 400, code |-> "ROUTER"]
      BY <1>9, <3>2 DEF errorResponse
    <3>. QED
      BY <3>3 DEF Refuses
  <2>2. CASE fault # "body"
    <3>1. Base # Param /\ \E n : ReadRoutes(routes, Base, n)
      BY <1>4, RoutedReads
    <3>2. routed = Dispatch(routes, "GET", ReadPath(call.name, Base, x))
      BY <1>5, <1>7, <2>2
    <3>3. routed = Routed(HandlerOf(call.name), x)
      BY <1>3, <3>1, <3>2, ReadsRouted DEF ReadPath, HandlerOf, ReadNames
    <3>4. routed.status = 0 /\ routed.handler = HandlerOf(call.name) /\ inner.id = x
      BY <1>8, <3>3 DEF Routed
    <3>5. reply = Handler(HandlerOf(call.name), inner, can)
      BY <1>9, <3>4
    <3>6. inner.id # ""
      BY <1>2, <3>4
    <3>7. ReadsIt(reply, call.name, inner.id)
      BY <1>3, <3>5, <3>6, HandlerReads
    <3>. QED
      BY <1>2, <3>4, <3>7 DEF ReadsIt
  <2>. QED
    BY <2>1, <2>2
<1>. QED
  BY <1>1, <1>10, <1>11 DEF Refuses

-----------------------------------------------------------------------------
(***************************************************************************)
(* What a read of the aggregates table finds.                              *)
(***************************************************************************)
LEMMA StoreGetGood ==
  ASSUME GoodTable(table), NEW pk, NEW sk, NEW od \in StoreGet(cloud, table, pk, sk)
  PROVE  od.body.id = pk.is
<1>1. PICK key : /\ key \in DOMAIN table /\ key = <<pk, sk>>
                 /\ od = unmarshalItem(table[key])
  BY DEF StoreGet, DynamoGet, CosmosGet
<1>2. key = <<table[key].pk, table[key].sk>> /\ table[key].pk.is = table[key].body.id
  BY <1>1 DEF GoodTable
<1>3. table[key].pk = pk
  BY <1>1, <1>2
<1>4. od.body = table[key].body
  BY <1>1 DEF unmarshalItem
<1>. QED
  BY <1>2, <1>3, <1>4

(* Get finds the view of the aggregate asked for.                          *)
LEMMA GetViewGood ==
  ASSUME app \in Apps, GoodTable(table), NEW id, NEW m \in GetView(id)
  PROVE  m.id = id
<1>1. ASSUME NEW pk, NEW sk, pk.is = id, \E od \in StoreGet(cloud, table, pk, sk) : m = od.body
      PROVE  m.id = id
  BY <1>1, StoreGetGood
<1>2. CASE app = "order"
  <2>1. PICK od \in StoreGet(cloud, table, O!OrderPK(id), O!OrderSK) : m = od.body
    <3>1. m \in O!GetOrder(cloud, table, id)
      BY <1>2 DEF GetView, Of
    <3>2. \A pk, sk : O!StoreGet(cloud, table, pk, sk) = StoreGet(cloud, table, pk, sk)
      BY DEF O!StoreGet, O!DynamoGet, O!CosmosGet, StoreGet, DynamoGet, CosmosGet,
             O!unmarshalItem, unmarshalItem, O!Empty, Empty, O!Key, Key
    <3>. QED
      BY <3>1, <3>2 DEF O!GetOrder, O!ReHydrate
  <2>2. O!OrderPK(id).is = id
    BY DEF O!OrderPK, O!Key
  <2>. QED
    BY <1>1, <2>1, <2>2
<1>3. CASE app = "sample"
  <2>1. PICK od \in StoreGet(cloud, table, S!PK(id), S!SK) : m = od.body
    <3>1. m \in S!GetSample(cloud, table, id)
      BY <1>3 DEF GetView, Of
    <3>2. \A pk, sk : S!StoreGet(cloud, table, pk, sk) = StoreGet(cloud, table, pk, sk)
      BY DEF S!StoreGet, S!DynamoGet, S!CosmosGet, StoreGet, DynamoGet, CosmosGet,
             S!unmarshalItem, unmarshalItem, S!Empty, Empty, S!Key, Key
    <3>. QED
      BY <3>1, <3>2 DEF S!GetSample, S!ReHydrate
  <2>2. S!PK(id).is = id
    BY DEF S!PK, S!Key
  <2>. QED
    BY <1>1, <2>1, <2>2
<1>4. CASE app = "samplenosnapshot"
  <2>1. PICK od \in StoreGet(cloud, table, N!PK(id), N!SK) : m = od.body
    <3>1. m \in N!GetSample(cloud, table, id)
      BY <1>4 DEF GetView, Of
    <3>2. \A pk, sk : N!StoreGet(cloud, table, pk, sk) = StoreGet(cloud, table, pk, sk)
      BY DEF N!StoreGet, N!DynamoGet, N!CosmosGet, StoreGet, DynamoGet, CosmosGet,
             N!unmarshalItem, unmarshalItem, N!Empty, Empty, N!Key, Key
    <3>. QED
      BY <3>1, <3>2 DEF N!GetSample, N!ReHydrate
  <2>2. N!PK(id).is = id
    BY DEF N!PK, N!Key
  <2>. QED
    BY <1>1, <2>1, <2>2
<1>. QED
  BY <1>2, <1>3, <1>4, Applications

(* A summary is found once, or not at all. *)
LEMMA SummaryFound ==
  ASSUME GoodTable(table), NEW id
  PROVE  FoundIds(SetToSeq(O!GetOrderSummary(cloud, table, id))) \in {<<id>>, <<>>}
<1>1. PICK X : X = O!GetOrderSummary(cloud, table, id)
  OBVIOUS
<1>2. PICK key : key = <<O!OrderPK(id), O!OrderSummarySK>>
  OBVIOUS
<1>3. X = {ReHydrate(unmarshalItem(table[k])) : k \in DOMAIN table \cap {key}}
  <2>1. \A item : O!ReHydrate(O!unmarshalItem(item)) = ReHydrate(unmarshalItem(item))
    BY DEF O!ReHydrate, O!unmarshalItem, ReHydrate, unmarshalItem
  <2>2. O!StoreGet(cloud, table, O!OrderPK(id), O!OrderSummarySK)
          = {O!unmarshalItem(table[k]) : k \in DOMAIN table \cap {key}}
    BY <1>2 DEF O!StoreGet, O!DynamoGet, O!CosmosGet
  <2>. QED
    BY <1>1, <2>1, <2>2 DEF O!GetOrderSummary
<1>4. CASE key \notin DOMAIN table
  <2>1. X = {}
    BY <1>3, <1>4
  <2>2. Cardinality(X) = 0 /\ IsFiniteSet(X)
    BY <2>1, FS_EmptySet
  <2>3. SetToSeq(X) \in [1..0 -> X]
    BY <2>2, SetToSeqLen
  <2>4. FoundIds(SetToSeq(X)) = <<>>
    BY <2>3 DEF FoundIds
  <2>. QED
    BY <1>1, <2>4
<1>5. CASE key \in DOMAIN table
  <2>1. PICK m : m = ReHydrate(unmarshalItem(table[key]))
    OBVIOUS
  <2>2. X = {m}
    BY <1>3, <1>5, <2>1
  <2>3. m.id = id
    <3>1. key = <<table[key].pk, table[key].sk>> /\ table[key].pk.is = table[key].body.id
      BY <1>5 DEF GoodTable
    <3>2. table[key].pk = O!OrderPK(id) /\ O!OrderPK(id).is = id
      BY <1>2, <3>1 DEF O!OrderPK, O!Key
    <3>3. m = table[key].body
      BY <2>1 DEF ReHydrate, unmarshalItem
    <3>. QED
      BY <3>1, <3>2, <3>3
  <2>4. Cardinality(X) = 1 /\ IsFiniteSet(X)
    BY <2>2, FS_Singleton
  <2>5. PICK s : s = SetToSeq(X)
    OBVIOUS
  <2>6. s \in [1..1 -> X]
    BY <2>4, <2>5, SetToSeqLen
  <2>7. DOMAIN s = 1..1 /\ \A k \in 1..1 : s[k].id = id
    BY <2>2, <2>3, <2>6
  <2>8. PICK f : f = FoundIds(s)
    OBVIOUS
  <2>9. f = [k \in 1..1 |-> id]
    BY <2>7, <2>8 DEF FoundIds
  <2>10. IsList(f) /\ Len(f) = 1 /\ f[1] = id
    BY <2>9 DEF IsList
  <2>11. f = <<id>>
    BY <2>10, SingleOf
  <2>. QED
    BY <1>1, <2>5, <2>8, <2>11
<1>. QED
  BY <1>4, <1>5

-----------------------------------------------------------------------------
(***************************************************************************)
(* What a client has been told.                                            *)
(***************************************************************************)
LEMMA StreamIsList ==
  ASSUME ServiceInv, NEW id
  PROVE  Len(Stream(id)) \in Nat /\ DOMAIN Stream(id) = 1..Len(Stream(id))
<1>1. CASE id \in Ids
  BY <1>1, ListFacts DEF Stream, ServiceInv, GoodStream
<1>2. CASE id \notin Ids
  BY <1>2 DEF Stream
<1>. QED
  BY <1>1, <1>2

(* What a client was told of is in the stream (Apply answers after the     *)
(* save).                                                                  *)
LEMMA AcknowledgedInStream ==
  ASSUME ServiceInv, NEW id
  PROVE  Acknowledged(id) \in Nat /\ Acknowledged(id) <= Len(Stream(id))
<1> DEFINE Told == {j \in DOMAIN requests :
                      /\ IsCommand(requests[j]) /\ requests[j].call.id = id
                      /\ requests[j].status = 200}
           V == {requests[j].version : j \in Told}
<1>1. PICK n \in Nat : n = Len(Stream(id))
  BY StreamIsList
<1>2. CASE Told = {}
  BY <1>1, <1>2 DEF Acknowledged
<1>3. CASE Told # {}
  <2>1. Acknowledged(id) = CHOOSE v \in V : \A j \in Told : requests[j].version <= v
    BY <1>3 DEF Acknowledged
  <2>2. \A j \in Told : requests[j].version \in 0..n
    BY <1>1 DEF ServiceInv, GoodRequest
  <2>3. V \in SUBSET (0..n) /\ V # {} /\ \A j \in Told : requests[j].version \in V
    BY <1>3, <2>2
  <2> HIDE DEF Told, V
  <2>4. PICK v \in V : \A w \in V : w <= v
    BY <2>3, GreatestExists
  <2>5. \A j \in Told : requests[j].version <= v
    BY <2>3, <2>4
  <2>6. Acknowledged(id) \in V
    BY <2>1, <2>4, <2>5
  <2>7. Acknowledged(id) \in 0..n
    BY <2>3, <2>6
  <2>. QED
    BY <1>1, <2>7
<1>. QED
  BY <1>2, <1>3

-----------------------------------------------------------------------------
(***************************************************************************)
(* What a step leaves as it was: streams only grow.                        *)
(***************************************************************************)
Deployed == app' = app /\ cloud' = cloud /\ authorizer' = authorizer

Grown(old, new) ==
  /\ Len(old) \in Nat /\ Len(new) \in Nat /\ Len(old) <= Len(new)
  /\ \A k \in DOMAIN old : k \in DOMAIN new /\ new[k] = old[k]

StreamsGrow ==
  /\ DOMAIN streams = Ids /\ DOMAIN streams' = Ids
  /\ \A id \in Ids : Grown(streams[id], streams'[id])

(* What a service offers does not change while it runs.                    *)
LEMMA SameNames ==
  ASSUME Deployed
  PROVE  /\ CommandNames' = CommandNames
         /\ \A call, actor : Client(call, actor)' = Client(call, actor)
         /\ \A call : GoodCall(call)' <=> GoodCall(call)
<1>1. CommandNames' = CommandNames
  BY DEF Deployed, CommandNames, Of
<1>2. \A call, actor : Client(call, actor)' = Client(call, actor)
  BY DEF Deployed, Client, Of
<1>3. \A call : GoodCall(call)' <=> GoodCall(call)
  BY <1>1 DEF Deployed, GoodCall
<1>. QED
  BY <1>1, <1>2, <1>3

(* Nor does what an event is entitled to.                                  *)
LEMMA SameEvents ==
  ASSUME Deployed, NEW event
  PROVE  /\ Replayable(event)' <=> Replayable(event)
         /\ Granted(event)' <=> Granted(event)
<1>1. Replayable(event)' <=> Replayable(event)
  BY DEF Deployed, Replayable
<1>2. \A actor, kind : Holds(actor, kind)' <=> Holds(actor, kind)
  BY SameNames DEF Deployed, Holds, Of
<1>3. Granted(event)' <=> Granted(event)
  BY <1>2 DEF Deployed, Granted
<1>. QED
  BY <1>1, <1>3

(* Nor does what is a good stream.                                         *)
LEMMA SameStream ==
  ASSUME Deployed, NEW s
  PROVE  GoodStream(s)' <=> GoodStream(s)
BY SameEvents DEF GoodStream

(* What holds of the events of a command holds of a longer stream. *)
LEMMA StillDecided ==
  ASSUME Deployed, StreamsGrow, NEW r, Decided(r)
  PROVE  Decided(r)'
<1>1. r.call.id \in Ids
  BY DEF Decided
<1>2. PICK old, new : old = streams[r.call.id] /\ new = streams'[r.call.id]
  OBVIOUS
<1>3. Grown(old, new)
  BY <1>1, <1>2 DEF StreamsGrow
<1>4. \A k \in DOMAIN r.events : Replayable(r.events[k])' /\ Granted(r.events[k])'
  BY SameEvents DEF Decided
<1>5. Continue(r.events, new)
  <2>1. PICK n \in 0..Len(old) : \A k \in DOMAIN r.events : r.events[k].version = n + k
    BY <1>2 DEF Decided, Continue
  <2>2. n \in 0..Len(new)
    BY <1>3, <2>1 DEF Grown
  <2>. QED
    BY <2>1, <2>2 DEF Continue
<1>6. AreIn(r.events, old) => AreIn(r.events, new)
  BY <1>3 DEF AreIn, Grown
<1>7. /\ r.call.name \in CommandNames' /\ r.call.id \in Ids /\ IsList(r.events)
      /\ r.status \in {0, 200, 500}
      /\ Stored(r) => AreIn(r.events, new)
  BY <1>2, <1>6, SameNames DEF Decided
<1>. QED
  BY <1>2, <1>4, <1>5, <1>7 DEF Decided

(* A request is as good after other streams have grown.                    *)
LEMMA StillGood ==
  ASSUME Deployed, StreamsGrow, NEW r, GoodRequest(r)
  PROVE  GoodRequest(r)'
<1>1. Len(Stream(r.call.id)) <= Len(Stream(r.call.id))' /\ Len(Stream(r.call.id)) \in Nat
      /\ Len(Stream(r.call.id))' \in Nat
  BY DEF Stream, StreamsGrow, Grown
<1>2. /\ r.seen \in Nat /\ r.seen <= Len(Stream(r.call.id))'
      /\ IsCommand(r)' /\ r.status = 200 => r.version <= Len(Stream(r.call.id))'
  BY <1>1, SameNames DEF GoodRequest, IsCommand
<1>3. r.events # <<>> => Decided(r)'
  BY StillDecided DEF GoodRequest
<1>4. GoodCall(r.call)'
  BY SameNames DEF GoodRequest
<1>5. r.stage = "sent" =>
        r.events = <<>> /\ r.call.name \notin Direct /\ Client(r.call, Claimed)' # Unsent
  BY SameNames DEF GoodRequest
<1>6. /\ DOMAIN r = Fields
      /\ r.stage \in {"sent", "saving", "saved", "done"}
      /\ r.status \in Statuses
      /\ r.status = 0 <=> r.stage # "done"
      /\ r.stage \in {"saving", "saved"} => r.events # <<>>
      /\ r.version \in Nat
      /\ SeesAcknowledged(r)
      /\ AnswersTheQuestion(r)
  BY DEF GoodRequest
<1>. QED
  BY <1>2, <1>3, <1>4, <1>5, <1>6 DEF GoodRequest

-----------------------------------------------------------------------------
(***************************************************************************)
(* One request more, or one that has come further.                         *)
(***************************************************************************)
(* What a step that stores nothing keeps, whatever becomes of requests. *)
LEMMA NothingStored ==
  ASSUME ServiceInv, Deployed, streams' = streams
  PROVE  /\ StreamsGrow
         /\ app' \in Apps /\ cloud' \in Clouds /\ authorizer' \in Authorizers
         /\ DOMAIN streams' = Ids
         /\ \A id \in Ids : GoodStream(streams[id])'
         /\ \A r : GoodRequest(r) => GoodRequest(r)'
<1>1. \A id \in Ids : GoodStream(streams[id])
  BY DEF ServiceInv
<1>2. \A id \in Ids : Grown(streams[id], streams'[id])
  BY <1>1, ListFacts DEF GoodStream, Grown
<1>3. StreamsGrow
  BY <1>2 DEF StreamsGrow, ServiceInv
<1>4. \A id \in Ids : GoodStream(streams[id])'
  BY <1>1, SameStream
<1>5. \A r : GoodRequest(r) => GoodRequest(r)'
  BY <1>3, StillGood
<1>. QED
  BY <1>3, <1>4, <1>5 DEF ServiceInv, Deployed

(* A request more, that has stored nothing.                                *)
LEMMA AppendKeeps ==
  ASSUME ServiceInv, Deployed, UNCHANGED <<streams, table>>,
         NEW r, GoodRequest(r), r.events = <<>>, requests' = Append(requests, r)
  PROVE  ServiceInv'
<1>1. IsList(requests)
  BY DEF ServiceInv
<1>2. PICK n \in Nat : n = Len(requests) /\ DOMAIN requests = 1..n
  BY <1>1, ListFacts
<1>3. PICK rs : rs = requests'
  OBVIOUS
<1>4. /\ IsList(rs) /\ DOMAIN rs = 1..(n + 1) /\ rs[n + 1] = r
      /\ \A k \in DOMAIN requests : k \in DOMAIN rs /\ rs[k] = requests[k]
  BY <1>1, <1>2, <1>3, ListAppend
<1>5. \A k \in DOMAIN rs : k \in DOMAIN requests \/ k = n + 1
  BY <1>2, <1>4
<1>6. \A k \in DOMAIN rs : GoodRequest(rs[k])
  BY <1>4, <1>5 DEF ServiceInv
<1>7. \A k \in DOMAIN rs : GoodRequest(rs[k])'
  BY <1>6, NothingStored
<1>8. ASSUME NEW id \in Ids, NEW k \in DOMAIN streams[id]
      PROVE  HasOrigin(id, streams[id][k])'
  <2>1. HasOrigin(id, streams[id][k])
    BY DEF ServiceInv
  <2>2. SUFFICES ASSUME ~Original(streams[id][k])
                 PROVE  \E i \in DOMAIN rs :
                          /\ rs[i].call.id = id
                          /\ \E m \in DOMAIN rs[i].events :
                               SameEvent(rs[i].events[m], streams[id][k])
    BY <1>3 DEF HasOrigin
  <2>. QED
    BY <1>4, <2>1, <2>2 DEF HasOrigin
<1>9. Distinct'
  <2>1. ~Stored(rs[n + 1])
    BY <1>4 DEF Stored
  <2>2. SUFFICES ASSUME NEW i \in DOMAIN rs, NEW j \in DOMAIN rs, i # j,
                        rs[i].call.id = rs[j].call.id, Stored(rs[i]), Stored(rs[j])
                 PROVE  LastVersion(rs[i].events) # LastVersion(rs[j].events)
    BY <1>3 DEF Distinct
  <2>3. i \in DOMAIN requests /\ j \in DOMAIN requests
    BY <1>5, <2>1, <2>2
  <2>. QED
    BY <1>4, <2>2, <2>3 DEF ServiceInv, Distinct
<1>. QED
  BY <1>3, <1>4, <1>7, <1>8, <1>9, NothingStored DEF ServiceInv, GoodTable

(* A request goes on and keeps its events, if it has any.  Unless its      *)
(* events are in the stream already they are not said to be.               *)
LEMMA BecomeKeeps ==
  ASSUME ServiceInv, Deployed, streams' = streams, GoodTable(table)',
         NEW i \in DOMAIN requests, NEW r, GoodRequest(r), Become(i, r),
         r.call = requests[i].call,
         requests[i].events # <<>> => r.events = requests[i].events,
         Stored(r) => Stored(requests[i])
  PROVE  ServiceInv'
<1>1. PICK n \in Nat : n = Len(requests) /\ DOMAIN requests = 1..n
  BY ListFacts DEF ServiceInv
<1>2. PICK rs : rs = requests'
  OBVIOUS
<1>3. /\ DOMAIN rs = DOMAIN requests /\ rs[i] = r
      /\ \A k \in DOMAIN requests : k # i => rs[k] = requests[k]
  BY <1>2 DEF Become
<1>4. IsList(rs)
  <2>1. IsList(requests)
    BY DEF ServiceInv
  <2>2. requests = [k \in 1..n |-> requests[k]]
    BY <1>1, <2>1, Zenon DEF IsList
  <2>3. rs = [k \in 1..n |-> IF k = i THEN r ELSE requests[k]]
    BY <1>1, <1>2, <2>2 DEF Become
  <2>4. Len(rs) = n /\ rs = [k \in 1..n |-> rs[k]]
    BY <2>3
  <2>. QED
    BY <2>4 DEF IsList
<1>5. \A k \in DOMAIN rs : GoodRequest(rs[k])
  BY <1>3 DEF ServiceInv
<1>6. \A k \in DOMAIN rs : GoodRequest(rs[k])'
  BY <1>5, NothingStored
<1>7. \A k \in DOMAIN requests :
        /\ rs[k].call = requests[k].call
        /\ requests[k].events # <<>> => rs[k].events = requests[k].events
        /\ Stored(rs[k]) => Stored(requests[k])
  BY <1>3
<1>8. ASSUME NEW id \in Ids, NEW k \in DOMAIN streams[id]
      PROVE  HasOrigin(id, streams[id][k])'
  <2>1. HasOrigin(id, streams[id][k])
    BY DEF ServiceInv
  <2>2. SUFFICES ASSUME ~Original(streams[id][k])
                 PROVE  \E j \in DOMAIN rs :
                          /\ rs[j].call.id = id
                          /\ \E m \in DOMAIN rs[j].events :
                               SameEvent(rs[j].events[m], streams[id][k])
    BY <1>2 DEF HasOrigin
  <2>3. PICK j \in DOMAIN requests :
          /\ requests[j].call.id = id
          /\ \E m \in DOMAIN requests[j].events :
               SameEvent(requests[j].events[m], streams[id][k])
    BY <2>1, <2>2 DEF HasOrigin
  <2>4. requests[j].events # <<>>
    BY <2>3
  <2>. QED
    BY <1>3, <1>7, <2>3, <2>4
<1>9. Distinct'
  <2>1. SUFFICES ASSUME NEW k \in DOMAIN rs, NEW j \in DOMAIN rs, k # j,
                        rs[k].call.id = rs[j].call.id, Stored(rs[k]), Stored(rs[j])
                 PROVE  LastVersion(rs[k].events) # LastVersion(rs[j].events)
    BY <1>2 DEF Distinct
  <2>2. /\ Stored(requests[k]) /\ Stored(requests[j])
        /\ requests[k].call.id = requests[j].call.id
        /\ rs[k].events = requests[k].events /\ rs[j].events = requests[j].events
    BY <1>3, <1>7, <2>1 DEF Stored
  <2>. QED
    BY <1>3, <2>1, <2>2 DEF ServiceInv, Distinct
<1>. QED
  BY <1>2, <1>3, <1>4, <1>6, <1>8, <1>9, NothingStored DEF ServiceInv

-----------------------------------------------------------------------------
(***************************************************************************)
(* The actions.                                                            *)
(***************************************************************************)
LEMMA Names ==
  ASSUME app \in Apps
  PROVE  /\ CommandNames \subseteq O!CommandNames \cup S!CommandNames
         /\ \A name \in CommandNames :
              name \notin Direct /\ name \notin {"Load", "Get", "History"}
<1>1. N!CommandNames \subseteq S!CommandNames
  BY DEF N!CommandNames, S!CommandNames
<1>2. CommandNames \subseteq O!CommandNames \cup S!CommandNames
  BY <1>1, Applications DEF CommandNames, Of
<1>3. \A name \in O!CommandNames \cup S!CommandNames :
        name \notin Direct /\ name \notin {"Load", "Get", "History"}
  BY DEF O!CommandNames, S!CommandNames, Direct, SummariesByState, SummariesByCustomer
<1>. QED
  BY <1>2, <1>3

(* A request as it is sent.                                                *)
LEMMA AskingGood ==
  ASSUME ServiceInv, NEW k \in DOMAIN Traffic[app], NEW sent, sent = Traffic[app][k],
         NEW r, r = Asking(sent)
  PROVE  /\ GoodCall(r.call) /\ r.call = sent.call
         /\ DOMAIN r = Fields /\ r.stage = "sent" /\ r.status = 0 /\ r.events = <<>>
         /\ r.version = 0 /\ r.seen \in Nat /\ r.seen <= Len(Stream(r.call.id))
<1>1. app \in Apps
  BY DEF ServiceInv
<1>2. /\ r.call = sent.call /\ DOMAIN r = Fields /\ r.stage = "sent" /\ r.status = 0
      /\ r.events = <<>> /\ r.version = 0 /\ r.seen = Acknowledged(sent.call.id)
  BY DEF Asking, Fields
<1>3. /\ sent.call.name \in Calls[app]
      /\ sent.call.id \in Seq(Range(sent.call.id) \ {""})
      /\ sent.call.name \in O!CommandNames \cup S!CommandNames =>
           sent.call.id \in Ids \cup {<<>>}
  BY <1>1, ServiceAssumption
<1>4. GoodCall(sent.call)
  BY <1>1, <1>3, Names DEF GoodCall
<1>. QED
  BY <1>2, <1>4, AcknowledgedInStream

(* Sending a request.                                                      *)
LEMMA SendKeeps ==
  ASSUME ServiceInv, NEW k \in DOMAIN Traffic[app], Send(k)
  PROVE  ServiceInv'
<1>1. PICK sent, r : sent = Traffic[app][k] /\ r = Asking(sent)
  OBVIOUS
<1>2. /\ sent.call.name \notin Direct /\ Client(sent.call, Claimed) # Unsent
      /\ requests' = Append(requests, r) /\ UNCHANGED <<deployment, streams, table>>
  BY <1>1 DEF Send
<1>3. /\ GoodCall(r.call) /\ r.call = sent.call
      /\ DOMAIN r = Fields /\ r.stage = "sent" /\ r.status = 0 /\ r.events = <<>>
      /\ r.version = 0 /\ r.seen \in Nat /\ r.seen <= Len(Stream(r.call.id))
  BY <1>1, AskingGood
<1>4. SeesAcknowledged(r) /\ AnswersTheQuestion(r)
  BY <1>3 DEF SeesAcknowledged, AnswersTheQuestion
<1>5. GoodRequest(r)
  BY <1>2, <1>3, <1>4 DEF GoodRequest, Statuses
<1>. QED
  BY <1>2, <1>3, <1>5, AppendKeeps DEF Deployed, deployment

(* Reading order summaries where they are, without the service.            *)
LEMMA BrowseKeeps ==
  ASSUME ServiceInv, NEW k \in DOMAIN Traffic[app], Browse(k)
  PROVE  ServiceInv'
<1>1. PICK sent, call, a : sent = Traffic[app][k] /\ call = sent.call /\ a = Asking(sent)
  OBVIOUS
<1>2. /\ GoodCall(a.call) /\ a.call = call
      /\ DOMAIN a = Fields /\ a.events = <<>>
      /\ a.version = 0 /\ a.seen \in Nat /\ a.seen <= Len(Stream(a.call.id))
  BY <1>1, AskingGood
<1> DEFINE misfit == call.op # "none" /\ ~ValuesFit(call.op, call.values)
           found == IF misfit THEN <<>> ELSE FoundIds(Browsed(call))
           listed == IF call.name = "GetOrderSummary" THEN {} ELSE Listed(call)
<1>3. PICK r : r = [a EXCEPT !.stage = "done", !.status = IF misfit THEN 500 ELSE 200,
                             !.listed = listed, !.found = found]
  OBVIOUS
<1>4. /\ call.name \in Direct /\ requests' = Append(requests, r)
      /\ UNCHANGED <<deployment, streams, table>>
  BY <1>1, <1>3 DEF Browse
<1>5. call.name = "GetOrderSummary" => found \in {<<call.id>>, <<>>}
  <2>1. ASSUME call.name = "GetOrderSummary"
        PROVE  FoundIds(Browsed(call)) \in {<<call.id>>, <<>>}
    <3>1. Browsed(call) = SetToSeq(O!GetOrderSummary(cloud, table, call.id))
      BY <2>1 DEF Browsed
    <3>. QED
      BY <3>1, SummaryFound DEF ServiceInv
  <2>. QED
    BY <2>1
<1> HIDE DEF misfit, found, listed
<1>6. /\ DOMAIN r = Fields /\ r.call = call /\ r.stage = "done" /\ r.status \in {200, 500}
      /\ r.events = <<>> /\ r.version = 0 /\ r.seen = a.seen /\ r.found = found
  BY <1>2, <1>3 DEF Fields
<1>7. call.name \notin CommandNames /\ call.name \notin {"Load", "Get", "History"}
  <2>1. call.name \notin CommandNames
    BY <1>4, Names DEF ServiceInv
  <2>. QED
    BY <1>4, <2>1 DEF Direct, SummariesByState, SummariesByCustomer
<1>8. SeesAcknowledged(r) /\ AnswersTheQuestion(r)
  BY <1>5, <1>6, <1>7 DEF SeesAcknowledged, AnswersTheQuestion
<1>9. GoodRequest(r)
  BY <1>2, <1>6, <1>7, <1>8 DEF GoodRequest, Statuses, IsCommand
<1>. QED
  BY <1>4, <1>6, <1>9, AppendKeeps DEF Deployed, deployment

(* What answering changes of a request.                                    *)
LEMMA AnsweredFields ==
  ASSUME NEW r, DOMAIN r = Fields, NEW status
  PROVE  LET a == Answered(r, status)
         IN  /\ DOMAIN a = Fields /\ a.stage = "done" /\ a.status = status
             /\ a.call = r.call /\ a.events = r.events /\ a.version = r.version
             /\ a.seen = r.seen /\ a.found = r.found
BY DEF Answered, Fields

(* A request that is answered, but not with success. *)
LEMMA AnsweredGood ==
  ASSUME NEW r, GoodRequest(r), NEW status \in Statuses \ {0, 200},
         r.events = <<>> \/ status = 500,
         NEW a, a = Answered(r, status), SeesAcknowledged(a)
  PROVE  GoodRequest(a) /\ ~Stored(a)
<1>1. /\ DOMAIN a = Fields /\ a.stage = "done" /\ a.status = status
      /\ a.call = r.call /\ a.events = r.events /\ a.version = r.version
      /\ a.seen = r.seen
  BY AnsweredFields DEF GoodRequest
<1>2. ~Stored(a)
  BY <1>1 DEF Stored
<1>3. a.events # <<>> => Decided(a)
  BY <1>1, <1>2 DEF GoodRequest, Decided
<1>4. AnswersTheQuestion(a)
  BY <1>1 DEF AnswersTheQuestion
<1>5. /\ GoodCall(r.call) /\ r.version \in Nat /\ r.seen \in Nat
      /\ r.seen <= Len(Stream(r.call.id))
  BY DEF GoodRequest
<1>6. GoodRequest(a)
  BY <1>1, <1>3, <1>4, <1>5 DEF GoodRequest
<1>. QED
  BY <1>2, <1>6

(* A save that fails.                                                      *)
LEMMA SaveFailsKeeps ==
  ASSUME ServiceInv, NEW i \in DOMAIN requests, SaveFails(i)
  PROVE  ServiceInv'
<1>1. PICK r, a : r = requests[i] /\ a = Answered(r, 500)
  OBVIOUS
<1>2. GoodRequest(r)
  BY <1>1 DEF ServiceInv
<1>3. Become(i, a) /\ UNCHANGED <<deployment, streams, table>>
  BY <1>1 DEF SaveFails
<1>4. a.call = r.call /\ a.events = r.events /\ a.status = 500
  BY <1>1, <1>2, AnsweredFields DEF GoodRequest
<1>5. SeesAcknowledged(a)
  BY <1>4 DEF SeesAcknowledged
<1>6. GoodRequest(a) /\ ~Stored(a)
  BY <1>1, <1>2, <1>5, AnsweredGood DEF Statuses
<1>. QED
  BY <1>1, <1>3, <1>4, <1>6, BecomeKeeps DEF ServiceInv, Deployed, deployment, GoodTable

(* The last of some events that were saved. *)
LEMMA LastStored ==
  ASSUME ServiceInv, NEW r, GoodRequest(r), Stored(r)
  PROVE  /\ LastVersion(r.events) \in DOMAIN streams[r.call.id]
         /\ LastVersion(r.events) \in 1..Len(streams[r.call.id])
<1>1. Decided(r) /\ AreIn(r.events, streams[r.call.id]) /\ r.events # <<>>
  BY DEF Stored, GoodRequest, Decided
<1>2. PICK e, s, n : e = r.events /\ s = streams[r.call.id] /\ n = Len(e)
  OBVIOUS
<1>3. n \in Nat /\ DOMAIN e = 1..n
  BY <1>1, <1>2, ListFacts DEF Decided
<1>4. n # 0
  BY <1>1, <1>2, EmptyList DEF Decided
<1>5. n \in DOMAIN e
  BY <1>3, <1>4
<1>6. LastVersion(e) \in DOMAIN s
  BY <1>1, <1>2, <1>5 DEF LastVersion, AreIn
<1>7. DOMAIN s = 1..Len(s)
  BY <1>1, <1>2, ListFacts DEF ServiceInv, GoodStream, Decided
<1>. QED
  BY <1>2, <1>6, <1>7

(* The views are written and the command is told of its version.           *)
LEMMA MaterializeKeeps ==
  ASSUME ServiceInv, NEW i \in DOMAIN requests, NEW written, Materialize(i, written)
  PROVE  ServiceInv'
<1>1. PICK r : r = requests[i]
  OBVIOUS
<1>2. PICK v : v = LastVersion(r.events)
  OBVIOUS
<1>3. PICK b, a : b = Answered(r, 200) /\ a = [b EXCEPT !.version = v]
  OBVIOUS
<1>4. PICK views : views = Views(r.call.id, SubSeq(streams[r.call.id], 1, v))
  OBVIOUS
<1>5. /\ r.stage = "saved" /\ table' = PutAll(table, views, written, Now)
      /\ Become(i, a) /\ UNCHANGED <<deployment, streams>>
  BY <1>1, <1>2, <1>3, <1>4 DEF Materialize
<1>6. GoodRequest(r) /\ Stored(r)
  BY <1>1, <1>5 DEF ServiceInv, GoodRequest, Stored
<1>7. /\ DOMAIN a = Fields /\ a.stage = "done" /\ a.status = 200
      /\ a.call = r.call /\ a.events = r.events /\ a.version = v /\ a.seen = r.seen
  <2>1. /\ DOMAIN b = Fields /\ b.stage = "done" /\ b.status = 200
        /\ b.call = r.call /\ b.events = r.events /\ b.seen = r.seen
    BY <1>3, <1>6, AnsweredFields DEF GoodRequest
  <2>. QED
    BY <1>3, <2>1 DEF Fields
<1>8. Decided(a) /\ Stored(a)
  BY <1>6, <1>7 DEF GoodRequest, Stored, Decided
<1>9. v \in 1..Len(streams[r.call.id]) /\ Stream(r.call.id) = streams[r.call.id]
  BY <1>2, <1>6, <1>7, <1>8, LastStored DEF Decided, Stream
<1>10. r.call.name \in CommandNames /\ r.call.name \notin {"Load", "Get", "History"}
       /\ r.call.name # "GetOrderSummary"
  BY <1>7, <1>8, Names DEF Decided, Direct, ServiceInv
<1>11. SeesAcknowledged(a) /\ AnswersTheQuestion(a)
  BY <1>7, <1>10 DEF SeesAcknowledged, AnswersTheQuestion
<1>12. /\ v \in Nat /\ v <= Len(Stream(r.call.id))
  <2>1. Len(Stream(r.call.id)) \in Nat
    BY StreamIsList
  <2>. QED
    BY <1>9, <2>1
<1>13. GoodRequest(a)
  BY <1>6, <1>7, <1>8, <1>11, <1>12 DEF GoodRequest, Statuses
<1>14. GoodTable(table)'
  <2>1. IsList(views) /\ \A k \in DOMAIN views : OfItself(views[k])
    BY <1>4, ViewsGood DEF ServiceInv
  <2>2. GoodTable(PutAll(table, views, written, Now))
    BY <2>1, PutAllGood DEF ServiceInv
  <2>. QED
    BY <1>5, <2>2 DEF GoodTable
<1>. QED
  BY <1>1, <1>5, <1>6, <1>7, <1>13, <1>14, BecomeKeeps DEF Deployed, deployment

(* Only the next versions are free, of those that continue what was read. *)
LEMMA FreeIsNext ==
  ASSUME ServiceInv, NEW r, Decided(r), r.events # <<>>, Free(r)
  PROVE  /\ Len(streams[r.call.id]) \in Nat
         /\ \A k \in DOMAIN r.events :
              r.events[k].version = Len(streams[r.call.id]) + k
<1>1. PICK e, s, m : e = r.events /\ s = streams[r.call.id] /\ m = Len(s)
  OBVIOUS
<1>2. m \in Nat /\ DOMAIN s = 1..m
  BY <1>1, ListFacts DEF ServiceInv, GoodStream, Decided
<1>3. IsList(e) /\ e # <<>>
  BY <1>1 DEF Decided
<1>4. Len(e) \in Nat /\ DOMAIN e = 1..Len(e)
  BY <1>3, ListFacts
<1>5. Len(e) # 0
  BY <1>3, EmptyList
<1>6. 1 \in DOMAIN e
  BY <1>4, <1>5
<1>7. PICK n \in 0..m : \A k \in DOMAIN e : e[k].version = n + k
  BY <1>1 DEF Decided, Continue
<1>8. n + 1 \notin 1..m
  BY <1>1, <1>2, <1>6, <1>7 DEF Free
<1>9. n = m
  BY <1>2, <1>7, <1>8
<1>. QED
  BY <1>1, <1>2, <1>7, <1>9

(* What becomes of the request whose events are saved. *)
SavedAs(r, lost) == IF lost THEN Answered(r, 500) ELSE [r EXCEPT !.stage = "saved"]

(* What saving changes of a request.                                       *)
LEMMA SavedFields ==
  ASSUME NEW r, GoodRequest(r), r.stage = "saving", NEW lost,
         NEW a, a = SavedAs(r, lost)
  PROVE  /\ DOMAIN a = Fields /\ a.call = r.call /\ a.events = r.events
         /\ a.version = r.version /\ a.seen = r.seen
         /\ \/ a.stage = "done" /\ a.status = 500
            \/ a.stage = "saved" /\ a.status = 0
<1>1. DOMAIN r = Fields /\ r.status = 0
  BY DEF GoodRequest
<1>2. CASE lost
  BY <1>1, <1>2, AnsweredFields DEF SavedAs
<1>3. CASE ~lost
  BY <1>1, <1>3 DEF SavedAs, Fields
<1>. QED
  BY <1>2, <1>3

(* A save: the stores refuse versions that are taken, so what is stored    *)
(* continues the stream.                                                   *)
LEMMA SaveKeeps ==
  ASSUME ServiceInv, NEW i \in DOMAIN requests, NEW lost, Save(i, lost)
  PROVE  ServiceInv'
<1>1. PICK r, e, id, s : r = requests[i] /\ e = r.events /\ id = r.call.id /\ s = streams[id]
  OBVIOUS
<1>2. PICK a : a = SavedAs(r, lost)
  OBVIOUS
<1>3. /\ r.stage = "saving" /\ Free(r)
      /\ streams' = [streams EXCEPT ![id] = @ \o e]
      /\ Become(i, a) /\ UNCHANGED <<deployment, table>>
  BY <1>1, <1>2 DEF Save, SavedAs
<1>4. GoodRequest(r) /\ Decided(r) /\ e # <<>>
  BY <1>1, <1>3 DEF ServiceInv, GoodRequest
<1>5. id \in Ids /\ IsList(e) /\ r.call.name \in CommandNames
  BY <1>1, <1>4 DEF Decided
<1>6. GoodStream(s) /\ IsList(s)
  BY <1>1, <1>5 DEF ServiceInv, GoodStream
<1>7. Len(s) \in Nat /\ \A k \in DOMAIN e : e[k].version = Len(s) + k
  BY <1>1, <1>3, <1>4, FreeIsNext
<1>8. PICK t : t = s \o e
  OBVIOUS
<1>9. IsJoin(s, e, t)
  BY <1>5, <1>6, <1>8, ListConcat
<1>10. DOMAIN streams = Ids
  BY DEF ServiceInv
<1>11. /\ DOMAIN streams' = Ids /\ streams'[id] = t
       /\ \A x \in Ids : x # id => streams'[x] = streams[x]
  BY <1>1, <1>3, <1>5, <1>8, <1>10
<1>12. Deployed
  BY <1>3 DEF Deployed, deployment
<1>13. StreamsGrow
  <2>1. ASSUME NEW x \in Ids PROVE Grown(streams[x], streams'[x])
    <3>1. CASE x = id
      <4>1. Grown(s, t)
        BY <1>9 DEF IsJoin, Grown
      <4>. QED
        BY <1>1, <1>11, <3>1, <4>1
    <3>2. CASE x # id
      <4>1. IsList(streams[x])
        BY DEF ServiceInv, GoodStream
      <4>. QED
        BY <1>11, <3>2, <4>1, ListFacts DEF Grown
    <3>. QED
      BY <3>1, <3>2
  <2>. QED
    BY <1>10, <1>11, <2>1 DEF StreamsGrow
<1>14. GoodStream(t)
  <2>1. \A k \in DOMAIN e : Replayable(e[k]) /\ Granted(e[k])
    BY <1>1, <1>4 DEF Decided
  <2>. QED
    BY <1>5, <1>6, <1>7, <1>8, <2>1, StreamExtended
<1>15. \A x \in Ids : GoodStream(streams[x])'
  <2>1. ASSUME NEW x \in Ids, NEW u, u = streams'[x] PROVE GoodStream(u)
    BY <1>11, <1>14, <2>1 DEF ServiceInv
  <2>2. ASSUME NEW x \in Ids PROVE GoodStream(streams[x])'
    <3>1. PICK u : u = streams'[x]
      OBVIOUS
    <3>2. GoodStream(u)'
      BY <1>12, <2>1, <3>1, SameStream
    <3>. QED
      BY <3>1, <3>2 DEF GoodStream
  <2>. QED
    BY <2>2
<1>16. PICK rs : rs = requests'
  OBVIOUS
<1>17. /\ DOMAIN rs = DOMAIN requests /\ rs[i] = a
       /\ \A k \in DOMAIN requests : k # i => rs[k] = requests[k]
  BY <1>3, <1>16 DEF Become
<1>18. /\ DOMAIN a = Fields /\ a.call = r.call /\ a.events = e
       /\ a.version = r.version /\ a.seen = r.seen
       /\ \/ a.stage = "done" /\ a.status = 500
          \/ a.stage = "saved" /\ a.status = 0
  BY <1>1, <1>2, <1>3, <1>4, SavedFields
<1>19. AreIn(e, t)
  <2>1. ASSUME NEW k \in DOMAIN e
        PROVE  e[k].version \in DOMAIN t /\ t[e[k].version] = e[k]
    BY <1>7, <1>9, <2>1 DEF IsJoin
  <2>. QED
    BY <2>1 DEF AreIn, SameEvent
<1>20. GoodRequest(a)'
  <2>1. GoodRequest(r)' /\ Decided(r)'
    BY <1>4, <1>12, <1>13, StillGood, StillDecided
  <2>2. Decided(a)'
    BY <1>1, <1>11, <1>18, <1>19, <2>1 DEF Decided
  <2>3. SeesAcknowledged(a) /\ AnswersTheQuestion(a)
    BY <1>18 DEF SeesAcknowledged, AnswersTheQuestion
  <2>4. /\ GoodCall(r.call)' /\ r.version \in Nat /\ r.seen \in Nat
        /\ r.seen <= Len(Stream(r.call.id))'
    BY <2>1 DEF GoodRequest
  <2>5. a.stage \in {"sent", "saving", "saved", "done"} /\ a.status \in Statuses
        /\ (a.status = 0 <=> a.stage # "done") /\ a.stage # "sent" /\ a.status # 200
    BY <1>18 DEF Statuses
  <2>. QED
    BY <1>4, <1>18, <2>2, <2>3, <2>4, <2>5 DEF GoodRequest
<1>21. \A k \in DOMAIN rs : GoodRequest(rs[k])'
  <2>1. ASSUME NEW k \in DOMAIN rs, k # i PROVE GoodRequest(rs[k])'
    <3>1. PICK x : x = requests[k]
      OBVIOUS
    <3>2. GoodRequest(x)
      BY <1>17, <2>1, <3>1 DEF ServiceInv
    <3>3. GoodRequest(x)' /\ rs[k] = x
      BY <1>12, <1>13, <1>17, <2>1, <3>1, <3>2, StillGood
    <3>. QED
      BY <3>3
  <2>. QED
    BY <1>17, <1>20, <2>1
<1>22. \A k \in DOMAIN requests :
         rs[k].call = requests[k].call /\ rs[k].events = requests[k].events
  BY <1>1, <1>17, <1>18
<1>23. ASSUME NEW x \in Ids, NEW k \in DOMAIN streams'[x]
       PROVE  HasOrigin(x, streams[x][k])'
  <2>1. PICK event : event = streams'[x][k]
    OBVIOUS
  <2>2. SUFFICES ASSUME ~Original(event)
                 PROVE  \E j \in DOMAIN rs :
                          /\ rs[j].call.id = x
                          /\ \E m \in DOMAIN rs[j].events :
                               SameEvent(rs[j].events[m], event)
    BY <1>16, <2>1 DEF HasOrigin
  <2>3. ASSUME k \in DOMAIN streams[x], event = streams[x][k]
        PROVE  \E j \in DOMAIN rs :
                 /\ rs[j].call.id = x
                 /\ \E m \in DOMAIN rs[j].events : SameEvent(rs[j].events[m], event)
    <3>1. PICK j \in DOMAIN requests :
            /\ requests[j].call.id = x
            /\ \E m \in DOMAIN requests[j].events :
                 SameEvent(requests[j].events[m], event)
      BY <2>2, <2>3 DEF ServiceInv, HasOrigin
    <3>. QED
      BY <1>17, <1>22, <3>1
  <2>4. CASE x # id
    BY <1>11, <1>23, <2>1, <2>3, <2>4
  <2>5. CASE x = id /\ k \in DOMAIN s
    BY <1>1, <1>9, <1>11, <2>1, <2>3, <2>5 DEF IsJoin
  <2>6. CASE x = id /\ k \notin DOMAIN s
    <3>1. k \in DOMAIN t
      BY <1>11, <1>23, <2>6
    <3>2. PICK m \in DOMAIN e : k = Len(s) + m
      BY <1>9, <2>6, <3>1 DEF IsJoin
    <3>3. event = e[m]
      BY <1>9, <1>11, <2>1, <2>6, <3>2 DEF IsJoin
    <3>4. rs[i].call.id = x /\ rs[i].events = e /\ i \in DOMAIN rs
      BY <1>1, <1>17, <1>18, <2>6
    <3>. QED
      BY <3>3, <3>4 DEF SameEvent
  <2>. QED
    BY <2>4, <2>5, <2>6
<1>24. Distinct'
  <2>1. SUFFICES ASSUME NEW k \in DOMAIN rs, NEW j \in DOMAIN rs, k # j,
                        rs[k].call.id = rs[j].call.id, Stored(rs[k]), Stored(rs[j])
                 PROVE  LastVersion(rs[k].events) # LastVersion(rs[j].events)
    BY <1>16 DEF Distinct
  <2>2. LastVersion(e) > Len(s)
    <3>1. Len(e) \in Nat /\ DOMAIN e = 1..Len(e) /\ Len(e) # 0
      BY <1>4, <1>5, ListFacts, EmptyList
    <3>2. LastVersion(e) = Len(s) + Len(e)
      BY <1>7, <3>1 DEF LastVersion
    <3>. QED
      BY <1>7, <3>1, <3>2
  <2>3. ASSUME NEW q \in DOMAIN requests, requests[q].call.id = id, Stored(requests[q])
        PROVE  LastVersion(requests[q].events) <= Len(s)
    <3>1. GoodRequest(requests[q])
      BY DEF ServiceInv
    <3>2. LastVersion(requests[q].events) \in 1..Len(s)
      BY <1>1, <2>3, <3>1, LastStored
    <3>. QED
      BY <1>7, <3>2
  <2>4. ASSUME NEW q \in DOMAIN requests, q # i, requests[q].call.id = id,
               Stored(requests[q])
        PROVE  LastVersion(e) # LastVersion(requests[q].events)
    <3>1. PICK v, w : v = LastVersion(e) /\ w = LastVersion(requests[q].events)
      OBVIOUS
    <3>2. v > Len(s) /\ w <= Len(s)
      BY <2>2, <2>3, <2>4, <3>1
    <3>3. v \in Nat /\ w \in Nat
      <4>1. w \in 1..Len(s)
        BY <1>1, <2>4, <3>1, LastStored DEF ServiceInv
      <4>2. Len(e) \in Nat /\ DOMAIN e = 1..Len(e) /\ Len(e) # 0
        BY <1>4, <1>5, ListFacts, EmptyList
      <4>3. v = Len(s) + Len(e)
        BY <1>7, <3>1, <4>2 DEF LastVersion
      <4>. QED
        BY <1>7, <4>1, <4>2, <4>3
    <3>. QED
      BY <1>7, <3>1, <3>2, <3>3
  <2>5. CASE k = i
    BY <1>1, <1>17, <1>18, <2>1, <2>4, <2>5
  <2>6. CASE j = i
    BY <1>1, <1>17, <1>18, <2>1, <2>4, <2>6
  <2>7. CASE k # i /\ j # i
    BY <1>17, <2>1, <2>7 DEF ServiceInv, Distinct
  <2>. QED
    BY <2>5, <2>6, <2>7
<1>25. IsList(rs)
  <2>1. IsList(requests)
    BY DEF ServiceInv
  <2>2. PICK n \in Nat : n = Len(requests)
    BY <2>1, ListFacts
  <2>3. requests = [k \in 1..n |-> requests[k]]
    BY <2>1, <2>2, Zenon DEF IsList
  <2>4. rs = [k \in 1..n |-> IF k = i THEN a ELSE requests[k]]
    BY <1>3, <1>16, <2>3 DEF Become
  <2>5. Len(rs) = n /\ rs = [k \in 1..n |-> rs[k]]
    BY <2>4
  <2>. QED
    BY <2>2, <2>5 DEF IsList
<1>26. GoodTable(table)'
  BY <1>3 DEF ServiceInv, GoodTable
<1>. QED
  BY <1>11, <1>12, <1>15, <1>16, <1>21, <1>23, <1>24, <1>25, <1>26
     DEF ServiceInv, Deployed

-----------------------------------------------------------------------------
(***************************************************************************)
(* What becomes of a request that reaches its handler.                     *)
(***************************************************************************)
(* A request on its way, and what the handler says of it. *)
Arrives(r, reply) ==
  /\ GoodRequest(r) /\ r.stage = "sent"
  /\ HandledAs(reply, r.call)
  /\ r.call.name \in ReadNames /\ Plain(r.call) =>
       \/ reply.do = "answer" /\ reply.status \in {400, 401, 403, 503}
       \/ reply.do = ReadOf(r.call.name) /\ reply.id = r.call.id

(* What the handling may make of a request. *)
Becomes(r, q) == GoodRequest(q) /\ q.call = r.call /\ ~Stored(q)

(* What is known of a request on its way.                                  *)
LEMMA ArrivedFields ==
  ASSUME NEW r, NEW reply, Arrives(r, reply)
  PROVE  /\ DOMAIN r = Fields /\ GoodCall(r.call) /\ r.events = <<>> /\ r.status = 0
         /\ r.call.name \notin Direct
         /\ r.call.name # "GetOrderSummary"
         /\ r.version \in Nat /\ r.seen \in Nat /\ r.seen <= Len(Stream(r.call.id))
BY DEF Arrives, GoodRequest, Direct

(* A request that stored nothing and is answered. *)
LEMMA AnswerGood ==
  ASSUME NEW r, NEW reply, Arrives(r, reply), NEW q, DOMAIN q = Fields,
         q.call = r.call, q.events = <<>>, q.seen = r.seen, q.stage = "done",
         q.status \in Statuses \ {0}, q.version \in Nat,
         IsCommand(r) /\ q.status = 200 => q.version <= Len(Stream(r.call.id)),
         SeesAcknowledged(q), AnswersTheQuestion(q)
  PROVE  Becomes(r, q)
BY ArrivedFields DEF GoodRequest, IsCommand, Becomes, Stored

(* A request that fails; a plain read of a stream is not told 404 unless   *)
(* it has nothing to see.                                                  *)
LEMMA RefusedGood ==
  ASSUME NEW r, NEW reply, Arrives(r, reply), NEW status \in Statuses \ {0, 200},
         status = 404 =>
           r.call.name \notin {"Load", "History"} \/ ~Plain(r.call) \/ r.version >= r.seen
  PROVE  Becomes(r, Answered(r, status))
<1>1. PICK q : q = Answered(r, status)
  OBVIOUS
<1>2. /\ DOMAIN q = Fields /\ q.stage = "done" /\ q.status = status
      /\ q.call = r.call /\ q.events = r.events /\ q.version = r.version
      /\ q.seen = r.seen
  BY <1>1, ArrivedFields, AnsweredFields
<1>3. SeesAcknowledged(q) /\ AnswersTheQuestion(q)
  BY <1>2 DEF SeesAcknowledged, AnswersTheQuestion
<1>4. q.status \in Statuses \ {0} /\ q.status # 200
  BY <1>2
<1>. QED
  BY <1>1, <1>2, <1>3, <1>4, ArrivedFields, AnswerGood

(* The router, the authorizer or the handler answers.                      *)
LEMMA AnswerKept ==
  ASSUME app \in Apps, NEW r, NEW reply, Arrives(r, reply), reply.do = "answer"
  PROVE  Becomes(r, Answered(r, reply.status))
<1>1. reply.status \in {400, 401, 403, 404, 405, 503}
  BY DEF Arrives, HandledAs
<1>2. reply.status \in Statuses \ {0, 200}
  BY <1>1 DEF Statuses
<1>3. reply.status = 404 => r.call.name \notin {"Load", "History"} \/ ~Plain(r.call)
  BY DEF Arrives, ReadNames, ReadOf
<1>. QED
  BY <1>2, <1>3, RefusedGood

(* The read of a stream, or of the view. *)
LEMMA ReadGood ==
  ASSUME NEW r, NEW reply, Arrives(r, reply), r.call.name \notin CommandNames,
         NEW q, DOMAIN q = Fields, q.call = r.call, q.events = <<>>, q.seen = r.seen,
         q.stage = "done", q.status = 200, q.version \in Nat,
         r.call.name \in {"Load", "History"} /\ Plain(r.call) => q.version >= r.seen,
         r.call.name \in ReadNames /\ Plain(r.call) => q.found = <<r.call.id>>
  PROVE  Becomes(r, q)
<1>1. SeesAcknowledged(q)
  BY DEF SeesAcknowledged
<1>2. AnswersTheQuestion(q)
  <2>1. r.call.name # "GetOrderSummary"
    BY ArrivedFields
  <2>2. r.call.name \in {"Load", "Get", "History", "GetOrderSummary"} =>
          r.call.name \in ReadNames
    BY <2>1 DEF ReadNames
  <2>3. r.call.name \in {"Load", "Get", "History", "GetOrderSummary"} /\ Plain(r.call) =>
          q.found \in {<<r.call.id>>}
    BY <2>2
  <2>. QED
    BY <2>3, Zenon DEF AnswersTheQuestion
<1>3. ~IsCommand(r) /\ q.status \in Statuses \ {0}
  BY DEF Statuses, IsCommand
<1>. QED
  BY <1>1, <1>2, <1>3, AnswerGood

(* A read that succeeds: what it says it found. *)
LEMMA FoundFields ==
  ASSUME NEW r, DOMAIN r = Fields, NEW found, NEW version, NEW listed
  PROVE  /\ LET q == [Answered(r, 200) EXCEPT !.found = found, !.version = version]
            IN  /\ DOMAIN q = Fields /\ q.call = r.call /\ q.events = r.events
                /\ q.seen = r.seen /\ q.stage = "done" /\ q.status = 200
                /\ q.version = version /\ q.found = found
         /\ LET q == [Answered(r, 200) EXCEPT !.found = found]
            IN  /\ DOMAIN q = Fields /\ q.call = r.call /\ q.events = r.events
                /\ q.seen = r.seen /\ q.stage = "done" /\ q.status = 200
                /\ q.version = r.version /\ q.found = found
         /\ LET q == [Answered(r, 200) EXCEPT !.listed = listed, !.found = found]
            IN  /\ DOMAIN q = Fields /\ q.call = r.call /\ q.events = r.events
                /\ q.seen = r.seen /\ q.stage = "done" /\ q.status = 200
                /\ q.version = r.version /\ q.found = found
         /\ LET q == [Answered(r, 200) EXCEPT !.version = version]
            IN  /\ DOMAIN q = Fields /\ q.call = r.call /\ q.events = r.events
                /\ q.seen = r.seen /\ q.stage = "done" /\ q.status = 200
                /\ q.version = version /\ q.found = r.found
<1>1. PICK a : a = Answered(r, 200)
  OBVIOUS
<1>2. /\ DOMAIN a = Fields /\ a.stage = "done" /\ a.status = 200
      /\ a.call = r.call /\ a.events = r.events /\ a.version = r.version
      /\ a.seen = r.seen /\ a.found = r.found
  BY <1>1, AnsweredFields
<1>. QED
  BY <1>1, <1>2 DEF Fields

(* Load and History: the whole stream is read, so it holds what was        *)
(* acknowledged before.                                                    *)
LEMMA StreamRead ==
  ASSUME ServiceInv, NEW r, NEW reply, Arrives(r, reply),
         reply.do \in {"load", "history"}, NEW fails
  PROVE  /\ reply.do = "load" => Becomes(r, Load(r, reply.id, fails))
         /\ reply.do = "history" => Becomes(r, History(r, reply.id, fails))
<1>1. PICK id, n : id = reply.id /\ n = Len(Stream(id))
  OBVIOUS
<1>2. n \in Nat
  BY <1>1, StreamIsList
<1>3. r.call.name \notin CommandNames
  BY DEF Arrives, HandledAs
<1>4. r.call.name \in ReadNames /\ Plain(r.call) => id = r.call.id
  BY <1>1 DEF Arrives
<1>5. r.call.name \in ReadNames /\ Plain(r.call) => n >= r.seen
  BY <1>1, <1>2, <1>4, ArrivedFields
<1>6. PICK q : q = [Answered(r, 200) EXCEPT !.found = <<id>>, !.version = n]
  OBVIOUS
<1>7. Becomes(r, q)
  <2>1. /\ DOMAIN q = Fields /\ q.call = r.call /\ q.events = <<>>
        /\ q.seen = r.seen /\ q.stage = "done" /\ q.status = 200
        /\ q.version = n /\ q.found = <<id>>
    BY <1>6, FoundFields, ArrivedFields
  <2>2. r.call.name \in {"Load", "History"} /\ Plain(r.call) => q.version >= r.seen
    BY <1>5, <2>1 DEF ReadNames
  <2>3. r.call.name \in ReadNames /\ Plain(r.call) => q.found = <<r.call.id>>
    BY <1>4, <2>1
  <2>. QED
    BY <1>2, <1>3, <2>1, <2>2, <2>3, ReadGood
<1>8. Becomes(r, Answered(r, 500))
  BY RefusedGood DEF Statuses
<1>9. ASSUME Stream(id) = <<>> PROVE Becomes(r, Answered(r, 404))
  <2>1. n = 0
    BY <1>1, <1>9
  <2>2. r.call.name \in ReadNames /\ Plain(r.call) => r.version >= r.seen
    BY <1>5, <2>1, ArrivedFields
  <2>. QED
    BY <2>2, RefusedGood DEF Statuses, ReadNames
<1>10. /\ fails => Load(r, id, fails) = Answered(r, 500)
       /\ ~fails /\ Stream(id) = <<>> => Load(r, id, fails) = Answered(r, 404)
       /\ ~fails /\ Stream(id) # <<>> => Load(r, id, fails) = q
  BY <1>1, <1>6 DEF Load
<1>11. /\ fails => History(r, id, fails) = Answered(r, 500)
       /\ ~fails => History(r, id, fails) = q
  BY <1>1, <1>6 DEF History
<1>12. Becomes(r, Load(r, id, fails))
  BY <1>7, <1>8, <1>9, <1>10
<1>13. Becomes(r, History(r, id, fails))
  BY <1>7, <1>8, <1>11
<1>. QED
  BY <1>1, <1>12, <1>13

(* Get: the view of the aggregate, if it is there.                         *)
LEMMA ViewRead ==
  ASSUME ServiceInv, NEW r, NEW reply, Arrives(r, reply), reply.do = "get", NEW fails
  PROVE  Becomes(r, Get(r, reply.id, fails))
<1>1. PICK id, m : id = reply.id /\ m = CHOOSE v \in GetView(id) : TRUE
  OBVIOUS
<1>2. r.call.name \notin CommandNames
  BY DEF Arrives, HandledAs
<1>3. /\ r.call.name \in ReadNames /\ Plain(r.call) => id = r.call.id
      /\ r.call.name \in {"Load", "History"} => ~Plain(r.call)
  BY <1>1 DEF Arrives, ReadNames, ReadOf
<1>4. CASE fails
  <2>1. Get(r, id, fails) = Answered(r, 500)
    BY <1>4 DEF Get
  <2>2. Becomes(r, Answered(r, 500))
    BY RefusedGood DEF Statuses
  <2>. QED
    BY <1>1, <2>1, <2>2
<1>5. CASE ~fails /\ GetView(id) = {}
  <2>1. Get(r, id, fails) = Answered(r, 404)
    BY <1>5 DEF Get
  <2>2. Becomes(r, Answered(r, 404))
    BY <1>3, RefusedGood DEF Statuses
  <2>. QED
    BY <1>1, <2>1, <2>2
<1>6. CASE ~fails /\ GetView(id) # {}
  <2>1. m.id = id
    BY <1>1, <1>6, GetViewGood DEF ServiceInv
  <2>2. PICK q : q = [Answered(r, 200) EXCEPT !.found = <<m.id>>]
    OBVIOUS
  <2>3. Get(r, id, fails) = q
    BY <1>1, <1>6, <2>2 DEF Get
  <2>4. /\ DOMAIN q = Fields /\ q.call = r.call /\ q.events = <<>>
        /\ q.seen = r.seen /\ q.stage = "done" /\ q.status = 200
        /\ q.version = r.version /\ q.found = <<id>>
    BY <2>1, <2>2, FoundFields, ArrivedFields
  <2>5. Becomes(r, q)
    <3>1. r.call.name \in ReadNames /\ Plain(r.call) => q.found = <<r.call.id>>
      BY <1>3, <2>4
    <3>2. q.version \in Nat
      BY <2>4, ArrivedFields
    <3>. QED
      BY <1>2, <1>3, <2>4, <3>1, <3>2, ReadGood
  <2>. QED
    BY <1>1, <2>3, <2>5
<1>. QED
  BY <1>4, <1>5, <1>6

(* A query, which is no read of one aggregate.                             *)
LEMMA QueryRead ==
  ASSUME NEW r, NEW reply, Arrives(r, reply), reply.do = "query", NEW fails
  PROVE  Becomes(r, Query(r, reply, fails))
<1>1. r.call.name \notin CommandNames
  BY DEF Arrives, HandledAs
<1>2. ~(r.call.name \in ReadNames /\ Plain(r.call))
  BY DEF Arrives, ReadNames, ReadOf
<1>3. CASE fails
  <2>1. Query(r, reply, fails) = Answered(r, 500)
    BY <1>3 DEF Query
  <2>2. Becomes(r, Answered(r, 500))
    BY RefusedGood DEF Statuses
  <2>. QED
    BY <2>1, <2>2
<1>4. CASE ~fails
  <2>1. PICK found, listed :
          /\ listed = Listed(r.call)
          /\ found = FoundIds(Of(O!OrderQuery(cloud, table, reply, Now),
                                 S!SampleQuery(cloud, table, reply, Now), <<>>))
    OBVIOUS
  <2>2. PICK q : q = [Answered(r, 200) EXCEPT !.listed = listed, !.found = found]
    OBVIOUS
  <2>3. Query(r, reply, fails) = q
    BY <1>4, <2>1, <2>2 DEF Query
  <2>4. /\ DOMAIN q = Fields /\ q.call = r.call /\ q.events = <<>>
        /\ q.seen = r.seen /\ q.stage = "done" /\ q.status = 200
        /\ q.version = r.version /\ q.found = found
    BY <2>2, FoundFields, ArrivedFields
  <2>5. Becomes(r, q)
    <3>1. q.version \in Nat
      BY <2>4, ArrivedFields
    <3>2. ~(r.call.name \in {"Load", "History"} /\ Plain(r.call))
      BY <1>2 DEF ReadNames
    <3>. QED
      BY <1>1, <1>2, <2>4, <3>1, <3>2, ReadGood
  <2>. QED
    BY <2>3, <2>5
<1>. QED
  BY <1>3, <1>4

(* The events a command emits continue the stream it read. *)
LEMMA EmittedDecided ==
  ASSUME ServiceInv, NEW r, r.call.name \in CommandNames, r.call.id \in Ids,
         NEW cmd, cmd.name = r.call.name, Entitled(cmd.actor, cmd.name),
         NEW records, records \in {<<>>, streams[r.call.id]},
         NEW q, q.call = r.call, q.events = EmitEvents(cmd, records, Now),
         q.stage = "saving", q.status = 0
  PROVE  q.events # <<>> /\ Decided(q) /\ ~Stored(q)
<1>1. PICK s, e, n : s = streams[r.call.id] /\ e = q.events /\ n = Len(records)
  OBVIOUS
<1>2. GoodStream(s) /\ Len(s) \in Nat
  BY <1>1, ListFacts DEF ServiceInv, GoodStream
<1>3. /\ IsList(records) /\ n \in 0..Len(s)
      /\ \A k \in DOMAIN records : records[k].version = k /\ Replayable(records[k])
  <2>1. CASE records = <<>>
    <3>1. IsList(<<>>) /\ Len(<<>>) = 0 /\ DOMAIN <<>> = {}
      BY DEF IsList
    <3>. QED
      BY <1>1, <1>2, <2>1, <3>1
  <2>2. CASE records = s
    BY <1>1, <1>2, <2>2 DEF GoodStream
  <2>. QED
    BY <1>1, <2>1, <2>2
<1>4. Emits(e, cmd, records, Now)
  <2>1. app \in Apps
    BY DEF ServiceInv
  <2>2. Emits(EmitEvents(cmd, records, Now), cmd, records, Now)
    BY <1>3, <2>1, EmitEventsGood
  <2>. QED
    BY <1>1, <2>2
<1>5. e # <<>>
  BY <1>4 DEF Emits
<1>6. Continue(e, s)
  BY <1>1, <1>3, <1>4 DEF Emits, Continue
<1>7. ASSUME NEW k \in DOMAIN e PROVE Replayable(e[k]) /\ Granted(e[k])
  <2>1. PICK event : event = e[k]
    OBVIOUS
  <2>2. /\ Replayable(event)
        /\ \/ event.kind = "Snapshot"
           \/ event.kind = Kind(cmd.name) /\ event.actor = cmd.actor
    BY <1>4, <2>1 DEF Emits
  <2>3. CASE event.kind = "Snapshot"
    BY <2>1, <2>2, <2>3 DEF Granted
  <2>4. ASSUME event.kind = Kind(cmd.name), event.actor = cmd.actor
        PROVE  Granted(event)
    <3>1. CASE authorizer = "allowall" /\ cmd.actor = "Unknown"
      BY <2>4, <3>1 DEF Granted
    <3>2. ASSUME authorizer = "external", cmd.actor \in DOMAIN Grants,
                 cmd.name \in Grants[cmd.actor]
          PROVE  Granted(event)
      <4>1. PICK name : name = cmd.name
        OBVIOUS
      <4>2. name \in CommandNames /\ event.kind = Kind(name) /\ name \in Grants[event.actor]
        BY <2>4, <3>2, <4>1
      <4>3. Holds(event.actor, event.kind)
        BY <4>2 DEF Holds, Kind
      <4>. QED
        BY <2>4, <3>2, <4>3 DEF Granted
    <3>. QED
      BY <3>1, <3>2 DEF Entitled
  <2>. QED
    BY <2>1, <2>2, <2>3, <2>4
<1>8. ~Stored(q)
  BY DEF Stored
<1>9. IsList(e)
  BY <1>4 DEF Emits
<1>. QED
  BY <1>1, <1>5, <1>6, <1>7, <1>8, <1>9 DEF Decided

(* Repository.Apply up to the save: an error, nothing to do, or events.    *)
LEMMA ApplyGood ==
  ASSUME ServiceInv, NEW r, NEW reply, Arrives(r, reply), reply.do = "apply",
         NEW fails
  PROVE  Becomes(r, Apply(r, reply.cmd, fails))
<1>1. PICK cmd, records, error :
        /\ cmd = reply.cmd
        /\ records = IF fails THEN <<>> ELSE Stream(cmd.id)
        /\ error = FirstError(Errors(cmd, records))
  OBVIOUS
<1>2. PICK q : q = Apply(r, cmd, fails)
  OBVIOUS
<1>3. /\ r.call.name \in CommandNames /\ cmd.name = r.call.name /\ cmd.id = r.call.id
      /\ Entitled(cmd.actor, cmd.name)
  BY <1>1 DEF Arrives, HandledAs
<1>4. r.call.id \in Ids \cup {<<>>}
  BY <1>3, ArrivedFields DEF GoodCall
<1>5. r.call.name \notin {"Load", "Get", "History"} /\ r.call.name # "GetOrderSummary"
  BY <1>3, Names, ArrivedFields DEF ServiceInv
<1>6. \A name : commandErrorResponse(name).status \in {400, 404, 409, 500}
  BY DEF commandErrorResponse, errorResponse
<1>7. ASSUME NEW name PROVE Becomes(r, Answered(r, commandErrorResponse(name).status))
  <2>1. PICK status : status = commandErrorResponse(name).status
    OBVIOUS
  <2>2. status \in Statuses \ {0, 200}
    BY <1>6, <2>1 DEF Statuses
  <2>. QED
    BY <1>5, <2>1, <2>2, RefusedGood
<1>8. CASE cmd.id = <<>>
  <2>1. q = Answered(r, commandErrorResponse("ErrEmptyAggregateId").status)
    BY <1>2, <1>8 DEF Apply
  <2>. QED
    BY <1>1, <1>2, <1>7, <2>1
<1>9. CASE cmd.id # <<>> /\ error = "ErrSkip"
  <2>1. q = [Answered(r, 200) EXCEPT !.version = Len(records)]
    BY <1>1, <1>2, <1>9 DEF Apply
  <2>2. /\ DOMAIN q = Fields /\ q.call = r.call /\ q.events = <<>>
        /\ q.seen = r.seen /\ q.stage = "done" /\ q.status = 200
        /\ q.version = Len(records)
    BY <2>1, FoundFields, ArrivedFields
  <2>3. Len(Stream(r.call.id)) \in Nat
    BY StreamIsList
  <2>4. Len(records) \in Nat /\ Len(records) <= Len(Stream(r.call.id))
    BY <1>1, <1>3, <2>3
  <2>5. SeesAcknowledged(q) /\ AnswersTheQuestion(q)
    BY <1>5, <2>2 DEF SeesAcknowledged, AnswersTheQuestion
  <2>6. q.status \in Statuses \ {0}
    BY <2>2 DEF Statuses
  <2>. QED
    BY <1>1, <1>2, <2>2, <2>4, <2>5, <2>6, AnswerGood
<1>10. CASE cmd.id # <<>> /\ error # "ErrSkip" /\ error # "none"
  <2>1. q = Answered(r, commandErrorResponse(error).status)
    BY <1>1, <1>2, <1>10 DEF Apply
  <2>. QED
    BY <1>1, <1>2, <1>7, <2>1
<1>11. CASE cmd.id # <<>> /\ error = "none"
  <2>1. q = [r EXCEPT !.stage = "saving", !.events = EmitEvents(cmd, records, Now)]
    BY <1>1, <1>2, <1>11 DEF Apply
  <2>2. /\ DOMAIN q = Fields /\ q.call = r.call
        /\ q.events = EmitEvents(cmd, records, Now)
        /\ q.seen = r.seen /\ q.stage = "saving" /\ q.status = 0
        /\ q.version = r.version
    BY <2>1, ArrivedFields DEF Fields
  <2>3. r.call.id \in Ids
    BY <1>3, <1>4, <1>11
  <2>4. records \in {<<>>, streams[r.call.id]}
    BY <1>1, <1>3, <2>3 DEF Stream
  <2>5. q.events # <<>> /\ Decided(q) /\ ~Stored(q)
    BY <1>3, <2>2, <2>3, <2>4, EmittedDecided
  <2>6. SeesAcknowledged(q) /\ AnswersTheQuestion(q)
    BY <2>2 DEF SeesAcknowledged, AnswersTheQuestion
  <2>7. GoodRequest(q)
    BY <2>2, <2>5, <2>6, ArrivedFields DEF GoodRequest, Statuses
  <2>. QED
    BY <1>1, <1>2, <2>2, <2>5, <2>7 DEF Becomes
<1>. QED
  BY <1>8, <1>9, <1>10, <1>11

(* A request reaches its handler.                                          *)
LEMMA ServeKeeps ==
  ASSUME ServiceInv, NEW i \in DOMAIN requests, NEW fault, Serve(i, fault)
  PROVE  ServiceInv'
<1>1. PICK r, reply, fails :
        r = requests[i] /\ reply = Handled(r, fault) /\ fails = (fault = "store")
  OBVIOUS
<1>2. PICK q : q = CASE reply.do = "answer"  -> Answered(r, reply.status)
                     [] reply.do = "apply"   -> Apply(r, reply.cmd, fails)
                     [] reply.do = "load"    -> Load(r, reply.id, fails)
                     [] reply.do = "history" -> History(r, reply.id, fails)
                     [] reply.do = "get"     -> Get(r, reply.id, fails)
                     [] reply.do = "query"   -> Query(r, reply, fails)
  OBVIOUS
<1>3. r.stage = "sent" /\ Become(i, q) /\ UNCHANGED <<deployment, streams, table>>
  BY <1>1, <1>2 DEF Serve
<1>4. GoodRequest(r) /\ app \in Apps /\ authorizer \in Authorizers
  BY <1>1 DEF ServiceInv
<1>5. Arrives(r, reply)
  <2>1. GoodCall(r.call) /\ r.call.name \notin Direct /\ Client(r.call, Claimed) # Unsent
    BY <1>3, <1>4 DEF GoodRequest
  <2>2. HandledAs(reply, r.call)
    BY <1>1, <1>4, <2>1, HandledGood
  <2>3. r.call.name \in ReadNames /\ Plain(r.call) =>
          \/ reply.do = "answer" /\ reply.status \in {400, 401, 403, 503}
          \/ reply.do = ReadOf(r.call.name) /\ reply.id = r.call.id
    BY <1>1, <1>4, <2>1, HandledRead
  <2>. QED
    BY <1>3, <1>4, <2>2, <2>3 DEF Arrives
<1>6. Becomes(r, q)
  <2>1. CASE reply.do = "answer"
    BY <1>2, <1>4, <1>5, <2>1, AnswerKept
  <2>2. CASE reply.do = "apply"
    BY <1>2, <1>5, <2>2, ApplyGood
  <2>3. CASE reply.do = "load"
    BY <1>2, <1>5, <2>3, StreamRead
  <2>4. CASE reply.do = "history"
    BY <1>2, <1>5, <2>4, StreamRead
  <2>5. CASE reply.do = "get"
    BY <1>2, <1>5, <2>5, ViewRead
  <2>6. CASE reply.do = "query"
    BY <1>2, <1>5, <2>6, QueryRead
  <2>. QED
    BY <1>5, <2>1, <2>2, <2>3, <2>4, <2>5, <2>6 DEF Arrives, HandledAs
<1>7. GoodRequest(q) /\ q.call = r.call /\ ~Stored(q) /\ r.events = <<>>
  BY <1>5, <1>6, ArrivedFields DEF Becomes
<1>. QED
  BY <1>1, <1>3, <1>7, BecomeKeeps DEF ServiceInv, Deployed, deployment, GoodTable

(* Every step.                                                             *)
LEMMA NextKeeps ==
  ASSUME ServiceInv, [Next]_vars
  PROVE  ServiceInv'
<1>1. CASE UNCHANGED vars
  <2>1. Deployed /\ UNCHANGED <<streams, table, requests>>
    BY <1>1 DEF vars, Deployed
  <2>2. \A i \in DOMAIN requests : GoodRequest(requests[i])
    BY DEF ServiceInv
  <2>3. ASSUME NEW i \in DOMAIN requests' PROVE GoodRequest(requests[i])'
    <3>1. PICK r : r = requests[i]
      OBVIOUS
    <3>2. GoodRequest(r)
      BY <2>1, <2>2, <3>1
    <3>3. GoodRequest(r)'
      BY <2>1, <3>2, NothingStored
    <3>. QED
      BY <2>1, <3>1, <3>3
  <2>4. (\A id \in Ids : \A k \in DOMAIN streams[id] : HasOrigin(id, streams[id][k]))'
    BY <2>1 DEF ServiceInv, HasOrigin
  <2>5. Distinct' /\ GoodTable(table)'
    BY <2>1 DEF ServiceInv, Distinct, GoodTable
  <2>. QED
    BY <2>1, <2>3, <2>4, <2>5, NothingStored DEF ServiceInv
<1>2. ASSUME NEW k \in DOMAIN Traffic[app], Send(k) PROVE ServiceInv'
  BY <1>2, SendKeeps
<1>3. ASSUME NEW k \in DOMAIN Traffic[app], Browse(k) PROVE ServiceInv'
  BY <1>3, BrowseKeeps
<1>4. ASSUME NEW i \in DOMAIN requests, NEW fault, Serve(i, fault) PROVE ServiceInv'
  BY <1>4, ServeKeeps
<1>5. ASSUME NEW i \in DOMAIN requests, NEW lost, Save(i, lost) PROVE ServiceInv'
  BY <1>5, SaveKeeps
<1>6. ASSUME NEW i \in DOMAIN requests, SaveFails(i) PROVE ServiceInv'
  BY <1>6, SaveFailsKeeps
<1>7. ASSUME NEW i \in DOMAIN requests, NEW written, Materialize(i, written)
      PROVE  ServiceInv'
  BY <1>7, MaterializeKeeps
<1>. QED
  BY <1>1, <1>2, <1>3, <1>4, <1>5, <1>6, <1>7 DEF Next

-----------------------------------------------------------------------------
(***************************************************************************)
(* The theorems.                                                           *)
(***************************************************************************)
LEMMA AnswersTrue ==
  ASSUME ServiceInv
  PROVE  AnswersTellTheTruth
<1>1. \A i \in DOMAIN requests : GoodRequest(requests[i])
  BY DEF ServiceInv
<1>2. ASSUME NEW i \in DOMAIN requests, requests[i].status = 200,
             requests[i].events # <<>>, NEW k \in DOMAIN requests[i].events
      PROVE  LET event == requests[i].events[k] IN
             /\ event.version \in DOMAIN streams[requests[i].call.id]
             /\ SameEvent(streams[requests[i].call.id][event.version], event)
  BY <1>1, <1>2 DEF GoodRequest, Decided, Stored, AreIn
<1>3. ASSUME NEW i \in DOMAIN requests, NEW j \in DOMAIN requests, i # j,
             requests[i].call.id = requests[j].call.id,
             requests[i].status = 200, requests[i].events # <<>>,
             requests[j].status = 200, requests[j].events # <<>>
      PROVE  LastVersion(requests[i].events) # LastVersion(requests[j].events)
  BY <1>3 DEF ServiceInv, Distinct, Stored
<1>4. ASSUME NEW id \in Ids, NEW v \in DOMAIN streams[id], ~Original(streams[id][v])
      PROVE  \E i \in DOMAIN requests :
               /\ requests[i].call.id = id /\ requests[i].status \in {0, 200, 500}
               /\ \E k \in DOMAIN requests[i].events :
                    SameEvent(requests[i].events[k], streams[id][v])
  <2>1. PICK i \in DOMAIN requests :
          /\ requests[i].call.id = id
          /\ \E k \in DOMAIN requests[i].events :
               SameEvent(requests[i].events[k], streams[id][v])
    BY <1>4 DEF ServiceInv, HasOrigin
  <2>2. requests[i].events # <<>>
    BY <2>1
  <2>3. requests[i].status \in {0, 200, 500}
    BY <1>1, <2>2 DEF GoodRequest, Decided
  <2>. QED
    BY <2>1, <2>3
<1>. QED
  BY <1>2, <1>3, <1>4 DEF AnswersTellTheTruth

(* The invariant the properties of the service follow from. *)
THEOREM ServiceInvariant == Spec => []ServiceInv
<1>1. Init => ServiceInv
  BY InitGood
<1>2. ServiceInv /\ [Next]_vars => ServiceInv'
  BY NextKeeps
<1>. QED
  BY <1>1, <1>2, PTL DEF Spec

(* Streams are numbered from 1, an item is where its keys say, a request   *)
(* has a status when it is done.                                           *)
THEOREM ServiceTypes == Spec => []TypeOK
<1>1. ServiceInv => TypeOK
  BY DEF ServiceInv, GoodStream, GoodTable, GoodRequest, TypeOK
<1>. QED
  BY <1>1, ServiceInvariant, PTL

(* Whoever a client says it is, what is stored bears the name of a caller  *)
(* the authorizer let in, who holds the function of its command.           *)
THEOREM StoredAsGrantedCorrect == Spec => []StoredAsGranted
<1>1. ServiceInv => StoredAsGranted
  BY DEF ServiceInv, GoodStream, Granted, StoredAsGranted
<1>. QED
  BY <1>1, ServiceInvariant, PTL

(* What a command was told of its success is so, and stays so.             *)
THEOREM AnswersTellTheTruthCorrect == Spec => []AnswersTellTheTruth
<1>1. ServiceInv => AnswersTellTheTruth
  BY AnswersTrue
<1>. QED
  BY <1>1, ServiceInvariant, PTL

(* The routes of the generated services keep reads apart: one that         *)
(* succeeds is about the aggregate it asked for.                           *)
THEOREM ReadsAnswerTheQuestionCorrect == Spec => []ReadsAnswerTheQuestion
<1>1. ServiceInv => ReadsAnswerTheQuestion
  BY DEF ServiceInv, GoodRequest, AnswersTheQuestion, ReadsAnswerTheQuestion
<1>. QED
  BY <1>1, ServiceInvariant, PTL

(* Load and History show what was acknowledged before they were asked.     *)
THEOREM LoadSeesAcknowledgedCorrect == Spec => []LoadSeesAcknowledged
<1>1. ServiceInv => LoadSeesAcknowledged
  BY DEF ServiceInv, GoodRequest, SeesAcknowledged, LoadSeesAcknowledged
<1>. QED
  BY <1>1, ServiceInvariant, PTL

=============================================================================
