---------------------------- MODULE SetupProofs ----------------------------
(***************************************************************************)
(* Setting up tables leaves the tables the stores use, whoever races and   *)
(* whatever fails, on DynamoDB and on Cosmos: for every number of          *)
(* processes, commands and kinds of faults.                                *)
(***************************************************************************)
EXTENDS TableSetup, Induction, SequenceTheorems

KeysOf(t) == IF t = "events" THEN EventKeys ELSE AggregateKeys

(* The call that makes a table. *)
Creation == IF provider = "dynamo" THEN "CreateTable" ELSE "CreateContainer"

(***************************************************************************)
(* What a command has still to do.                                         *)
(***************************************************************************)
On(cs, name, t) == \E i \in DOMAIN cs : cs[i].name = name /\ cs[i].table = t

Later(cs, i, name, t) ==
  \E j \in DOMAIN cs : j > i /\ cs[j].name = name /\ cs[j].table = t

(* The calls of each command of the two tools. *)
Named(c) ==
  CASE c = "create" /\ provider = "dynamo" ->
         {"TableExists", "CreateTable", "WaitActive", "EnablePITR", "EnableTTL"}
    [] c = "create" /\ provider # "dynamo" ->
         {"ReadDatabase", "CreateDatabase", "TableExists", "CreateContainer"}
    [] c = "fix" -> {"EnablePITR", "EnableTTL"}
    [] c = "delete" -> {IF provider = "dynamo" THEN "DeleteTable" ELSE "DeleteContainer"}
    [] c = "disable-protection" -> {"DisableProtection"}
    [] OTHER -> {}

Fits(call, c) ==
  /\ call.name \in Named(c)
  /\ call.table = "database" <=> call.name \in {"ReadDatabase", "CreateDatabase"}
  /\ call.name = Creation => call.keys = KeysOf(call.table)

(* Creation looks, creates and, on DynamoDB, waits and makes the settings, *)
(* one table after the other.                                              *)
CallsInOrder(cs) ==
  \A i \in DOMAIN cs :
    LET t == cs[i].table IN
    /\ cs[i].name = "TableExists" => Later(cs, i, Creation, t)
    /\ provider = "dynamo" =>
         /\ cs[i].name = "CreateTable" => Later(cs, i, "WaitActive", t)
         /\ cs[i].name = "WaitActive" =>
              Later(cs, i, "EnablePITR", t) /\ Later(cs, i, "EnableTTL", t)
         /\ cs[i].name # "TableExists" => ~Later(cs, i, "CreateTable", t)
         /\ t = "events" => Later(cs, i, "CreateTable", "aggregates")
         /\ t = "aggregates" => \A j \in DOMAIN cs : j > i => cs[j].table # "events"

Queued(p) ==
  /\ \A i \in DOMAIN calls[p] : Fits(calls[p][i], command[p])
  /\ command[p] = "create" => CallsInOrder(calls[p])
  /\ outcome[p] # "none" => calls[p] = <<>>
  /\ command[p] = "delete" /\ Running(p) => cleared = Processes

(* The process that made a table and has still to work on it. *)
Creator(p, t) == command[p] = "create" /\ ~On(calls[p], "CreateTable", t)

WillSet(name, t) == \E p \in Processes : Creator(p, t) /\ On(calls[p], name, t)

(* A table that is there. *)
TableSound(t) ==
  /\ Exists(t) => table[t].keys = KeysOf(t)
  /\ table[t].status = "deleting" => cleared = Processes
  /\ provider = "dynamo" =>
       /\ Exists(t) /\ ~table[t].protected => t \in released
       /\ table[t].status = "deleting" => ~table[t].protected
  /\ provider # "dynamo" =>
       table[t].status \in {"absent", "active"} /\ (Exists(t) => table[t].ttl)

(* What is not set yet somebody is about to set. *)
SettingsUnderway(t) ==
  provider = "dynamo" /\ t \notin troubled =>
    /\ table[t].status = "creating" => WillSet("WaitActive", t)
    /\ table[t].status = "active" =>
         /\ table[t].pitr \/ WillSet("EnablePITR", t)
         /\ table[t].ttl \/ WillSet("EnableTTL", t)

(* A creation that has not failed has made each table or is yet to. *)
Making(p) ==
  command[p] = "create" /\ outcome[p] # "error" /\ p \notin cleared =>
    \A t \in Tables : Exists(t) \/ On(calls[p], Creation, t)

SetupInv ==
  /\ TypeOK
  /\ \A p \in Processes : Queued(p) /\ Making(p)
  /\ \A t \in Tables : TableSound(t) /\ SettingsUnderway(t)
  /\ RacersSucceed


-----------------------------------------------------------------------------
(***************************************************************************)
(* Lists of calls.                                                         *)
(***************************************************************************)
Calls == [name : CallNames, table : Tables \cup {"database"}, keys : Keys]

(* What is left of the calls when the first d are done or passed over. *)
Shift(cs, rest, d) ==
  /\ DOMAIN rest = 1..(Len(cs) - d)
  /\ \A i \in 1..(Len(cs) - d) : rest[i] = cs[i + d]

(* A nonempty set of positions has a first one. *)
LEMMA FirstPosition ==
  ASSUME NEW S \in SUBSET Nat, S # {}
  PROVE  \E k \in S : \A i \in S : k <= i
<1>1. SUFFICES ASSUME \A k \in S : \E i \in S : i < k PROVE FALSE
  <2>1. SUFFICES ASSUME ~ \E k \in S : \A i \in S : k <= i PROVE FALSE
    OBVIOUS
  <2>2. \A k \in S : \E i \in S : i < k
    <3>1. TAKE k \in S
    <3>2. PICK i \in S : ~(k <= i)
      BY <2>1
    <3>. QED
      BY <3>2
  <2>. QED
    BY <2>2, <1>1
<1> DEFINE T == {n \in Nat : \A i \in S : n <= i}
<1>2. T \in SUBSET Nat /\ 0 \in T
  OBVIOUS
<1>3. ASSUME NEW n \in T PROVE n + 1 \in T
  <2>1. n \in Nat /\ \A i \in S : n <= i
    OBVIOUS
  <2>2. n \notin S
    BY <1>1, <2>1
  <2>3. ASSUME NEW i \in S PROVE n + 1 <= i
    <3>1. n <= i /\ n # i /\ i \in Nat
      BY <2>1, <2>2
    <3>. QED
      BY <2>1, <3>1
  <2>. QED
    BY <2>1, <2>3
<1>4. T = Nat
  <2> HIDE DEF T
  <2>. QED
    BY <1>2, <1>3, SetInduction
<1>5. PICK k \in S : TRUE
  OBVIOUS
<1>6. k + 1 \in T
  <2>1. k + 1 \in Nat
    BY <1>5
  <2> HIDE DEF T
  <2>. QED
    BY <1>4, <2>1
<1>7. k + 1 <= k
  BY <1>5, <1>6
<1>. QED
  BY <1>5, <1>7

LEMMA TailShifts ==
  ASSUME NEW cs \in Seq(Calls), cs # <<>>
  PROVE  /\ Tail(cs) \in Seq(Calls)
         /\ Shift(cs, Tail(cs), 1)
         /\ Len(cs) >= 1 /\ Head(cs) = cs[1]
<1> PICK n \in Nat : n = Len(cs)
  OBVIOUS
<1>1. n >= 1
  OBVIOUS
<1>2. Tail(cs) \in Seq(Calls) /\ Len(Tail(cs)) = n - 1
  OBVIOUS
<1>3. DOMAIN Tail(cs) = 1..(n - 1)
  BY <1>2
<1>4. \A i \in 1..(n - 1) : Tail(cs)[i] = cs[i + 1]
  BY <1>1
<1>. QED
  BY <1>1, <1>2, <1>3, <1>4 DEF Shift

(* Others passes over the calls on one table at the front, and over them   *)
(* only.                                                                   *)
LEMMA OthersShifts ==
  ASSUME NEW cs \in Seq(Calls), cs # <<>>, NEW t, cs[1].table = t
  PROVE  /\ Others(cs, t) \in Seq(Calls)
         /\ \E d \in 1..Len(cs) :
              /\ Shift(cs, Others(cs, t), d)
              /\ \A i \in 1..d : cs[i].table = t
<1> PICK n \in Nat : n = Len(cs)
  OBVIOUS
<1>0. n >= 1 /\ DOMAIN cs = 1..n
  OBVIOUS
<1> DEFINE Foreign == {i \in DOMAIN cs : cs[i].table # t}
<1>1. CASE Foreign = {}
  <2>1. Others(cs, t) = <<>>
    BY <1>1 DEF Others
  <2>2. Shift(cs, <<>>, n)
    <3>1. 1..(n - n) = {}
      OBVIOUS
    <3>. QED
      BY <3>1 DEF Shift
  <2>3. \A i \in 1..n : cs[i].table = t
    BY <1>0, <1>1
  <2>. QED
    BY <1>0, <2>1, <2>2, <2>3
<1>2. CASE Foreign # {}
  <2> DEFINE k == CHOOSE k \in Foreign : \A i \in Foreign : k <= i
  <2>1. k \in Foreign /\ \A i \in Foreign : k <= i
    <3>1. Foreign \in SUBSET Nat
      BY <1>0
    <3>2. \E j \in Foreign : \A i \in Foreign : j <= i
      <4> HIDE DEF Foreign
      <4>. QED
        BY <1>2, <3>1, FirstPosition
    <3>. QED
      BY <3>2
  <2>2. Others(cs, t) = SubSeq(cs, k, n)
    BY <1>2 DEF Others
  <2> HIDE DEF k
  <2>3. k \in 2..n
    BY <1>0, <2>1
  <2>4. /\ SubSeq(cs, k, n) \in Seq(Calls)
        /\ Len(SubSeq(cs, k, n)) = n - k + 1
        /\ \A i \in 1..(n - k + 1) : SubSeq(cs, k, n)[i] = cs[k + i - 1]
    BY <2>3, SubSeqProperties
  <2>5. Shift(cs, SubSeq(cs, k, n), k - 1)
    <3>1. DOMAIN SubSeq(cs, k, n) = 1..(n - (k - 1))
      BY <2>3, <2>4
    <3>2. \A i \in 1..(n - (k - 1)) : SubSeq(cs, k, n)[i] = cs[i + (k - 1)]
      BY <2>3, <2>4
    <3>. QED
      BY <3>1, <3>2 DEF Shift
  <2>6. \A i \in 1..(k - 1) : cs[i].table = t
    BY <1>0, <2>1, <2>3
  <2>7. k - 1 \in 1..n
    BY <2>3
  <2>. QED
    BY <2>2, <2>4, <2>5, <2>6, <2>7
<1>. QED
  BY <1>1, <1>2

(* What is left fits the command and keeps the order. *)
LEMMA ShiftKeeps ==
  ASSUME NEW cs \in Seq(Calls), NEW rest, NEW d \in 1..Len(cs), Shift(cs, rest, d)
  PROVE  /\ \A i \in DOMAIN rest : i + d \in DOMAIN cs /\ rest[i] = cs[i + d]
         /\ \A c : (\A i \in DOMAIN cs : Fits(cs[i], c)) =>
              \A i \in DOMAIN rest : Fits(rest[i], c)
         /\ CallsInOrder(cs) => CallsInOrder(rest)
         /\ \A name, t : On(rest, name, t) => On(cs, name, t)
<1> PICK n \in Nat : n = Len(cs)
  OBVIOUS
<1>0. DOMAIN cs = 1..n /\ d \in 1..n
  OBVIOUS
<1>1. \A i \in DOMAIN rest : i \in Nat /\ i + d \in DOMAIN cs /\ rest[i] = cs[i + d]
  BY <1>0 DEF Shift
<1>2. \A j \in DOMAIN cs : j > d => j - d \in DOMAIN rest /\ rest[j - d] = cs[j]
  BY <1>0 DEF Shift
<1>3. ASSUME NEW c, \A i \in DOMAIN cs : Fits(cs[i], c), NEW i \in DOMAIN rest
      PROVE  Fits(rest[i], c)
  <2>1. rest[i] = cs[i + d] /\ i + d \in DOMAIN cs
    BY <1>1
  <2>. QED
    BY <1>3, <2>1
<1>4. \A name, t : On(rest, name, t) => On(cs, name, t)
  BY <1>1 DEF On
<1>5. ASSUME NEW i \in DOMAIN rest, NEW name, NEW t
      PROVE  Later(cs, i + d, name, t) <=> Later(rest, i, name, t)
  <2>1. ASSUME NEW j \in DOMAIN cs, j > i + d, cs[j].name = name, cs[j].table = t
        PROVE  Later(rest, i, name, t)
    <3>1. j - d \in DOMAIN rest /\ rest[j - d] = cs[j] /\ j - d > i
      BY <1>0, <1>1, <1>2, <2>1
    <3>. QED
      BY <2>1, <3>1 DEF Later
  <2>2. ASSUME NEW j \in DOMAIN rest, j > i, rest[j].name = name, rest[j].table = t
        PROVE  Later(cs, i + d, name, t)
    <3>1. j + d \in DOMAIN cs /\ rest[j] = cs[j + d] /\ j + d > i + d
      BY <1>0, <1>1, <2>2
    <3>. QED
      BY <2>2, <3>1 DEF Later
  <2>. QED
    BY <2>1, <2>2 DEF Later
<1>6. ASSUME CallsInOrder(cs), NEW i \in DOMAIN rest, rest[i].table = "aggregates",
             NEW j \in DOMAIN rest, j > i, provider = "dynamo"
      PROVE  rest[j].table # "events"
  <2>1. /\ i + d \in DOMAIN cs /\ rest[i] = cs[i + d]
        /\ j + d \in DOMAIN cs /\ rest[j] = cs[j + d]
        /\ j + d > i + d
    BY <1>0, <1>1, <1>6
  <2>. QED
    BY <1>6, <2>1 DEF CallsInOrder
<1>7. ASSUME CallsInOrder(cs), NEW i \in DOMAIN rest
      PROVE  LET t == rest[i].table IN
             /\ rest[i].name = "TableExists" => Later(rest, i, Creation, t)
             /\ provider = "dynamo" =>
                  /\ rest[i].name = "CreateTable" => Later(rest, i, "WaitActive", t)
                  /\ rest[i].name = "WaitActive" =>
                       Later(rest, i, "EnablePITR", t) /\ Later(rest, i, "EnableTTL", t)
                  /\ rest[i].name # "TableExists" => ~Later(rest, i, "CreateTable", t)
                  /\ t = "events" => Later(rest, i, "CreateTable", "aggregates")
  <2>1. i + d \in DOMAIN cs /\ rest[i] = cs[i + d]
    BY <1>1
  <2>. QED
    BY <1>5, <1>7, <2>1 DEF CallsInOrder
<1>8. CallsInOrder(cs) => CallsInOrder(rest)
  BY <1>6, <1>7 DEF CallsInOrder
<1>. QED
  BY <1>1, <1>3, <1>4, <1>8

(* A call that was not passed over is still to be made. *)
LEMMA ShiftStillOn ==
  ASSUME NEW cs \in Seq(Calls), NEW rest, NEW d \in 1..Len(cs), Shift(cs, rest, d),
         NEW name, NEW t, On(cs, name, t),
         \A i \in 1..d : cs[i].name # name \/ cs[i].table # t
  PROVE  On(rest, name, t)
<1> PICK n \in Nat : n = Len(cs)
  OBVIOUS
<1>0. DOMAIN cs = 1..n /\ d \in 1..n
  OBVIOUS
<1>1. PICK j \in DOMAIN cs : cs[j].name = name /\ cs[j].table = t
  BY DEF On
<1>2. j > d /\ j - d \in 1..(n - d)
  BY <1>0, <1>1
<1>3. j - d \in DOMAIN rest /\ rest[j - d] = cs[(j - d) + d]
  BY <1>2 DEF Shift
<1>4. (j - d) + d = j
  BY <1>0
<1>. QED
  BY <1>1, <1>3, <1>4 DEF On


-----------------------------------------------------------------------------
(***************************************************************************)
(* The lists the commands begin with.                                      *)
(***************************************************************************)
Joined(l, s, u) ==
  /\ DOMAIN l = 1..(Len(s) + Len(u))
  /\ \A i \in 1..Len(s) : l[i] = s[i]
  /\ \A i \in 1..Len(u) : l[Len(s) + i] = u[i]

LEMMA TwoLists ==
  ASSUME NEW S, NEW s \in Seq(S), NEW u \in Seq(S)
  PROVE  s \o u \in Seq(S) /\ Joined(s \o u, s, u)
<1>1. s \o u \in Seq(S) /\ Len(s \o u) = Len(s) + Len(u)
  OBVIOUS
<1>2. \A i \in 1..Len(s) : (s \o u)[i] = s[i]
  OBVIOUS
<1>3. \A i \in 1..Len(u) : (s \o u)[Len(s) + i] = u[i]
  OBVIOUS
<1>4. DOMAIN (s \o u) = 1..(Len(s) + Len(u))
  BY <1>1
<1>. QED
  BY <1>1, <1>2, <1>3, <1>4 DEF Joined

(* Every position of a list of ten, of two lists of five. *)
TenOf(l, s, u) ==
  /\ l \in Seq(Calls) /\ DOMAIN l = 1..10
  /\ l[1] = s[1] /\ l[2] = s[2] /\ l[3] = s[3] /\ l[4] = s[4] /\ l[5] = s[5]
  /\ l[6] = u[1] /\ l[7] = u[2] /\ l[8] = u[3] /\ l[9] = u[4] /\ l[10] = u[5]

LEMMA TenCalls ==
  ASSUME NEW s \in Seq(Calls), NEW u \in Seq(Calls), Len(s) = 5, Len(u) = 5
  PROVE  TenOf(s \o u, s, u)
<1> DEFINE l == s \o u
<1>0. l \in Seq(Calls) /\ Joined(l, s, u)
  BY TwoLists, Zenon
<1> HIDE DEF l
<1>2. l \in Seq(Calls) /\ DOMAIN l = 1..10
  BY <1>0 DEF Joined
<1>3. \A i \in 1..5 : l[i] = s[i]
  BY <1>0 DEF Joined
<1>4. \A i \in 1..5 : l[5 + i] = u[i]
  BY <1>0 DEF Joined
<1>5. l[1] = s[1] /\ l[2] = s[2] /\ l[3] = s[3] /\ l[4] = s[4] /\ l[5] = s[5]
  BY <1>3
<1>6. l[6] = u[1] /\ l[7] = u[2] /\ l[8] = u[3] /\ l[9] = u[4] /\ l[10] = u[5]
  <2>1. /\ l[5 + 1] = u[1] /\ l[5 + 2] = u[2] /\ l[5 + 3] = u[3]
        /\ l[5 + 4] = u[4] /\ l[5 + 5] = u[5]
    BY <1>4
  <2>. QED
    BY <2>1
<1>. QED
  BY <1>2, <1>5, <1>6 DEF l, TenOf

LEMMA ProviderIs ==
  ASSUME TypeOK
  PROVE  provider \in {"dynamo", "cosmos"}
BY SetupAssumption DEF TypeOK

LEMMA CallType ==
  ASSUME NEW name \in CallNames, NEW t \in Tables \cup {"database"}, NEW keys \in Keys
  PROVE  Call(name, t, keys) \in Calls
BY DEF Call, Calls

LEMMA KeysType ==
  EventKeys \in Keys /\ AggregateKeys \in Keys /\ <<>> \in Keys
BY DEF EventKeys, AggregateKeys, Keys

(* The five calls for one table of DynamoDB, whatever its name. *)
EnsureTable(t) ==
  <<Call("TableExists", t, <<>>), Call("CreateTable", t, KeysOf(t)),
    Call("WaitActive", t, <<>>), Call("EnablePITR", t, <<>>), Call("EnableTTL", t, <<>>)>>

LEMMA EnsureTableCalls ==
  ASSUME NEW t \in Tables
  PROVE  LET l == EnsureTable(t) IN
         /\ l \in Seq(Calls) /\ Len(l) = 5
         /\ l[1] = Call("TableExists", t, <<>>) /\ l[2] = Call("CreateTable", t, KeysOf(t))
         /\ l[3] = Call("WaitActive", t, <<>>) /\ l[4] = Call("EnablePITR", t, <<>>)
         /\ l[5] = Call("EnableTTL", t, <<>>)
<1>1. /\ Call("TableExists", t, <<>>) \in Calls
      /\ Call("CreateTable", t, KeysOf(t)) \in Calls
      /\ Call("WaitActive", t, <<>>) \in Calls
      /\ Call("EnablePITR", t, <<>>) \in Calls
      /\ Call("EnableTTL", t, <<>>) \in Calls
  BY CallType, KeysType DEF CallNames, KeysOf
<1>. QED
  BY <1>1 DEF EnsureTable

LEMMA EnsureTablesCalls ==
  /\ EnsureTables \in Seq(Calls)
  /\ DOMAIN EnsureTables = 1..10
  /\ EnsureTables[1] = Call("TableExists", "events", <<>>)
  /\ EnsureTables[2] = Call("CreateTable", "events", EventKeys)
  /\ EnsureTables[3] = Call("WaitActive", "events", <<>>)
  /\ EnsureTables[4] = Call("EnablePITR", "events", <<>>)
  /\ EnsureTables[5] = Call("EnableTTL", "events", <<>>)
  /\ EnsureTables[6] = Call("TableExists", "aggregates", <<>>)
  /\ EnsureTables[7] = Call("CreateTable", "aggregates", AggregateKeys)
  /\ EnsureTables[8] = Call("WaitActive", "aggregates", <<>>)
  /\ EnsureTables[9] = Call("EnablePITR", "aggregates", <<>>)
  /\ EnsureTables[10] = Call("EnableTTL", "aggregates", <<>>)
<1>1. EnsureTables = EnsureTable("events") \o EnsureTable("aggregates")
  BY DEF EnsureTables, EnsureEventsTable, EnsureAggregatesTable, EnsureTable, KeysOf
<1>2. "events" \in Tables /\ "aggregates" \in Tables
  BY DEF Tables
<1>3. KeysOf("events") = EventKeys /\ KeysOf("aggregates") = AggregateKeys
  BY DEF KeysOf
<1> HIDE DEF EnsureTable
<1>0. /\ EnsureTable("events") \in Seq(Calls) /\ Len(EnsureTable("events")) = 5
      /\ EnsureTable("aggregates") \in Seq(Calls) /\ Len(EnsureTable("aggregates")) = 5
  BY <1>2, EnsureTableCalls
<1>4. TenOf(EnsureTables, EnsureTable("events"), EnsureTable("aggregates"))
  BY <1>0, <1>1, TenCalls
<1>. QED
  BY <1>2, <1>3, <1>4, EnsureTableCalls DEF TenOf

(* A creation on DynamoDB: ten calls that fit, in order. *)
LEMMA EnsureTablesFits ==
  ASSUME provider = "dynamo"
  PROVE  /\ \A i \in DOMAIN EnsureTables : Fits(EnsureTables[i], "create")
         /\ CallsInOrder(EnsureTables)
         /\ \A t \in Tables : On(EnsureTables, Creation, t)
<1> DEFINE l == EnsureTables
<1>1. /\ l \in Seq(Calls) /\ DOMAIN l = 1..10
      /\ l[1].name = "TableExists" /\ l[2].name = "CreateTable"
      /\ l[3].name = "WaitActive" /\ l[4].name = "EnablePITR" /\ l[5].name = "EnableTTL"
      /\ l[6].name = "TableExists" /\ l[7].name = "CreateTable"
      /\ l[8].name = "WaitActive" /\ l[9].name = "EnablePITR" /\ l[10].name = "EnableTTL"
  BY EnsureTablesCalls DEF Call
<1>2. /\ l[1].table = "events" /\ l[2].table = "events" /\ l[3].table = "events"
      /\ l[4].table = "events" /\ l[5].table = "events"
      /\ l[6].table = "aggregates" /\ l[7].table = "aggregates" /\ l[8].table = "aggregates"
      /\ l[9].table = "aggregates" /\ l[10].table = "aggregates"
      /\ l[2].keys = EventKeys /\ l[7].keys = AggregateKeys
  BY EnsureTablesCalls DEF Call
<1> HIDE DEF l
<1>3. \A i \in 1..10 : i \in {1, 2, 3, 4, 5, 6, 7, 8, 9, 10}
  OBVIOUS
<1>4. ASSUME NEW i \in DOMAIN l PROVE Fits(l[i], "create")
  <2>1. i \in {1, 2, 3, 4, 5, 6, 7, 8, 9, 10}
    BY <1>1, <1>3
  <2>2. l[i].name \in
          {"TableExists", "CreateTable", "WaitActive", "EnablePITR", "EnableTTL"}
    BY <1>1, <2>1
  <2>3. l[i].table \in {"events", "aggregates"}
    BY <1>2, <2>1
  <2>4. l[i].name = "CreateTable" => l[i].keys = KeysOf(l[i].table)
    BY <1>1, <1>2, <2>1 DEF KeysOf
  <2>. QED
    BY <2>2, <2>3, <2>4 DEF Fits, Named, Creation
<1>5. \A t \in Tables : On(l, Creation, t)
  BY <1>1, <1>2 DEF On, Creation, Tables
<1>6. ASSUME NEW i \in DOMAIN l
      PROVE  LET t == l[i].table IN
             /\ l[i].name = "TableExists" => Later(l, i, Creation, t)
             /\ l[i].name = "CreateTable" => Later(l, i, "WaitActive", t)
             /\ l[i].name = "WaitActive" =>
                  Later(l, i, "EnablePITR", t) /\ Later(l, i, "EnableTTL", t)
             /\ l[i].name # "TableExists" => ~Later(l, i, "CreateTable", t)
             /\ t = "events" => Later(l, i, "CreateTable", "aggregates")
             /\ t = "aggregates" => \A j \in DOMAIN l : j > i => l[j].table # "events"
  <2>1. i \in {1, 2, 3, 4, 5, 6, 7, 8, 9, 10}
    BY <1>1, <1>3
  <2>2. l[i].name = "TableExists" => Later(l, i, Creation, l[i].table)
    BY <1>1, <1>2, <2>1 DEF Later, Creation
  <2>3. l[i].name = "CreateTable" => Later(l, i, "WaitActive", l[i].table)
    BY <1>1, <1>2, <2>1 DEF Later
  <2>4. l[i].name = "WaitActive" =>
          Later(l, i, "EnablePITR", l[i].table) /\ Later(l, i, "EnableTTL", l[i].table)
    BY <1>1, <1>2, <2>1 DEF Later
  <2>5. ASSUME NEW j \in DOMAIN l, j > i, l[j].name = "CreateTable",
               l[j].table = l[i].table, l[i].name # "TableExists"
        PROVE  FALSE
    <3>1. j \in {2, 7}
      BY <1>1, <1>3, <2>5
    <3>2. CASE j = 2
      BY <1>1, <2>1, <2>5, <3>2
    <3>3. CASE j = 7
      BY <1>1, <1>2, <2>1, <2>5, <3>3
    <3>. QED
      BY <3>1, <3>2, <3>3
  <2>6. l[i].table = "events" => Later(l, i, "CreateTable", "aggregates")
    BY <1>1, <1>2, <2>1 DEF Later
  <2>7. ASSUME l[i].table = "aggregates", NEW j \in DOMAIN l, j > i
        PROVE  l[j].table # "events"
    <3>1. j \in {7, 8, 9, 10}
      <4>1. i > 5
        BY <1>2, <2>1, <2>7
      <4>. QED
        BY <1>1, <2>1, <2>7, <4>1
    <3>. QED
      BY <1>2, <3>1
  <2>. QED
    BY <2>2, <2>3, <2>4, <2>5, <2>6, <2>7 DEF Later
<1>7. CallsInOrder(l)
  BY <1>6 DEF CallsInOrder
<1>. QED
  BY <1>4, <1>5, <1>7 DEF l


(* Creation on Cosmos. *)
LEMMA CosmosCreateCalls ==
  LET l == EnsureDatabase \o EnsureContainers IN
  /\ l \in Seq(Calls)
  /\ DOMAIN l = 1..6
  /\ l[1] = Call("ReadDatabase", "database", <<>>)
  /\ l[2] = Call("CreateDatabase", "database", <<>>)
  /\ l[3] = Call("TableExists", "events", <<>>)
  /\ l[4] = Call("CreateContainer", "events", EventKeys)
  /\ l[5] = Call("TableExists", "aggregates", <<>>)
  /\ l[6] = Call("CreateContainer", "aggregates", AggregateKeys)
<1>1. /\ Call("ReadDatabase", "database", <<>>) \in Calls
      /\ Call("CreateDatabase", "database", <<>>) \in Calls
      /\ Call("TableExists", "events", <<>>) \in Calls
      /\ Call("CreateContainer", "events", EventKeys) \in Calls
      /\ Call("TableExists", "aggregates", <<>>) \in Calls
      /\ Call("CreateContainer", "aggregates", AggregateKeys) \in Calls
  BY CallType, KeysType DEF CallNames, Tables
<1> DEFINE d == EnsureDatabase
           e == EnsureContainer("events", EventKeys)
           a == EnsureContainer("aggregates", AggregateKeys)
           c == e \o a
           l == d \o c
<1>2. /\ d \in Seq(Calls) /\ Len(d) = 2
      /\ d[1] = Call("ReadDatabase", "database", <<>>)
      /\ d[2] = Call("CreateDatabase", "database", <<>>)
  BY <1>1 DEF EnsureDatabase
<1>3. /\ e \in Seq(Calls) /\ Len(e) = 2
      /\ e[1] = Call("TableExists", "events", <<>>)
      /\ e[2] = Call("CreateContainer", "events", EventKeys)
  BY <1>1 DEF EnsureContainer
<1>4. /\ a \in Seq(Calls) /\ Len(a) = 2
      /\ a[1] = Call("TableExists", "aggregates", <<>>)
      /\ a[2] = Call("CreateContainer", "aggregates", AggregateKeys)
  BY <1>1 DEF EnsureContainer
<1>5. EnsureDatabase \o EnsureContainers = l
  BY DEF EnsureContainers
<1> HIDE DEF d, e, a
<1>6. c \in Seq(Calls) /\ Joined(c, e, a)
  BY <1>3, <1>4, TwoLists, Zenon
<1> HIDE DEF c
<1>7. Len(c) = 4
  BY <1>3, <1>4, <1>6 DEF Joined
<1>8. l \in Seq(Calls) /\ Joined(l, d, c)
  BY <1>2, <1>6, TwoLists, Zenon
<1> HIDE DEF l
<1>9. c[1] = e[1] /\ c[2] = e[2] /\ c[2 + 1] = a[1] /\ c[2 + 2] = a[2]
  BY <1>3, <1>4, <1>6 DEF Joined
<1>10. /\ DOMAIN l = 1..(2 + 4)
       /\ l[1] = d[1] /\ l[2] = d[2]
       /\ l[2 + 1] = c[1] /\ l[2 + 2] = c[2] /\ l[2 + 3] = c[3] /\ l[2 + 4] = c[4]
  BY <1>2, <1>7, <1>8 DEF Joined
<1>12. /\ l[3] = e[1] /\ l[4] = e[2] /\ l[5] = a[1] /\ l[6] = a[2]
       /\ DOMAIN l = 1..6
  BY <1>9, <1>10
<1>13. /\ l \in Seq(Calls)
       /\ DOMAIN l = 1..6
       /\ l[1] = Call("ReadDatabase", "database", <<>>)
       /\ l[2] = Call("CreateDatabase", "database", <<>>)
       /\ l[3] = Call("TableExists", "events", <<>>)
       /\ l[4] = Call("CreateContainer", "events", EventKeys)
       /\ l[5] = Call("TableExists", "aggregates", <<>>)
       /\ l[6] = Call("CreateContainer", "aggregates", AggregateKeys)
  BY <1>2, <1>3, <1>4, <1>8, <1>10, <1>12
<1>. QED
  BY <1>5, <1>13

LEMMA CosmosCreateFits ==
  ASSUME provider # "dynamo"
  PROVE  LET l == EnsureDatabase \o EnsureContainers IN
         /\ \A i \in DOMAIN l : Fits(l[i], "create")
         /\ CallsInOrder(l)
         /\ \A t \in Tables : On(l, Creation, t)
<1> DEFINE l == EnsureDatabase \o EnsureContainers
<1>1. /\ l \in Seq(Calls) /\ DOMAIN l = 1..6
      /\ l[1].name = "ReadDatabase" /\ l[2].name = "CreateDatabase"
      /\ l[3].name = "TableExists" /\ l[4].name = "CreateContainer"
      /\ l[5].name = "TableExists" /\ l[6].name = "CreateContainer"
  BY CosmosCreateCalls DEF Call
<1>2. /\ l[1].table = "database" /\ l[2].table = "database"
      /\ l[3].table = "events" /\ l[4].table = "events"
      /\ l[5].table = "aggregates" /\ l[6].table = "aggregates"
      /\ l[4].keys = EventKeys /\ l[6].keys = AggregateKeys
  BY CosmosCreateCalls DEF Call
<1> HIDE DEF l
<1>3. \A i \in 1..6 : i \in {1, 2, 3, 4, 5, 6}
  OBVIOUS
<1>4. ASSUME NEW i \in DOMAIN l PROVE Fits(l[i], "create")
  <2>1. i \in {1, 2, 3, 4, 5, 6}
    BY <1>1, <1>3
  <2>2. l[i].name \in {"ReadDatabase", "CreateDatabase", "TableExists", "CreateContainer"}
    BY <1>1, <2>1
  <2>3. l[i].table = "database" <=> l[i].name \in {"ReadDatabase", "CreateDatabase"}
    BY <1>1, <1>2, <2>1
  <2>4. l[i].name = "CreateContainer" => l[i].keys = KeysOf(l[i].table)
    BY <1>1, <1>2, <2>1 DEF KeysOf
  <2>. QED
    BY <2>2, <2>3, <2>4 DEF Fits, Named, Creation
<1>5. \A t \in Tables : On(l, Creation, t)
  BY <1>1, <1>2 DEF On, Creation, Tables
<1>6. ASSUME NEW i \in DOMAIN l, l[i].name = "TableExists"
      PROVE  Later(l, i, Creation, l[i].table)
  <2>1. i \in {3, 5}
    BY <1>1, <1>3, <1>6
  <2>. QED
    BY <1>1, <1>2, <2>1 DEF Later, Creation
<1>7. CallsInOrder(l)
  BY <1>6 DEF CallsInOrder
<1>. QED
  BY <1>4, <1>5, <1>7 DEF l

LEMMA BothCalls ==
  ASSUME NEW name \in CallNames
  PROVE  /\ Both(name) \in Seq(Calls)
         /\ \A i \in DOMAIN Both(name) :
              Both(name)[i].name = name /\ Both(name)[i].table \in Tables
<1>1. /\ Call(name, "events", <<>>) \in Calls
      /\ Call(name, "aggregates", <<>>) \in Calls
  BY CallType, KeysType DEF Tables
<1>2. Both(name) \in Seq(Calls) /\ DOMAIN Both(name) = 1..2
  BY <1>1 DEF Both
<1>3. Both(name)[1] = Call(name, "events", <<>>)
      /\ Both(name)[2] = Call(name, "aggregates", <<>>)
  BY DEF Both
<1>4. \A i \in 1..2 : i \in {1, 2}
  OBVIOUS
<1>5. ASSUME NEW i \in DOMAIN Both(name)
      PROVE  Both(name)[i].name = name /\ Both(name)[i].table \in Tables
  <2>1. i \in {1, 2}
    BY <1>2, <1>4
  <2>2. /\ Both(name)[1].name = name /\ Both(name)[1].table \in Tables
        /\ Both(name)[2].name = name /\ Both(name)[2].table \in Tables
    BY <1>3 DEF Call, Tables
  <2>. QED
    BY <2>1, <2>2
<1>. QED
  BY <1>2, <1>5

LEMMA FixCalls ==
  /\ Fix \in Seq(Calls)
  /\ \A i \in DOMAIN Fix :
       Fix[i].name \in {"EnablePITR", "EnableTTL"} /\ Fix[i].table \in Tables
<1>1. /\ Call("EnablePITR", "events", <<>>) \in Calls
      /\ Call("EnableTTL", "events", <<>>) \in Calls
      /\ Call("EnablePITR", "aggregates", <<>>) \in Calls
      /\ Call("EnableTTL", "aggregates", <<>>) \in Calls
  BY CallType, KeysType DEF Tables, CallNames
<1>2. Fix \in Seq(Calls) /\ DOMAIN Fix = 1..4
  BY <1>1 DEF Fix
<1>3. /\ Fix[1] = Call("EnablePITR", "events", <<>>)
      /\ Fix[2] = Call("EnableTTL", "events", <<>>)
      /\ Fix[3] = Call("EnablePITR", "aggregates", <<>>)
      /\ Fix[4] = Call("EnableTTL", "aggregates", <<>>)
  BY DEF Fix
<1>4. \A i \in 1..4 : i \in {1, 2, 3, 4}
  OBVIOUS
<1>5. ASSUME NEW i \in DOMAIN Fix
      PROVE  Fix[i].name \in {"EnablePITR", "EnableTTL"} /\ Fix[i].table \in Tables
  <2>1. i \in {1, 2, 3, 4}
    BY <1>2, <1>4
  <2>2. /\ Fix[1].name = "EnablePITR" /\ Fix[1].table \in Tables
        /\ Fix[2].name = "EnableTTL" /\ Fix[2].table \in Tables
        /\ Fix[3].name = "EnablePITR" /\ Fix[3].table \in Tables
        /\ Fix[4].name = "EnableTTL" /\ Fix[4].table \in Tables
    BY <1>3 DEF Call, Tables
  <2>. QED
    BY <2>1, <2>2
<1>. QED
  BY <1>2, <1>5

(* Whatever command is offered, its calls fit it, and creation makes both  *)
(* tables.                                                                 *)
LEMMA CommandFits ==
  ASSUME provider \in {"dynamo", "cosmos"}, NEW c \in Offered
  PROVE  /\ CallsOf(c) \in Seq(Calls)
         /\ \A i \in DOMAIN CallsOf(c) : Fits(CallsOf(c)[i], c)
         /\ c = "create" =>
              /\ CallsInOrder(CallsOf(c))
              /\ \A t \in Tables : On(CallsOf(c), Creation, t)
<1>1. CASE c = "create" /\ provider = "dynamo"
  <2>1. CallsOf(c) = EnsureTables
    BY <1>1 DEF CallsOf, DynamoCommand
  <2>. QED
    BY <1>1, <2>1, EnsureTablesFits, EnsureTablesCalls
<1>2. CASE c = "create" /\ provider # "dynamo"
  <2>1. CallsOf(c) = EnsureDatabase \o EnsureContainers
    BY <1>2 DEF CallsOf, CosmosCommand
  <2>. QED
    BY <1>2, <2>1, CosmosCreateFits, CosmosCreateCalls
<1>3. CASE c = "fix"
  <2>1. CallsOf(c) = Fix
    BY <1>3 DEF CallsOf, DynamoCommand, Offered
  <2>2. \A i \in DOMAIN Fix : Fits(Fix[i], c)
    BY <1>3, FixCalls DEF Fits, Named, Creation, Tables
  <2>. QED
    BY <1>3, <2>1, <2>2, FixCalls
<1>4. ASSUME NEW name \in {"DeleteTable", "DeleteContainer", "DisableProtection"},
             c # "create", Named(c) = {name}, CallsOf(c) = Both(name)
      PROVE  /\ CallsOf(c) \in Seq(Calls)
             /\ \A i \in DOMAIN CallsOf(c) : Fits(CallsOf(c)[i], c)
  <2>1. name \in CallNames
    BY DEF CallNames
  <2>2. ASSUME NEW call, call.name = name, call.table \in Tables
        PROVE  Fits(call, c)
    BY <1>4, <2>2 DEF Fits, Creation, Tables
  <2>. QED
    BY <1>4, <2>1, <2>2, BothCalls
<1>5. CASE c = "delete" /\ provider = "dynamo"
  <2>1. Named(c) = {"DeleteTable"} /\ CallsOf(c) = Both("DeleteTable")
    BY <1>5 DEF Named, CallsOf, DynamoCommand
  <2>. QED
    BY <1>4, <1>5, <2>1
<1>6. CASE c = "delete" /\ provider # "dynamo"
  <2>1. Named(c) = {"DeleteContainer"} /\ CallsOf(c) = Both("DeleteContainer")
    BY <1>6 DEF Named, CallsOf, CosmosCommand
  <2>. QED
    BY <1>4, <1>6, <2>1
<1>7. CASE c = "disable-protection"
  <2>1. Named(c) = {"DisableProtection"} /\ CallsOf(c) = Both("DisableProtection")
    BY <1>7 DEF Named, CallsOf, DynamoCommand, Offered
  <2>. QED
    BY <1>4, <1>7, <2>1
<1>. QED
  BY <1>1, <1>2, <1>3, <1>5, <1>6, <1>7 DEF Offered


-----------------------------------------------------------------------------
(***************************************************************************)
(* What a step of one process leaves as it was.                            *)
(***************************************************************************)
ProcessTypes ==
  /\ command \in [Processes -> {"none", "create", "fix", "delete", "disable-protection"}]
  /\ DOMAIN calls = Processes
  /\ \A p \in Processes : calls[p] \in Seq(Calls)
  /\ outcome \in [Processes -> {"none", "ok", "error"}]

TableStates ==
  [status : {"absent", "creating", "active", "deleting"}, keys : Keys,
   protected : BOOLEAN, pitr : BOOLEAN, ttl : BOOLEAN]

LEMMA TypesInParts ==
  TypeOK <=>
    /\ provider \in Providers /\ database \in BOOLEAN
    /\ table \in [Tables -> TableStates]
    /\ ProcessTypes
    /\ started \in 0..MaxCommands /\ cleared \subseteq Processes
    /\ released \subseteq Tables /\ troubled \subseteq Tables /\ faulty \subseteq Processes
BY DEF TypeOK, ProcessTypes, TableStates, Calls

LEMMA TypesAfter ==
  ASSUME SetupInv, provider' = provider, database' \in BOOLEAN,
         table' \in [Tables -> TableStates],
         ProcessTypes', started' \in 0..MaxCommands, cleared' \subseteq Processes,
         released' \subseteq Tables, troubled' \subseteq Tables, faulty' \subseteq Processes
  PROVE  TypeOK'
<1>1. provider \in Providers
  BY DEF SetupInv, TypeOK
<1>2. (command \in
        [Processes -> {"none", "create", "fix", "delete", "disable-protection"}])'
      /\ (DOMAIN calls = Processes)'
      /\ (\A p \in Processes : calls[p] \in Seq(Calls))'
      /\ (outcome \in [Processes -> {"none", "ok", "error"}])'
  BY DEF ProcessTypes
<1>. QED
  BY <1>1, <1>2 DEF TypeOK, TableStates, Calls

LEMMA SameProvider ==
  ASSUME provider' = provider
  PROVE  /\ \A call, c : Fits(call, c)' <=> Fits(call, c)
         /\ \A cs : CallsInOrder(cs)' <=> CallsInOrder(cs)
         /\ Creation' = Creation
         /\ \A t : KeysOf(t)' = KeysOf(t)
<1>1. Creation' = Creation
  BY DEF Creation
<1>2. \A t : KeysOf(t)' = KeysOf(t)
  BY DEF KeysOf, EventKeys, AggregateKeys
<1>3. \A c : Named(c)' = Named(c)
  BY DEF Named
<1>4. \A call, c : Fits(call, c)' <=> Fits(call, c)
  BY <1>1, <1>2, <1>3 DEF Fits
<1>5. \A cs : CallsInOrder(cs)' <=> CallsInOrder(cs)
  BY <1>1 DEF CallsInOrder, Later
<1>. QED
  BY <1>1, <1>2, <1>4, <1>5

(* The call a running process makes next. *)
LEMMA NextCall ==
  ASSUME SetupInv, NEW p \in Processes, Running(p)
  PROVE  LET cs == calls[p] IN
         /\ cs \in Seq(Calls) /\ cs # <<>>
         /\ 1 \in 1..Len(cs) /\ 1 \in DOMAIN cs
         /\ Head(cs) = cs[1] /\ Head(cs) \in Calls
         /\ Tail(cs) \in Seq(Calls) /\ Shift(cs, Tail(cs), 1)
         /\ Fits(Head(cs), command[p])
         /\ command[p] = "create" => CallsInOrder(cs)
         /\ outcome[p] = "none"
<1>1. calls[p] \in Seq(Calls) /\ calls[p] # <<>>
  BY TypesInParts DEF SetupInv, ProcessTypes, Running
<1>2. Queued(p)
  BY DEF SetupInv
<1>3. /\ 1 \in 1..Len(calls[p]) /\ 1 \in DOMAIN calls[p]
      /\ Head(calls[p]) = calls[p][1] /\ calls[p][1] \in Calls
  BY <1>1, TailShifts
<1>4. Tail(calls[p]) \in Seq(Calls) /\ Shift(calls[p], Tail(calls[p]), 1)
  BY <1>1, TailShifts
<1>5. outcome[p] = "none"
  BY <1>1, <1>2, TypesInParts DEF Queued
<1>. QED
  BY <1>1, <1>2, <1>3, <1>4, <1>5 DEF Queued

(* What a command and a cloud a call belongs to. *)
LEMMA CallBelongs ==
  ASSUME NEW call \in Calls, NEW c, Fits(call, c)
  PROVE  /\ call.name \notin {"ReadDatabase", "CreateDatabase"} => call.table \in Tables
         /\ call.name \in {"TableExists", "ReadDatabase", "CreateDatabase"} => c = "create"
         /\ call.name \in {"CreateTable", "WaitActive"} =>
              c = "create" /\ provider = "dynamo"
         /\ call.name = "CreateContainer" => c = "create" /\ provider # "dynamo"
         /\ call.name \in {"CreateTable", "CreateContainer"} =>
              call.keys = KeysOf(call.table)
         /\ call.name \in {"DeleteTable", "DeleteContainer"} => c = "delete"
         /\ call.name = "DeleteTable" => provider = "dynamo"
         /\ call.name = "DeleteContainer" => provider # "dynamo"
         /\ call.name = "DisableProtection" => c = "disable-protection"
<1>1. call.name \in Named(c)
  BY DEF Fits
<1>2. call.table \in Tables \cup {"database"}
  BY DEF Calls
<1>3. call.name \notin {"ReadDatabase", "CreateDatabase"} => call.table \in Tables
  BY <1>2 DEF Fits
<1>4. \/ /\ c = "create" /\ provider = "dynamo"
         /\ call.name \in
              {"TableExists", "CreateTable", "WaitActive", "EnablePITR", "EnableTTL"}
      \/ /\ c = "create" /\ provider # "dynamo"
         /\ call.name \in
              {"ReadDatabase", "CreateDatabase", "TableExists", "CreateContainer"}
      \/ c = "fix" /\ call.name \in {"EnablePITR", "EnableTTL"}
      \/ c = "delete" /\ provider = "dynamo" /\ call.name = "DeleteTable"
      \/ c = "delete" /\ provider # "dynamo" /\ call.name = "DeleteContainer"
      \/ c = "disable-protection" /\ call.name = "DisableProtection"
  BY <1>1 DEF Named
<1>5. call.name \in {"CreateTable", "CreateContainer"} => call.keys = KeysOf(call.table)
  BY <1>4 DEF Fits, Creation
<1>. QED
  BY <1>3, <1>4, <1>5

(* A process goes on with what is left of its calls. *)
Goes(p, rest, d) ==
  /\ d \in 1..Len(calls[p])
  /\ rest \in Seq(Calls) /\ Shift(calls[p], rest, d)
  /\ Proceed(p, rest)
  /\ provider' = provider /\ cleared' = cleared

LEMMA GoesTypes ==
  ASSUME SetupInv, NEW p \in Processes, NEW rest, NEW d, Goes(p, rest, d)
  PROVE  ProcessTypes'
BY TypesInParts DEF SetupInv, ProcessTypes, Goes, Proceed

LEMMA FailTypes ==
  ASSUME SetupInv, NEW p \in Processes, Fail(p)
  PROVE  ProcessTypes'
<1>1. <<>> \in Seq(Calls)
  OBVIOUS
<1>. QED
  BY <1>1, TypesInParts DEF SetupInv, ProcessTypes, Fail

LEMMA GoesQueued ==
  ASSUME SetupInv, NEW p \in Processes, NEW rest, NEW d, Goes(p, rest, d)
  PROVE  \A q \in Processes : Queued(q)'
<1>1. TAKE q \in Processes
<1>2. Queued(q) /\ DOMAIN calls = Processes /\ calls[p] \in Seq(Calls)
      /\ outcome \in [Processes -> {"none", "ok", "error"}]
  BY TypesInParts DEF SetupInv, ProcessTypes
<1>3. /\ \A call, c : Fits(call, c)' <=> Fits(call, c)
      /\ \A cs : CallsInOrder(cs)' <=> CallsInOrder(cs)
  BY SameProvider DEF Goes
<1>4. command' = command /\ cleared' = cleared
  BY DEF Goes, Proceed
<1>5. CASE q # p
  <2>1. calls'[q] = calls[q] /\ outcome'[q] = outcome[q]
    BY <1>2, <1>5 DEF Goes, Proceed
  <2>. QED
    BY <1>2, <1>3, <1>4, <2>1 DEF Queued, Running
<1>6. CASE q = p
  <2>1. calls'[p] = rest /\ (outcome'[p] # "none" => rest = <<>>)
    BY <1>2 DEF Goes, Proceed
  <2>2. /\ \A i \in DOMAIN rest : Fits(rest[i], command[p])
        /\ command[p] = "create" => CallsInOrder(rest)
    BY <1>2, <1>6, ShiftKeeps DEF Goes, Queued
  <2>3. Running(p)
    BY <1>2 DEF Goes, Running
  <2>. QED
    BY <1>2, <1>3, <1>4, <1>6, <2>1, <2>2, <2>3 DEF Queued
<1>. QED
  BY <1>5, <1>6

LEMMA FailQueued ==
  ASSUME SetupInv, NEW p \in Processes, Fail(p), provider' = provider, cleared' = cleared
  PROVE  \A q \in Processes : Queued(q)'
<1>1. TAKE q \in Processes
<1>2. Queued(q) /\ DOMAIN calls = Processes
      /\ outcome \in [Processes -> {"none", "ok", "error"}]
  BY TypesInParts DEF SetupInv, ProcessTypes
<1>3. /\ \A call, c : Fits(call, c)' <=> Fits(call, c)
      /\ \A cs : CallsInOrder(cs)' <=> CallsInOrder(cs)
  BY SameProvider
<1>4. command' = command
  BY DEF Fail
<1>5. CASE q # p
  <2>1. calls'[q] = calls[q] /\ outcome'[q] = outcome[q]
    BY <1>2, <1>5 DEF Fail
  <2>. QED
    BY <1>2, <1>3, <1>4, <2>1 DEF Queued, Running
<1>6. CASE q = p
  <2>1. calls'[p] = <<>>
    BY <1>2 DEF Fail
  <2>2. DOMAIN <<>> = {}
    OBVIOUS
  <2>. QED
    BY <1>2, <1>4, <1>6, <2>1, <2>2 DEF Queued, CallsInOrder, Running
<1>. QED
  BY <1>5, <1>6

(* Tables stay unless a deletion comes upon everybody. *)
Stay ==
  \A p \in Processes : p \notin cleared =>
    \A t \in Tables : Exists(t) => Exists(t)'

LEMMA GoesMaking ==
  ASSUME SetupInv, NEW p \in Processes, NEW rest, NEW d, Goes(p, rest, d), Stay,
         \A i \in 1..d, t \in Tables :
           calls[p][i].name = Creation /\ calls[p][i].table = t => Exists(t)'
  PROVE  \A q \in Processes : Making(q)'
<1>1. TAKE q \in Processes
<1>2. SUFFICES ASSUME command'[q] = "create", outcome'[q] # "error", q \notin cleared',
                      NEW t \in Tables, ~Exists(t)'
               PROVE  On(calls'[q], Creation', t)
  BY DEF Making
<1>3. Making(q) /\ DOMAIN calls = Processes /\ calls[p] \in Seq(Calls)
      /\ outcome \in [Processes -> {"none", "ok", "error"}]
  BY TypesInParts DEF SetupInv, ProcessTypes
<1>4. Creation' = Creation /\ command' = command /\ cleared' = cleared
  BY SameProvider DEF Goes, Proceed
<1>5. CASE q # p
  <2>1. calls'[q] = calls[q] /\ outcome'[q] = outcome[q]
    BY <1>3, <1>5 DEF Goes, Proceed
  <2>. QED
    BY <1>2, <1>3, <1>4, <2>1 DEF Making, Stay
<1>6. CASE q = p
  <2>1. calls'[p] = rest
    BY <1>3 DEF Goes, Proceed
  <2>2. calls[p] # <<>> /\ outcome[p] # "error"
    <3>1. calls[p] # <<>>
      BY <1>3 DEF Goes
    <3>. QED
      BY <3>1, NextCall DEF Running
  <2>3. On(calls[p], Creation, t)
    BY <1>2, <1>3, <1>4, <1>6, <2>2 DEF Making, Stay
  <2>4. \A i \in 1..d : calls[p][i].name # Creation \/ calls[p][i].table # t
    BY <1>2
  <2>5. On(rest, Creation, t)
    BY <1>3, <2>3, <2>4, ShiftStillOn DEF Goes
  <2>. QED
    BY <1>4, <1>6, <2>1, <2>5
<1>. QED
  BY <1>5, <1>6

LEMMA FailMaking ==
  ASSUME SetupInv, NEW p \in Processes, Fail(p), provider' = provider,
         cleared' = cleared, Stay
  PROVE  \A q \in Processes : Making(q)'
<1>1. TAKE q \in Processes
<1>2. SUFFICES ASSUME command'[q] = "create", outcome'[q] # "error", q \notin cleared',
                      NEW t \in Tables, ~Exists(t)'
               PROVE  On(calls'[q], Creation', t)
  BY DEF Making
<1>3. Making(q) /\ DOMAIN calls = Processes
      /\ outcome \in [Processes -> {"none", "ok", "error"}]
  BY TypesInParts DEF SetupInv, ProcessTypes
<1>4. Creation' = Creation /\ command' = command
  BY SameProvider DEF Fail
<1>5. q # p
  BY <1>2, <1>3 DEF Fail
<1>6. calls'[q] = calls[q] /\ outcome'[q] = outcome[q]
  BY <1>3, <1>5 DEF Fail
<1>. QED
  BY <1>2, <1>3, <1>4, <1>6 DEF Making, Stay

LEMMA GoesRacers ==
  ASSUME SetupInv, NEW p \in Processes, NEW rest, NEW d, Goes(p, rest, d), Stay,
         faulty \subseteq faulty'
  PROVE  RacersSucceed'
<1>1. SUFFICES ASSUME NEW q \in Processes, command'[q] = "create", outcome'[q] = "error",
                      q \notin faulty', q \notin cleared'
               PROVE  provider' = "dynamo" /\ \E t \in Tables : Exists(t)'
  BY DEF RacersSucceed
<1>2. RacersSucceed /\ outcome \in [Processes -> {"none", "ok", "error"}]
  BY TypesInParts DEF SetupInv, ProcessTypes
<1>3. q # p
  BY <1>1, <1>2 DEF Goes, Proceed
<1>4. outcome'[q] = outcome[q] /\ command' = command /\ cleared' = cleared
      /\ provider' = provider
  BY <1>2, <1>3 DEF Goes, Proceed
<1>5. provider = "dynamo" /\ \E t \in Tables : Exists(t)
  BY <1>1, <1>2, <1>4 DEF RacersSucceed
<1>. QED
  BY <1>1, <1>4, <1>5 DEF Stay

LEMMA FailRacers ==
  ASSUME SetupInv, NEW p \in Processes, Fail(p), Stay, faulty \subseteq faulty',
         provider' = provider, cleared' = cleared,
         \/ p \in faulty' \/ p \in cleared
         \/ provider = "dynamo" /\ \E t \in Tables : Exists(t)'
  PROVE  RacersSucceed'
<1>1. SUFFICES ASSUME NEW q \in Processes, command'[q] = "create", outcome'[q] = "error",
                      q \notin faulty', q \notin cleared'
               PROVE  provider' = "dynamo" /\ \E t \in Tables : Exists(t)'
  BY DEF RacersSucceed
<1>2. RacersSucceed /\ outcome \in [Processes -> {"none", "ok", "error"}]
  BY TypesInParts DEF SetupInv, ProcessTypes
<1>3. CASE q = p
  BY <1>1, <1>3
<1>4. CASE q # p
  <2>1. outcome'[q] = outcome[q] /\ command' = command
    BY <1>2, <1>4 DEF Fail
  <2>2. provider = "dynamo" /\ \E t \in Tables : Exists(t)
    BY <1>1, <1>2, <2>1 DEF RacersSucceed
  <2>. QED
    BY <1>1, <2>2 DEF Stay
<1>. QED
  BY <1>3, <1>4


(* A table nobody touches stays sound. *)
LEMMA SameTableSound ==
  ASSUME SetupInv, NEW t \in Tables, table'[t] = table[t], provider' = provider,
         table[t].status = "deleting" /\ cleared = Processes => cleared' = Processes,
         t \in released => t \in released'
  PROVE  TableSound(t)'
<1>1. TableSound(t)
  BY DEF SetupInv
<1>2. KeysOf(t)' = KeysOf(t)
  BY SameProvider
<1>. QED
  BY <1>1, <1>2 DEF TableSound, Exists

SettingNames == {"WaitActive", "EnablePITR", "EnableTTL"}

(* Who is about to make a setting still is, unless it was the call passed. *)
LEMMA GoesWillSet ==
  ASSUME SetupInv, NEW p \in Processes, NEW rest, NEW d, Goes(p, rest, d), NEW t, NEW name,
         \/ ~Creator(p, t)
         \/ \A i \in 1..d : calls[p][i].name # name \/ calls[p][i].table # t,
         WillSet(name, t)
  PROVE  WillSet(name, t)'
<1>1. PICK q \in Processes : Creator(q, t) /\ On(calls[q], name, t)
  BY DEF WillSet
<1>2. DOMAIN calls = Processes /\ calls[p] \in Seq(Calls)
  BY TypesInParts DEF SetupInv, ProcessTypes
<1>3. command' = command
  BY DEF Goes, Proceed
<1>4. CASE q # p
  <2>1. calls'[q] = calls[q]
    BY <1>2, <1>4 DEF Goes, Proceed
  <2>. QED
    BY <1>1, <1>3, <2>1 DEF WillSet, Creator
<1>5. CASE q = p
  <2>1. calls'[p] = rest
    BY <1>2 DEF Goes, Proceed
  <2>2. ~On(rest, "CreateTable", t)
    BY <1>1, <1>2, <1>5, ShiftKeeps DEF Goes, Creator
  <2>3. On(rest, name, t)
    BY <1>1, <1>2, <1>5, ShiftStillOn DEF Goes
  <2>. QED
    BY <1>1, <1>3, <1>5, <2>1, <2>2, <2>3 DEF WillSet, Creator
<1>. QED
  BY <1>4, <1>5

(* A process that fails was not the one. *)
LEMMA FailWillSet ==
  ASSUME SetupInv, NEW p \in Processes, Fail(p), NEW t, NEW name,
         ~Creator(p, t) \/ ~On(calls[p], name, t),
         WillSet(name, t)
  PROVE  WillSet(name, t)'
<1>1. PICK q \in Processes : Creator(q, t) /\ On(calls[q], name, t)
  BY DEF WillSet
<1>2. DOMAIN calls = Processes
  BY TypesInParts DEF SetupInv, ProcessTypes
<1>3. q # p
  BY <1>1
<1>4. command' = command /\ calls'[q] = calls[q]
  BY <1>2, <1>3 DEF Fail
<1>. QED
  BY <1>1, <1>4 DEF WillSet, Creator

LEMMA SameTableUnderway ==
  ASSUME SetupInv, NEW t \in Tables, table'[t] = table[t], provider' = provider,
         t \in troubled => t \in troubled',
         t \notin troubled' => \A name \in SettingNames :
           \/ WillSet(name, t) => WillSet(name, t)'
           \/ name = "WaitActive" /\ table[t].status = "active"
  PROVE  SettingsUnderway(t)'
<1>1. SettingsUnderway(t)
  BY DEF SetupInv
<1>. QED
  BY <1>1 DEF SettingsUnderway, SettingNames

(* A process works on no table it does not name. *)
LEMMA NotLeftBehind ==
  ASSUME NEW p, NEW t \in Tables, t \notin LeftBehind(p)
  PROVE  /\ \A i \in DOMAIN calls[p] : calls[p][i].table # t
         /\ \A name : ~On(calls[p], name, t)
BY DEF LeftBehind, On

(* The creator of a table waits for it or sets it up: a process that looks *)
(* for a table, is to create one, or waits for the one it created, is not  *)
(* the creator of another on which it has settings to make.                *)
LEMMA OneCreation ==
  ASSUME SetupInv, NEW p \in Processes, Running(p), provider = "dynamo",
         Head(calls[p]).name \in {"CreateTable", "WaitActive"},
         NEW t \in Tables, t # Head(calls[p]).table, NEW name, Creator(p, t)
  PROVE  ~On(calls[p], name, t)
<1> DEFINE cs == calls[p]
<1>1. /\ cs \in Seq(Calls) /\ 1 \in DOMAIN cs /\ Head(cs) = cs[1] /\ cs[1] \in Calls
      /\ Fits(cs[1], command[p]) /\ CallsInOrder(cs)
  BY NextCall DEF Creator
<1>2. cs[1].table \in Tables
  BY <1>1, CallBelongs
<1>3. CASE cs[1].table = "events"
  <2>1. t = "aggregates"
    BY <1>1, <1>3 DEF Tables
  <2>2. Later(cs, 1, "CreateTable", "aggregates")
    BY <1>1, <1>3 DEF CallsInOrder
  <2>. QED
    BY <2>1, <2>2 DEF Later, On, Creator
<1>4. CASE cs[1].table = "aggregates"
  <2>1. t = "events"
    BY <1>1, <1>4 DEF Tables
  <2>2. \A j \in DOMAIN cs : j > 1 => cs[j].table # "events"
    BY <1>1, <1>4 DEF CallsInOrder
  <2>3. \A j \in DOMAIN cs : j > 1 \/ j = 1
    BY <1>1
  <2>. QED
    BY <1>1, <1>4, <2>1, <2>2, <2>3 DEF On
<1>. QED
  BY <1>2, <1>3, <1>4 DEF Tables

LEMMA DynamoOrCosmos ==
  ASSUME SetupInv
  PROVE  /\ TypeOK /\ table \in [Tables -> TableStates]
         /\ \A t \in Tables :
              table[t] \in TableStates /\ TableSound(t) /\ SettingsUnderway(t)
         /\ \A p \in Processes : Queued(p) /\ Making(p)
         /\ RacersSucceed
<1>1. table \in [Tables -> TableStates]
  BY TypesInParts DEF SetupInv
<1>. QED
  BY <1>1 DEF SetupInv


(* Where there is no DynamoDB there is nothing to set. *)
LEMMA NothingToSet ==
  ASSUME provider # "dynamo", provider' = provider, NEW t
  PROVE  SettingsUnderway(t)'
BY DEF SettingsUnderway

LEMMA InvInParts ==
  SetupInv <=> /\ TypeOK
               /\ \A p \in Processes : Queued(p)
               /\ \A p \in Processes : Making(p)
               /\ \A t \in Tables : TableSound(t)
               /\ \A t \in Tables : SettingsUnderway(t)
               /\ RacersSucceed
BY DEF SetupInv

-----------------------------------------------------------------------------
(***************************************************************************)
(* Each step keeps the invariant.                                          *)
(***************************************************************************)
(* A process goes on, its call without effect on a table. *)
LEMMA NoEffectStep ==
  ASSUME SetupInv, NEW p \in Processes, NEW rest, NEW d, Goes(p, rest, d),
         database' \in BOOLEAN, started' = started, table' = table, released' = released,
         troubled \subseteq troubled', troubled' \subseteq Tables,
         faulty \subseteq faulty', faulty' \subseteq Processes,
         \A i \in 1..d, t \in Tables :
           calls[p][i].name = Creation /\ calls[p][i].table = t => Exists(t),
         \A t \in Tables, name \in SettingNames :
           \/ t \in troubled' \/ provider # "dynamo" \/ ~Creator(p, t)
           \/ name = "WaitActive" /\ table[t].status = "active"
           \/ \A i \in 1..d : calls[p][i].name # name \/ calls[p][i].table # t
  PROVE  SetupInv'
<1>1. provider' = provider /\ cleared' = cleared
  BY DEF Goes
<1>2. Stay
  BY DEF Stay, Exists
<1>3. TypeOK'
  <2>1. ProcessTypes'
    BY GoesTypes
  <2>. QED
    BY <1>1, <2>1, TypesAfter, TypesInParts DEF SetupInv
<1>4. \A q \in Processes : Queued(q)'
  BY GoesQueued
<1>5. \A q \in Processes : Making(q)'
  <2>1. \A i \in 1..d, t \in Tables :
          calls[p][i].name = Creation /\ calls[p][i].table = t => Exists(t)'
    BY DEF Exists
  <2>. QED
    BY <1>2, <2>1, GoesMaking
<1>6. \A t \in Tables : TableSound(t)'
  BY <1>1, SameTableSound
<1>7. ASSUME NEW t \in Tables PROVE SettingsUnderway(t)'
  <2>1. CASE provider # "dynamo"
    BY <1>1, <2>1, NothingToSet
  <2>2. CASE provider = "dynamo"
    <3>1. ASSUME t \notin troubled', NEW name \in SettingNames, WillSet(name, t),
                 ~(name = "WaitActive" /\ table[t].status = "active")
          PROVE  WillSet(name, t)'
      BY <2>2, <3>1, GoesWillSet
    <3>. QED
      BY <1>1, <3>1, SameTableUnderway
  <2>. QED
    BY <2>1, <2>2
<1>8. RacersSucceed'
  BY <1>2, GoesRacers
<1>. QED
  BY <1>3, <1>4, <1>5, <1>6, <1>7, <1>8 DEF SetupInv

(* A command ends with an error, no table touched. *)
LEMMA NoEffectFail ==
  ASSUME SetupInv, NEW p \in Processes, Fail(p),
         provider' = provider, cleared' = cleared,
         database' \in BOOLEAN, started' = started, table' = table, released' = released,
         troubled \subseteq troubled', troubled' \subseteq Tables,
         faulty \subseteq faulty', faulty' \subseteq Processes,
         \/ p \in faulty' \/ p \in cleared
         \/ provider = "dynamo" /\ \E t \in Tables : Exists(t),
         \A t \in Tables :
           \/ t \in troubled' \/ provider # "dynamo"
           \/ table[t].status \notin {"creating", "active"}
           \/ ~Creator(p, t)
           \/ \A name \in SettingNames : ~On(calls[p], name, t)
  PROVE  SetupInv'
<1>2. Stay
  BY DEF Stay, Exists
<1>3. TypeOK'
  <2>1. ProcessTypes'
    BY FailTypes
  <2>. QED
    BY <2>1, TypesAfter, TypesInParts DEF SetupInv
<1>4. \A q \in Processes : Queued(q)'
  BY FailQueued
<1>5. \A q \in Processes : Making(q)'
  BY <1>2, FailMaking
<1>6. \A t \in Tables : TableSound(t)'
  BY SameTableSound
<1>7. ASSUME NEW t \in Tables PROVE SettingsUnderway(t)'
  <2>1. CASE provider # "dynamo"
    BY <2>1, NothingToSet
  <2>2. CASE table[t].status \notin {"creating", "active"} \/ t \in troubled'
    BY <2>2 DEF SettingsUnderway
  <2>3. CASE /\ provider = "dynamo" /\ t \notin troubled'
             /\ table[t].status \in {"creating", "active"}
    <3>1. ASSUME NEW name \in SettingNames, WillSet(name, t)
          PROVE  WillSet(name, t)'
      BY <2>3, <3>1, FailWillSet
    <3>. QED
      BY <3>1, SameTableUnderway
  <2>. QED
    BY <2>1, <2>2, <2>3
<1>8. RacersSucceed'
  <2>1. \/ p \in faulty' \/ p \in cleared
        \/ provider = "dynamo" /\ \E t \in Tables : Exists(t)'
    BY DEF Exists
  <2>. QED
    BY <1>2, <2>1, FailRacers
<1>. QED
  BY <1>3, <1>4, <1>5, <1>6, <1>7, <1>8 DEF SetupInv

LEMMA TableExistsStep ==
  ASSUME SetupInv, NEW p \in Processes, TableExists(p)
  PROVE  SetupInv'
<1> DEFINE cs == calls[p]
<1> PICK t : t = Head(cs).table
  OBVIOUS
<1> PICK rest : rest = IF Exists(t) THEN Others(cs, t) ELSE Tail(cs)
  OBVIOUS
<1>1. /\ cs \in Seq(Calls) /\ cs # <<>> /\ 1 \in 1..Len(cs) /\ 1 \in DOMAIN cs
      /\ Head(cs) = cs[1] /\ cs[1] \in Calls
      /\ Tail(cs) \in Seq(Calls) /\ Shift(cs, Tail(cs), 1)
      /\ Fits(cs[1], command[p]) /\ (command[p] = "create" => CallsInOrder(cs))
  BY NextCall DEF TableExists, At
<1>2. cs[1].name = "TableExists" /\ cs[1].table = t
  BY <1>1 DEF TableExists, At
<1>3. command[p] = "create" /\ t \in Tables
  BY <1>1, <1>2, CallBelongs
<1>4. /\ Proceed(p, rest) /\ UNCHANGED <<provider, database, table, history>>
  BY DEF TableExists
<1>5. /\ provider' = provider /\ cleared' = cleared /\ started' = started
      /\ table' = table /\ released' = released /\ troubled' = troubled /\ faulty' = faulty
      /\ database' = database
  BY <1>4 DEF history
<1>6. database \in BOOLEAN /\ troubled \subseteq Tables /\ faulty \subseteq Processes
  BY DEF SetupInv, TypeOK
<1>7. Later(cs, 1, Creation, t)
  BY <1>1, <1>2, <1>3 DEF CallsInOrder
<1>8. provider = "dynamo" => ~Creator(p, t)
  BY <1>7 DEF Later, On, Creator, Creation
<1>9. CASE Exists(t)
  <2>1. rest = Others(cs, t)
    BY <1>9
  <2>2. cs \in Seq(Calls) /\ cs # <<>> /\ cs[1].table = t
    BY <1>1, <1>2
  <2>3. \E d \in 1..Len(cs) :
          Shift(cs, Others(cs, t), d) /\ \A i \in 1..d : cs[i].table = t
    BY <2>2, OthersShifts, Zenon
  <2>4. PICK d \in 1..Len(cs) : Shift(cs, rest, d) /\ \A i \in 1..d : cs[i].table = t
    BY <2>1, <2>3, Zenon
  <2>5. Goes(p, rest, d)
    BY <1>1, <1>2, <1>4, <1>5, <2>1, <2>4, OthersShifts DEF Goes
  <2>6. \A i \in 1..d, u \in Tables :
          calls[p][i].name = Creation /\ calls[p][i].table = u => Exists(u)
    BY <1>9, <2>4
  <2>7. \A u \in Tables, name \in SettingNames :
          \/ u \in troubled' \/ provider # "dynamo" \/ ~Creator(p, u)
          \/ name = "WaitActive" /\ table[u].status = "active"
          \/ \A i \in 1..d : calls[p][i].name # name \/ calls[p][i].table # u
    BY <1>8, <2>4
  <2>. QED
    BY <1>5, <1>6, <2>5, <2>6, <2>7, NoEffectStep
<1>10. CASE ~Exists(t)
  <2>1. Goes(p, rest, 1)
    BY <1>1, <1>4, <1>5, <1>10 DEF Goes
  <2>2. \A i \in 1..1 : i = 1
    OBVIOUS
  <2>3. \A i \in 1..1, u \in Tables :
          calls[p][i].name = Creation /\ calls[p][i].table = u => Exists(u)
    BY <1>2, <2>2 DEF Creation
  <2>4. \A u \in Tables, name \in SettingNames :
          \/ u \in troubled' \/ provider # "dynamo" \/ ~Creator(p, u)
          \/ name = "WaitActive" /\ table[u].status = "active"
          \/ \A i \in 1..1 : calls[p][i].name # name \/ calls[p][i].table # u
    BY <1>2, <2>2 DEF SettingNames
  <2>. QED
    BY <1>5, <1>6, <2>1, <2>3, <2>4, NoEffectStep
<1>. QED
  BY <1>9, <1>10


(* A process goes on, its call of effect on its table. *)
LEMMA EffectStep ==
  ASSUME SetupInv, NEW p \in Processes, Running(p), NEW t \in Tables,
         NEW value \in TableStates,
         Head(calls[p]).table = t, Proceed(p, Tail(calls[p])), SetTable(t, value),
         provider' = provider, database' = database, started' = started, cleared' = cleared,
         \A u \in Tables : u # t => (u \in released => u \in released'),
         released' \subseteq Tables, troubled' = troubled, faulty' = faulty,
         cleared # Processes => (Exists(t) => Exists(t)'),
         Head(calls[p]).name = Creation => Exists(t)',
         TableSound(t)', SettingsUnderway(t)'
  PROVE  SetupInv'
<1>1. /\ calls[p] \in Seq(Calls) /\ 1 \in 1..Len(calls[p])
      /\ Head(calls[p]) = calls[p][1] /\ calls[p][1] \in Calls
      /\ Tail(calls[p]) \in Seq(Calls) /\ Shift(calls[p], Tail(calls[p]), 1)
  BY NextCall
<1>2. Goes(p, Tail(calls[p]), 1)
  BY <1>1 DEF Goes
<1>3. table \in [Tables -> TableStates]
  BY DynamoOrCosmos
<1>4. /\ table' \in [Tables -> TableStates]
      /\ \A u \in Tables : u # t => table'[u] = table[u]
  BY <1>3 DEF SetTable
<1>5. Stay
  BY <1>4 DEF Stay, Exists
<1>6. TypeOK'
  <2>1. ProcessTypes'
    BY <1>2, GoesTypes
  <2>. QED
    BY <1>4, <2>1, TypesAfter, TypesInParts DEF SetupInv
<1>7. \A q \in Processes : Queued(q)'
  BY <1>2, GoesQueued
<1>8. \A q \in Processes : Making(q)'
  <2>1. \A i \in 1..1 : i = 1
    OBVIOUS
  <2>2. \A i \in 1..1, u \in Tables :
          calls[p][i].name = Creation /\ calls[p][i].table = u => Exists(u)'
    BY <1>1, <2>1
  <2>. QED
    BY <1>2, <1>5, <2>2, GoesMaking
<1>9. \A u \in Tables : TableSound(u)'
  <2>1. TAKE u \in Tables
  <2>2. u # t => TableSound(u)'
    BY <1>4, SameTableSound
  <2>. QED
    BY <2>2
<1>10. \A u \in Tables : SettingsUnderway(u)'
  <2>1. TAKE u \in Tables
  <2>2. CASE u # t
    <3>1. \A i \in 1..1 : i = 1
      OBVIOUS
    <3>2. ASSUME NEW name \in SettingNames, WillSet(name, u)
          PROVE  WillSet(name, u)'
      <4>1. \A i \in 1..1 : calls[p][i].name # name \/ calls[p][i].table # u
        BY <1>1, <2>2, <3>1
      <4>. QED
        BY <1>2, <3>2, <4>1, GoesWillSet
    <3>3. table'[u] = table[u]
      BY <1>4, <2>2
    <3>. QED
      BY <3>2, <3>3, SameTableUnderway
  <2>. QED
    BY <2>2
<1>11. RacersSucceed'
  BY <1>2, <1>5, GoesRacers
<1>. QED
  BY <1>6, <1>7, <1>8, <1>9, <1>10, <1>11 DEF SetupInv

LEMMA AtCall ==
  ASSUME SetupInv, NEW p \in Processes, NEW name, At(p, name)
  PROVE  LET cs == calls[p] IN
         /\ Running(p)
         /\ cs \in Seq(Calls) /\ cs # <<>> /\ 1 \in 1..Len(cs) /\ 1 \in DOMAIN cs
         /\ Head(cs) = cs[1] /\ cs[1] \in Calls /\ cs[1].name = name
         /\ Tail(cs) \in Seq(Calls) /\ Shift(cs, Tail(cs), 1)
         /\ Fits(cs[1], command[p])
         /\ command[p] = "create" => CallsInOrder(cs)
         /\ \A i \in 1..1 : i = 1
<1>1. Running(p)
  BY DEF At
<1>2. \A i \in 1..1 : i = 1
  OBVIOUS
<1>. QED
  BY <1>1, <1>2, NextCall DEF At

LEMMA PlainTypes ==
  ASSUME SetupInv
  PROVE  /\ database \in BOOLEAN /\ troubled \subseteq Tables /\ faulty \subseteq Processes
         /\ released \subseteq Tables
BY DEF SetupInv, TypeOK

LEMMA CreateTableStep ==
  ASSUME SetupInv, NEW p \in Processes, CreateTable(p)
  PROVE  SetupInv'
<1> DEFINE cs == calls[p]
<1> PICK t : t = Head(cs).table
  OBVIOUS
<1>1. /\ cs \in Seq(Calls) /\ cs # <<>> /\ 1 \in 1..Len(cs) /\ 1 \in DOMAIN cs
      /\ Head(cs) = cs[1] /\ cs[1] \in Calls
      /\ Tail(cs) \in Seq(Calls) /\ Shift(cs, Tail(cs), 1)
      /\ Fits(cs[1], command[p]) /\ (command[p] = "create" => CallsInOrder(cs))
      /\ Running(p)
  BY NextCall DEF CreateTable, At
<1>2. cs[1].name = "CreateTable" /\ cs[1].table = t
  BY <1>1 DEF CreateTable, At
<1>3. command[p] = "create" /\ provider = "dynamo" /\ t \in Tables /\ cs[1].keys = KeysOf(t)
  BY <1>1, <1>2, CallBelongs
<1>4. UNCHANGED <<provider, database, history>>
  BY DEF CreateTable
<1>5. /\ provider' = provider /\ cleared' = cleared /\ started' = started
      /\ released' = released /\ troubled' = troubled /\ faulty' = faulty
      /\ database' = database
  BY <1>4 DEF history
<1>6. /\ database \in BOOLEAN /\ troubled \subseteq Tables /\ faulty \subseteq Processes
      /\ released \subseteq Tables
  BY DEF SetupInv, TypeOK
<1>7. CASE Exists(t)
  <2>1. Fail(p) /\ table' = table
    BY <1>7 DEF CreateTable
  <2>2. \A u \in Tables :
          ~Creator(p, u) \/ \A name \in SettingNames : ~On(cs, name, u)
    <3>1. TAKE u \in Tables
    <3>2. u = t => ~Creator(p, u)
      BY <1>1, <1>2 DEF Creator, On
    <3>3. u # t => (Creator(p, u) => \A name \in SettingNames : ~On(cs, name, u))
      BY <1>1, <1>2, <1>3, OneCreation
    <3>. QED
      BY <3>2, <3>3
  <2>. QED
    BY <1>3, <1>5, <1>6, <1>7, <2>1, <2>2, NoEffectFail
<1>8. CASE ~Exists(t)
  <2> DEFINE value == Created(KeysOf(t))
  <2>1. Proceed(p, Tail(cs)) /\ SetTable(t, value)
    BY <1>1, <1>3, <1>8 DEF CreateTable
  <2>2. KeysOf(t) \in Keys
    BY KeysType DEF KeysOf
  <2>3. value \in TableStates
    BY <2>2 DEF Created, TableStates
  <2>4. table'[t] = value
    BY <1>3, <2>1, DynamoOrCosmos DEF SetTable
  <2>5. /\ table'[t].status = "creating" /\ table'[t].keys = KeysOf(t)
        /\ table'[t].protected = TRUE
    BY <2>4 DEF Created
  <2>6. TableSound(t)'
    <3>1. KeysOf(t)' = KeysOf(t)
      BY <1>5, SameProvider
    <3>. QED
      BY <1>3, <1>5, <2>5, <3>1 DEF TableSound, Exists
  <2>7. WillSet("WaitActive", t)'
    <3>1. Later(cs, 1, "WaitActive", t) /\ ~Later(cs, 1, "CreateTable", t)
      BY <1>1, <1>2, <1>3 DEF CallsInOrder
    <3>2. On(cs, "WaitActive", t)
      BY <3>1 DEF Later, On
    <3>3. \A i \in 1..1 : cs[i].name # "WaitActive" \/ cs[i].table # t
      BY <1>2
    <3>4. On(Tail(cs), "WaitActive", t)
      BY <1>1, <3>2, <3>3, ShiftStillOn
    <3>5. ~On(Tail(cs), "CreateTable", t)
      <4>1. SUFFICES ASSUME NEW i \in DOMAIN Tail(cs), Tail(cs)[i].name = "CreateTable",
                            Tail(cs)[i].table = t
                     PROVE  FALSE
        BY DEF On
      <4>2. i + 1 \in DOMAIN cs /\ Tail(cs)[i] = cs[i + 1]
        BY <1>1, ShiftKeeps
      <4>3. i + 1 > 1
        BY <1>1
      <4>. QED
        BY <3>1, <4>1, <4>2, <4>3 DEF Later
    <3>6. calls'[p] = Tail(cs) /\ command' = command
      BY <2>1, TypesInParts DEF SetupInv, ProcessTypes, Proceed
    <3>. QED
      BY <1>3, <3>4, <3>5, <3>6 DEF WillSet, Creator
  <2>8. SettingsUnderway(t)'
    BY <2>5, <2>7 DEF SettingsUnderway
  <2>9. Exists(t)'
    BY <2>5 DEF Exists
  <2> HIDE DEF value
  <2>. QED
    BY <1>1, <1>2, <1>3, <1>5, <1>6, <2>1, <2>3, <2>6, <2>8, <2>9, EffectStep
<1>. QED
  BY <1>7, <1>8


LEMMA WaitActiveStep ==
  ASSUME SetupInv, NEW p \in Processes, WaitActive(p)
  PROVE  SetupInv'
<1> DEFINE cs == calls[p]
<1> PICK t : t = Head(cs).table
  OBVIOUS
<1>1. /\ cs \in Seq(Calls) /\ 1 \in 1..Len(cs) /\ Head(cs) = cs[1]
      /\ cs[1].name = "WaitActive" /\ \A i \in 1..1 : i = 1
      /\ Tail(cs) \in Seq(Calls) /\ Shift(cs, Tail(cs), 1)
  BY AtCall DEF WaitActive
<1>2. /\ table[t].status = "active" /\ Proceed(p, Tail(cs))
      /\ UNCHANGED <<provider, database, table, history>>
  BY DEF WaitActive
<1>3. Goes(p, Tail(cs), 1)
  BY <1>1, <1>2 DEF Goes, history
<1>4. \A i \in 1..1, u \in Tables :
        cs[i].name = Creation /\ cs[i].table = u => Exists(u)
  BY <1>1 DEF Creation
<1>5. \A u \in Tables, name \in SettingNames :
        \/ u \in troubled' \/ provider # "dynamo" \/ ~Creator(p, u)
        \/ name = "WaitActive" /\ table[u].status = "active"
        \/ \A i \in 1..1 : cs[i].name # name \/ cs[i].table # u
  BY <1>1, <1>2
<1>6. /\ database' = database /\ started' = started /\ table' = table
      /\ released' = released /\ troubled' = troubled /\ faulty' = faulty
  BY <1>2 DEF history
<1>. QED
  BY <1>3, <1>4, <1>5, <1>6, PlainTypes, NoEffectStep

LEMMA WaitTimesOutStep ==
  ASSUME SetupInv, NEW p \in Processes, WaitTimesOut(p)
  PROVE  SetupInv'
<1> DEFINE cs == calls[p]
<1> PICK t : t = Head(cs).table
  OBVIOUS
<1>1. /\ Running(p) /\ cs \in Seq(Calls) /\ 1 \in DOMAIN cs /\ Head(cs) = cs[1]
      /\ cs[1] \in Calls /\ Fits(cs[1], command[p])
      /\ cs[1].name = "WaitActive" /\ cs[1].table = t
      /\ command[p] = "create" => CallsInOrder(cs)
  BY AtCall DEF WaitTimesOut
<1>2. command[p] = "create" /\ provider = "dynamo" /\ t \in Tables
  BY <1>1, CallBelongs
<1>3. /\ table[t].status # "active"
      /\ troubled' = (IF table[t].status = "creating" THEN troubled \cup {t} ELSE troubled)
      /\ faulty' = (IF table[t].status = "creating" THEN faulty \cup {p} ELSE faulty)
      /\ Fail(p)
  BY DEF WaitTimesOut
<1>4. /\ provider' = provider /\ database' = database /\ table' = table
      /\ started' = started /\ cleared' = cleared /\ released' = released
  BY DEF WaitTimesOut
<1>5. /\ troubled \subseteq troubled' /\ troubled' \subseteq Tables
      /\ faulty \subseteq faulty' /\ faulty' \subseteq Processes
  BY <1>2, <1>3, PlainTypes
<1>6. \/ p \in faulty' \/ p \in cleared
      \/ provider = "dynamo" /\ \E u \in Tables : Exists(u)
  <2>1. SUFFICES ASSUME table[t].status # "creating", p \notin cleared PROVE Exists(t)
    BY <1>2, <1>3
  <2>2. Making(p) /\ outcome[p] = "none"
    BY <1>1, NextCall DEF SetupInv
  <2>3. On(cs, "CreateTable", t) => Exists(t)
    <3>1. ~Later(cs, 1, "CreateTable", t)
      BY <1>1, <1>2 DEF CallsInOrder
    <3>2. \A j \in DOMAIN cs : j > 1 \/ j = 1
      BY <1>1
    <3>. QED
      BY <1>1, <3>1, <3>2 DEF Later, On
  <2>. QED
    BY <1>2, <2>1, <2>2, <2>3 DEF Making, Creation
<1>7. \A u \in Tables :
        \/ u \in troubled' \/ table[u].status \notin {"creating", "active"}
        \/ ~Creator(p, u)
        \/ \A name \in SettingNames : ~On(cs, name, u)
  <2>1. TAKE u \in Tables
  <2>2. CASE u = t
    BY <1>3, <2>2
  <2>3. CASE u # t
    BY <1>1, <1>2, <2>3, OneCreation
  <2>. QED
    BY <2>2, <2>3
<1>. QED
  BY <1>3, <1>4, <1>5, <1>6, <1>7, PlainTypes, NoEffectFail

(* A setting is made, or refused on a table that is not active. *)
LEMMA EnablePITRStep ==
  ASSUME SetupInv, NEW p \in Processes, EnablePITR(p)
  PROVE  SetupInv'
<1> DEFINE cs == calls[p]
<1> PICK t : t = Head(cs).table
  OBVIOUS
<1>1. /\ Running(p) /\ cs \in Seq(Calls) /\ 1 \in 1..Len(cs) /\ Head(cs) = cs[1]
      /\ cs[1] \in Calls /\ Fits(cs[1], command[p])
      /\ cs[1].name = "EnablePITR" /\ cs[1].table = t
      /\ Tail(cs) \in Seq(Calls) /\ Shift(cs, Tail(cs), 1) /\ \A i \in 1..1 : i = 1
  BY AtCall DEF EnablePITR
<1>2. t \in Tables
  BY <1>1, CallBelongs
<1> PICK value : value = IF table[t].status = "active"
                         THEN [table[t] EXCEPT !.pitr = TRUE] ELSE table[t]
  OBVIOUS
<1>3. Proceed(p, Tail(cs)) /\ SetTable(t, value)
  BY DEF EnablePITR
<1>4. /\ provider' = provider /\ database' = database
      /\ started' = started /\ cleared' = cleared /\ released' = released
      /\ troubled' = troubled /\ faulty' = faulty
  BY DEF EnablePITR, history
<1>5. table[t] \in TableStates /\ table \in [Tables -> TableStates]
      /\ TableSound(t) /\ SettingsUnderway(t)
  BY <1>2, DynamoOrCosmos
<1>6. /\ value \in TableStates
      /\ value.status = table[t].status /\ value.keys = table[t].keys
      /\ value.protected = table[t].protected /\ value.ttl = table[t].ttl
      /\ table[t].status = "active" => value.pitr = TRUE
  BY <1>5 DEF TableStates
<1>7. table'[t] = value
  BY <1>2, <1>3, <1>5 DEF SetTable
<1>8. TableSound(t)'
  <2>1. KeysOf(t)' = KeysOf(t)
    BY <1>4, SameProvider
  <2>. QED
    BY <1>4, <1>5, <1>6, <1>7, <2>1 DEF TableSound, Exists
<1>9. \A name \in SettingNames \ {"EnablePITR"} : WillSet(name, t) => WillSet(name, t)'
  <2>1. Goes(p, Tail(cs), 1)
    BY <1>1, <1>3, <1>4 DEF Goes
  <2>2. TAKE name \in SettingNames \ {"EnablePITR"}
  <2>3. \A i \in 1..1 : cs[i].name # name
    BY <1>1
  <2>. QED
    BY <2>1, <2>3, GoesWillSet
<1>10. SettingsUnderway(t)'
  BY <1>4, <1>5, <1>6, <1>7, <1>9 DEF SettingsUnderway, SettingNames
<1>11. Exists(t) => Exists(t)'
  BY <1>6, <1>7 DEF Exists
<1>12. cs[1].name # Creation
  BY <1>1 DEF Creation
<1>. QED
  BY <1>1, <1>2, <1>3, <1>4, <1>6, <1>8, <1>10, <1>11, <1>12, PlainTypes, EffectStep

LEMMA EnableTTLStep ==
  ASSUME SetupInv, NEW p \in Processes, EnableTTL(p)
  PROVE  SetupInv'
<1> DEFINE cs == calls[p]
<1> PICK t : t = Head(cs).table
  OBVIOUS
<1>1. /\ Running(p) /\ cs \in Seq(Calls) /\ 1 \in 1..Len(cs) /\ Head(cs) = cs[1]
      /\ cs[1] \in Calls /\ Fits(cs[1], command[p])
      /\ cs[1].name = "EnableTTL" /\ cs[1].table = t
      /\ Tail(cs) \in Seq(Calls) /\ Shift(cs, Tail(cs), 1) /\ \A i \in 1..1 : i = 1
  BY AtCall DEF EnableTTL
<1>2. t \in Tables
  BY <1>1, CallBelongs
<1> PICK value : value = IF table[t].status = "active"
                         THEN [table[t] EXCEPT !.ttl = TRUE] ELSE table[t]
  OBVIOUS
<1>3. Proceed(p, Tail(cs)) /\ SetTable(t, value)
  BY DEF EnableTTL
<1>4. /\ provider' = provider /\ database' = database
      /\ started' = started /\ cleared' = cleared /\ released' = released
      /\ troubled' = troubled /\ faulty' = faulty
  BY DEF EnableTTL, history
<1>5. table[t] \in TableStates /\ table \in [Tables -> TableStates]
      /\ TableSound(t) /\ SettingsUnderway(t)
  BY <1>2, DynamoOrCosmos
<1>6. /\ value \in TableStates
      /\ value.status = table[t].status /\ value.keys = table[t].keys
      /\ value.protected = table[t].protected /\ value.pitr = table[t].pitr
      /\ table[t].status = "active" => value.ttl = TRUE
      /\ table[t].ttl => value.ttl
  BY <1>5 DEF TableStates
<1>7. table'[t] = value
  BY <1>2, <1>3, <1>5 DEF SetTable
<1>8. TableSound(t)'
  <2>1. KeysOf(t)' = KeysOf(t)
    BY <1>4, SameProvider
  <2>. QED
    BY <1>4, <1>5, <1>6, <1>7, <2>1 DEF TableSound, Exists
<1>9. \A name \in SettingNames \ {"EnableTTL"} : WillSet(name, t) => WillSet(name, t)'
  <2>1. Goes(p, Tail(cs), 1)
    BY <1>1, <1>3, <1>4 DEF Goes
  <2>2. TAKE name \in SettingNames \ {"EnableTTL"}
  <2>3. \A i \in 1..1 : cs[i].name # name
    BY <1>1
  <2>. QED
    BY <2>1, <2>3, GoesWillSet
<1>10. SettingsUnderway(t)'
  BY <1>4, <1>5, <1>6, <1>7, <1>9 DEF SettingsUnderway, SettingNames
<1>11. Exists(t) => Exists(t)'
  BY <1>6, <1>7 DEF Exists
<1>12. cs[1].name # Creation
  BY <1>1 DEF Creation
<1>. QED
  BY <1>1, <1>2, <1>3, <1>4, <1>6, <1>8, <1>10, <1>11, <1>12, PlainTypes, EffectStep


LEMMA ReadDatabaseStep ==
  ASSUME SetupInv, NEW p \in Processes, ReadDatabase(p)
  PROVE  SetupInv'
<1> DEFINE cs == calls[p]
           rest == IF database THEN Others(cs, "database") ELSE Tail(cs)
<1>1. /\ cs \in Seq(Calls) /\ cs # <<>> /\ 1 \in 1..Len(cs) /\ Head(cs) = cs[1]
      /\ cs[1] \in Calls /\ Fits(cs[1], command[p])
      /\ cs[1].name = "ReadDatabase" /\ \A i \in 1..1 : i = 1
      /\ Tail(cs) \in Seq(Calls) /\ Shift(cs, Tail(cs), 1)
  BY AtCall DEF ReadDatabase
<1>2. cs[1].table = "database"
  BY <1>1 DEF Fits
<1>3. Proceed(p, rest)
  BY DEF ReadDatabase
<1>4. /\ provider' = provider /\ database' = database /\ table' = table
      /\ started' = started /\ cleared' = cleared /\ released' = released
      /\ troubled' = troubled /\ faulty' = faulty
  BY DEF ReadDatabase, history
<1>5. /\ rest \in Seq(Calls)
      /\ \E d \in 1..Len(cs) :
           Shift(cs, rest, d) /\ \A i \in 1..d : cs[i].table = "database"
  <2>1. CASE database
    <3>1. rest = Others(cs, "database")
      BY <2>1
    <3> HIDE DEF rest
    <3>. QED
      BY <1>1, <1>2, <3>1, OthersShifts
  <2>2. CASE ~database
    <3>1. rest = Tail(cs)
      BY <2>2
    <3> HIDE DEF rest
    <3>. QED
      BY <1>1, <1>2, <3>1
  <2>. QED
    BY <2>1, <2>2
<1>6. PICK d \in 1..Len(cs) : Shift(cs, rest, d) /\ \A i \in 1..d : cs[i].table = "database"
  BY <1>5
<1> HIDE DEF rest
<1>7. Goes(p, rest, d)
  BY <1>3, <1>4, <1>5, <1>6 DEF Goes
<1>8. \A i \in 1..d, u \in Tables : cs[i].table # u
  BY <1>6 DEF Tables
<1>. QED
  BY <1>4, <1>7, <1>8, PlainTypes, NoEffectStep

LEMMA CreateDatabaseStep ==
  ASSUME SetupInv, NEW p \in Processes, CreateDatabase(p)
  PROVE  SetupInv'
<1> DEFINE cs == calls[p]
<1>1. /\ cs \in Seq(Calls) /\ 1 \in 1..Len(cs) /\ Head(cs) = cs[1]
      /\ cs[1] \in Calls /\ Fits(cs[1], command[p])
      /\ cs[1].name = "CreateDatabase" /\ \A i \in 1..1 : i = 1
      /\ Tail(cs) \in Seq(Calls) /\ Shift(cs, Tail(cs), 1)
  BY AtCall DEF CreateDatabase
<1>2. cs[1].table = "database"
  BY <1>1 DEF Fits
<1>3. /\ provider' = provider /\ database' = TRUE /\ table' = table
      /\ started' = started /\ cleared' = cleared /\ released' = released
      /\ troubled' = troubled /\ faulty' = faulty
  BY DEF CreateDatabase, history
<1>4. Goes(p, Tail(cs), 1)
  BY <1>1, <1>3 DEF Goes, CreateDatabase
<1>5. \A i \in 1..1, u \in Tables : cs[i].table # u
  BY <1>1, <1>2 DEF Tables
<1>. QED
  BY <1>3, <1>4, <1>5, PlainTypes, NoEffectStep

LEMMA CreateContainerStep ==
  ASSUME SetupInv, NEW p \in Processes, CreateContainer(p)
  PROVE  SetupInv'
<1> DEFINE cs == calls[p]
<1> PICK t : t = Head(cs).table
  OBVIOUS
<1>1. /\ Running(p) /\ Head(cs) = cs[1] /\ cs[1] \in Calls /\ Fits(cs[1], command[p])
      /\ cs[1].name = "CreateContainer" /\ cs[1].table = t
  BY AtCall DEF CreateContainer
<1>2. t \in Tables /\ provider # "dynamo" /\ cs[1].keys = KeysOf(t)
  BY <1>1, CallBelongs
<1> PICK value : value = IF Exists(t) THEN table[t] ELSE Container(KeysOf(t))
  OBVIOUS
<1>3. Proceed(p, Tail(cs)) /\ SetTable(t, value)
  BY <1>1, <1>2 DEF CreateContainer
<1>4. /\ provider' = provider /\ database' = database
      /\ started' = started /\ cleared' = cleared /\ released' = released
      /\ troubled' = troubled /\ faulty' = faulty
  BY DEF CreateContainer, history
<1>5. table[t] \in TableStates /\ table \in [Tables -> TableStates] /\ TableSound(t)
  BY <1>2, DynamoOrCosmos
<1>6. /\ value \in TableStates /\ value.status = "active"
      /\ value.keys = KeysOf(t) /\ value.ttl
  <2>1. KeysOf(t) \in Keys
    BY KeysType DEF KeysOf
  <2>2. Container(KeysOf(t)) \in TableStates
    BY <2>1 DEF Container, TableStates
  <2>3. CASE Exists(t)
    BY <1>2, <1>5, <2>3 DEF TableSound, Exists
  <2>4. CASE ~Exists(t)
    BY <2>2, <2>4 DEF Container
  <2>. QED
    BY <2>3, <2>4
<1>7. table'[t] = value
  BY <1>2, <1>3, <1>5 DEF SetTable
<1>8. TableSound(t)'
  <2>1. KeysOf(t)' = KeysOf(t)
    BY <1>4, SameProvider
  <2>. QED
    BY <1>2, <1>4, <1>6, <1>7, <2>1 DEF TableSound, Exists
<1>9. SettingsUnderway(t)'
  BY <1>2, <1>4, NothingToSet
<1>10. Exists(t)'
  BY <1>6, <1>7 DEF Exists
<1>. QED
  BY <1>1, <1>2, <1>3, <1>4, <1>6, <1>8, <1>9, <1>10, PlainTypes, EffectStep

(* Protection comes off a table, or off none. *)
LEMMA DisableProtectionStep ==
  ASSUME SetupInv, NEW p \in Processes, DisableProtection(p)
  PROVE  SetupInv'
<1> DEFINE cs == calls[p]
<1> PICK t : t = Head(cs).table
  OBVIOUS
<1>1. /\ Running(p) /\ cs \in Seq(Calls) /\ 1 \in 1..Len(cs) /\ Head(cs) = cs[1]
      /\ cs[1] \in Calls /\ Fits(cs[1], command[p])
      /\ cs[1].name = "DisableProtection" /\ cs[1].table = t
      /\ Tail(cs) \in Seq(Calls) /\ Shift(cs, Tail(cs), 1) /\ \A i \in 1..1 : i = 1
  BY AtCall DEF DisableProtection
<1>2. t \in Tables
  BY <1>1, CallBelongs
<1> PICK value : value = IF table[t].status = "active"
                         THEN [table[t] EXCEPT !.protected = FALSE] ELSE table[t]
  OBVIOUS
<1>5. table[t] \in TableStates /\ table \in [Tables -> TableStates]
      /\ TableSound(t) /\ SettingsUnderway(t)
  BY <1>2, DynamoOrCosmos
<1>3. /\ Proceed(p, Tail(cs)) /\ SetTable(t, value)
      /\ released' = (IF table[t].status = "active" THEN released \cup {t} ELSE released)
  <2>1. CASE table[t].status = "active"
    BY <2>1 DEF DisableProtection
  <2>2. CASE table[t].status # "active"
    <3>1. table' = table /\ released' = released /\ Proceed(p, Tail(cs))
      BY <2>2 DEF DisableProtection
    <3>2. table = [table EXCEPT ![t] = table[t]]
      BY <1>5
    <3>. QED
      BY <2>2, <3>1, <3>2 DEF SetTable
  <2>. QED
    BY <2>1, <2>2
<1>4. /\ provider' = provider /\ database' = database
      /\ started' = started /\ cleared' = cleared
      /\ troubled' = troubled /\ faulty' = faulty
  BY DEF DisableProtection
<1>6. /\ value \in TableStates
      /\ value.status = table[t].status /\ value.keys = table[t].keys
      /\ value.ttl = table[t].ttl /\ value.pitr = table[t].pitr
      /\ value.protected # table[t].protected => table[t].status = "active"
  BY <1>5 DEF TableStates
<1>7. table'[t] = value
  BY <1>2, <1>3, <1>5 DEF SetTable
<1>8. TableSound(t)'
  <2>1. KeysOf(t)' = KeysOf(t)
    BY <1>4, SameProvider
  <2>2. t \in released => t \in released'
    BY <1>3
  <2>3. table[t].status = "active" => t \in released'
    BY <1>3
  <2>4. value.protected = table[t].protected \/ table[t].status = "active"
    BY <1>6
  <2>. QED
    BY <1>4, <1>5, <1>6, <1>7, <2>1, <2>2, <2>3, <2>4 DEF TableSound, Exists
<1>9. \A name \in SettingNames : WillSet(name, t) => WillSet(name, t)'
  <2>1. Goes(p, Tail(cs), 1)
    BY <1>1, <1>3, <1>4 DEF Goes
  <2>2. TAKE name \in SettingNames
  <2>3. \A i \in 1..1 : cs[i].name # name
    BY <1>1 DEF SettingNames
  <2>. QED
    BY <2>1, <2>3, GoesWillSet
<1>10. SettingsUnderway(t)'
  BY <1>4, <1>5, <1>6, <1>7, <1>9 DEF SettingsUnderway, SettingNames
<1>11. Exists(t) => Exists(t)'
  BY <1>6, <1>7 DEF Exists
<1>12. cs[1].name # Creation
  BY <1>1 DEF Creation
<1>13. \A u \in Tables : u # t => (u \in released => u \in released')
  BY <1>3
<1>14. released' \subseteq Tables
  BY <1>2, <1>3, PlainTypes
<1>. QED
  BY <1>1, <1>2, <1>3, <1>4, <1>6, <1>8, <1>10, <1>11, <1>12, <1>13, <1>14, EffectStep

(* A table goes only for a command that says so, and once it was released. *)
LEMMA DeleteTableStep ==
  ASSUME SetupInv, NEW p \in Processes, DeleteTable(p)
  PROVE  SetupInv'
<1> DEFINE cs == calls[p]
<1> PICK t : t = Head(cs).table
  OBVIOUS
<1>1. /\ Running(p) /\ cs \in Seq(Calls) /\ 1 \in 1..Len(cs) /\ Head(cs) = cs[1]
      /\ cs[1] \in Calls /\ Fits(cs[1], command[p])
      /\ cs[1].name = "DeleteTable" /\ cs[1].table = t
      /\ Tail(cs) \in Seq(Calls) /\ Shift(cs, Tail(cs), 1) /\ \A i \in 1..1 : i = 1
  BY AtCall DEF DeleteTable
<1>2. t \in Tables /\ command[p] = "delete" /\ provider = "dynamo"
  BY <1>1, CallBelongs
<1>3. cleared = Processes
  BY <1>1, <1>2 DEF SetupInv, Queued
<1> PICK value : value = IF table[t].status = "active" /\ ~table[t].protected
                         THEN [table[t] EXCEPT !.status = "deleting"] ELSE table[t]
  OBVIOUS
<1>4. Proceed(p, Tail(cs)) /\ SetTable(t, value)
  BY DEF DeleteTable
<1>5. /\ provider' = provider /\ database' = database
      /\ started' = started /\ cleared' = cleared /\ released' = released
      /\ troubled' = troubled /\ faulty' = faulty
  BY DEF DeleteTable, history
<1>6. table[t] \in TableStates /\ table \in [Tables -> TableStates]
      /\ TableSound(t) /\ SettingsUnderway(t)
  BY <1>2, DynamoOrCosmos
<1>7. /\ value \in TableStates
      /\ value.keys = table[t].keys /\ value.protected = table[t].protected
      /\ value.ttl = table[t].ttl /\ value.pitr = table[t].pitr
      /\ \/ value.status = table[t].status
         \/ /\ value.status = "deleting" /\ table[t].status = "active"
            /\ ~table[t].protected
  BY <1>6 DEF TableStates
<1>8. table'[t] = value
  BY <1>2, <1>4, <1>6 DEF SetTable
<1>9. TableSound(t)'
  <2>1. KeysOf(t)' = KeysOf(t)
    BY <1>5, SameProvider
  <2>. QED
    BY <1>2, <1>3, <1>5, <1>6, <1>7, <1>8, <2>1 DEF TableSound, Exists
<1>10. \A name \in SettingNames : WillSet(name, t) => WillSet(name, t)'
  <2>1. Goes(p, Tail(cs), 1)
    BY <1>1, <1>4, <1>5 DEF Goes
  <2>2. TAKE name \in SettingNames
  <2>3. \A i \in 1..1 : cs[i].name # name
    BY <1>1 DEF SettingNames
  <2>. QED
    BY <2>1, <2>3, GoesWillSet
<1>11. SettingsUnderway(t)'
  BY <1>5, <1>6, <1>7, <1>8, <1>10 DEF SettingsUnderway, SettingNames
<1>12. cs[1].name # Creation
  BY <1>1 DEF Creation
<1>. QED
  BY <1>1, <1>2, <1>3, <1>4, <1>5, <1>7, <1>9, <1>11, <1>12, PlainTypes, EffectStep

LEMMA DeleteContainerStep ==
  ASSUME SetupInv, NEW p \in Processes, DeleteContainer(p)
  PROVE  SetupInv'
<1> DEFINE cs == calls[p]
<1> PICK t : t = Head(cs).table
  OBVIOUS
<1>1. /\ Running(p) /\ Head(cs) = cs[1] /\ cs[1] \in Calls /\ Fits(cs[1], command[p])
      /\ cs[1].name = "DeleteContainer" /\ cs[1].table = t
  BY AtCall DEF DeleteContainer
<1>2. t \in Tables /\ command[p] = "delete" /\ provider # "dynamo"
  BY <1>1, CallBelongs
<1>3. cleared = Processes
  BY <1>1, <1>2 DEF SetupInv, Queued
<1>4. Proceed(p, Tail(cs)) /\ SetTable(t, NoTable)
  BY DEF DeleteContainer
<1>5. /\ provider' = provider /\ database' = database
      /\ started' = started /\ cleared' = cleared /\ released' = released
      /\ troubled' = troubled /\ faulty' = faulty
  BY DEF DeleteContainer, history
<1>6. NoTable \in TableStates
  BY DEF NoTable, TableStates, Keys
<1>7. table'[t] = NoTable
  BY <1>2, <1>4, DynamoOrCosmos DEF SetTable
<1>8. TableSound(t)'
  BY <1>2, <1>5, <1>7 DEF TableSound, Exists, NoTable
<1>9. SettingsUnderway(t)'
  BY <1>2, <1>5, NothingToSet
<1>10. cs[1].name # Creation
  BY <1>1 DEF Creation
<1>. QED
  BY <1>1, <1>2, <1>3, <1>4, <1>5, <1>6, <1>8, <1>9, <1>10, PlainTypes, EffectStep


(***************************************************************************)
(* Faults.  The tables a process leaves behind are in trouble.             *)
(***************************************************************************)
LEMMA CallFailsStep ==
  ASSUME SetupInv, NEW p \in Processes, CallFails(p)
  PROVE  SetupInv'
<1> DEFINE cs == calls[p]
<1>1. /\ Running(p) /\ Trouble(p) /\ UNCHANGED <<provider, database, table>>
      /\ IF Head(cs).name \in Ignored THEN Proceed(p, Tail(cs)) ELSE Fail(p)
  BY DEF CallFails
<1>2. /\ provider' = provider /\ database' = database /\ table' = table
      /\ started' = started /\ cleared' = cleared /\ released' = released
      /\ troubled' = troubled \cup LeftBehind(p) /\ faulty' = faulty \cup {p}
  BY <1>1 DEF Trouble
<1>3. /\ troubled \subseteq troubled' /\ troubled' \subseteq Tables
      /\ faulty \subseteq faulty' /\ faulty' \subseteq Processes /\ p \in faulty'
      /\ database' \in BOOLEAN
  BY <1>2, PlainTypes DEF LeftBehind
<1>4. \A u \in Tables : u \notin troubled' =>
        /\ \A i \in DOMAIN cs : cs[i].table # u
        /\ \A name : ~On(cs, name, u)
  BY <1>2, NotLeftBehind
<1>5. /\ cs \in Seq(Calls) /\ 1 \in 1..Len(cs) /\ 1 \in DOMAIN cs /\ Head(cs) = cs[1]
      /\ Tail(cs) \in Seq(Calls) /\ Shift(cs, Tail(cs), 1)
  BY <1>1, NextCall
<1>6. CASE Head(cs).name \in Ignored
  <2>1. Goes(p, Tail(cs), 1)
    BY <1>1, <1>2, <1>5, <1>6 DEF Goes
  <2>2. \A i \in 1..1 : i = 1
    OBVIOUS
  <2>3. \A i \in 1..1, u \in Tables :
          cs[i].name = Creation /\ cs[i].table = u => Exists(u)
    <3>1. Creation \notin Ignored
      BY DEF Creation, Ignored
    <3>. QED
      BY <1>5, <1>6, <2>2, <3>1
  <2>4. \A u \in Tables :
          u \in troubled' \/ \A i \in 1..1 : cs[i].table # u
    BY <1>4, <1>5, <2>2
  <2>. QED
    BY <1>2, <1>3, <2>1, <2>3, <2>4, NoEffectStep
<1>7. CASE Head(cs).name \notin Ignored
  <2>1. Fail(p)
    BY <1>1, <1>7
  <2>. QED
    BY <1>2, <1>3, <1>4, <2>1, NoEffectFail
<1>. QED
  BY <1>6, <1>7

LEMMA DatabaseReplyLostStep ==
  ASSUME SetupInv, NEW p \in Processes, DatabaseReplyLost(p)
  PROVE  SetupInv'
<1>1. /\ Trouble(p) /\ Fail(p) /\ provider' = provider /\ table' = table
      /\ database' = TRUE
  BY DEF DatabaseReplyLost
<1>2. /\ started' = started /\ cleared' = cleared /\ released' = released
      /\ troubled' = troubled \cup LeftBehind(p) /\ faulty' = faulty \cup {p}
  BY <1>1 DEF Trouble
<1>3. /\ troubled \subseteq troubled' /\ troubled' \subseteq Tables
      /\ faulty \subseteq faulty' /\ faulty' \subseteq Processes /\ p \in faulty'
      /\ database' \in BOOLEAN
  BY <1>1, <1>2, PlainTypes DEF LeftBehind
<1>4. \A u \in Tables : u \notin troubled' => \A name : ~On(calls[p], name, u)
  BY <1>2, NotLeftBehind
<1>. QED
  BY <1>1, <1>2, <1>3, <1>4, NoEffectFail

LEMMA CrashStep ==
  ASSUME SetupInv, NEW p \in Processes, Crash(p)
  PROVE  SetupInv'
<1>1. /\ Trouble(p) /\ Fail(p) /\ provider' = provider /\ table' = table
      /\ database' = database
  BY DEF Crash
<1>2. /\ started' = started /\ cleared' = cleared /\ released' = released
      /\ troubled' = troubled \cup LeftBehind(p) /\ faulty' = faulty \cup {p}
  BY <1>1 DEF Trouble
<1>3. /\ troubled \subseteq troubled' /\ troubled' \subseteq Tables
      /\ faulty \subseteq faulty' /\ faulty' \subseteq Processes /\ p \in faulty'
      /\ database' \in BOOLEAN
  BY <1>1, <1>2, PlainTypes DEF LeftBehind
<1>4. \A u \in Tables : u \notin troubled' => \A name : ~On(calls[p], name, u)
  BY <1>2, NotLeftBehind
<1>. QED
  BY <1>1, <1>2, <1>3, <1>4, NoEffectFail

(* The creation that was told to have failed: the table is there, and      *)
(* nobody will set it up.                                                  *)
LEMMA CreateReplyLostStep ==
  ASSUME SetupInv, NEW p \in Processes, CreateReplyLost(p)
  PROVE  SetupInv'
<1> DEFINE cs == calls[p]
<1> PICK t : t = Head(cs).table
  OBVIOUS
<1>1. At(p, "CreateTable") \/ At(p, "CreateContainer")
  BY DEF CreateReplyLost
<1>2. /\ Running(p) /\ 1 \in DOMAIN cs /\ Head(cs) = cs[1] /\ cs[1] \in Calls
      /\ Fits(cs[1], command[p]) /\ cs[1].name \in {"CreateTable", "CreateContainer"}
      /\ cs[1].table = t
  BY <1>1, AtCall
<1>3. /\ t \in Tables /\ cs[1].keys = KeysOf(t)
      /\ cs[1].name = "CreateTable" <=> provider = "dynamo"
  BY <1>2, CallBelongs
<1> PICK value : value = IF cs[1].name = "CreateTable" THEN Created(KeysOf(t))
                         ELSE Container(KeysOf(t))
  OBVIOUS
<1>4. ~Exists(t) /\ SetTable(t, value) /\ Trouble(p) /\ Fail(p)
      /\ provider' = provider /\ database' = database
  BY <1>2, <1>3 DEF CreateReplyLost
<1>5. /\ started' = started /\ cleared' = cleared /\ released' = released
      /\ troubled' = troubled \cup LeftBehind(p) /\ faulty' = faulty \cup {p}
  BY <1>4 DEF Trouble
<1>6. /\ troubled \subseteq troubled' /\ troubled' \subseteq Tables
      /\ faulty \subseteq faulty' /\ faulty' \subseteq Processes /\ p \in faulty'
  BY <1>5, PlainTypes DEF LeftBehind
<1>7. table \in [Tables -> TableStates]
  BY DynamoOrCosmos
<1>8. /\ value \in TableStates /\ value.keys = KeysOf(t)
      /\ value.status = (IF provider = "dynamo" THEN "creating" ELSE "active")
      /\ provider = "dynamo" => value.protected = TRUE
      /\ provider # "dynamo" => value.ttl = TRUE
  <2>1. KeysOf(t) \in Keys
    BY KeysType DEF KeysOf
  <2>. QED
    BY <1>3, <2>1 DEF Created, Container, TableStates
<1>9. /\ table' \in [Tables -> TableStates] /\ table'[t] = value
      /\ \A u \in Tables : u # t => table'[u] = table[u]
  BY <1>3, <1>4, <1>7, <1>8 DEF SetTable
<1>10. Stay
  BY <1>4, <1>9 DEF Stay, Exists
<1>11. TypeOK'
  <2>1. ProcessTypes'
    BY <1>4, FailTypes
  <2>. QED
    BY <1>4, <1>5, <1>6, <1>9, <2>1, TypesAfter, TypesInParts DEF SetupInv
<1>12. \A q \in Processes : Queued(q)'
  BY <1>4, <1>5, FailQueued
<1>13. \A q \in Processes : Making(q)'
  BY <1>4, <1>5, <1>10, FailMaking
<1>14. ASSUME NEW u \in Tables PROVE TableSound(u)'
  <2>1. CASE u = t
    <3>1. KeysOf(t)' = KeysOf(t)
      BY <1>4, SameProvider
    <3>. QED
      BY <1>4, <1>8, <1>9, <2>1, <3>1 DEF TableSound, Exists
  <2>2. CASE u # t
    BY <1>4, <1>5, <1>9, <2>2, SameTableSound
  <2>. QED
    BY <2>1, <2>2
<1>15. ASSUME NEW u \in Tables PROVE SettingsUnderway(u)'
  <2>1. CASE u \in troubled'
    BY <2>1 DEF SettingsUnderway
  <2>2. CASE u \notin troubled'
    <3>1. u \notin LeftBehind(p)
      BY <1>5, <2>2
    <3>2. u # t /\ \A name : ~On(cs, name, u)
      BY <1>2, <3>1, NotLeftBehind
    <3>3. table'[u] = table[u]
      BY <1>9, <3>2
    <3>4. \A name \in SettingNames : WillSet(name, u) => WillSet(name, u)'
      BY <1>4, <3>2, FailWillSet
    <3>. QED
      BY <1>4, <1>6, <3>3, <3>4, SameTableUnderway
  <2>. QED
    BY <2>1, <2>2
<1>16. RacersSucceed'
  BY <1>4, <1>5, <1>6, <1>10, FailRacers
<1>. QED
  BY <1>11, <1>12, <1>13, <1>14, <1>15, <1>16 DEF SetupInv

(***************************************************************************)
(* The provider.                                                           *)
(***************************************************************************)
(* No process moves. *)
LEMMA ProcessesStay ==
  ASSUME SetupInv, process' = process, provider' = provider, cleared' = cleared,
         faulty' = faulty, Stay
  PROVE  /\ ProcessTypes'
         /\ \A p \in Processes : Queued(p)' /\ Making(p)'
         /\ \A name, t : WillSet(name, t) => WillSet(name, t)'
         /\ RacersSucceed'
<1>1. calls' = calls /\ command' = command /\ outcome' = outcome
  BY DEF process
<1>2. /\ \A call, c : Fits(call, c)' <=> Fits(call, c)
      /\ \A cs : CallsInOrder(cs)' <=> CallsInOrder(cs)
      /\ Creation' = Creation
  BY SameProvider
<1>3. ProcessTypes'
  BY <1>1, TypesInParts DEF SetupInv, ProcessTypes
<1>4. ASSUME NEW p \in Processes PROVE Queued(p)' /\ Making(p)'
  <2>1. Queued(p) /\ Making(p)
    BY DEF SetupInv
  <2>2. Queued(p)'
    BY <1>1, <1>2, <2>1 DEF Queued, Running
  <2>3. Making(p)'
    BY <1>1, <1>2, <2>1 DEF Making, Stay
  <2>. QED
    BY <2>2, <2>3
<1>5. \A name, t : WillSet(name, t) => WillSet(name, t)'
  BY <1>1 DEF WillSet, Creator
<1>6. RacersSucceed'
  BY <1>1 DEF SetupInv, RacersSucceed, Stay
<1>. QED
  BY <1>3, <1>4, <1>5, <1>6

LEMMA BecomeActiveStep ==
  ASSUME SetupInv, NEW t \in Tables, BecomeActive(t)
  PROVE  SetupInv'
<1>1. /\ table[t].status = "creating"
      /\ SetTable(t, [table[t] EXCEPT !.status = "active"])
      /\ provider' = provider /\ database' = database /\ process' = process
      /\ started' = started /\ cleared' = cleared /\ released' = released
      /\ troubled' = troubled /\ faulty' = faulty
  BY DEF BecomeActive, history
<1>2. /\ table \in [Tables -> TableStates] /\ table[t] \in TableStates
      /\ TableSound(t) /\ SettingsUnderway(t)
  BY DynamoOrCosmos
<1> PICK value : value = [table[t] EXCEPT !.status = "active"]
  OBVIOUS
<1>3. /\ value \in TableStates /\ value.status = "active" /\ value.keys = table[t].keys
      /\ value.protected = table[t].protected /\ value.ttl = table[t].ttl
  BY <1>2 DEF TableStates
<1>4. /\ table' \in [Tables -> TableStates] /\ table'[t] = value
      /\ \A u \in Tables : u # t => table'[u] = table[u]
  BY <1>1, <1>2, <1>3 DEF SetTable
<1>5. Stay
  BY <1>3, <1>4 DEF Stay, Exists
<1>6. /\ ProcessTypes'
      /\ \A p \in Processes : Queued(p)' /\ Making(p)'
      /\ \A name, u : WillSet(name, u) => WillSet(name, u)'
      /\ RacersSucceed'
  BY <1>1, <1>5, ProcessesStay
<1>7. TypeOK'
  BY <1>1, <1>4, <1>6, TypesAfter, TypesInParts DEF SetupInv
<1>8. ASSUME NEW u \in Tables PROVE TableSound(u)'
  <2>1. CASE u = t
    <3>1. KeysOf(t)' = KeysOf(t)
      BY <1>1, SameProvider
    <3>. QED
      BY <1>1, <1>2, <1>3, <1>4, <2>1, <3>1 DEF TableSound, Exists
  <2>2. CASE u # t
    BY <1>1, <1>4, <2>2, SameTableSound
  <2>. QED
    BY <2>1, <2>2
(* Who waits for the table is to make both settings. *)
<1>9. provider = "dynamo" /\ WillSet("WaitActive", t) =>
        WillSet("EnablePITR", t) /\ WillSet("EnableTTL", t)
  <2>1. SUFFICES ASSUME provider = "dynamo", NEW p \in Processes, Creator(p, t),
                        On(calls[p], "WaitActive", t)
                 PROVE  On(calls[p], "EnablePITR", t) /\ On(calls[p], "EnableTTL", t)
    BY DEF WillSet
  <2>2. CallsInOrder(calls[p])
    BY <2>1 DEF SetupInv, Queued, Creator
  <2>. QED
    BY <2>1, <2>2 DEF CallsInOrder, On, Later
<1>10. ASSUME NEW u \in Tables PROVE SettingsUnderway(u)'
  <2>1. CASE u = t
    <3>1. SUFFICES ASSUME provider = "dynamo", t \notin troubled
                   PROVE  WillSet("EnablePITR", t)' /\ WillSet("EnableTTL", t)'
      BY <1>1, <1>3, <1>4, <2>1 DEF SettingsUnderway
    <3>2. WillSet("WaitActive", t)
      BY <1>1, <1>2, <3>1 DEF SettingsUnderway
    <3>. QED
      BY <1>6, <1>9, <3>1, <3>2
  <2>2. CASE u # t
    BY <1>1, <1>4, <1>6, <2>2, SameTableUnderway
  <2>. QED
    BY <2>1, <2>2
<1>. QED
  BY <1>6, <1>7, <1>8, <1>10 DEF SetupInv

LEMMA VanishStep ==
  ASSUME SetupInv, NEW t \in Tables, Vanish(t)
  PROVE  SetupInv'
<1>1. /\ table[t].status = "deleting" /\ SetTable(t, NoTable)
      /\ provider' = provider /\ database' = database /\ process' = process
      /\ started' = started /\ cleared' = cleared /\ released' = released \ {t}
      /\ troubled' = troubled \ {t} /\ faulty' = faulty
  BY DEF Vanish
<1>2. /\ table \in [Tables -> TableStates] /\ TableSound(t)
  BY DynamoOrCosmos
<1>3. NoTable \in TableStates
  BY DEF NoTable, TableStates, Keys
<1>4. /\ table' \in [Tables -> TableStates] /\ table'[t] = NoTable
      /\ \A u \in Tables : u # t => table'[u] = table[u]
  BY <1>1, <1>2, <1>3 DEF SetTable
<1>5. cleared = Processes
  BY <1>1, <1>2 DEF TableSound
<1>6. /\ ProcessTypes'
      /\ \A p \in Processes : Queued(p)' /\ Making(p)'
      /\ \A name, u : WillSet(name, u) => WillSet(name, u)'
      /\ RacersSucceed'
  BY <1>1, <1>5, ProcessesStay DEF Stay
<1>7. TypeOK'
  <2>1. released' \subseteq Tables /\ troubled' \subseteq Tables
    BY <1>1, PlainTypes
  <2>. QED
    BY <1>1, <1>4, <1>6, <2>1, TypesAfter, TypesInParts DEF SetupInv
<1>8. ASSUME NEW u \in Tables PROVE TableSound(u)'
  <2>1. CASE u = t
    BY <1>1, <1>2, <1>4, <2>1 DEF TableSound, Exists, NoTable
  <2>2. CASE u # t
    BY <1>1, <1>4, <2>2, SameTableSound
  <2>. QED
    BY <2>1, <2>2
<1>9. ASSUME NEW u \in Tables PROVE SettingsUnderway(u)'
  <2>1. CASE u = t
    BY <1>4, <2>1 DEF SettingsUnderway, NoTable
  <2>2. CASE u # t
    BY <1>1, <1>4, <1>6, <2>2, SameTableUnderway
  <2>. QED
    BY <2>1, <2>2
<1>. QED
  BY <1>6, <1>7, <1>8, <1>9 DEF SetupInv


(* A command begins with calls that fit it; nobody was waiting for a       *)
(* process that had no call to make.                                       *)
LEMMA StartStep ==
  ASSUME SetupInv, NEW p \in Processes,
         NEW c \in {"create", "fix", "delete", "disable-protection"}, Start(p, c)
  PROVE  SetupInv'
<1>1. /\ ~Running(p) /\ started < MaxCommands /\ c \in Offered
      /\ started' = started + 1
      /\ command' = [command EXCEPT ![p] = c]
      /\ calls' = [calls EXCEPT ![p] = CallsOf(c)]
      /\ outcome' = [outcome EXCEPT ![p] = "none"]
      /\ cleared' = (IF c = "delete" THEN Processes
                     ELSE IF Deleting THEN cleared ELSE cleared \ {p})
      /\ faulty' = faulty \ {p}
      /\ provider' = provider /\ database' = database /\ table' = table
      /\ released' = released /\ troubled' = troubled
  BY DEF Start
<1>2. ProcessTypes
  BY TypesInParts DEF SetupInv
<1>3. /\ command'[p] = c /\ calls'[p] = CallsOf(c) /\ outcome'[p] = "none"
      /\ \A q \in Processes : q # p =>
           command'[q] = command[q] /\ calls'[q] = calls[q] /\ outcome'[q] = outcome[q]
  BY <1>1, <1>2 DEF ProcessTypes
<1>4. /\ CallsOf(c) \in Seq(Calls)
      /\ \A i \in DOMAIN CallsOf(c) : Fits(CallsOf(c)[i], c)
      /\ c = "create" =>
           /\ CallsInOrder(CallsOf(c))
           /\ \A t \in Tables : On(CallsOf(c), Creation, t)
  BY <1>1, CommandFits, ProviderIs DEF SetupInv
<1>5. /\ \A call, k : Fits(call, k)' <=> Fits(call, k)
      /\ \A cs : CallsInOrder(cs)' <=> CallsInOrder(cs)
      /\ Creation' = Creation
  BY <1>1, SameProvider
<1>6. TypeOK'
  <2>1. ProcessTypes'
    <3>1. command' \in
            [Processes -> {"none", "create", "fix", "delete", "disable-protection"}]
      BY <1>1, <1>2 DEF ProcessTypes
    <3>2. outcome' \in [Processes -> {"none", "ok", "error"}]
      BY <1>1, <1>2 DEF ProcessTypes
    <3>3. DOMAIN calls' = Processes
      BY <1>1, <1>2 DEF ProcessTypes
    <3>4. \A q \in Processes : calls'[q] \in Seq(Calls)
      BY <1>2, <1>3, <1>4 DEF ProcessTypes
    <3>. QED
      BY <3>1, <3>2, <3>3, <3>4 DEF ProcessTypes
  <2>2. started' \in 0..MaxCommands
    BY <1>1, SetupAssumption DEF SetupInv, TypeOK
  <2>3. table' \in [Tables -> TableStates] /\ cleared' \subseteq Processes
        /\ faulty' \subseteq Processes
    BY <1>1, TypesInParts DEF SetupInv
  <2>. QED
    BY <1>1, <2>1, <2>2, <2>3, TypesAfter, PlainTypes
<1>7. ASSUME NEW q \in Processes PROVE Queued(q)' /\ Making(q)'
  <2>1. Queued(q) /\ Making(q)
    BY DEF SetupInv
  <2>2. CASE q = p
    <3>1. Queued(p)'
      BY <1>1, <1>3, <1>4, <1>5 DEF Queued, Running
    <3>2. Making(p)'
      BY <1>3, <1>4, <1>5 DEF Making
    <3>. QED
      BY <2>2, <3>1, <3>2
  <2>3. CASE q # p
    <3>1. command[q] = "delete" /\ Running(q) => cleared' = Processes
      BY <1>1, <2>1 DEF Queued, Deleting
    <3>2. Queued(q)'
      BY <1>1, <1>3, <1>5, <2>1, <2>3, <3>1 DEF Queued, Running
    <3>3. Making(q)'
      BY <1>1, <1>3, <1>5, <2>1, <2>3 DEF Making, Exists
    <3>. QED
      BY <3>2, <3>3
  <2>. QED
    BY <2>2, <2>3
<1>8. ASSUME NEW t \in Tables PROVE TableSound(t)'
  <2>1. table[t].status = "deleting" /\ cleared = Processes => cleared' = Processes
    BY <1>1 DEF Deleting
  <2>. QED
    BY <1>1, <2>1, SameTableSound
<1>9. ASSUME NEW t \in Tables PROVE SettingsUnderway(t)'
  <2>1. ASSUME NEW name, WillSet(name, t) PROVE WillSet(name, t)'
    <3>1. PICK q \in Processes : Creator(q, t) /\ On(calls[q], name, t)
      BY <2>1 DEF WillSet
    <3>2. q # p
      <4>1. calls[p] = <<>> /\ DOMAIN <<>> = {}
        BY <1>1 DEF Running
      <4>. QED
        BY <3>1, <4>1 DEF On
    <3>. QED
      BY <1>3, <3>1, <3>2 DEF WillSet, Creator
  <2>. QED
    BY <1>1, <2>1, SameTableUnderway
<1>10. RacersSucceed'
  <2>1. SUFFICES ASSUME NEW q \in Processes, command'[q] = "create", outcome'[q] = "error",
                        q \notin faulty', q \notin cleared'
                 PROVE  provider' = "dynamo" /\ \E t \in Tables : Exists(t)'
    BY DEF RacersSucceed
  <2>2. q # p
    BY <1>3, <2>1
  <2>. QED
    BY <1>1, <1>3, <2>1, <2>2 DEF SetupInv, RacersSucceed, Exists
<1>. QED
  BY <1>6, <1>7, <1>8, <1>9, <1>10 DEF SetupInv

LEMMA SetupInitially ==
  ASSUME Init
  PROVE  SetupInv
<1>1. TypeOK
  <2>1. <<>> \in Seq([name : CallNames, table : Tables \cup {"database"}, keys : Keys])
    OBVIOUS
  <2>2. table \in [Tables ->
          [status : {"absent", "creating", "active", "deleting"}, keys : Keys,
           protected : BOOLEAN, pitr : BOOLEAN, ttl : BOOLEAN]]
    BY DEF Init, NoTable, Keys
  <2>3. started \in 0..MaxCommands
    BY SetupAssumption DEF Init
  <2>. QED
    BY <2>1, <2>2, <2>3 DEF Init, TypeOK
<1>2. ASSUME NEW p \in Processes PROVE Queued(p) /\ Making(p)
  <2>1. /\ command[p] = "none" /\ calls[p] = <<>> /\ DOMAIN <<>> = {}
    BY DEF Init
  <2>. QED
    BY <2>1 DEF Queued, Making
<1>3. ASSUME NEW t \in Tables PROVE TableSound(t) /\ SettingsUnderway(t)
  <2>1. table[t] = NoTable
    BY DEF Init
  <2>. QED
    BY <2>1 DEF TableSound, SettingsUnderway, Exists, NoTable
<1>4. RacersSucceed
  BY DEF Init, RacersSucceed
<1>. QED
  BY <1>1, <1>2, <1>3, <1>4 DEF SetupInv

LEMMA SetupStep ==
  ASSUME SetupInv, [Next]_vars
  PROVE  SetupInv'
<1>1. ASSUME NEW p \in Processes, Continue(p) PROVE SetupInv'
  BY <1>1, TableExistsStep, CreateTableStep, WaitActiveStep, WaitTimesOutStep,
     EnablePITRStep, EnableTTLStep, ReadDatabaseStep, CreateDatabaseStep,
     CreateContainerStep, DisableProtectionStep, DeleteTableStep, DeleteContainerStep
  DEF Continue
<1>2. ASSUME NEW p \in Processes,
             NEW c \in {"create", "fix", "delete", "disable-protection"}, Start(p, c)
      PROVE  SetupInv'
  BY <1>2, StartStep
<1>3. ASSUME NEW p \in Processes,
             CallFails(p) \/ CreateReplyLost(p) \/ DatabaseReplyLost(p) \/ Crash(p)
      PROVE  SetupInv'
  BY <1>3, CallFailsStep, CreateReplyLostStep, DatabaseReplyLostStep, CrashStep
<1>4. ASSUME NEW t \in Tables, BecomeActive(t) \/ Vanish(t) PROVE SetupInv'
  BY <1>4, BecomeActiveStep, VanishStep
<1>5. CASE UNCHANGED vars
  <2>1. /\ process' = process /\ provider' = provider /\ database' = database
        /\ table' = table /\ started' = started /\ cleared' = cleared
        /\ released' = released /\ troubled' = troubled /\ faulty' = faulty
    BY <1>5 DEF vars, history
  <2>2. /\ ProcessTypes'
        /\ \A p \in Processes : Queued(p)' /\ Making(p)'
        /\ \A name, u : WillSet(name, u) => WillSet(name, u)'
        /\ RacersSucceed'
    BY <2>1, ProcessesStay DEF Stay, Exists
  <2>3. TypeOK'
    BY <2>1, <2>2, TypesAfter, TypesInParts DEF SetupInv
  <2>4. \A t \in Tables : TableSound(t)' /\ SettingsUnderway(t)'
    BY <2>1, <2>2, SameTableSound, SameTableUnderway
  <2>. QED
    BY <2>2, <2>3, <2>4 DEF SetupInv
<1>. QED
  BY <1>1, <1>2, <1>3, <1>4, <1>5 DEF Next

-----------------------------------------------------------------------------
(***************************************************************************)
(* The theorems.                                                           *)
(***************************************************************************)
(* The strengthening: the calls queued fit their command and come in       *)
(* order, tables there have the stores' keys and protection, and whatever  *)
(* is not set on one somebody is about to set.                             *)
THEOREM SetupInvariant == Spec => []SetupInv
<1>1. Init => SetupInv
  BY SetupInitially
<1>2. SetupInv /\ [Next]_vars => SetupInv'
  BY SetupStep
<1>. QED
  BY <1>1, <1>2, PTL DEF Spec

(* Tables, commands and the calls queued keep their types.                 *)
THEOREM SetupTypes == Spec => []TypeOK
<1>1. SetupInv => TypeOK
  BY DEF SetupInv
<1>. QED
  BY <1>1, SetupInvariant, PTL

(* EnsureTables and EnsureContainers that report success leave both tables *)
(* with the keys the stores use: for every number of processes that race   *)
(* and whatever fails, unless a deletion came upon the command.            *)
THEOREM SuccessMeansTablesCorrect == Spec => []SuccessMeansTables
<1>1. ASSUME SetupInv PROVE SuccessMeansTables
  <2>1. SUFFICES ASSUME NEW p \in Processes, command[p] = "create", outcome[p] = "ok",
                        p \notin cleared
                 PROVE  \A t \in Tables : Exists(t) /\ table[t].keys = KeysOf(t)
    BY DEF SuccessMeansTables, Tables, KeysOf
  <2>2. Queued(p) /\ Making(p) /\ \A t \in Tables : TableSound(t)
    BY <1>1 DEF SetupInv
  <2>3. calls[p] = <<>> /\ DOMAIN <<>> = {}
    BY <2>1, <2>2 DEF Queued
  <2>4. \A t \in Tables : Exists(t)
    BY <2>1, <2>2, <2>3 DEF Making, On
  <2>. QED
    BY <2>2, <2>4 DEF TableSound
<1>. QED
  BY <1>1, SetupInvariant, PTL

(* A table nobody works on and whose set-up no fault befell expires its    *)
(* records and, on DynamoDB, can be restored.                              *)
THEOREM SettingsCompleteCorrect == Spec => []SettingsComplete
<1>1. ASSUME SetupInv PROVE SettingsComplete
  <2>1. SUFFICES ASSUME NEW t \in Tables, table[t].status = "active", t \notin troubled,
                        \A p \in Processes : t \notin LeftBehind(p)
                 PROVE  table[t].ttl /\ (provider = "dynamo" => table[t].pitr)
    BY DEF SettingsComplete
  <2>2. TableSound(t) /\ SettingsUnderway(t)
    BY <1>1 DEF SetupInv
  <2>3. \A name : ~WillSet(name, t)
    BY <2>1, NotLeftBehind DEF WillSet
  <2>4. CASE provider = "dynamo"
    BY <2>1, <2>2, <2>3, <2>4 DEF SettingsUnderway
  <2>5. CASE provider # "dynamo"
    BY <2>1, <2>2, <2>5 DEF TableSound, Exists
  <2>. QED
    BY <2>4, <2>5
<1>. QED
  BY <1>1, SetupInvariant, PTL

(* Of the processes that create tables at a time, without a fault or a     *)
(* deletion meanwhile, only one that lost a race on DynamoDB fails.        *)
THEOREM RacersSucceedCorrect == Spec => []RacersSucceed
<1>1. SetupInv => RacersSucceed
  BY DEF SetupInv
<1>. QED
  BY <1>1, SetupInvariant, PTL

(* No command of the tools deletes a DynamoDB table that was not released  *)
(* from protection since its creation.                                     *)
THEOREM DeletionReleasedCorrect == Spec => []DeletionReleased
<1>1. ASSUME SetupInv PROVE DeletionReleased
  <2>1. SUFFICES ASSUME NEW t \in Tables, table[t].status = "deleting" PROVE t \in released
    BY DEF DeletionReleased
  <2>2. TableSound(t)
    BY <1>1 DEF SetupInv
  <2>. QED
    BY <2>1, <2>2 DEF TableSound, Exists
<1>. QED
  BY <1>1, SetupInvariant, PTL


=============================================================================
