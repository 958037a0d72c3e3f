----------------------------- MODULE BoltProofs -----------------------------
(***************************************************************************)
(* Proofs about BoltStore, for any number of instances, requests and ids,  *)
(* any limits, and with crashes and failures at any point.                 *)
(***************************************************************************)
EXTENDS BoltStore, TLAPS, FiniteSetTheorems

(* The index is filled shard by shard: none is skipped, so the shards      *)
(* there are suffice.                                                      *)
ShardsFilled ==
  /\ \A id \in DOMAIN index : index[id] <= nextShard
  /\ \A n \in 1..nextShard - 1 : \E id \in DOMAIN index : index[id] = n

(* Who has opened the store has seen a limit. *)
LimitKnown ==
  /\ \A s \in Instances : phase[s] # "new" => maxPerShard # 0
  /\ ShardsWithinLimit

(* A request under way knows its call, and once it has found the shard of  *)
(* its id the index agrees with it for good.                               *)
ShardFound(r) ==
  /\ pc[r] \in {"find", "open", "lock", "opening", "transact"} =>
       owner[r] \in Instances /\ op[r] # NoOperation
  /\ pc[r] \in {"open", "lock", "opening", "transact"} =>
       op[r].id \in DOMAIN index /\ shard[r] = index[op[r].id]

(* The inductive invariant. *)
BoltInv ==
  /\ TypeOK
  /\ ShardsFilled
  /\ LimitKnown
  /\ \A r \in Requests : ShardFound(r)
  /\ RecordsWhereIndexed

-----------------------------------------------------------------------------
(***************************************************************************)
(* Shards.                                                                 *)
(***************************************************************************)
LEMMA ShardsType == Cardinality(Ids) \in Nat /\ IsFiniteSet(Ids) /\ 1 \in Shards
<1>1. IsFiniteSet(Ids)
  BY BoltAssumption
<1>2. Cardinality(Ids) \in Nat
  BY <1>1, FS_CardinalityType
<1>. QED
  BY <1>1, <1>2 DEF Shards

(* As many shards as are all in use need as many ids. *)
LEMMA ShardsSuffice ==
  ASSUME NEW n \in Nat, NEW used \in SUBSET Ids, NEW at,
         \A k \in 1..n : \E id \in used : at[id] = k
  PROVE  n <= Cardinality(Ids)
<1> DEFINE f == [k \in 1..n |-> CHOOSE id \in used : at[id] = k]
<1>1. \A k \in 1..n : f[k] \in Ids /\ at[f[k]] = k
  OBVIOUS
<1>2. f \in [1..n -> Ids]
  BY <1>1
<1>3. \A j, k \in 1..n : f[j] = f[k] => j = k
  BY <1>1
<1>4. f \in Injection(1..n, Ids)
  BY <1>2, <1>3 DEF Injection, IsInjective
<1>. HIDE DEF f
<1>5. Cardinality(1..n) <= Cardinality(Ids)
  BY <1>4, FS_Injection, ShardsType
<1>6. Cardinality(1..n) = n
  <2>1. 1 \in Int /\ n \in Int
    OBVIOUS
  <2>. QED
    BY <2>1, FS_Interval
<1>. QED
  BY <1>5, <1>6

(* A full shard is in use. *)
LEMMA FullInUse ==
  ASSUME TypeOK, NEW n, maxPerShard # 0, CountInShard(n) >= maxPerShard
  PROVE  \E id \in DOMAIN index : index[id] = n
<1> DEFINE S == {id \in DOMAIN index : index[id] = n}
<1>1. DOMAIN index \in SUBSET Ids
  BY DEF TypeOK
<1>2. S \in SUBSET Ids
  BY <1>1
<1>3. IsFiniteSet(S)
  BY <1>2, FS_Subset, ShardsType
<1>4. maxPerShard \in Nat
  <2>1. Range(Limit) \subseteq Nat
    BY BoltAssumption DEF Range
  <2>. QED
    BY <2>1 DEF TypeOK
<1>5. Cardinality(S) >= maxPerShard
  BY DEF CountInShard
<1>6. Cardinality(S) # 0
  <2>1. Cardinality(S) \in Nat
    BY <1>3, FS_CardinalityType
  <2>. QED
    BY <2>1, <1>4, <1>5
<1>7. S # {}
  BY <1>6, FS_EmptySet
<1>. QED
  BY <1>7

-----------------------------------------------------------------------------
(***************************************************************************)
(* Records.                                                                *)
(***************************************************************************)
LEMMA ContentsClosed ==
  ASSUME NEW c \in Contents, NEW b \in Batches
  PROVE  Overwritten(c, b) \in Contents
<1> DEFINE D == UNION {DOMAIN a : a \in Batches}
           V == UNION {Range(a) : a \in Batches}
           m == Overwritten(c, b)
<1>1. PICK S \in SUBSET D : c \in [S -> V]
  BY DEF Contents
<1>2. DOMAIN b \cup S \in SUBSET D
  OBVIOUS
<1>3. \A v \in DOMAIN b : b[v] \in V
  BY DEF Range
<1>4. m \in [DOMAIN b \cup S -> V]
  BY <1>1, <1>3 DEF Overwritten
<1>. QED
  BY <1>2, <1>4 DEF Contents

LEMMA ReadsClosed ==
  ASSUME NEW c \in Contents, NEW operation
  PROVE  ReadOf(operation, c) \in Contents
<1> DEFINE D == UNION {DOMAIN a : a \in Batches}
           V == UNION {Range(a) : a \in Batches}
<1>1. PICK S \in SUBSET D : c \in [S -> V]
  BY DEF Contents
<1>2. \A T : T \subseteq S => Restrict(c, T) \in Contents
  BY <1>1 DEF Contents, Restrict
<1>3. LastVersions(c, operation.n) \in Contents
  BY <1>1, <1>2 DEF LastVersions
<1>. QED
  BY <1>3 DEF ReadOf

LEMMA EmptyInContents == Empty \in Contents
<1> DEFINE D == UNION {DOMAIN a : a \in Batches}
           V == UNION {Range(a) : a \in Batches}
<1>1. Empty \in [{} -> V]
  BY DEF Empty
<1>. QED
  BY <1>1 DEF Contents

(* What the parts of a call are. *)
LEMMA CallType ==
  ASSUME NEW r \in Requests, TypeOK, op[r] # NoOperation
  PROVE  /\ op[r].id \in Ids
         /\ op[r].kind = "save" => op[r].batch \in Batches
<1>1. PICK q \in Requests : op[r] \in Operations[q]
  <2>1. op[r] \in UNION Range(Operations)
    BY DEF TypeOK
  <2>2. DOMAIN Operations = Requests
    BY BoltAssumption
  <2>. QED
    BY <2>1, <2>2 DEF Range
<1>2. op[r] \in [kind : {"save"}, id : Ids, batch : Batches]
                  \cup [kind : {"load"}, id : Ids]
                  \cup [kind : {"loadTail"}, id : Ids, n : Nat]
  BY <1>1, BoltAssumption
<1>. QED
  BY <1>2

(* What is known of a request that returned. *)
LEMMA ReturnType ==
  ASSUME TypeOK, NEW r \in Requests, NEW result \in {"ok", "error", "panic"},
         NEW content \in Contents, Return(r, result, content)
  PROVE  /\ pc' \in [Requests -> Stages]
         /\ op' \in [Requests -> (UNION Range(Operations)) \cup {NoOperation}]
         /\ owner' \in [Requests -> Instances \cup {None}]
         /\ shard' \in [Requests -> Shards \cup {0}]
         /\ answer' \in [Requests -> {"none", "ok", "error", "panic"}]
         /\ history' \in [Requests -> Contents]
  BY DEF Return, Stages, TypeOK

(* The shard a Save is given. *)
LEMMA TargetType ==
  ASSUME BoltInv, NEW r \in Requests, AssignShard(r)
  PROVE  /\ op[r].id \in Ids
         /\ CountInShard(nextShard) >= maxPerShard => nextShard + 1 \in Shards
<1>1. owner[r] \in Instances /\ op[r] # NoOperation
  BY DEF BoltInv, ShardFound, AssignShard
<1>2. op[r].id \in Ids
  BY <1>1, CallType DEF BoltInv
<1>3. ASSUME CountInShard(nextShard) >= maxPerShard
      PROVE  nextShard + 1 \in Shards
  <2>1. maxPerShard # 0
    BY <1>1 DEF BoltInv, LimitKnown, AssignShard
  <2>2. \E id \in DOMAIN index : index[id] = nextShard
    BY <2>1, <1>3, FullInUse DEF BoltInv
  <2>3. nextShard \in Nat \ {0} /\ DOMAIN index \in SUBSET Ids
    BY ShardsType DEF BoltInv, Shards, TypeOK
  <2>4. \A k \in 1..nextShard : \E id \in DOMAIN index : index[id] = k
    BY <2>2, <2>3 DEF BoltInv, ShardsFilled
  <2>5. nextShard <= Cardinality(Ids)
    BY <2>3, <2>4, ShardsSuffice
  <2>. QED
    BY <2>3, <2>5, ShardsType DEF Shards
<1>. QED
  BY <1>2, <1>3

-----------------------------------------------------------------------------
(***************************************************************************)
(* The types are kept.                                                     *)
(***************************************************************************)
LEMMA TypeStep ==
  ASSUME BoltInv, [Next]_vars
  PROVE  TypeOK'
<1> USE EmptyInContents DEF BoltInv, Stages, TypeOK
<1>1. CASE UNCHANGED vars
  BY <1>1 DEF vars, files, request, TypeOK
<1>2. ASSUME NEW s \in Instances, New(s)
      PROVE  TypeOK'
  <2>1. maxPerShard' \in {0} \cup Range(Limit)
    BY <1>2, BoltAssumption DEF New, Range
  <2>. QED
    BY <1>2, <2>1 DEF New, request, TypeOK
<1>3. ASSUME NEW s \in Instances, Close(s)
      PROVE  TypeOK'
  BY <1>3 DEF Close, Released, files, request, TypeOK
<1>4. ASSUME NEW s \in Instances, Crash(s)
      PROVE  TypeOK'
  BY <1>4 DEF Crash, Released, files, TypeOK
<1>5. ASSUME NEW r \in Requests, NEW s \in Instances,
             NEW operation \in Operations[r], Call(r, s, operation)
      PROVE  TypeOK'
  <2>1. operation \in UNION Range(Operations)
    BY <1>5, BoltAssumption DEF Range
  <2>. QED
    BY <1>5, <2>1 DEF Call, files, TypeOK
<1>6. ASSUME NEW r \in Requests, AssignShard(r)
      PROVE  TypeOK'
  <2> DEFINE id == op[r].id
             target == IF id \in DOMAIN index THEN index[id]
                       ELSE IF CountInShard(nextShard) >= maxPerShard
                            THEN nextShard + 1 ELSE nextShard
  <2>1. id \in Ids /\ target \in Shards
    BY <1>6, TargetType
  <2>2. /\ DOMAIN index' \subseteq Ids /\ index' \in [DOMAIN index' -> Shards]
        /\ nextShard' \in Shards
    <3>1. CASE id \in DOMAIN index
      BY <3>1, <1>6 DEF AssignShard
    <3>2. CASE id \notin DOMAIN index
      <4>1. index' = Assigned(id, target) /\ nextShard' = target
        BY <3>2, <1>6 DEF AssignShard
      <4>2. Assigned(id, target) \in [DOMAIN index \cup {id} -> Shards]
        BY <2>1 DEF Assigned
      <4>. QED
        BY <4>1, <4>2, <2>1
    <3>. QED
      BY <3>1, <3>2
  <2>3. shard' = [shard EXCEPT ![r] = target]
    BY <1>6 DEF AssignShard
  <2>. QED
    BY <1>6, <2>1, <2>2, <2>3 DEF AssignShard, TypeOK
<1>7. ASSUME NEW r \in Requests, LookupShard(r)
      PROVE  TypeOK'
  <2>1. CASE op[r].id \in DOMAIN index
    <3>1. index[op[r].id] \in Shards
      BY <2>1
    <3>. QED
      BY <1>7, <2>1, <3>1 DEF LookupShard, files, TypeOK
  <2>2. CASE op[r].id \notin DOMAIN index
    <3>1. Return(r, "ok", Empty)
      BY <1>7, <2>2 DEF LookupShard
    <3>. QED
      BY <1>7, <3>1, ReturnType DEF LookupShard, files, TypeOK
  <2>. QED
    BY <2>1, <2>2
<1>8. ASSUME NEW r \in Requests, FindAfterClose(r) \/ OpenFails(r) \/ TransactStale(r)
      PROVE  TypeOK'
  <2>1. PICK result \in {"error", "panic"} : Return(r, result, Empty)
    BY <1>8 DEF FindAfterClose, OpenFails, TransactStale
  <2>2. mu' \in [Instances -> Requests \cup {None}]
    BY <1>8 DEF FindAfterClose, OpenFails, TransactStale
  <2>3. UNCHANGED <<files, fileLock, phase, shards>>
    BY <1>8 DEF FindAfterClose, OpenFails, TransactStale
  <2>. QED
    BY <2>1, <2>2, <2>3, ReturnType DEF files, TypeOK
<1>9. ASSUME NEW r \in Requests, OpenShared(r) \/ Lock(r)
      PROVE  TypeOK'
  <2>1. pc' \in [Requests -> Stages] /\ mu' \in [Instances -> Requests \cup {None}]
    BY <1>9 DEF OpenShared, Lock
  <2>2. UNCHANGED <<files, fileLock, phase, shards, request>>
    BY <1>9 DEF OpenShared, Lock
  <2>. QED
    BY <2>1, <2>2 DEF files, request, TypeOK
<1>10. ASSUME NEW r \in Requests, OpenFile(r)
       PROVE  TypeOK'
  <2>1. owner[r] \in Instances
    BY <1>10 DEF OpenFile, ShardFound
  <2>2. shard[r] \in Shards
    BY <1>10 DEF OpenFile, ShardFound
  <2>. QED
    BY <1>10, <2>1, <2>2 DEF OpenFile, files, request, TypeOK
<1>11. ASSUME NEW r \in Requests, Transact(r)
       PROVE  TypeOK'
  <2>1. op[r] # NoOperation /\ shard[r] \in Shards
    BY <1>11 DEF Transact, ShardFound
  <2>2. op[r].id \in Ids /\ (op[r].kind = "save" => op[r].batch \in Batches)
    BY <2>1, CallType
  <2>3. records[shard[r]][op[r].id] \in Contents
    BY <2>1, <2>2
  <2>4. CASE op[r].kind = "save"
    <3>1. Overwritten(records[shard[r]][op[r].id], op[r].batch) \in Contents
      BY <2>2, <2>3, <2>4, ContentsClosed
    <3>2. records' = [records EXCEPT ![shard[r]][op[r].id] =
                        Overwritten(records[shard[r]][op[r].id], op[r].batch)]
      BY <1>11, <2>4 DEF Transact
    <3>3. records' \in [Shards -> [Ids -> Contents]]
      BY <3>1, <3>2
    <3>4. Return(r, "ok", Empty)
      BY <1>11, <2>4 DEF Transact
    <3>. QED
      BY <1>11, <3>4, <3>3, ReturnType DEF Transact, TypeOK
  <2>5. CASE op[r].kind # "save"
    <3> DEFINE content == ReadOf(op[r], records[shard[r]][op[r].id])
    <3>1. content \in Contents
      BY <2>3, ReadsClosed
    <3>2. Return(r, "ok", content) /\ records' = records
      BY <1>11, <2>5 DEF Transact
    <3>. QED
      BY <1>11, <3>1, <3>2, ReturnType DEF Transact, TypeOK
  <2>. QED
    BY <2>4, <2>5
<1>. QED
  BY <1>1, <1>2, <1>3, <1>4, <1>5, <1>6, <1>7, <1>8, <1>9, <1>10, <1>11
     DEF Next, Continue

-----------------------------------------------------------------------------
(***************************************************************************)
(* What each step does to the index and to the records.                    *)
(***************************************************************************)
(* The index changes only when a Save of an id without a shard gives it    *)
(* one.                                                                    *)
Assigns(r) ==
  LET target == IF CountInShard(nextShard) >= maxPerShard
                THEN nextShard + 1 ELSE nextShard
  IN  /\ op[r].id \notin DOMAIN index
      /\ index' = Assigned(op[r].id, target)
      /\ nextShard' = target
      /\ UNCHANGED <<maxPerShard, records>>

LEMMA IndexSteps ==
  ASSUME BoltInv, [Next]_vars
  PROVE  \/ UNCHANGED <<index, nextShard>>
         \/ \E r \in Requests : AssignShard(r) /\ Assigns(r)
<1>1. CASE UNCHANGED vars
  BY <1>1 DEF vars, files
<1>2. ASSUME NEW s \in Instances, New(s) \/ Close(s) \/ Crash(s)
      PROVE  UNCHANGED <<index, nextShard>>
  BY <1>2 DEF New, Close, Crash, files
<1>3. ASSUME NEW r \in Requests, NEW s \in Instances, NEW operation, Call(r, s, operation)
      PROVE  UNCHANGED <<index, nextShard>>
  BY <1>3 DEF Call, files
<1>4. ASSUME NEW r \in Requests, AssignShard(r)
      PROVE  UNCHANGED <<index, nextShard>> \/ Assigns(r)
  BY <1>4 DEF AssignShard, Assigns
<1>5. ASSUME NEW r \in Requests,
             \/ LookupShard(r) \/ FindAfterClose(r) \/ OpenShared(r) \/ Lock(r)
             \/ OpenFile(r) \/ OpenFails(r) \/ Transact(r) \/ TransactStale(r)
      PROVE  UNCHANGED <<index, nextShard>>
  BY <1>5 DEF LookupShard, FindAfterClose, OpenShared, Lock, OpenFile, OpenFails,
              Transact, TransactStale, files
<1>. QED
  BY <1>1, <1>2, <1>3, <1>4, <1>5 DEF Next, Continue

(* The records change only when a Save puts its batch. *)
Saves(r) ==
  /\ pc[r] = "transact"
  /\ op[r].kind = "save"
  /\ records' = [records EXCEPT ![shard[r]][op[r].id] = Overwritten(@, op[r].batch)]
  /\ UNCHANGED <<index, nextShard>>

LEMMA RecordSteps ==
  ASSUME [Next]_vars
  PROVE  UNCHANGED records \/ \E r \in Requests : Saves(r)
<1>1. CASE UNCHANGED vars
  BY <1>1 DEF vars, files
<1>2. ASSUME NEW s \in Instances, New(s) \/ Close(s) \/ Crash(s)
      PROVE  UNCHANGED records
  BY <1>2 DEF New, Close, Crash, files
<1>3. ASSUME NEW r \in Requests, NEW s \in Instances, NEW operation, Call(r, s, operation)
      PROVE  UNCHANGED records
  BY <1>3 DEF Call, files
<1>4. ASSUME NEW r \in Requests, Transact(r)
      PROVE  UNCHANGED records \/ Saves(r)
  BY <1>4 DEF Transact, Saves
<1>5. ASSUME NEW r \in Requests,
             \/ AssignShard(r) \/ LookupShard(r) \/ FindAfterClose(r) \/ OpenShared(r)
             \/ Lock(r) \/ OpenFile(r) \/ OpenFails(r) \/ TransactStale(r)
      PROVE  UNCHANGED records
  BY <1>5 DEF AssignShard, LookupShard, FindAfterClose, OpenShared, Lock, OpenFile,
              OpenFails, TransactStale, files
<1>. QED
  BY <1>1, <1>2, <1>3, <1>4, <1>5 DEF Next, Continue

(* An id keeps its shard for good. *)
LEMMA IndexKeeps ==
  ASSUME BoltInv, [Next]_vars
  PROVE  \A id \in DOMAIN index : id \in DOMAIN index' /\ index'[id] = index[id]
<1>1. CASE UNCHANGED index
  BY <1>1
<1>2. ASSUME NEW r \in Requests, Assigns(r)
      PROVE  \A id \in DOMAIN index : id \in DOMAIN index' /\ index'[id] = index[id]
  BY <1>2 DEF Assigns, Assigned
<1>. QED
  BY <1>1, <1>2, IndexSteps

(* The limit is written once, by the first New. *)
LEMMA LimitKept ==
  ASSUME BoltInv, [Next]_vars
  PROVE  /\ maxPerShard # 0 => maxPerShard' = maxPerShard
         /\ maxPerShard = 0 => UNCHANGED <<index, nextShard>>
         /\ \A s \in Instances : phase'[s] # "new" => maxPerShard' # 0
<1> USE DEF BoltInv, LimitKnown
<1>1. \A s \in Instances : Limit[s] # 0
  BY BoltAssumption
<1>2. CASE UNCHANGED vars
  BY <1>2 DEF vars, files
<1>3. ASSUME NEW s \in Instances, New(s)
      PROVE  /\ maxPerShard # 0 => maxPerShard' = maxPerShard
             /\ UNCHANGED <<index, nextShard>> /\ maxPerShard' # 0
  BY <1>1, <1>3 DEF New
<1>4. ASSUME NEW s \in Instances, Close(s) \/ Crash(s)
      PROVE  /\ UNCHANGED <<index, nextShard, maxPerShard>>
             /\ \A t \in Instances : phase'[t] # "new" => maxPerShard' # 0
  <2>1. phase[s] # "new" /\ UNCHANGED files
    BY <1>4 DEF Close, Crash
  <2>2. \A t \in Instances : phase'[t] = phase[t] \/ t = s
    BY <1>4 DEF Close, Crash, TypeOK
  <2>. QED
    BY <2>1, <2>2 DEF files
<1>5. ASSUME NEW r \in Requests, NEW s \in Instances, NEW operation, Call(r, s, operation)
      PROVE  UNCHANGED <<index, nextShard, maxPerShard, phase>>
  BY <1>5 DEF Call, files
<1>6. ASSUME NEW r \in Requests, AssignShard(r)
      PROVE  UNCHANGED <<maxPerShard, phase>> /\ maxPerShard # 0
  <2>1. owner[r] \in Instances /\ phase[owner[r]] = "open"
    BY <1>6 DEF AssignShard, ShardFound
  <2>. QED
    BY <1>6, <2>1 DEF AssignShard
<1>7. ASSUME NEW r \in Requests,
             \/ LookupShard(r) \/ FindAfterClose(r) \/ OpenShared(r) \/ Lock(r)
             \/ OpenFile(r) \/ OpenFails(r) \/ Transact(r) \/ TransactStale(r)
      PROVE  UNCHANGED <<index, nextShard, maxPerShard, phase>>
  BY <1>7 DEF LookupShard, FindAfterClose, OpenShared, Lock, OpenFile, OpenFails,
              Transact, TransactStale, files
<1>. QED
  BY <1>2, <1>3, <1>4, <1>5, <1>6, <1>7 DEF Next, Continue

-----------------------------------------------------------------------------
(***************************************************************************)
(* The other parts of the invariant are kept.                              *)
(***************************************************************************)
LEMMA LastOrBefore ==
  ASSUME NEW k \in Nat \ {0}, NEW n \in 1..k
  PROVE  n \in 1..k - 1 \/ n = k
  OBVIOUS

LEMMA FilledStep ==
  ASSUME BoltInv, [Next]_vars
  PROVE  ShardsFilled'
<1> USE DEF BoltInv, ShardsFilled, TypeOK
<1>1. CASE UNCHANGED <<index, nextShard>>
  BY <1>1
<1>2. ASSUME NEW r \in Requests, AssignShard(r), Assigns(r)
      PROVE  ShardsFilled'
  <2> DEFINE full == CountInShard(nextShard) >= maxPerShard
  <2>1. nextShard \in Nat \ {0} /\ maxPerShard # 0
    <3>1. owner[r] \in Instances /\ phase[owner[r]] = "open"
      BY <1>2 DEF AssignShard, ShardFound
    <3>. QED
      BY <3>1, ShardsType DEF LimitKnown, Shards
  <2>2. \A id \in DOMAIN index : index[id] \in Nat
    BY DEF Shards
  <2>3. \A id \in DOMAIN index : id \in DOMAIN index' /\ index'[id] = index[id]
    BY <1>2 DEF Assigns, Assigned
  <2>4. \A id \in DOMAIN index' : id \in DOMAIN index \/ index'[id] = nextShard'
    BY <1>2 DEF Assigns, Assigned
  <2>5. CASE full
    <3>1. nextShard' = nextShard + 1
      BY <1>2, <2>5 DEF Assigns
    <3>2. \E id \in DOMAIN index : index[id] = nextShard
      BY <2>1, <2>5, FullInUse
    <3>3. \A n \in 1..nextShard' - 1 : \E id \in DOMAIN index' : index'[id] = n
      <4>1. \A n \in 1..nextShard' - 1 : n \in 1..nextShard - 1 \/ n = nextShard
        <5>1. nextShard' - 1 = nextShard
          BY <2>1, <3>1
        <5>. QED
          BY <2>1, <5>1, LastOrBefore
      <4>. QED
        BY <4>1, <3>2, <2>3
    <3>4. \A id \in DOMAIN index' : index'[id] <= nextShard'
      BY <2>1, <2>2, <2>3, <2>4, <3>1
    <3>. QED
      BY <3>3, <3>4
  <2>6. CASE ~full
    <3>1. nextShard' = nextShard
      BY <1>2, <2>6 DEF Assigns
    <3>2. \A id \in DOMAIN index' : index'[id] <= nextShard'
      BY <2>1, <2>2, <2>3, <2>4, <3>1
    <3>. QED
      BY <2>3, <3>1, <3>2
  <2>. QED
    BY <2>5, <2>6
<1>. QED
  BY <1>1, <1>2, IndexSteps

(* One more id in a shard. *)
LEMMA CountAfter ==
  ASSUME TypeOK, NEW id, id \notin DOMAIN index, NEW target, NEW n \in Shards,
         index' = Assigned(id, target)
  PROVE  /\ CountInShard(n) \in Nat
         /\ CountInShard(n)' = IF n = target THEN CountInShard(n) + 1
                               ELSE CountInShard(n)
<1> DEFINE S == {i \in DOMAIN index : index[i] = n}
           T == {i \in DOMAIN index' : index'[i] = n}
<1>1. IsFiniteSet(S) /\ Cardinality(S) \in Nat
  <2>1. S \in SUBSET Ids
    BY DEF TypeOK
  <2>2. IsFiniteSet(S)
    BY <2>1, FS_Subset, ShardsType
  <2>. QED
    BY <2>2, FS_CardinalityType
<1>2. CountInShard(n) = Cardinality(S) /\ CountInShard(n)' = Cardinality(T)
  BY DEF CountInShard
<1>3. CASE n = target
  <2>1. T = S \cup {id} /\ id \notin S
    BY <1>3 DEF Assigned
  <2>2. Cardinality(S \cup {id}) = Cardinality(S) + 1
    BY <1>1, <2>1, FS_AddElement
  <2>. QED
    BY <1>1, <1>2, <1>3, <2>1, <2>2
<1>4. CASE n # target
  <2>1. T = S
    BY <1>4 DEF Assigned
  <2>. QED
    BY <1>1, <1>2, <1>4, <2>1
<1>. QED
  BY <1>3, <1>4

LEMMA LimitStep ==
  ASSUME BoltInv, [Next]_vars
  PROVE  LimitKnown'
<1>1. \A s \in Instances : phase'[s] # "new" => maxPerShard' # 0
  BY LimitKept
<1>2. ASSUME NEW n \in Shards
      PROVE  CountInShard(n)' <= maxPerShard'
  <2>1. maxPerShard \in Nat /\ maxPerShard' \in Nat
    <3>1. Range(Limit) \subseteq Nat
      BY BoltAssumption DEF Range
    <3>. QED
      BY <3>1, TypeStep DEF BoltInv, TypeOK
  <2>2. CountInShard(n) <= maxPerShard
    BY DEF BoltInv, LimitKnown, ShardsWithinLimit
  <2>3. CASE UNCHANGED index
    <3>1. CountInShard(n)' = CountInShard(n)
      BY <2>3 DEF CountInShard
    <3>2. CountInShard(n) \in Nat
      <4> DEFINE S == {i \in DOMAIN index : index[i] = n}
      <4>1. S \in SUBSET Ids
        BY DEF BoltInv, TypeOK
      <4>2. IsFiniteSet(S)
        BY <4>1, FS_Subset, ShardsType
      <4>. QED
        BY <4>2, FS_CardinalityType DEF CountInShard
    <3>. QED
      BY <2>1, <2>2, <3>1, <3>2, LimitKept
  <2>4. ASSUME NEW r \in Requests, AssignShard(r), Assigns(r)
        PROVE  CountInShard(n)' <= maxPerShard'
    <3> DEFINE full == CountInShard(nextShard) >= maxPerShard
               target == IF full THEN nextShard + 1 ELSE nextShard
    <3>1. index' = Assigned(op[r].id, target) /\ op[r].id \notin DOMAIN index
      BY <2>4 DEF Assigns
    <3>2. /\ CountInShard(n) \in Nat
          /\ CountInShard(n)' = IF n = target THEN CountInShard(n) + 1
                                ELSE CountInShard(n)
      BY <3>1, CountAfter DEF BoltInv
    <3>3. maxPerShard' = maxPerShard /\ maxPerShard # 0
      <4>1. owner[r] \in Instances /\ phase[owner[r]] = "open"
        BY <2>4 DEF AssignShard, BoltInv, ShardFound
      <4>. QED
        BY <4>1, <2>4 DEF Assigns, BoltInv, LimitKnown
    <3>4. CASE n # target
      BY <3>2, <3>3, <3>4, <2>2
    <3>5. CASE n = target /\ ~full
      BY <3>2, <3>3, <3>5, <2>1
    <3>6. CASE n = target /\ full
      <4>1. \A id \in DOMAIN index : index[id] # n
        <5>1. \A id \in DOMAIN index : index[id] \in Nat /\ index[id] <= nextShard
          BY DEF BoltInv, ShardsFilled, Shards, TypeOK
        <5>2. nextShard \in Nat
          BY DEF BoltInv, Shards, TypeOK
        <5>. QED
          BY <5>1, <5>2, <3>6
      <4>2. CountInShard(n) = 0
        <5>1. {id \in DOMAIN index : index[id] = n} = {}
          BY <4>1
        <5>. QED
          BY <5>1, FS_EmptySet DEF CountInShard
      <4>. QED
        BY <3>2, <3>3, <3>6, <4>2, <2>1
    <3>. QED
      BY <3>4, <3>5, <3>6
  <2>. QED
    BY <2>3, <2>4, IndexSteps
<1>. QED
  BY <1>1, <1>2 DEF LimitKnown, ShardsWithinLimit

(* Nothing takes a request away from the shard it found. *)
LEMMA FoundStep ==
  ASSUME BoltInv, [Next]_vars, NEW r \in Requests
  PROVE  ShardFound(r)'
<1> USE DEF BoltInv, ShardFound, TypeOK
<1>1. \A id \in DOMAIN index : id \in DOMAIN index' /\ index'[id] = index[id]
  BY IndexKeeps
<1>2. CASE UNCHANGED vars
  BY <1>2 DEF vars, files, request
<1>3. ASSUME UNCHANGED <<pc, op, owner, shard>>
      PROVE  ShardFound(r)'
  BY <1>1, <1>3
<1>4. ASSUME NEW s \in Instances, New(s)
      PROVE  ShardFound(r)'
  BY <1>3, <1>4 DEF New, request
<1>5. ASSUME NEW s \in Instances, Close(s)
      PROVE  ShardFound(r)'
  <2>1. UNCHANGED <<op, owner, shard>>
    BY <1>5 DEF Close, request
  <2>2. pc'[r] = pc[r] \/ pc'[r] = "stale"
    BY <1>5 DEF Close
  <2>. QED
    BY <1>1, <2>1, <2>2
<1>6. ASSUME NEW s \in Instances, Crash(s)
      PROVE  ShardFound(r)'
  <2>1. CASE r \in Running(s)
    BY <1>6, <2>1 DEF Crash
  <2>2. CASE r \notin Running(s)
    <3>1. /\ pc'[r] = pc[r] /\ op'[r] = op[r]
          /\ owner'[r] = owner[r] /\ shard'[r] = shard[r]
      BY <1>6, <2>2 DEF Crash
    <3>. QED
      BY <1>1, <3>1
  <2>. QED
    BY <2>1, <2>2
<1>7. ASSUME NEW q \in Requests, NEW s \in Instances, NEW operation \in Operations[q],
             Call(q, s, operation)
      PROVE  ShardFound(r)'
  <2>1. operation # NoOperation
    <3>1. operation \in [kind : {"save"}, id : Ids, batch : Batches]
                          \cup [kind : {"load"}, id : Ids]
                          \cup [kind : {"loadTail"}, id : Ids, n : Nat]
      BY BoltAssumption
    <3>2. operation.kind # "none"
      BY <3>1
    <3>. QED
      BY <3>2 DEF NoOperation
  <2>2. CASE q = r
    BY <1>7, <2>1, <2>2 DEF Call
  <2>3. CASE q # r
    <3>1. /\ pc'[r] = pc[r] /\ op'[r] = op[r]
          /\ owner'[r] = owner[r] /\ shard'[r] = shard[r]
      BY <1>7, <2>3 DEF Call
    <3>. QED
      BY <1>1, <3>1
  <2>. QED
    BY <2>2, <2>3
<1>8. ASSUME NEW q \in Requests, AssignShard(q)
      PROVE  ShardFound(r)'
  <2>1. UNCHANGED <<op, owner>> /\ (q # r => pc'[r] = pc[r] /\ shard'[r] = shard[r])
    BY <1>8 DEF AssignShard
  <2>2. op[q].id \in DOMAIN index' /\ shard'[q] = index'[op[q].id]
    BY <1>8 DEF AssignShard, Assigned
  <2>3. owner[q] \in Instances /\ op[q] # NoOperation
    BY <1>8 DEF AssignShard
  <2>. QED
    BY <1>1, <2>1, <2>2, <2>3
<1>9. ASSUME NEW q \in Requests, NEW result, NEW content, Return(q, result, content)
      PROVE  ShardFound(r)'
  <2>1. CASE q = r
    BY <1>9, <2>1 DEF Return
  <2>2. CASE q # r
    <3>1. /\ pc'[r] = pc[r] /\ op'[r] = op[r]
          /\ owner'[r] = owner[r] /\ shard'[r] = shard[r]
      BY <1>9, <2>2 DEF Return
    <3>. QED
      BY <1>1, <3>1
  <2>. QED
    BY <2>1, <2>2
<1>10. ASSUME NEW q \in Requests, LookupShard(q), op[q].id \in DOMAIN index
       PROVE  ShardFound(r)'
  <2>1. /\ UNCHANGED <<index, op, owner>>
        /\ pc' = [pc EXCEPT ![q] = "open"]
        /\ shard' = [shard EXCEPT ![q] = index[op[q].id]]
    BY <1>10 DEF LookupShard, files
  <2>2. owner[q] \in Instances /\ op[q] # NoOperation
    BY <1>10 DEF LookupShard
  <2>. QED
    BY <1>10, <2>1, <2>2
<1>11. ASSUME NEW q \in Requests, OpenShared(q) \/ Lock(q) \/ OpenFile(q)
       PROVE  ShardFound(r)'
  <2>1. UNCHANGED <<index, op, owner, shard>>
    BY <1>11 DEF OpenShared, Lock, OpenFile, files, request
  <2>2. pc[q] \in {"open", "lock", "opening"}
    BY <1>11 DEF OpenShared, Lock, OpenFile
  <2>3. q # r => pc'[r] = pc[r]
    BY <1>11 DEF OpenShared, Lock, OpenFile
  <2>. QED
    BY <2>1, <2>2, <2>3
<1>12. ASSUME NEW q \in Requests,
              \/ LookupShard(q) /\ op[q].id \notin DOMAIN index
              \/ FindAfterClose(q) \/ OpenFails(q) \/ TransactStale(q) \/ Transact(q)
       PROVE  ShardFound(r)'
  <2>1. \E result, content : Return(q, result, content)
    BY <1>12 DEF LookupShard, FindAfterClose, OpenFails, TransactStale, Transact
  <2>. QED
    BY <2>1, <1>9
<1>. QED
  BY <1>2, <1>4, <1>5, <1>6, <1>7, <1>8, <1>10, <1>11, <1>12 DEF Next, Continue

LEMMA WhereIndexedStep ==
  ASSUME BoltInv, [Next]_vars
  PROVE  RecordsWhereIndexed'
<1> USE DEF BoltInv, RecordsWhereIndexed, TypeOK
<1>1. \A id \in DOMAIN index : id \in DOMAIN index' /\ index'[id] = index[id]
  BY IndexKeeps
<1>2. CASE UNCHANGED records
  BY <1>1, <1>2
<1>3. ASSUME NEW r \in Requests, Saves(r)
      PROVE  RecordsWhereIndexed'
  <2>1. op[r].id \in DOMAIN index /\ shard[r] = index[op[r].id]
    BY <1>3 DEF Saves, ShardFound
  <2>2. \A n \in Shards, id \in Ids :
          records'[n][id] = records[n][id] \/ (n = shard[r] /\ id = op[r].id)
    BY <1>3 DEF Saves
  <2>. QED
    BY <1>1, <2>1, <2>2
<1>. QED
  BY <1>2, <1>3, RecordSteps

-----------------------------------------------------------------------------
(***************************************************************************)
(* The theorems.                                                           *)
(***************************************************************************)
THEOREM BoltInvariant == Spec => []BoltInv
<1>1. Init => BoltInv
  <2> SUFFICES ASSUME Init
               PROVE  BoltInv
    OBVIOUS
  <2>1. DOMAIN index = {} /\ nextShard = 1 /\ maxPerShard = 0
    BY DEF Init, Empty
  <2>2. TypeOK
    <3>1. index \in [{} -> Shards]
      BY DEF Init, Empty
    <3>. QED
      BY <3>1, <2>1, EmptyInContents, ShardsType DEF Init, TypeOK, Stages
  <2>3. ShardsFilled
    BY <2>1 DEF ShardsFilled
  <2>4. LimitKnown
    <3>1. \A n \in Shards : CountInShard(n) = 0
      <4>1. \A n \in Shards : {id \in DOMAIN index : index[id] = n} = {}
        BY <2>1
      <4>. QED
        BY <4>1, FS_EmptySet DEF CountInShard
    <3>. QED
      BY <2>1, <3>1 DEF Init, LimitKnown, ShardsWithinLimit
  <2>5. \A r \in Requests : ShardFound(r)
    BY DEF Init, ShardFound
  <2>6. RecordsWhereIndexed
    BY DEF Init, RecordsWhereIndexed
  <2>. QED
    BY <2>2, <2>3, <2>4, <2>5, <2>6 DEF BoltInv
<1>2. BoltInv /\ [Next]_vars => BoltInv'
  <2> SUFFICES ASSUME BoltInv, [Next]_vars
               PROVE  BoltInv'
    OBVIOUS
  <2>. QED
    BY TypeStep, FilledStep, LimitStep, FoundStep, WhereIndexedStep DEF BoltInv
<1>. QED
  BY <1>1, <1>2, PTL DEF Spec

(* The state of the store keeps its types. *)
THEOREM BoltTypes == Spec => []TypeOK
  BY BoltInvariant, PTL DEF BoltInv

(* No shard file ever holds more ids than the limit the first New wrote    *)
(* (assignShard and countInShard).                                         *)
THEOREM ShardsStayWithinLimit == Spec => []ShardsWithinLimit
<1>1. BoltInv => ShardsWithinLimit
  BY DEF BoltInv, LimitKnown
<1>. QED
  BY <1>1, BoltInvariant, PTL

(* A history is never split over two shard files, whatever crashes between *)
(* assignShard's transaction and the one on the shard.                     *)
THEOREM HistoriesStayTogether == Spec => []RecordsWhereIndexed
<1>1. BoltInv => RecordsWhereIndexed
  BY DEF BoltInv
<1>. QED
  BY <1>1, BoltInvariant, PTL

(* Index and shards together are a keyed store: what a reader finds by the *)
(* index changes only when a Save puts its whole batch.                    *)
THEOREM BoltImplementsKeyedStore == Spec => ImplementsKeyedStore
<1>1. Init => Keyed!Init
  BY DEF Init, Keyed!Init, Stored, Empty
<1>2. BoltInv /\ [Next]_vars => [Keyed!Next]_Stored
  <2> SUFFICES ASSUME BoltInv, [Next]_vars
               PROVE  Keyed!Next \/ UNCHANGED Stored
    OBVIOUS
  <2> USE DEF BoltInv, TypeOK
  <2>1. CASE UNCHANGED <<index, records>>
    BY <2>1 DEF Stored
  <2>2. ASSUME NEW r \in Requests, AssignShard(r), Assigns(r)
        PROVE  UNCHANGED Stored
    <3> DEFINE target == IF CountInShard(nextShard) >= maxPerShard
                         THEN nextShard + 1 ELSE nextShard
    <3>1. /\ op[r].id \in Ids \ DOMAIN index
          /\ target \in Shards
          /\ index' = Assigned(op[r].id, target)
          /\ records' = records
      BY <2>2, TargetType DEF Assigns
    <3>2. records[target][op[r].id] = Empty
      BY <3>1 DEF RecordsWhereIndexed
    <3>. HIDE DEF target
    <3>3. \A id \in Ids : Stored'[id] = Stored[id]
      <4>1. ASSUME NEW id \in Ids, id # op[r].id
            PROVE  Stored'[id] = Stored[id]
        BY <3>1, <4>1 DEF Stored, Assigned
      <4>2. Stored'[op[r].id] = Empty /\ Stored[op[r].id] = Empty
        BY <3>1, <3>2 DEF Stored, Assigned
      <4>. QED
        BY <4>1, <4>2
    <3>. QED
      BY <3>3 DEF Stored
  <2>3. ASSUME NEW r \in Requests, Saves(r)
        PROVE  Keyed!Next
    <3>1. op[r] # NoOperation /\ shard[r] = index[op[r].id] /\ op[r].id \in DOMAIN index
      BY <2>3 DEF Saves, ShardFound
    <3>2. op[r].id \in Ids /\ op[r].batch \in Batches
      BY <2>3, <3>1, CallType DEF Saves
    <3>3. index' = index /\ shard[r] \in Shards
      BY <2>3, <3>1 DEF Saves
    <3>4. ASSUME NEW id \in Ids
          PROVE  Stored'[id] = IF id = op[r].id
                               THEN Overwritten(Stored[id], op[r].batch) ELSE Stored[id]
      BY <2>3, <3>1, <3>2, <3>3, <3>4 DEF Saves, Stored
    <3>5. Stored' = [Stored EXCEPT ![op[r].id] = Overwritten(Stored[op[r].id], op[r].batch)]
      BY <3>4 DEF Stored
    <3>6. Keyed!Put(op[r].id, op[r].batch)
      BY <3>5 DEF Keyed!Put, Overwritten
    <3>. QED
      BY <3>2, <3>6 DEF Keyed!Next
  <2>. QED
    <3>1. CASE UNCHANGED records /\ ~UNCHANGED index
      BY <3>1, <2>2, IndexSteps
    <3>2. CASE ~UNCHANGED records
      BY <3>2, <2>3, RecordSteps
    <3>. QED
      BY <2>1, <3>1, <3>2
<1>. QED
  BY <1>1, <1>2, BoltInvariant, PTL DEF Spec, ImplementsKeyedStore, Keyed!Spec

(* A Load or LoadTail that succeeds returns what is stored as it ends,     *)
(* though lookupShard read the index in an earlier transaction.            *)
THEOREM LoadsReturnWhatIsStored == Spec => LoadsAreCurrent
<1> DEFINE Current(r) ==
      (answer[r] = "none" /\ answer'[r] = "ok" /\ op[r].kind # "save") =>
        history'[r] = ReadOf(op[r], Stored[op[r].id])
<1>1. ASSUME BoltInv, Next, NEW r \in Requests
      PROVE  Current(r)
  <2> USE <1>1 DEF BoltInv, TypeOK
  <2>1. CASE answer'[r] = answer[r]
    BY <2>1
  <2>2. ASSUME NEW q \in Requests, NEW result, NEW content, Return(q, result, content),
               answer'[r] # answer[r]
        PROVE  q = r /\ answer'[r] = result /\ history'[r] = content
    BY <2>2 DEF Return
  <2>3. ASSUME NEW s \in Instances,
               New(s) \/ Close(s) \/ Crash(s) \/
                 \E q \in Requests, operation \in UNION Range(Operations) :
                   Call(q, s, operation)
        PROVE  answer'[r] = answer[r]
    BY <2>3 DEF New, Close, Crash, Call, request
  <2>4. ASSUME NEW q \in Requests,
               AssignShard(q) \/ OpenShared(q) \/ Lock(q) \/ OpenFile(q)
        PROVE  answer'[r] = answer[r]
    BY <2>4 DEF AssignShard, OpenShared, Lock, OpenFile, request
  <2>5. ASSUME NEW q \in Requests, LookupShard(q), answer'[r] # answer[r]
        PROVE  Current(r)
    <3>1. op[q].id \notin DOMAIN index /\ Return(q, "ok", Empty)
      BY <2>5 DEF LookupShard, request
    <3>2. q = r /\ history'[r] = Empty
      BY <2>2, <2>5, <3>1
    <3>3. op[r].id \in Ids
      BY <2>5, <3>2, CallType DEF LookupShard, ShardFound
    <3>4. Stored[op[r].id] = Empty
      BY <3>1, <3>2, <3>3 DEF Stored
    <3>5. ReadOf(op[r], Empty) = Empty
      BY DEF ReadOf, LastVersions, Restrict, Empty
    <3>. QED
      BY <3>2, <3>4, <3>5
  <2>6. ASSUME NEW q \in Requests,
               FindAfterClose(q) \/ OpenFails(q) \/ TransactStale(q),
               answer'[r] # answer[r]
        PROVE  answer'[r] # "ok"
    <3>1. \E result \in {"error", "panic"} : Return(q, result, Empty)
      BY <2>6 DEF FindAfterClose, OpenFails, TransactStale
    <3>. QED
      BY <2>2, <2>6, <3>1
  <2>7. ASSUME NEW q \in Requests, Transact(q), answer'[r] # answer[r], op[r].kind # "save"
        PROVE  Current(r)
    <3>1. q = r
      <4>1. \E result, content : Return(q, result, content)
        BY <2>7 DEF Transact
      <4>. QED
        BY <2>2, <2>7, <4>1
    <3>2. history'[r] = ReadOf(op[r], records[shard[r]][op[r].id])
      <4>1. Return(r, "ok", ReadOf(op[r], records[shard[r]][op[r].id]))
        BY <2>7, <3>1 DEF Transact
      <4>. QED
        BY <4>1 DEF Return
    <3>3. op[r] # NoOperation /\ shard[r] = index[op[r].id] /\ op[r].id \in DOMAIN index
      BY <2>7, <3>1 DEF Transact, ShardFound
    <3>4. Stored[op[r].id] = records[shard[r]][op[r].id]
      BY <3>3, CallType DEF Stored
    <3>. QED
      BY <3>2, <3>4
  <2>. QED
    <3>1. CASE \E s \in Instances : New(s) \/ Close(s) \/ Crash(s)
      BY <3>1, <2>1, <2>3
    <3>2. CASE \E q \in Requests, s \in Instances : \E operation \in Operations[q] :
                 Call(q, s, operation)
      BY <3>2, <2>1 DEF Call
    <3>3. CASE \E q \in Requests : Continue(q) \/ OpenFails(q)
      BY <3>3, <2>1, <2>4, <2>5, <2>6, <2>7 DEF Continue
    <3>. QED
      BY <3>1, <3>2, <3>3 DEF Next
<1>2. BoltInv /\ [Next]_vars => [\A r \in Requests : Current(r)]_vars
  BY <1>1
<1>. QED
  BY <1>2, BoltInvariant, PTL DEF Spec, LoadsAreCurrent

=============================================================================
