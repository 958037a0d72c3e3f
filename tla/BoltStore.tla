------------------------------ MODULE BoltStore ------------------------------
(***************************************************************************)
(* stores/boltdbstore: an event store in files.  The index file assigns    *)
(* every aggregate id to a shard file, at most so many ids to a shard;     *)
(* shard files are opened when first needed and stay open.  A file is      *)
(* locked by who has it open, and bbolt.Open waits for the lock without    *)
(* limit.  Instances of the store follow one another on the same files:    *)
(* each is closed, or its process dies, and the next one starts.           *)
(*                                                                         *)
(* A request is one call of Save, Load or LoadTail.  Each bbolt            *)
(* transaction is atomic and durable; between them, and around the mutex   *)
(* of the open shards, requests interleave.                                *)
(***************************************************************************)
EXTENDS Naturals, FiniteSets, Functions

CONSTANTS
  Instances,     \* values of BoltDBStore, each in a process of its own
  Requests,      \* calls, each made at most once
  Ids,           \* aggregate ids
  Batches,       \* what one Save may store: functions from versions to data
  Operations,    \* what each request may be
  Limit,         \* maxPerShard, as each instance was configured
  Faults,        \* what may happen: "crash", "open" (a shard fails to open)
  Habits,        \* may the owners wait for their requests before Close?
  None           \* no instance, no request

ASSUME BoltAssumption ==
  /\ IsFiniteSet(Ids)
  /\ Limit \in [Instances -> Nat \ {0}]
  /\ Operations \in
       [Requests -> SUBSET ([kind : {"save"}, id : Ids, batch : Batches]
                              \cup [kind : {"load"}, id : Ids]
                              \cup [kind : {"loadTail"}, id : Ids, n : Nat])]
  /\ None \notin Instances \cup Requests
  /\ Habits \subseteq BOOLEAN

VARIABLES
  index,         \* index bucket: the shard of every id that has one
  nextShard,     \* meta bucket: the shard being filled
  maxPerShard,   \* meta bucket: ids per shard, 0 before the first New
  records,       \* the events bucket of every shard file
  fileLock,      \* who has a file open
  phase,         \* of an instance: "new", "open", "closed", "dead"
  shards,        \* the shards an instance has open handles of
  mu,            \* the request that holds an instance's mutex for writing
  pc, op, owner, shard,   \* of a request
  answer,        \* how it returned
  history        \* the records it returned

(* Whether owners wait for their requests before Close, once and for all. *)
VARIABLE drained

files == <<index, nextShard, maxPerShard, records>>
request == <<op, owner, shard, answer, history>>
vars == <<files, fileLock, phase, shards, mu, pc, request, drained>>

(* Shard numbers start at 1; as many shards as ids are enough.  The index  *)
(* file is 0.                                                              *)
Shards == 1..Cardinality(Ids) + 1
IndexFile == 0

Contents == UNION {[S -> UNION {Range(b) : b \in Batches}] :
                     S \in SUBSET UNION {DOMAIN b : b \in Batches}}

Stages == {"idle", "find", "open", "lock", "opening", "transact", "stale",
           "returned", "lost"}

Empty == <<>>

NoOperation == [kind |-> "none"]

Init ==
  /\ index = Empty
  /\ nextShard = 1
  /\ maxPerShard = 0
  /\ records = [n \in Shards |-> [id \in Ids |-> Empty]]
  /\ fileLock = [f \in Shards \cup {IndexFile} |-> None]
  /\ phase = [s \in Instances |-> "new"]
  /\ shards = [s \in Instances |-> {}]
  /\ mu = [s \in Instances |-> None]
  /\ pc = [r \in Requests |-> "idle"]
  /\ op = [r \in Requests |-> NoOperation]
  /\ owner = [r \in Requests |-> None]
  /\ shard = [r \in Requests |-> 0]
  /\ answer = [r \in Requests |-> "none"]
  /\ history = [r \in Requests |-> Empty]
  /\ drained \in Habits

Running(s) ==
  {r \in Requests : owner[r] = s}

(* The request returns with this answer and these records. *)
Return(r, result, content) ==
  /\ pc' = [pc EXCEPT ![r] = "returned"]
  /\ op' = [op EXCEPT ![r] = NoOperation]
  /\ owner' = [owner EXCEPT ![r] = None]
  /\ shard' = [shard EXCEPT ![r] = 0]
  /\ answer' = [answer EXCEPT ![r] = result]
  /\ history' = [history EXCEPT ![r] = content]

(***************************************************************************)
(* New, Close and the death of the process.                                *)
(***************************************************************************)
(* Mutant of New: the limit is written whether or not there is one. *)
NewRewritingLimit(s) ==
  /\ phase[s] = "new"
  /\ fileLock[IndexFile] = None
  /\ fileLock' = [fileLock EXCEPT ![IndexFile] = s]
  /\ maxPerShard' = Limit[s]
  /\ phase' = [phase EXCEPT ![s] = "open"]
  /\ UNCHANGED <<index, nextShard, records, shards, mu, pc, request>>

(* New opens the index file, once nobody else has it; initIndex writes the *)
(* defaults that are not there yet.                                        *)
New(s) ==
  /\ phase[s] = "new"
  /\ fileLock[IndexFile] = None
  /\ fileLock' = [fileLock EXCEPT ![IndexFile] = s]
  /\ maxPerShard' = IF maxPerShard = 0 THEN Limit[s] ELSE maxPerShard
  /\ phase' = [phase EXCEPT ![s] = "open"]
  /\ UNCHANGED <<index, nextShard, records, shards, mu, pc, request>>

Released(s, held) ==
  [f \in DOMAIN fileLock |-> IF f \in held /\ fileLock[f] = s THEN None
                             ELSE fileLock[f]]

(* Close takes the mutex, closes every handle the instance has open and    *)
(* the index.  A request keeps its pointer to a handle that is closed now. *)
Close(s) ==
  /\ phase[s] = "open"
  /\ mu[s] = None
  /\ drained => Running(s) = {}
  /\ fileLock' = Released(s, shards[s] \cup {IndexFile})
  /\ shards' = [shards EXCEPT ![s] = {}]
  /\ phase' = [phase EXCEPT ![s] = "closed"]
  /\ pc' = [r \in Requests |->
              IF owner[r] = s /\ pc[r] = "transact" THEN "stale" ELSE pc[r]]
  /\ UNCHANGED <<files, mu, request>>

(* The process dies; the system releases its locks. *)
Crash(s) ==
  /\ "crash" \in Faults
  /\ phase[s] \in {"open", "closed"}
  /\ fileLock' = Released(s, DOMAIN fileLock)
  /\ shards' = [shards EXCEPT ![s] = {}]
  /\ mu' = [mu EXCEPT ![s] = None]
  /\ phase' = [phase EXCEPT ![s] = "dead"]
  /\ pc' = [r \in Requests |-> IF r \in Running(s) THEN "lost" ELSE pc[r]]
  /\ op' = [r \in Requests |-> IF r \in Running(s) THEN NoOperation ELSE op[r]]
  /\ owner' = [r \in Requests |-> IF r \in Running(s) THEN None ELSE owner[r]]
  /\ shard' = [r \in Requests |-> IF r \in Running(s) THEN 0 ELSE shard[r]]
  /\ UNCHANGED <<files, answer, history>>

(***************************************************************************)
(* A request.                                                              *)
(***************************************************************************)
Call(r, s, operation) ==
  /\ pc[r] = "idle"
  /\ phase[s] = "open"
  /\ op' = [op EXCEPT ![r] = operation]
  /\ owner' = [owner EXCEPT ![r] = s]
  /\ pc' = [pc EXCEPT ![r] = "find"]
  /\ UNCHANGED <<files, fileLock, phase, shards, mu, shard, answer,
                 history>>

(* The index with the id assigned to this shard. *)
Assigned(id, n) ==
  [i \in DOMAIN index \cup {id} |-> IF i = id THEN n ELSE index[i]]

CountInShard(n) == Cardinality({id \in DOMAIN index : index[id] = n})

(* Mutant of AssignShard: it does not look for the id first. *)
AssignShardAnew(r) ==
  LET full == CountInShard(nextShard) >= maxPerShard
      target == IF full THEN nextShard + 1 ELSE nextShard
  IN
  /\ pc[r] = "find"
  /\ op[r].kind = "save"
  /\ phase[owner[r]] = "open"
  /\ index' = Assigned(op[r].id, target)
  /\ nextShard' = target
  /\ shard' = [shard EXCEPT ![r] = target]
  /\ pc' = [pc EXCEPT ![r] = "open"]
  /\ UNCHANGED <<maxPerShard, records, fileLock, phase, shards, mu, op, owner,
                 answer, history>>

(* Save: assignShard, one transaction of the index. *)
AssignShard(r) ==
  LET id == op[r].id
      full == CountInShard(nextShard) >= maxPerShard
      target == IF id \in DOMAIN index THEN index[id]
                ELSE IF full THEN nextShard + 1 ELSE nextShard
  IN
  /\ pc[r] = "find"
  /\ op[r].kind = "save"
  /\ phase[owner[r]] = "open"
  /\ IF id \in DOMAIN index
       THEN UNCHANGED <<index, nextShard>>
       ELSE index' = Assigned(id, target) /\ nextShard' = target
  /\ shard' = [shard EXCEPT ![r] = target]
  /\ pc' = [pc EXCEPT ![r] = "open"]
  /\ UNCHANGED <<maxPerShard, records, fileLock, phase, shards, mu, op, owner,
                 answer, history>>

(* Mutant of LookupShard: it takes the shard being filled. *)
LookupShardFilling(r) ==
  /\ pc[r] = "find"
  /\ op[r].kind # "save"
  /\ phase[owner[r]] = "open"
  /\ IF op[r].id \in DOMAIN index
       THEN /\ shard' = [shard EXCEPT ![r] = nextShard]
            /\ pc' = [pc EXCEPT ![r] = "open"]
            /\ UNCHANGED <<op, owner, answer, history>>
       ELSE Return(r, "ok", Empty)
  /\ UNCHANGED <<files, fileLock, phase, shards, mu>>

(* Load and LoadTail: lookupShard; an id without a shard has no history. *)
LookupShard(r) ==
  LET id == op[r].id IN
  /\ pc[r] = "find"
  /\ op[r].kind # "save"
  /\ phase[owner[r]] = "open"
  /\ IF id \in DOMAIN index
       THEN /\ shard' = [shard EXCEPT ![r] = index[id]]
            /\ pc' = [pc EXCEPT ![r] = "open"]
            /\ UNCHANGED <<op, owner, answer, history>>
       ELSE Return(r, "ok", Empty)
  /\ UNCHANGED <<files, fileLock, phase, shards, mu>>

(* Close has run.  indexDB is read without the mutex: the request finds    *)
(* nil and panics, or finds the closed handle and gets an error.           *)
FindAfterClose(r) ==
  /\ pc[r] = "find"
  /\ phase[owner[r]] = "closed"
  /\ \E result \in {"error", "panic"} : Return(r, result, Empty)
  /\ UNCHANGED <<files, fileLock, phase, shards, mu>>

(* openShard under RLock. *)
OpenShared(r) ==
  /\ pc[r] = "open"
  /\ mu[owner[r]] = None
  /\ pc' = [pc EXCEPT ![r] =
              IF shard[r] \in shards[owner[r]] THEN "transact" ELSE "lock"]
  /\ UNCHANGED <<files, fileLock, phase, shards, mu, request>>

(* Mutant of Lock: no second look. *)
LockWithoutLooking(r) ==
  /\ pc[r] = "lock"
  /\ mu[owner[r]] = None
  /\ pc' = [pc EXCEPT ![r] = "opening"]
  /\ mu' = [mu EXCEPT ![owner[r]] = r]
  /\ UNCHANGED <<files, fileLock, phase, shards, request>>

(* openShard takes the mutex and looks again. *)
Lock(r) ==
  /\ pc[r] = "lock"
  /\ mu[owner[r]] = None
  /\ IF shard[r] \in shards[owner[r]]
       THEN pc' = [pc EXCEPT ![r] = "transact"] /\ UNCHANGED mu
       ELSE /\ pc' = [pc EXCEPT ![r] = "opening"]
            /\ mu' = [mu EXCEPT ![owner[r]] = r]
  /\ UNCHANGED <<files, fileLock, phase, shards, request>>

(* bbolt.Open returns when the file's lock is free; the mutex is held      *)
(* while it waits.                                                         *)
OpenFile(r) ==
  LET s == owner[r] IN
  /\ pc[r] = "opening"
  /\ fileLock[shard[r]] = None
  /\ fileLock' = [fileLock EXCEPT ![shard[r]] = s]
  /\ shards' = [shards EXCEPT ![s] = @ \cup {shard[r]}]
  /\ mu' = [mu EXCEPT ![s] = None]
  /\ pc' = [pc EXCEPT ![r] = "transact"]
  /\ UNCHANGED <<files, phase, request>>

OpenFails(r) ==
  /\ "open" \in Faults
  /\ pc[r] = "opening"
  /\ mu' = [mu EXCEPT ![owner[r]] = None]
  /\ Return(r, "error", Empty)
  /\ UNCHANGED <<files, fileLock, phase, shards>>

(* The records with those of the batch put over them. *)
Overwritten(content, batch) ==
  [v \in DOMAIN content \cup DOMAIN batch |->
     IF v \in DOMAIN batch THEN batch[v] ELSE content[v]]

LastVersions(content, n) ==
  Restrict(content, {v \in DOMAIN content :
                       Cardinality({w \in DOMAIN content : w > v}) < n})

(* What a Load or LoadTail makes of an aggregate's bucket. *)
ReadOf(operation, content) ==
  IF operation.kind = "load" THEN content ELSE LastVersions(content, operation.n)

(* Mutants of Transact: Save numbers the records itself; Save makes the     *)
(* bucket anew.                                                            *)
TransactNumbering(r) ==
  LET n == shard[r]
      id == op[r].id
      old == Cardinality(DOMAIN records[n][id])
      batch == op[r].batch
  IN
  /\ pc[r] = "transact"
  /\ IF op[r].kind = "save"
       THEN /\ records' = [records EXCEPT ![n][id] =
                 [v \in 1..old + Cardinality(DOMAIN batch) |->
                    IF v <= old THEN @[v] ELSE batch[v - old]]]
            /\ Return(r, "ok", Empty)
       ELSE /\ Return(r, "ok", ReadOf(op[r], records[n][id]))
            /\ UNCHANGED records
  /\ UNCHANGED <<index, nextShard, maxPerShard, fileLock, phase, shards, mu>>

TransactReplacing(r) ==
  LET n == shard[r]
      id == op[r].id
  IN
  /\ pc[r] = "transact"
  /\ IF op[r].kind = "save"
       THEN /\ records' = [records EXCEPT ![n][id] = op[r].batch]
            /\ Return(r, "ok", Empty)
       ELSE /\ Return(r, "ok", ReadOf(op[r], records[n][id]))
            /\ UNCHANGED records
  /\ UNCHANGED <<index, nextShard, maxPerShard, fileLock, phase, shards, mu>>

(* The transaction on the shard: Save puts every record, Load copies them. *)
Transact(r) ==
  LET n == shard[r]
      id == op[r].id
  IN
  /\ pc[r] = "transact"
  /\ IF op[r].kind = "save"
       THEN /\ records' = [records EXCEPT ![n][id] = Overwritten(@, op[r].batch)]
            /\ Return(r, "ok", Empty)
       ELSE /\ Return(r, "ok", ReadOf(op[r], records[n][id]))
            /\ UNCHANGED records
  /\ UNCHANGED <<index, nextShard, maxPerShard, fileLock, phase, shards, mu>>

(* The handle was closed before the transaction began. *)
TransactStale(r) ==
  /\ pc[r] = "stale"
  /\ Return(r, "error", Empty)
  /\ UNCHANGED <<files, fileLock, phase, shards, mu>>

Continue(r) ==
  /\ \/ AssignShard(r) \/ LookupShard(r) \/ FindAfterClose(r)
     \/ OpenShared(r) \/ Lock(r) \/ OpenFile(r)
     \/ Transact(r) \/ TransactStale(r)
  /\ UNCHANGED drained

Next ==
  \/ /\ \/ \E s \in Instances : New(s) \/ Close(s) \/ Crash(s)
        \/ \E r \in Requests, s \in Instances :
             \E operation \in Operations[r] : Call(r, s, operation)
        \/ \E r \in Requests : OpenFails(r)
     /\ UNCHANGED drained
  \/ \E r \in Requests : Continue(r)

Spec == Init /\ [][Next]_vars

(* Goroutines run on, and bbolt.Open polls for the lock: a step that stays *)
(* possible is taken.  Nobody has to start, close or crash anything, and   *)
(* no open has to fail.                                                    *)
FairSpec == Spec /\ \A r \in Requests : WF_vars(Continue(r))

-----------------------------------------------------------------------------
(***************************************************************************)
(* Properties.                                                             *)
(***************************************************************************)
TypeOK ==
  /\ DOMAIN index \subseteq Ids /\ index \in [DOMAIN index -> Shards]
  /\ nextShard \in Shards
  /\ maxPerShard \in {0} \cup Range(Limit)
  /\ records \in [Shards -> [Ids -> Contents]]
  /\ fileLock \in [Shards \cup {IndexFile} -> Instances \cup {None}]
  /\ phase \in [Instances -> {"new", "open", "closed", "dead"}]
  /\ shards \in [Instances -> SUBSET Shards]
  /\ mu \in [Instances -> Requests \cup {None}]
  /\ pc \in [Requests -> Stages]
  /\ op \in [Requests -> (UNION Range(Operations)) \cup {NoOperation}]
  /\ owner \in [Requests -> Instances \cup {None}]
  /\ shard \in [Requests -> Shards \cup {0}]
  /\ answer \in [Requests -> {"none", "ok", "error", "panic"}]
  /\ history \in [Requests -> Contents]

(* No shard file has more ids than the limit the first New wrote down,     *)
(* whatever races and crashes there were and however later instances are   *)
(* configured.                                                             *)
ShardsWithinLimit == \A n \in Shards : CountInShard(n) <= maxPerShard

(* An aggregate's records are all in the one file the index names: no      *)
(* crash between the index and the shard and no race splits a history.     *)
RecordsWhereIndexed ==
  \A n \in Shards, id \in Ids :
    records[n][id] # Empty => id \in DOMAIN index /\ index[id] = n

(* The stored records as a reader of the index finds them. *)
Stored ==
  [id \in Ids |-> IF id \in DOMAIN index THEN records[index[id]][id] ELSE Empty]

(* The files implement the keyed store. *)
Keyed == INSTANCE KeyedStore WITH stored <- Stored
ImplementsKeyedStore == Keyed!Spec

(* A Load that succeeds returns what is stored at the moment it ends,      *)
(* though it looked up the shard earlier.                                  *)
LoadsAreCurrent ==
  [][\A r \in Requests :
       (answer[r] = "none" /\ answer'[r] = "ok" /\ op[r].kind # "save") =>
         history'[r] = ReadOf(op[r], Stored[op[r].id])]_vars

(* A request of the instance waits, with the mutex, for a file that        *)
(* another process has open: one of the two was closed while it had        *)
(* requests, which opened the file afterwards or want to.                  *)
HeldUp(s) ==
  \E q \in Requests :
    /\ owner[q] = s /\ pc[q] = "opening" /\ fileLock[shard[q]] \notin {None, s}
    /\ ~drained /\ "closed" \in {phase[s], phase[fileLock[shard[q]]]}

(* Every call returns, unless its process dies or a Close did not wait for *)
(* the requests of its instance and leaves this one waiting for ever for   *)
(* the lock of another process: no other wait for the mutex or for a file  *)
(* lock is for ever.                                                       *)
RequestsReturn ==
  \A r \in Requests :
    pc[r] = "find" ~> (pc[r] \in {"returned", "lost"} \/ [](HeldUp(owner[r])))

(* Close closes the index and all open shards: afterwards the instance     *)
(* has none, and its successor finds every file free.                      *)
ClosedHoldsNothing ==
  \A s \in Instances : phase[s] = "closed" =>
    shards[s] = {} /\ \A f \in DOMAIN fileLock : fileLock[f] # s

=============================================================================
