----------------------------- MODULE CloudStore -----------------------------
(***************************************************************************)
(* stores/dynamodbstore and stores/cosmosdbstore: the events of one        *)
(* aggregate in a table of a cloud database, read in pages and written in  *)
(* batches of limited size, each batch on condition that none of its       *)
(* versions exists.  Records may carry an expiry, stamped by               *)
(* Repository.Save; the database deletes expired records some time later,  *)
(* one by one.                                                             *)
(*                                                                         *)
(* Clients are what Repository.Apply makes of the store: a LoadTail, a     *)
(* number of events on top of what it returned, with snapshots among them, *)
(* and a Save.  Others read the whole history with Load.  Of an event only *)
(* its version is kept, and of a snapshot which events it sums up.         *)
(***************************************************************************)
EXTENDS Naturals, Sequences, FiniteSets, Functions

CONSTANTS
  Clients,
  Interval,        \* the snapshot interval, and so the n of LoadTail
  BatchLimit,      \* maxTransactItems, maxBatchItems
  PageLimit,       \* bound: records the database returns in one page
  EventCounts,     \* how many events a command may emit
  Deployments,     \* event_ttl_seconds, 0 for none, and how many clients
  Faults,          \* "read", "write", "reply", "crash"
  MaxVersion,      \* bound: no command starts on a later version
  MaxTime          \* bound on the clock

ASSUME CloudAssumption ==
  /\ {Interval, BatchLimit, PageLimit} \subseteq Nat \ {0}
  /\ EventCounts \subseteq Nat \ {0}
  /\ Deployments \subseteq [lifetime : Nat, clients : Nat]
  /\ {MaxVersion, MaxTime} \subseteq Nat

VARIABLES
  lifetime,      \* the aggregate's event_ttl_seconds, once and for all
  active,        \* the clients there are, once and for all
  now,           \* the clock
  table,         \* the records of the partition, by version
  pc,            \* of a client
  mode,          \* which read it makes: "tail" or "all"
  got,           \* the records it read so far, oldest first
  batch,         \* the records it has still to write
  done           \* how many it has written

(* Auxiliary. *)
VARIABLES
  began,         \* the last version there was when a client's read began
  everStored,    \* the versions of all events ever stored
  acked,         \* the records of the saves that succeeded, until they expire
  torn           \* a save ended with some of its records stored

client == <<pc, mode, got, batch, done, began>>
vars == <<lifetime, active, now, table, client, everStored, acked, torn>>

Record ==
  [version : Nat \ {0}, covers : SUBSET (Nat \ {0}), snapshot : BOOLEAN,
   expiry : Nat]

Expired(record, time) == record.expiry # 0 /\ record.expiry < time

LastOf(versions) ==
  IF versions = {} THEN 0 ELSE CHOOSE v \in versions : \A w \in versions : w <= v

Init ==
  /\ \E d \in Deployments :
       /\ lifetime = d.lifetime
       /\ active \in {S \in SUBSET Clients : Cardinality(S) = d.clients}
  /\ now = 0
  /\ table = <<>>
  /\ pc = [c \in Clients |-> "idle"]
  /\ mode = [c \in Clients |-> "all"]
  /\ got = [c \in Clients |-> <<>>]
  /\ batch = [c \in Clients |-> <<>>]
  /\ done = [c \in Clients |-> 0]
  /\ began = [c \in Clients |-> 0]
  /\ everStored = {}
  /\ acked = {}
  /\ torn = FALSE

(* The call is over, however it ended. *)
Leave(c) ==
  /\ pc' = [pc EXCEPT ![c] = "idle"]
  /\ mode' = [mode EXCEPT ![c] = "all"]
  /\ got' = [got EXCEPT ![c] = <<>>]
  /\ batch' = [batch EXCEPT ![c] = <<>>]
  /\ done' = [done EXCEPT ![c] = 0]
  /\ began' = [began EXCEPT ![c] = 0]

(***************************************************************************)
(* Load and LoadTail.                                                      *)
(***************************************************************************)
BeginRead(c, m) ==
  /\ c \in active
  /\ pc[c] = "idle"
  /\ pc' = [pc EXCEPT ![c] = "read"]
  /\ mode' = [mode EXCEPT ![c] = m]
  /\ began' = [began EXCEPT ![c] = LastOf(DOMAIN table)]
  /\ UNCHANGED <<lifetime, active, now, table, got, batch, done, everStored, acked, torn>>

(* Mutant of Ahead: pages are counted off, not continued from a key. *)
AheadByOffset(c) ==
  {v \in DOMAIN table :
     Cardinality({w \in DOMAIN table :
                    IF mode[c] = "tail" THEN w > v ELSE w < v}) >= Len(got[c])}

(* The versions the next page starts from: behind the last one read. *)
Ahead(c) ==
  IF got[c] = <<>> THEN DOMAIN table
  ELSE IF mode[c] = "tail" THEN {v \in DOMAIN table : v < got[c][1].version}
  ELSE {v \in DOMAIN table : v > got[c][Len(got[c])].version}

(* The k versions of a set the query reaches first: the greatest for a     *)
(* tail, the smallest for the whole history; in ascending order.           *)
FirstReached(m, versions, k) ==
  LET Reached(v) ==
        Cardinality({w \in versions : IF m = "tail" THEN w > v ELSE w < v})
      page == {v \in versions : Reached(v) < k}
  IN  [i \in 1..Cardinality(page) |->
         CHOOSE v \in page : Cardinality({w \in page : w < v}) = i - 1]

(* How many records the next page may have. *)
Remaining(c) ==
  LET missing == Interval - Len(got[c]) IN
  IF mode[c] = "tail" /\ missing < PageLimit THEN missing ELSE PageLimit

(* One page: as many records as the database likes, at least one if there  *)
(* is one and no more than asked for; it says whether there may be more.   *)
(* LoadTail reverses what it collected.                                    *)
ReadPage(c) ==
  /\ pc[c] = "read"
  /\ \E k \in 0..Remaining(c), more \in BOOLEAN :
       LET order == FirstReached(mode[c], Ahead(c), k)
           page == [i \in DOMAIN order |-> table[order[i]]]
           all == IF mode[c] = "tail" THEN page \o got[c] ELSE got[c] \o page
           enough == mode[c] = "tail" /\ Len(all) = Interval
       IN
       /\ page = <<>> => Ahead(c) = {} /\ ~more
       /\ Len(page) < Cardinality(Ahead(c)) => more
       /\ got' = [got EXCEPT ![c] = all]
       /\ pc' = [pc EXCEPT ![c] = IF enough \/ ~more THEN "ready" ELSE "read"]
  /\ UNCHANGED <<lifetime, active, now, table, mode, batch, done, began, everStored,
                 acked, torn>>

ReadFails(c) ==
  /\ "read" \in Faults
  /\ pc[c] = "read"
  /\ Leave(c)
  /\ UNCHANGED <<lifetime, active, now, table, everStored, acked, torn>>

(***************************************************************************)
(* What the caller makes of it.                                            *)
(***************************************************************************)
LastRead(c) == IF got[c] = <<>> THEN 0 ELSE got[c][Len(got[c])].version

(* Replaying records: the last snapshot among them replaces what was       *)
(* before it.                                                              *)
Covers(records) ==
  LET start == LastOf({i \in DOMAIN records : records[i].snapshot}) IN
  UNION {records[i].covers : i \in {j \in DOMAIN records : j >= start}}

(* Load's caller has the history. *)
HistoryRead(c) ==
  /\ pc[c] = "ready"
  /\ mode[c] = "all"
  /\ Leave(c)
  /\ UNCHANGED <<lifetime, active, now, table, everStored, acked, torn>>

(* Mutant of NextVersion: no increment. *)
SameVersion(version) == version

(* Builder.NextVersion. *)
NextVersion(version) == version + 1

(* Mutant of SnapshotDue: not the first time. *)
SnapshotDueLate(version) == version % Interval = 0 /\ version # Interval

(* Builder.Snapshot: after the events with these versions. *)
SnapshotDue(version) == version % Interval = 0

(* One event more, and a snapshot after it where one is due.               *)
EmitOn(b, expiry) ==
  LET v == NextVersion(b.version)
      after == b.state \cup {v}
      event == [version |-> v, covers |-> {v}, snapshot |-> FALSE, expiry |-> expiry]
      snapshot == [version |-> NextVersion(v), covers |-> after, snapshot |-> TRUE,
                   expiry |-> expiry]
  IN  IF SnapshotDue(v)
      THEN [records |-> b.records \o <<event, snapshot>>, version |-> NextVersion(v),
            state |-> after]
      ELSE [records |-> Append(b.records, event), version |-> v, state |-> after]

(* EmitEvents: n events on what was read; Repository.Save stamps them all  *)
(* with one expiry.                                                        *)
Emission(c, n) ==
  LET expiry == IF lifetime = 0 THEN 0 ELSE now + lifetime
      emitted[i \in 0..n] ==
        IF i = 0
        THEN [records |-> <<>>, version |-> LastRead(c), state |-> Covers(got[c])]
        ELSE EmitOn(emitted[i - 1], expiry)
  IN  emitted[n].records

Emit(c) ==
  /\ pc[c] = "ready"
  /\ mode[c] = "tail"
  /\ LastRead(c) <= MaxVersion
  /\ \E n \in EventCounts : batch' = [batch EXCEPT ![c] = Emission(c, n)]
  /\ pc' = [pc EXCEPT ![c] = "write"]
  /\ got' = [got EXCEPT ![c] = <<>>]
  /\ began' = [began EXCEPT ![c] = 0]
  /\ UNCHANGED <<lifetime, active, now, table, mode, done, everStored, acked, torn>>

(***************************************************************************)
(* Save.                                                                   *)
(***************************************************************************)
(* The batch a client writes next. *)
NextBatch(c) ==
  LET left == Len(batch[c]) - done[c] IN
  SubSeq(batch[c], done[c] + 1,
         done[c] + (IF left < BatchLimit THEN left ELSE BatchLimit))

VersionsOf(records) == {records[i].version : i \in DOMAIN records}

(* Mutant of Accepts: no condition. *)
AcceptsAnything(records) == TRUE

(* attribute_not_exists; the 409 of a document id that exists. *)
Accepts(records) == VersionsOf(records) \cap DOMAIN table = {}

(* The database stores the records. *)
Store(records) ==
  /\ table' = [v \in DOMAIN table \cup VersionsOf(records) |->
                 IF v \in VersionsOf(records)
                 THEN records[CHOOSE i \in DOMAIN records : records[i].version = v]
                 ELSE table[v]]
  /\ everStored' = everStored \cup
       {records[i].version : i \in {j \in DOMAIN records : ~records[j].snapshot}}

(* Mutant of WriteBatch: Save returns after the first. *)
WriteFirstBatch(c) ==
  /\ pc[c] = "write"
  /\ Accepts(NextBatch(c))
  /\ Store(NextBatch(c))
  /\ Leave(c)
  /\ acked' = acked \cup {r \in Range(batch[c]) : ~Expired(r, now)}
  /\ UNCHANGED <<lifetime, active, now, torn>>

(* One batch; after the last one Save returns. *)
WriteBatch(c) ==
  LET next == NextBatch(c)
      written == done[c] + Len(next)
  IN
  /\ pc[c] = "write"
  /\ Accepts(next)
  /\ Store(next)
  /\ IF written = Len(batch[c])
       THEN Leave(c) /\ acked' = acked \cup {r \in Range(batch[c]) : ~Expired(r, now)}
       ELSE /\ done' = [done EXCEPT ![c] = written]
            /\ UNCHANGED <<pc, mode, got, batch, began, acked>>
  /\ UNCHANGED <<lifetime, active, now, torn>>

(* Save returns an error, the batches before stay. *)
Abandon(c, stored) ==
  /\ torn' = (torn \/ stored \in 1..Len(batch[c]) - 1)
  /\ Leave(c)

(* Mutant of WriteFails: the loop goes on to the next batch. *)
WriteFailsUnnoticed(c) ==
  LET written == done[c] + Len(NextBatch(c)) IN
  /\ pc[c] = "write"
  /\ ~Accepts(NextBatch(c)) \/ "write" \in Faults
  /\ IF written = Len(batch[c])
       THEN Abandon(c, done[c])
       ELSE /\ done' = [done EXCEPT ![c] = written]
            /\ UNCHANGED <<pc, mode, got, batch, began, torn>>
  /\ UNCHANGED <<lifetime, active, now, table, everStored, acked>>

(* The batch is not stored: a version exists, or the database fails. *)
WriteFails(c) ==
  /\ pc[c] = "write"
  /\ ~Accepts(NextBatch(c)) \/ "write" \in Faults
  /\ Abandon(c, done[c])
  /\ UNCHANGED <<lifetime, active, now, table, everStored, acked>>

(* The batch is stored but its reply is lost; or it is sent again and      *)
(* finds its own versions.                                                 *)
WriteReplyLost(c) ==
  /\ "reply" \in Faults
  /\ pc[c] = "write"
  /\ Accepts(NextBatch(c))
  /\ Store(NextBatch(c))
  /\ Abandon(c, done[c] + Len(NextBatch(c)))
  /\ UNCHANGED <<lifetime, active, now, acked>>

Crash(c) ==
  /\ "crash" \in Faults
  /\ pc[c] # "idle"
  /\ Abandon(c, done[c])
  /\ UNCHANGED <<lifetime, active, now, table, everStored, acked>>

(***************************************************************************)
(* Expiry.  The clock matters only where records expire.                   *)
(***************************************************************************)
Tick ==
  /\ lifetime > 0
  /\ now < MaxTime
  /\ now' = now + 1
  /\ acked' = {r \in acked : ~Expired(r, now')}
  /\ UNCHANGED <<lifetime, active, table, client, everStored, torn>>

(* The database deletes some record whose time has passed. *)
Expire ==
  /\ \E v \in DOMAIN table :
       /\ Expired(table[v], now)
       /\ table' = Restrict(table, DOMAIN table \ {v})
  /\ UNCHANGED <<lifetime, active, now, client, everStored, acked, torn>>

Next ==
  \/ \E c \in Clients :
       \/ \E m \in {"tail", "all"} : BeginRead(c, m)
       \/ ReadPage(c) \/ ReadFails(c) \/ HistoryRead(c) \/ Emit(c)
       \/ WriteBatch(c) \/ WriteFails(c) \/ WriteReplyLost(c)
       \/ Crash(c)
  \/ Tick
  \/ Expire

Spec == Init /\ [][Next]_vars

-----------------------------------------------------------------------------
(***************************************************************************)
(* Properties.                                                             *)
(***************************************************************************)
TypeOK ==
  /\ \E d \in Deployments : lifetime = d.lifetime /\ Cardinality(active) = d.clients
  /\ active \subseteq Clients
  /\ now \in 0..MaxTime
  /\ DOMAIN table \subseteq Nat \ {0}
  /\ \A v \in DOMAIN table : table[v] \in Record /\ table[v].version = v
  /\ pc \in [Clients -> {"idle", "read", "ready", "write"}]
  /\ mode \in [Clients -> {"tail", "all"}]
  /\ got \in [Clients -> Seq(Record)]
  /\ batch \in [Clients -> Seq(Record)]
  /\ done \in [Clients -> Nat]
  /\ \A c \in Clients : done[c] <= Len(batch[c])
  /\ began \in [Clients -> Nat]
  /\ everStored \subseteq Nat
  /\ acked \in SUBSET Record
  /\ torn \in BOOLEAN

(* The records of a stream that keeps its records are gapless, whatever    *)
(* batches were cut short.                                                 *)
Gapless == lifetime = 0 => DOMAIN table = 1..LastOf(DOMAIN table)

(* A record once stored is not replaced while it is there.                 *)
RecordsImmutable ==
  [][\A v \in DOMAIN table \cap DOMAIN table' : table'[v] = table[v]]_vars

(* What a read of several pages returns is what the table held at one      *)
(* moment during the read: the last records for LoadTail, all of them for  *)
(* Load, though others wrote between the pages.                            *)
ReadsAreWindows ==
  \A c \in Clients :
    (pc[c] = "ready" /\ lifetime = 0) =>
      LET last == LastRead(c)
          size == IF mode[c] = "tail" /\ last > Interval THEN Interval ELSE last
      IN  /\ last \in began[c]..LastOf(DOMAIN table)
          /\ got[c] = [i \in 1..size |-> table[last - size + i]]

(* The replay of a tail knows every event up to its last version: the      *)
(* lookback window always holds a snapshot.  Unless a save of several      *)
(* batches was cut short, or is under way, between an event and its        *)
(* snapshot.                                                               *)
TailsComplete ==
  \A c \in Clients :
    (pc[c] = "ready" /\ lifetime = 0 /\ ~torn /\ \A d \in Clients : done[d] = 0) =>
      Covers(got[c]) = {v \in everStored : v <= LastRead(c)}

(* The records of a save that returned no error are all there until they   *)
(* expire.                                                                 *)
AckedKept ==
  \A r \in acked : r.version \in DOMAIN table /\ table[r.version] = r

(* The most recent snapshot is always within the lookback window: a tail   *)
(* is the whole stream or holds a snapshot.                                *)
SnapshotInWindow ==
  \A c \in Clients :
    (pc[c] = "ready" /\ mode[c] = "tail" /\ lifetime = 0) =>
      \/ LastRead(c) <= Interval
      \/ \E i \in DOMAIN got[c] : got[c][i].snapshot

=============================================================================
