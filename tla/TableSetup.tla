----------------------------- MODULE TableSetup -----------------------------
(***************************************************************************)
(* Setting up the tables of the cloud stores: EnsureTables of              *)
(* dynamodbstore, EnsureDatabase and EnsureContainers of cosmosdbstore,    *)
(* and the two command line tools that call them and that repair, release  *)
(* and delete what they made.                                              *)
(*                                                                         *)
(* A command is the list of calls it makes to the cloud provider, one step *)
(* each.  Several processes run commands at a time on the same tables; any *)
(* call may fail, the reply of a creation may be lost, and a process may   *)
(* die between two calls.                                                  *)
(***************************************************************************)
EXTENDS Naturals, Sequences, FiniteSets

CONSTANTS
  Processes,     \* who runs set-up commands
  Providers,     \* "dynamo", "cosmos"
  Faults,        \* "call", "reply", "slow", "crash"
  MaxCommands    \* bound on the commands run in all

ASSUME SetupAssumption ==
  /\ Providers \subseteq {"dynamo", "cosmos"}
  /\ MaxCommands \in Nat

VARIABLES
  provider,      \* the cloud, once and for all
  database,      \* the Cosmos database exists
  table,         \* what there is of each table or container
  command,       \* the command each process runs or ran last
  calls,         \* the calls it has still to make
  outcome        \* how it ended

(* Auxiliary. *)
VARIABLES
  started,       \* the number of commands begun
  cleared,       \* processes whose command a deletion came upon
  released,      \* tables that were released from protection since creation
  troubled,      \* tables whose set-up met with a fault since creation
  faulty         \* processes whose command met with a fault

process == <<command, calls, outcome>>
history == <<started, cleared, released, troubled, faulty>>
vars == <<provider, database, table, process, history>>

Tables == {"events", "aggregates"}

(* The keys of a table, partition key first; a container has only that,    *)
(* the document id is the other.                                           *)
EventKeys == IF provider = "dynamo" THEN <<"a", "v">> ELSE <<"a">>
AggregateKeys == IF provider = "dynamo" THEN <<"pk", "sk">> ELSE <<"pk">>

NoTable ==
  [status |-> "absent", keys |-> <<>>, protected |-> FALSE, pitr |-> FALSE,
   ttl |-> FALSE]

Exists(t) == table[t].status # "absent"

(***************************************************************************)
(* The commands.                                                           *)
(***************************************************************************)
Call(name, t, keys) == [name |-> name, table |-> t, keys |-> keys]

(* Mutant of EnsureEventsTable: it does not wait. *)
EnsureEventsTableAtOnce ==
  <<Call("TableExists", "events", <<>>), Call("CreateTable", "events", EventKeys),
    Call("EnablePITR", "events", <<>>), Call("EnableTTL", "events", <<>>)>>

EnsureEventsTable ==
  <<Call("TableExists", "events", <<>>), Call("CreateTable", "events", EventKeys),
    Call("WaitActive", "events", <<>>),
    Call("EnablePITR", "events", <<>>), Call("EnableTTL", "events", <<>>)>>

(* The twenty indexes are part of the creation. *)
EnsureAggregatesTable ==
  <<Call("TableExists", "aggregates", <<>>),
    Call("CreateTable", "aggregates", AggregateKeys),
    Call("WaitActive", "aggregates", <<>>),
    Call("EnablePITR", "aggregates", <<>>), Call("EnableTTL", "aggregates", <<>>)>>

EnsureTables == EnsureEventsTable \o EnsureAggregatesTable

EnsureDatabase ==
  <<Call("ReadDatabase", "database", <<>>), Call("CreateDatabase", "database", <<>>)>>

EnsureContainer(t, keys) ==
  <<Call("TableExists", t, <<>>), Call("CreateContainer", t, keys)>>

EnsureContainers ==
  EnsureContainer("events", EventKeys) \o EnsureContainer("aggregates", AggregateKeys)

(* One call for each of the two tables. *)
Both(name) == <<Call(name, "events", <<>>), Call(name, "aggregates", <<>>)>>

Fix ==
  <<Call("EnablePITR", "events", <<>>), Call("EnableTTL", "events", <<>>),
    Call("EnablePITR", "aggregates", <<>>), Call("EnableTTL", "aggregates", <<>>)>>

(* testdynamo-setup. *)
DynamoCommand(c) ==
  CASE c = "create"             -> EnsureTables
    [] c = "fix"                -> Fix
    [] c = "delete"             -> Both("DeleteTable")
    [] c = "disable-protection" -> Both("DisableProtection")

(* testcosmos-setup. *)
CosmosCommand(c) ==
  CASE c = "create" -> EnsureDatabase \o EnsureContainers
    [] c = "delete" -> Both("DeleteContainer")

Offered ==
  IF provider = "dynamo" THEN {"create", "fix", "delete", "disable-protection"}
  ELSE {"create", "delete"}

CallsOf(c) == IF provider = "dynamo" THEN DynamoCommand(c) ELSE CosmosCommand(c)

Init ==
  /\ provider \in Providers
  /\ database = FALSE
  /\ table = [t \in Tables |-> NoTable]
  /\ command = [p \in Processes |-> "none"]
  /\ calls = [p \in Processes |-> <<>>]
  /\ outcome = [p \in Processes |-> "none"]
  /\ started = 0
  /\ cleared = {}
  /\ released = {}
  /\ troubled = {}
  /\ faulty = {}

Running(p) == calls[p] # <<>>

At(p, name) == Running(p) /\ Head(calls[p]).name = name

(* Somebody deletes tables, or the provider has not finished doing so. *)
Deleting ==
  \/ \E p \in Processes : command[p] = "delete" /\ Running(p)
  \/ \E t \in Tables : table[t].status = "deleting"

Start(p, c) ==
  /\ ~Running(p)
  /\ started < MaxCommands
  /\ c \in Offered
  /\ started' = started + 1
  /\ command' = [command EXCEPT ![p] = c]
  /\ calls' = [calls EXCEPT ![p] = CallsOf(c)]
  /\ outcome' = [outcome EXCEPT ![p] = "none"]
  /\ cleared' = IF c = "delete" THEN Processes
                ELSE IF Deleting THEN cleared ELSE cleared \ {p}
  /\ faulty' = faulty \ {p}
  /\ UNCHANGED <<provider, database, table, released, troubled>>

(* The command goes on with these calls, or ends well. *)
Proceed(p, rest) ==
  /\ calls' = [calls EXCEPT ![p] = rest]
  /\ outcome' = [outcome EXCEPT ![p] = IF rest = <<>> THEN "ok" ELSE "none"]
  /\ UNCHANGED command

(* The command ends with an error. *)
Fail(p) ==
  /\ calls' = [calls EXCEPT ![p] = <<>>]
  /\ outcome' = [outcome EXCEPT ![p] = "error"]
  /\ UNCHANGED command

(* The function for this table returns: the next call is the first on      *)
(* another.                                                                *)
Others(cs, t) ==
  LET Foreign == {i \in DOMAIN cs : cs[i].table # t}
  IN  IF Foreign = {} THEN <<>>
      ELSE SubSeq(cs, CHOOSE k \in Foreign : \A i \in Foreign : k <= i, Len(cs))

SetTable(t, value) == table' = [table EXCEPT ![t] = value]

(***************************************************************************)
(* Creation.                                                               *)
(***************************************************************************)
(* A table that is there, in whatever state, is left alone. *)
TableExists(p) ==
  /\ At(p, "TableExists")
  /\ LET t == Head(calls[p]).table IN
       Proceed(p, IF Exists(t) THEN Others(calls[p], t) ELSE Tail(calls[p]))
  /\ UNCHANGED <<provider, database, table, history>>

(* Mutants of Created: without deletion protection; with the keys of the   *)
(* other table; with sort and partition key exchanged.                     *)
CreatedUnprotected(keys) ==
  [status |-> "creating", keys |-> keys, protected |-> FALSE, pitr |-> FALSE,
   ttl |-> FALSE]

CreatedWithEventKeys(keys) ==
  [status |-> "creating", keys |-> EventKeys, protected |-> TRUE, pitr |-> FALSE,
   ttl |-> FALSE]

CreatedWithKeysExchanged(keys) ==
  [status |-> "creating", keys |-> <<keys[2], keys[1]>>, protected |-> TRUE,
   pitr |-> FALSE, ttl |-> FALSE]

(* What CreateTable asks for. *)
Created(keys) ==
  [status |-> "creating", keys |-> keys, protected |-> TRUE, pitr |-> FALSE,
   ttl |-> FALSE]

(* ResourceInUse if another process came first. *)
CreateTable(p) ==
  /\ At(p, "CreateTable")
  /\ LET call == Head(calls[p]) IN
       IF Exists(call.table)
       THEN Fail(p) /\ UNCHANGED table
       ELSE Proceed(p, Tail(calls[p])) /\ SetTable(call.table, Created(call.keys))
  /\ UNCHANGED <<provider, database, history>>

WaitActive(p) ==
  /\ At(p, "WaitActive")
  /\ table[Head(calls[p]).table].status = "active"
  /\ Proceed(p, Tail(calls[p]))
  /\ UNCHANGED <<provider, database, table, history>>

(* Mutant of WaitTimesOut: the wait has no limit of its own. *)
WaitTimesOutIfSlow(p) ==
  /\ At(p, "WaitActive")
  /\ "slow" \in Faults
  /\ LET t == Head(calls[p]).table IN
       /\ table[t].status = "creating"
       /\ troubled' = troubled \cup {t}
  /\ faulty' = faulty \cup {p}
  /\ Fail(p)
  /\ UNCHANGED <<provider, database, table, started, cleared, released>>

(* Two minutes have passed: the provider is slow, or the table went away. *)
WaitTimesOut(p) ==
  /\ At(p, "WaitActive")
  /\ LET t == Head(calls[p]).table IN
       /\ table[t].status # "active"
       /\ table[t].status = "creating" => "slow" \in Faults
       /\ troubled' = IF table[t].status = "creating" THEN troubled \cup {t} ELSE troubled
       /\ faulty' = IF table[t].status = "creating" THEN faulty \cup {p} ELSE faulty
  /\ Fail(p)
  /\ UNCHANGED <<provider, database, table, started, cleared, released>>

(* A setting of an active table; refused otherwise, which is ignored by    *)
(* EnsureTables and printed by fix.                                        *)
EnablePITR(p) ==
  /\ At(p, "EnablePITR")
  /\ LET t == Head(calls[p]).table IN
       SetTable(t, IF table[t].status = "active"
                   THEN [table[t] EXCEPT !.pitr = TRUE] ELSE table[t])
  /\ Proceed(p, Tail(calls[p]))
  /\ UNCHANGED <<provider, database, history>>

EnableTTL(p) ==
  /\ At(p, "EnableTTL")
  /\ LET t == Head(calls[p]).table IN
       SetTable(t, IF table[t].status = "active"
                   THEN [table[t] EXCEPT !.ttl = TRUE] ELSE table[t])
  /\ Proceed(p, Tail(calls[p]))
  /\ UNCHANGED <<provider, database, history>>

ReadDatabase(p) ==
  /\ At(p, "ReadDatabase")
  /\ Proceed(p, IF database THEN Others(calls[p], "database") ELSE Tail(calls[p]))
  /\ UNCHANGED <<provider, database, table, history>>

(* A conflict is as good as a creation. *)
CreateDatabase(p) ==
  /\ At(p, "CreateDatabase")
  /\ database' = TRUE
  /\ Proceed(p, Tail(calls[p]))
  /\ UNCHANGED <<provider, table, history>>

(* A container, usable at once; its items expire by their own ttl. *)
Container(keys) ==
  [status |-> "active", keys |-> keys, protected |-> FALSE, pitr |-> FALSE,
   ttl |-> TRUE]

(* Mutant of CreateContainer: a conflict is an error. *)
CreateContainerAlone(p) ==
  /\ At(p, "CreateContainer")
  /\ LET call == Head(calls[p]) IN
       IF Exists(call.table)
       THEN Fail(p) /\ UNCHANGED table
       ELSE Proceed(p, Tail(calls[p])) /\ SetTable(call.table, Container(call.keys))
  /\ UNCHANGED <<provider, database, history>>

CreateContainer(p) ==
  /\ At(p, "CreateContainer")
  /\ LET call == Head(calls[p]) IN
       SetTable(call.table,
                IF Exists(call.table) THEN table[call.table] ELSE Container(call.keys))
  /\ Proceed(p, Tail(calls[p]))
  /\ UNCHANGED <<provider, database, history>>

(***************************************************************************)
(* Deletion.  Errors are printed and the command goes on.                  *)
(***************************************************************************)
DisableProtection(p) ==
  /\ At(p, "DisableProtection")
  /\ LET t == Head(calls[p]).table IN
       IF table[t].status = "active"
       THEN /\ SetTable(t, [table[t] EXCEPT !.protected = FALSE])
            /\ released' = released \cup {t}
       ELSE UNCHANGED <<table, released>>
  /\ Proceed(p, Tail(calls[p]))
  /\ UNCHANGED <<provider, database, started, cleared, troubled, faulty>>

DeleteTable(p) ==
  /\ At(p, "DeleteTable")
  /\ LET t == Head(calls[p]).table IN
       SetTable(t, IF table[t].status = "active" /\ ~table[t].protected
                   THEN [table[t] EXCEPT !.status = "deleting"] ELSE table[t])
  /\ Proceed(p, Tail(calls[p]))
  /\ UNCHANGED <<provider, database, history>>

DeleteContainer(p) ==
  /\ At(p, "DeleteContainer")
  /\ SetTable(Head(calls[p]).table, NoTable)
  /\ Proceed(p, Tail(calls[p]))
  /\ UNCHANGED <<provider, database, history>>

(***************************************************************************)
(* The provider, and what goes wrong.                                      *)
(***************************************************************************)
BecomeActive(t) ==
  /\ table[t].status = "creating"
  /\ SetTable(t, [table[t] EXCEPT !.status = "active"])
  /\ UNCHANGED <<provider, database, process, history>>

Vanish(t) ==
  /\ table[t].status = "deleting"
  /\ SetTable(t, NoTable)
  /\ released' = released \ {t}
  /\ troubled' = troubled \ {t}
  /\ UNCHANGED <<provider, database, process, started, cleared, faulty>>

(* The tables a process would still have worked on. *)
LeftBehind(p) == {calls[p][i].table : i \in DOMAIN calls[p]} \cap Tables

Trouble(p) ==
  /\ troubled' = troubled \cup LeftBehind(p)
  /\ faulty' = faulty \cup {p}
  /\ UNCHANGED <<started, cleared, released>>

(* The calls whose errors do not end a command. *)
Ignored ==
  {"EnablePITR", "EnableTTL", "DisableProtection", "DeleteTable", "DeleteContainer"}

(* A call fails with no effect. *)
CallFails(p) ==
  /\ "call" \in Faults
  /\ Running(p)
  /\ Trouble(p)
  /\ IF Head(calls[p]).name \in Ignored
       THEN Proceed(p, Tail(calls[p]))
       ELSE Fail(p)
  /\ UNCHANGED <<provider, database, table>>

(* A table or container is created, but its creator is told otherwise. *)
CreateReplyLost(p) ==
  /\ "reply" \in Faults
  /\ At(p, "CreateTable") \/ At(p, "CreateContainer")
  /\ LET call == Head(calls[p]) IN
       /\ ~Exists(call.table)
       /\ SetTable(call.table,
                   IF call.name = "CreateTable" THEN Created(call.keys)
                   ELSE Container(call.keys))
  /\ Trouble(p)
  /\ Fail(p)
  /\ UNCHANGED <<provider, database>>

(* So is the database. *)
DatabaseReplyLost(p) ==
  /\ "reply" \in Faults
  /\ At(p, "CreateDatabase")
  /\ database' = TRUE
  /\ Trouble(p)
  /\ Fail(p)
  /\ UNCHANGED <<provider, table>>

Crash(p) ==
  /\ "crash" \in Faults
  /\ Running(p)
  /\ Trouble(p)
  /\ Fail(p)
  /\ UNCHANGED <<provider, database, table>>

Continue(p) ==
  \/ TableExists(p) \/ CreateTable(p) \/ WaitActive(p) \/ WaitTimesOut(p)
  \/ EnablePITR(p) \/ EnableTTL(p)
  \/ ReadDatabase(p) \/ CreateDatabase(p) \/ CreateContainer(p)
  \/ DisableProtection(p) \/ DeleteTable(p) \/ DeleteContainer(p)

Next ==
  \/ \E p \in Processes :
       \/ \E c \in {"create", "fix", "delete", "disable-protection"} : Start(p, c)
       \/ Continue(p)
       \/ CallFails(p) \/ CreateReplyLost(p) \/ DatabaseReplyLost(p) \/ Crash(p)
  \/ \E t \in Tables : BecomeActive(t) \/ Vanish(t)

Spec == Init /\ [][Next]_vars

(* A command that runs goes on, and the provider does what it began.  No   *)
(* call has to fail, nobody has to run a command.                          *)
FairSpec ==
  /\ Spec
  /\ \A p \in Processes : WF_vars(Continue(p))
  /\ \A t \in Tables : WF_vars(BecomeActive(t)) /\ WF_vars(Vanish(t))

-----------------------------------------------------------------------------
(***************************************************************************)
(* Properties.                                                             *)
(***************************************************************************)
CallNames ==
  {"TableExists", "CreateTable", "WaitActive", "EnablePITR", "EnableTTL",
   "ReadDatabase", "CreateDatabase", "CreateContainer", "DisableProtection",
   "DeleteTable", "DeleteContainer"}

Keys == {<<>>, <<"a">>, <<"pk">>, <<"a", "v">>, <<"pk", "sk">>}

TypeOK ==
  /\ provider \in Providers
  /\ database \in BOOLEAN
  /\ table \in [Tables ->
       [status : {"absent", "creating", "active", "deleting"}, keys : Keys,
        protected : BOOLEAN, pitr : BOOLEAN, ttl : BOOLEAN]]
  /\ command \in [Processes ->
       {"none", "create", "fix", "delete", "disable-protection"}]
  /\ \A p \in Processes :
       calls[p] \in Seq([name : CallNames, table : Tables \cup {"database"}, keys : Keys])
  /\ DOMAIN calls = Processes
  /\ outcome \in [Processes -> {"none", "ok", "error"}]
  /\ started \in 0..MaxCommands
  /\ cleared \subseteq Processes
  /\ released \subseteq Tables
  /\ troubled \subseteq Tables
  /\ faulty \subseteq Processes

(* Creation that reports success leaves both tables there with the keys    *)
(* the stores use, whoever created them and whatever went wrong elsewhere; *)
(* unless a deletion was under way when it began or began later: it takes  *)
(* a table that is being deleted for one that is there.                    *)
SuccessMeansTables ==
  \A p \in Processes :
    command[p] = "create" /\ outcome[p] = "ok" /\ p \notin cleared =>
      /\ Exists("events") /\ table["events"].keys = EventKeys
      /\ Exists("aggregates") /\ table["aggregates"].keys = AggregateKeys

(* When nobody works on a table any more and no fault befell its set-up,   *)
(* its records expire and, on DynamoDB, can be restored: processes that    *)
(* found it there have not kept its creator from finishing.                *)
SettingsComplete ==
  \A t \in Tables :
    table[t].status = "active" /\ t \notin troubled
      /\ (\A p \in Processes : t \notin LeftBehind(p)) =>
      /\ table[t].ttl
      /\ provider = "dynamo" => table[t].pitr

(* Creators can race: without a fault or a deletion meanwhile only one     *)
(* that lost the race for a DynamoDB table fails, and then the table is    *)
(* there; on Cosmos none fails.                                            *)
RacersSucceed ==
  \A p \in Processes :
    command[p] = "create" /\ outcome[p] = "error" /\ p \notin faulty /\ p \notin cleared =>
      /\ provider = "dynamo"
      /\ \E t \in Tables : Exists(t)

(* A DynamoDB table goes only after it was released: creation protects it  *)
(* and no other command takes the protection away.                         *)
DeletionReleased ==
  \A t \in Tables : table[t].status = "deleting" => t \in released

(* Every command comes to its end, also when the table it waits for is     *)
(* deleted under it.                                                       *)
CommandsReturn == \A p \in Processes : Running(p) ~> ~Running(p)

=============================================================================
