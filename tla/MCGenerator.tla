---------------------------- MODULE MCGenerator ----------------------------
(***************************************************************************)
(* The four files of the example application and what an author may make   *)
(* of them: any one edit of a list, then, in the sample file, one of a key *)
(* or of the events of a command.                                          *)
(***************************************************************************)
EXTENDS Generator

CONSTANTS Nil, item, home, card

MCFiles == {OrderFile, SampleFile, NoSnapshotFile, TestFile}

EventNames(f) == {e.name : e \in Events(f)}

(* One message changed in one way. *)
Rewritten(f, k, M) == {[f EXCEPT !.messages[k] = m] : m \in M}

FieldEdits(m, j) ==
  {[m EXCEPT !.fields[j].name = name] : name \in {"state", "body", "number"}} \cup
  {[m EXCEPT !.fields[j].number = 20]} \cup
  {[m EXCEPT !.fields[j].type = type] : type \in {"string", "int64", "State", "Billing"}} \cup
  {[m EXCEPT !.fields[j].shape = "repeated"]} \cup
  {[m EXCEPT !.fields = SubSeq(@, 1, j - 1) \o SubSeq(@, j + 1, Len(@))]}

KeyEdits(m, j) ==
  {[m EXCEPT !.fields[j].slots = slots] :
     slots \in {<<>>, << <<1, 1>> >>, << <<2, 0>> >>, << <<4, 1>> >>, << <<4, 2>> >>,
                << <<5, 1>> >>, << <<6, 0>> >>}} \cup
  {[m EXCEPT !.fields[j].slots = Append(@, slot)] :
     slot \in {<<3, 1>>, <<3, 2>>, <<5, 0>>, <<6, 1>>}}

CommandEdits(m, f) ==
  {[m EXCEPT !.lifecycle = lifecycle] :
     lifecycle \in {"UNSPECIFIED", "CREATION", "MUTATION"}} \cup
  {[m EXCEPT !.produces = <<e>>] : e \in EventNames(f)} \cup
  {[m EXCEPT !.produces = Append(@, e)] : e \in EventNames(f) \cup {"Missing"}} \cup
  {[m EXCEPT !.produces = <<>>]} \cup
  {[m EXCEPT !.allowed = <<s>>] : s \in f.values \cup {"STATE_ODD"}} \cup
  {[m EXCEPT !.name = name] : name \in {"CREATE", "Load", "GSI1PK"}}

EventEdits(m, f) ==
  {[m EXCEPT !.sets = s] : s \in f.values \cup {"STATE_ODD"}} \cup
  {[m EXCEPT !.collection = Collection(target, action, key)] :
     target \in {"", "items", "tags", "body"}, action \in {"UNSPECIFIED", "ADD", "REMOVE"},
     key \in {"", "item_id", "key", "quantity"}} \cup
  {[m EXCEPT !.collection = NoCollection]}

(* What a message becomes. *)
MessageEdits(f, k) ==
  LET m == f.messages[k] IN
  UNION {FieldEdits(m, j) : j \in DOMAIN m.fields} \cup
  (IF IsView(m) THEN UNION {KeyEdits(m, j) : j \in DOMAIN m.fields} ELSE {}) \cup
  (CASE m.role = "command"  -> CommandEdits(m, f)
     [] m.role = "event"    -> EventEdits(m, f)
     [] m.role = "snapshot" -> {[m EXCEPT !.disabled = TRUE], [m EXCEPT !.everyN = 0]}
     [] OTHER               -> {[m EXCEPT !.role = "aggregate"]})

(* The key of the elements named otherwise, wherever it is one. *)
KeyRenamed(f, key, name) ==
  [f EXCEPT !.messages = [k \in DOMAIN @ |->
     LET m == @[k] IN
     IF m.role = "event" /\ m.collection.key = key THEN [m EXCEPT !.collection.key = name]
     ELSE IF m.role = "plain"
     THEN [m EXCEPT !.fields = [j \in DOMAIN @ |->
             IF @[j].name = key THEN [@[j] EXCEPT !.name = name] ELSE @[j]]]
     ELSE m]]

FileEdits(f) ==
  UNION {Rewritten(f, k, MessageEdits(f, k)) : k \in DOMAIN f.messages} \cup
  {[f EXCEPT !.messages = SubSeq(@, 1, k - 1) \o SubSeq(@, k + 1, Len(@))] :
     k \in DOMAIN f.messages} \cup
  {[f EXCEPT !.messages = <<@[2], @[1]>> \o SubSeq(@, 3, Len(@))],
   [f EXCEPT !.enabled = FALSE]} \cup
  {KeyRenamed(f, key, name) : key \in {"item_id", "key"}, name \in {"id", "actor"}}

SecondEdits(f) ==
  UNION {Rewritten(f, k,
           LET m == f.messages[k] IN
           CASE m.role = "aggregate" -> UNION {KeyEdits(m, j) : j \in DOMAIN m.fields}
             [] m.role = "command"   -> {[m EXCEPT !.produces = Append(@, e)] : e \in EventNames(f)}
             [] OTHER                -> {}) : k \in DOMAIN f.messages}

MCEdits(f, done) ==
  IF done = 0 THEN FileEdits(f) ELSE IF f.package = "sample" THEN SecondEdits(f) ELSE {}

(***************************************************************************)
(* The generated modules of the example application.                       *)
(***************************************************************************)
O == INSTANCE OrderService WITH
       Actors <- {}, ItemIds <- {item}, Cents <- {1}, TagKeys <- {}, TagValues <- {},
       Addresses <- {home}, Billings <- {card}, SnapshotInterval <- 50
S == INSTANCE SampleService WITH SnapshotInterval <- 50
N == INSTANCE NoSnapshotService

(* The versions at which ValidateVersion lets a command through. *)
VersionsOf(Validates(_, _), name) ==
  {v \in {"new", "existing"} : Validates([name |-> name], IF v = "new" THEN 0 ELSE 1)}

OrderAsWritten(c) ==
  /\ c.routes = O!RegisterRoutes
  /\ DOMAIN c.commands = O!CommandNames
  /\ \A name \in O!CommandNames :
       /\ c.commands[name].emits = <<O!Produces(name)>>
       /\ c.commands[name].versions = VersionsOf(O!ValidateVersion, name)
       /\ \A s \in O!States :
            O!GuardState([name |-> name], [state |-> s]) <=>
              (c.commands[name].guarded => "STATE_" \o s \in c.commands[name].states)
  /\ c.interval = 50

SampleAsWritten(c) ==
  /\ c.routes = S!RegisterRoutes
  /\ DOMAIN c.commands = S!CommandNames
  /\ \A name \in S!CommandNames :
       /\ c.commands[name].emits = <<S!Produces(name)>>
       /\ c.commands[name].versions = VersionsOf(S!ValidateVersion, name)
  /\ c.interval = 50

NoSnapshotAsWritten(c) ==
  /\ c.routes = N!RegisterRoutes
  /\ DOMAIN c.commands = N!CommandNames
  /\ \A name \in N!CommandNames :
       c.commands[name].versions = VersionsOf(N!ValidateVersion, name)
  /\ c.interval = 0

(* What the generator, modelled from its own code, makes of the files in   *)
(* the repository is what the services, modelled from the generated code,  *)
(* are: routes, commands, guards and life cycles agree, and unedited files *)
(* are accepted.  A model that no longer follows its code is noticed, a    *)
(* generated file that its model does not follow is not.                   *)
GeneratedAsWritten ==
  edits = 0 /\ plugin # "idle" =>
    /\ plugin = "done" /\ Compiles(code[1])
    /\ CASE file.package = "order"            -> OrderAsWritten(code[1])
         [] file.package = "sample"           -> SampleAsWritten(code[1])
         [] file.package = "samplenosnapshot" -> NoSnapshotAsWritten(code[1])
         [] OTHER                             -> TRUE

=============================================================================
