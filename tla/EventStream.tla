---------------------------- MODULE EventStream ----------------------------
(***************************************************************************)
(* What Repository.Apply promises of one aggregate, whatever its type:     *)
(* commands take effect one at a time, each on the state that all the      *)
(* events before it add up to, and the events of an accepted command are   *)
(* appended as one batch.                                                  *)
(***************************************************************************)
EXTENDS Sequences

CONSTANTS
  Actors,                \* who issues commands
  Commands,              \* the commands that may be issued
  Replay(_),             \* the state a sequence of events adds up to
  Admissible(_, _),      \* may this command be carried out in this state?
  EvaluateSkips(_, _),   \* is there nothing for it to do?
  EmitEvents(_, _, _)    \* the events of a command, for an actor and a state

VARIABLE stream          \* the events of the aggregate, oldest first

Init == stream = <<>>

Accept(actor, command) ==
  LET current == Replay(stream) IN
  /\ Admissible(command, current)
  /\ ~EvaluateSkips(command, current.data)
  /\ stream' = stream \o EmitEvents(command, actor, current)

(* A command that is carried out leaves at least one event. *)
Next ==
  /\ stream' # stream
  /\ \E actor \in Actors, command \in Commands : Accept(actor, command)

Spec == Init /\ [][Next]_stream

=============================================================================
