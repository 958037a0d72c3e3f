---------------------------- MODULE MCTableSetup ----------------------------
(* A small instance of TableSetup for TLC. *)
EXTENDS TableSetup

CONSTANTS p1, p2

MCProcesses == {p1, p2}
MCProviders == {"dynamo", "cosmos"}
MCFaults == {"call", "reply", "slow", "crash"}

=============================================================================
