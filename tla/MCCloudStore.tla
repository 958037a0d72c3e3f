---------------------------- MODULE MCCloudStore ----------------------------
(***************************************************************************)
(* Small instances of CloudStore for TLC.                                  *)
(***************************************************************************)
EXTENDS CloudStore, TLC

(* Two clients of a store that keeps its records, one of a store that does *)
(* not: a save of two batches may take longer than its records last.       *)
MCDeployments ==
  {[lifetime |-> 0, clients |-> 2], [lifetime |-> 1, clients |-> 1],
   [lifetime |-> 2, clients |-> 1]}

(* Two clients of a store that keeps its records. *)
Keeping == {[lifetime |-> 0, clients |-> 2]}

Symmetry == Permutations(Clients)

=============================================================================
