----------------------------- MODULE MCBoltStore -----------------------------
(***************************************************************************)
(* Small instances of BoltStore for TLC.                                   *)
(***************************************************************************)
EXTENDS BoltStore, TLC

CONSTANTS s1, s2, id1, id2, x, y

CONSTANTS r1, r2, r3

(* Two records, or one that replaces the first of them. *)
MCBatches == {1 :> x @@ 2 :> x, 1 :> y}

(* Two writers, of one id or of two, and a reader. *)
MCOperations ==
  r1 :> {[kind |-> "save", id |-> id1, batch |-> 1 :> x @@ 2 :> x]} @@
  r2 :> {[kind |-> "save", id |-> id, batch |-> 1 :> y] : id \in Ids} @@
  r3 :> {[kind |-> "load", id |-> id1],
         [kind |-> "loadTail", id |-> id1, n |-> 1]}

(* The second instance would put more ids into a shard. *)
MCLimit == s1 :> 1 @@ s2 :> 2

=============================================================================
