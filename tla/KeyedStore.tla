----------------------------- MODULE KeyedStore -----------------------------
(***************************************************************************)
(* What BoltDBStore promises, whatever files it uses: a Save puts all its  *)
(* records under their versions in one step, replacing what is there, and  *)
(* nothing else ever changes what is stored.                               *)
(***************************************************************************)
CONSTANTS
  Ids,        \* aggregate ids
  Batches     \* what one Save may store: functions from versions to data

VARIABLE stored   \* the records of each aggregate, a function from versions

Init == stored = [id \in Ids |-> <<>>]

Put(id, batch) ==
  stored' = [stored EXCEPT ![id] =
    [v \in DOMAIN @ \cup DOMAIN batch |->
       IF v \in DOMAIN batch THEN batch[v] ELSE @[v]]]

Next == \E id \in Ids, batch \in Batches : Put(id, batch)

Spec == Init /\ [][Next]_stored

=============================================================================
