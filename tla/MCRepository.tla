---------------------------- MODULE MCRepository ----------------------------
(***************************************************************************)
(* Small instances of Repository for TLC.  MCCommands is the set of        *)
(* commands the actors issue.                                              *)
(***************************************************************************)
EXTENDS Repository

CONSTANTS i1, i2, a1, a2, k1, v1, v2, addr, b1

Symmetry == Permutations(Actors)

(* Two items of different prices, so that totals tell them apart. *)
Item(id) == [id |-> id, cents |-> IF id = i2 THEN 7 ELSE 5]

Lifecycle ==
  {[name |-> "Create", arg |-> Nil], [name |-> "AddItem", arg |-> Item(i1)],
   [name |-> "RemoveItem", arg |-> i1], [name |-> "Place", arg |-> Nil],
   [name |-> "Cancel", arg |-> Nil]}

Additions ==
  {[name |-> "Create", arg |-> Nil], [name |-> "AddItem", arg |-> Item(i1)],
   [name |-> "AddItem", arg |-> Item(i2)]}

(* Every kind of command; among them an AddItem without an item, items     *)
(* with an empty id, and a SetBilling without a billing.                   *)
EveryKind ==
  Lifecycle \cup
  {[name |-> "AddItem", arg |-> Nil], [name |-> "AddItem", arg |-> Item(Nil)],
   [name |-> "RemoveItem", arg |-> Nil],
   [name |-> "AddTag", arg |-> [key |-> k1, value |-> v1]],
   [name |-> "AddTag", arg |-> [key |-> k1, value |-> v2]],
   [name |-> "RemoveTag", arg |-> k1], [name |-> "SetShipping", arg |-> addr],
   [name |-> "SetBilling", arg |-> b1], [name |-> "SetBilling", arg |-> Nil],
   [name |-> "ClearBilling", arg |-> Nil]}

=============================================================================
