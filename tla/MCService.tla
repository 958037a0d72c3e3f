----------------------------- MODULE MCService -----------------------------
(***************************************************************************)
(* A service with an aggregate or two of its own to begin with, and two    *)
(* requests from a short list of calls for each application.  alice may do *)
(* everything, bob may create and read, carol is not known.                *)
(***************************************************************************)
EXTENDS Service

CONSTANTS item, home, card

MCActors == {"alice", "bob", "carol", "Unknown"}
MCItemIds == {item}
MCCents == {5}
MCTagKeys == {}
MCTagValues == {}
MCAddresses == {home}
MCBillings == {card}

MCIds == {<<"a">>, <<"b">>, <<"c">>, <<"load">>, <<"history">>, <<"a", "b">>}

Reads ==
  {"LoadOrder", "GetOrder", "HistoryOrder", "QueryByCustomerId",
   "LoadSample", "GetSample", "HistorySample", "QueryByCreateBy"}

MCGrants ==
  [alice |-> Reads \cup {"Update"} \cup
             {"Create", "AddItem", "RemoveItem", "AddTag", "RemoveTag", "SetShipping",
              "SetBilling", "ClearBilling", "Place", "Cancel"},
   bob   |-> Reads \cup {"Create", "Place"}]

Ask(caller, name, id, arg, op, values) ==
  [caller |-> caller,
   call |-> [name |-> name, id |-> id, arg |-> arg, op |-> op, values |-> values]]

Tell(caller, name, id, arg) == Ask(caller, name, id, arg, "none", <<>>)

Simple(arg, again) ==
  <<Tell("bob", "Create", <<"c">>, arg), Tell("carol", "Create", <<"c">>, arg),
    Tell("bob", again, <<"a">>, arg), Tell("alice", again, <<"a">>, arg),
    Tell("alice", "Create", <<"load">>, arg), Tell("alice", again, <<>>, arg),
    Tell("bob", "Load", <<"a">>, Nil), Tell("bob", "Load", <<"c">>, Nil),
    Tell("bob", "Load", <<"history">>, Nil),
    Tell("bob", "Get", <<"c">>, Nil), Tell("bob", "Get", <<"load">>, Nil),
    Tell("bob", "History", <<"a">>, Nil), Tell("bob", "History", <<"load">>, Nil),
    Tell("bob", "Load", <<>>, Nil), Tell("bob", "Get", <<"a", "b">>, Nil)>>

MCTraffic ==
  [order |->
     Simple("carol", "Cancel") \o
     <<Tell("alice", "Place", <<"a">>, 15), Tell("bob", "Place", <<"b">>, 9),
       Tell("alice", "AddItem", <<"a">>, [id |-> item, cents |-> 5]),
       Tell("alice", "RemoveItem", <<"b">>, item),
       Tell("alice", "SetBilling", <<"b">>, Nil),
       Tell("alice", "SetShipping", <<"b">>, home),
       Tell("alice", "ClearBilling", <<"b">>, Nil),
       Tell("alice", "QueryByCustomerId", <<>>, "carol"),
       Ask("alice", "QueryByCustomerIdWithCreateAt", <<>>, "carol", "ge", <<11>>),
       Ask("alice", "QueryByCustomerIdWithCreateAt", <<>>, "carol", "between", <<10>>),
       Ask("alice", "QueryByCustomerIdBetweenCreateAt", <<>>, "carol", "between",
           <<10, 11>>),
       Ask("alice", "QueryByCustomerIdBetweenCreateAt", <<>>, "carol", "between",
           <<9, 11>>),
       Ask("alice", "SelectOrderSummaryByState", <<>>, "DRAFT", "none", <<>>),
       Ask("alice", "SelectOrderSummaryByStateWithPlacedAt", <<>>, "PLACED", "le", <<12>>),
       Ask("alice", "SelectOrderSummaryByStateWithPlacedAt", <<>>, "PLACED", "between",
           <<12>>),
       Ask("alice", "SelectOrderSummaryByCustomerId", <<>>, "carol", "none", <<>>),
       Ask("alice", "SelectOrderSummaryByCustomerIdWithCreateAt", <<>>, "carol", "lt",
           <<11>>),
       Tell("alice", "GetOrderSummary", <<"a">>, Nil)>>,
   sample |->
     Simple("text", "Update") \o
     <<Ask("bob", "QueryByCreateBy", <<>>, "alice", "none", <<>>),
       Ask("bob", "QueryByCreateByWithCreateAt", <<>>, "alice", "gt", <<10>>),
       Ask("bob", "QueryByCreateByWithCreateAt", <<>>, "alice", "eq", <<9>>),
       Ask("bob", "QueryByCreateByWithCreateAt", <<>>, "alice", "about", <<11>>),
       Ask("bob", "QueryByCreateByWithCreateAt", <<>>, "alice", "begins_with", <<1>>),
       Ask("bob", "QueryByCreateByBetweenCreateAt", <<>>, "alice", "between", <<10, 11>>)>>,
   samplenosnapshot |-> Simple("text", "Update")]

Made(id, arg, at) ==
  [name |-> "Create", id |-> id, arg |-> arg, actor |-> "alice", at |-> at]

MCSeed ==
  [order |-> <<Made(<<"a">>, "carol", 10), Made(<<"b">>, "carol", 11)>>,
   sample |-> <<Made(<<"a">>, "text", 10), Made(<<"b">>, "text", 9)>>,
   samplenosnapshot |-> <<Made(<<"a">>, "text", 10)>>]

=============================================================================
