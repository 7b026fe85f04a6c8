---- MODULE MCGridEdits ----
(***************************************************************************)
(* GridEdits for TLC: a key and a value column, pages of two rows, two     *)
(* tables.  Five is the first integer the page cannot hold; it is rounded  *)
(* to four, the key of the row before.                                     *)
(***************************************************************************)
EXTENDS GridEdits, TLC

CONSTANTS T1, T2, Id, Name

Row(k, v) == Id :> k @@ Name :> v

MCTabs == {T1, T2}
MCColumns == {Id, Name}
MCKey == {Id}
MCResult == T1 :> <<Row(1, 2), Row(4, 5), Row(5, 1)>> @@ T2 :> <<Row(2, 1)>>
MCTyped == {1, 4}
====
