---- MODULE PagedResult ----
(***************************************************************************)
(* What a paged result promises its consumer (IQueryCursor and ResultPage  *)
(* in src/src/Core/Abstractions/IDatabaseProvider.cs), without pages,      *)
(* look-ahead or a driver: the rows 1..total of one result arrive in       *)
(* order, none twice and none left out, and the flag that comes with a     *)
(* page says exactly whether another row exists.  A fetch that fails       *)
(* breaks the result: rows that were on their way may be gone, but what    *)
(* arrives afterwards is still new and still in order.                     *)
(***************************************************************************)
EXTENDS Naturals, Sequences

VARIABLES
    total,      \* rows the server holds for this result
    delivered,  \* the rows handed to the consumer so far, in order
    more,       \* what the last fetch answered: "yes", "no", or nothing yet
    broken      \* a fetch has failed

vars == <<total, delivered, more, broken>>

Increasing(s) == \A i, j \in 1..Len(s) : i < j => s[i] < s[j]

Init ==
    /\ total \in Nat
    /\ delivered = <<>>
    /\ more = "unasked"
    /\ broken = FALSE

\* A fetch of an intact result delivers the next k rows and says whether rows remain.
Serve ==
    /\ ~broken
    /\ \E k \in 0..total :
          /\ delivered' = delivered \o [i \in 1..k |-> Len(delivered) + i]
          /\ Len(delivered') <= total
          /\ more' = IF Len(delivered') < total THEN "yes" ELSE "no"
          /\ more' = "yes" => k > 0
    /\ UNCHANGED <<total, broken>>

\* A fetch fails: the consumer gets nothing from it.
Break ==
    /\ broken' = TRUE
    /\ more' = "unasked"
    /\ UNCHANGED <<total, delivered>>

\* A fetch of a broken result that does answer: later rows, in order.
ServeBroken ==
    /\ broken
    /\ Len(delivered) <= Len(delivered')
    /\ \A i \in 1..Len(delivered) : delivered'[i] = delivered[i]
    /\ Increasing(delivered')
    /\ more' \in {"yes", "no"}
    /\ UNCHANGED <<total, broken>>

Next == Serve \/ Break \/ ServeBroken

Spec == Init /\ [][Next]_vars
====
