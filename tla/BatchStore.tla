---- MODULE BatchStore ----
(***************************************************************************)
(* What "Apply in transaction" promises: the changes previewed together    *)
(* reach the database together, once and in order, or not at all.          *)
(***************************************************************************)
EXTENDS Naturals, Sequences

CONSTANTS
    Conns,      \* connections
    Batches,    \* the sets of changes a user previews
    Size        \* the commands of a batch

VARIABLE durable    \* each connection's committed changes, in order

Whole(b) == [k \in 1..Size |-> <<b, k>>]

Init == durable = [c \in Conns |-> <<>>]

Applied(b) == \E c \in Conns : \E i \in DOMAIN durable[c] : durable[c][i][1] = b

Commit(c, b) ==
    /\ ~Applied(b)
    /\ durable' = [durable EXCEPT ![c] = @ \o Whole(b)]

Next == \E c \in Conns, b \in Batches : Commit(c, b)

Spec == Init /\ [][Next]_durable
====
