---- MODULE MCQueryCursor ----
(***************************************************************************)
(* QueryCursor for TLC: results of up to MaxTotal rows, pages of every     *)
(* size up to one past the longest result, and the out-of-range sizes 0    *)
(* and -1 that FetchAsync normalises.                                      *)
(***************************************************************************)
EXTENDS QueryCursor

MCRequests == -1..(MaxTotal + 1)
====
