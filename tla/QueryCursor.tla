---- MODULE QueryCursor ----
(***************************************************************************)
(* AdoQueryCursor (src/src/Core.Relational/Execution/AdoQueryCursor.cs):   *)
(* a forward-only reader cut into pages.  After a full page FetchAsync     *)
(* reads one row ahead, so that HasMore is exact; that row waits in        *)
(* `pending` and opens the next page.                                      *)
(*                                                                         *)
(* A row is its position 1..total in the result.  Every await of           *)
(* _reader.ReadAsync is a step of its own (a row, the end of the result,   *)
(* or an exception), so DisposeAsync may come between any two of them.     *)
(* The cursor is used by one fetch at a time.                              *)
(***************************************************************************)
EXTENDS Integers, Sequences

CONSTANTS
    MaxTotal,   \* bound: the longest result considered
    Requests    \* the values of FetchAsync's maxRows argument

ASSUME CursorAssumption == MaxTotal \in Nat /\ Requests \subseteq Int

VARIABLES
    total,      \* rows the server holds for this result
    pos,        \* rows the reader has consumed
    pending,    \* _pending: the row read ahead, 0 when null
    exhausted,  \* _exhausted
    phase,      \* "idle", or "fetching" while a FetchAsync is in flight
    limit,      \* maxRows of that fetch, once normalised
    records,    \* the page being filled
    disposed,   \* DisposeAsync has been called
    delivered,  \* history: the rows of all pages returned, in order
    more,       \* history: HasMore of the last fetch, "unasked" if it has none
    failed      \* history: a fetch has thrown

vars == <<total, pos, pending, exhausted, phase, limit, records, disposed,
          delivered, more, failed>>

Waiting == IF pending = 0 THEN <<>> ELSE <<pending>>

Increasing(s) == \A i, j \in 1..Len(s) : i < j => s[i] < s[j]

----------------------------------------------------------------------------

\* A statement without fields (hasFields FALSE) yields no rows and starts exhausted.
Init ==
    /\ \E hasFields \in BOOLEAN :
          /\ total \in IF hasFields THEN 0..MaxTotal ELSE {0}
          /\ exhausted = ~hasFields
    /\ pos = 0 /\ pending = 0
    /\ phase = "idle" /\ limit = 1 /\ records = <<>>
    /\ disposed = FALSE
    /\ delivered = <<>> /\ more = "unasked" /\ failed = FALSE

\* Mutants of BeginFetch: the waiting row stays waiting; it is forgotten; maxRows is taken
\* as it is.
BeginKeepsPending(maxRows) ==
    /\ phase = "idle"
    /\ phase' = "fetching"
    /\ limit' = IF maxRows < 1 THEN 1 ELSE maxRows
    /\ records' = Waiting
    /\ UNCHANGED <<total, pos, pending, exhausted, disposed, delivered, more, failed>>

BeginDropsPending(maxRows) ==
    /\ phase = "idle"
    /\ phase' = "fetching"
    /\ limit' = IF maxRows < 1 THEN 1 ELSE maxRows
    /\ records' = <<>>
    /\ pending' = 0
    /\ UNCHANGED <<total, pos, exhausted, disposed, delivered, more, failed>>

BeginRawLimit(maxRows) ==
    /\ phase = "idle"
    /\ phase' = "fetching"
    /\ limit' = maxRows
    /\ records' = Waiting
    /\ pending' = 0
    /\ UNCHANGED <<total, pos, exhausted, disposed, delivered, more, failed>>

\* FetchAsync up to the first ReadAsync: maxRows is at least 1, and the row read
\* ahead by the previous page comes first.
BeginFetch(maxRows) ==
    /\ phase = "idle"
    /\ phase' = "fetching"
    /\ limit' = IF maxRows < 1 THEN 1 ELSE maxRows
    /\ records' = Waiting
    /\ pending' = 0
    /\ UNCHANGED <<total, pos, exhausted, disposed, delivered, more, failed>>

\* The loop: ReadAsync answers true and the row joins the page.
ReadRow ==
    /\ phase = "fetching" /\ ~exhausted
    /\ Len(records) < limit /\ pos < total
    /\ pos' = pos + 1
    /\ records' = Append(records, pos + 1)
    /\ UNCHANGED <<total, pending, exhausted, phase, limit, disposed,
                   delivered, more, failed>>

\* FetchAsync returns new ResultPage(records, hasMore).
Return(hasMore) ==
    /\ phase' = "idle"
    /\ delivered' = delivered \o records
    /\ records' = <<>>
    /\ more' = IF hasMore THEN "yes" ELSE "no"
    /\ UNCHANGED <<total, limit, disposed, failed>>

\* A mutant: an exhausted cursor asks the reader again and never returns.
ReturnShortUnlessExhausted ==
    /\ phase = "fetching"
    /\ ~exhausted /\ Len(records) < limit /\ pos = total
    /\ exhausted' = TRUE
    /\ Return(FALSE)
    /\ UNCHANGED <<pos, pending>>

\* The page stays short: the cursor was exhausted before, or ReadAsync answers false.
ReturnShort ==
    /\ phase = "fetching"
    /\ exhausted \/ (Len(records) < limit /\ pos = total)
    /\ exhausted' = TRUE
    /\ Return(FALSE)
    /\ UNCHANGED <<pos, pending>>

\* A mutant: the row read ahead is not kept.
ReturnAheadUnkept ==
    /\ phase = "fetching" /\ ~exhausted
    /\ Len(records) >= limit /\ pos < total
    /\ pos' = pos + 1
    /\ Return(TRUE)
    /\ UNCHANGED <<exhausted, pending>>

\* The page is full: one row is read ahead and kept.
ReturnAhead ==
    /\ phase = "fetching" /\ ~exhausted
    /\ Len(records) >= limit /\ pos < total
    /\ pos' = pos + 1
    /\ pending' = pos + 1
    /\ Return(TRUE)
    /\ UNCHANGED exhausted

\* A mutant: a full page is taken to mean that there is more.
ReturnExactPromises ==
    /\ phase = "fetching" /\ ~exhausted
    /\ Len(records) >= limit /\ pos = total
    /\ Return(TRUE)
    /\ UNCHANGED <<pos, pending, exhausted>>

\* The page is full and the result ends exactly there.
ReturnExact ==
    /\ phase = "fetching" /\ ~exhausted
    /\ Len(records) >= limit /\ pos = total
    /\ exhausted' = TRUE
    /\ Return(FALSE)
    /\ UNCHANGED <<pos, pending>>

\* ReadAsync throws (cancellation, server error, disposed reader), or ReadRecord does, with
\* the row it could not convert already read: FetchAsync lets the exception out, and the
\* rows it had collected go with it.
ReadThrows ==
    /\ phase = "fetching" /\ ~exhausted
    /\ phase' = "idle"
    /\ records' = <<>>
    /\ more' = "unasked"
    /\ failed' = TRUE
    /\ pos' \in {pos, pos + 1} /\ pos' <= total
    /\ UNCHANGED <<total, pending, exhausted, limit, disposed, delivered>>

\* DisposeAsync closes the reader, then its connection.  It has no guard and may come
\* while a fetch awaits the reader, which then answers or throws.
Dispose ==
    /\ ~disposed
    /\ disposed' = TRUE
    /\ UNCHANGED <<total, pos, pending, exhausted, phase, limit, records,
                   delivered, more, failed>>

Answer == ReadRow \/ ReturnShort \/ ReturnAhead \/ ReturnExact \/ ReadThrows

Next ==
    \/ \E maxRows \in Requests : BeginFetch(maxRows)
    \/ ReadRow
    \/ ReturnShort
    \/ ReturnAhead
    \/ ReturnExact
    \/ ReadThrows
    \/ Dispose

\* The driver answers or throws, in the end, every ReadAsync it was given; nothing
\* obliges the consumer to fetch or to dispose.
Spec == Init /\ [][Next]_vars /\ WF_vars(Answer)

----------------------------------------------------------------------------

TypeOK ==
    /\ total \in Nat /\ pos \in Nat /\ pending \in Nat
    /\ exhausted \in BOOLEAN /\ disposed \in BOOLEAN /\ failed \in BOOLEAN
    /\ phase \in {"idle", "fetching"}
    /\ limit \in Nat \ {0}
    /\ records \in Seq(Nat) /\ delivered \in Seq(Nat)
    /\ more \in {"unasked", "yes", "no"}

\* Everything that has reached or will reach the consumer of what the reader produced:
\* the pages so far, the page being filled and the row read ahead.
Produced == delivered \o records \o Waiting

\* No row is lost, repeated or moved while every fetch succeeds, at whatever page
\* sizes: Produced is the reader's output, row for row.
NothingLost == ~failed => Produced = [i \in 1..pos |-> i]

\* Even after a failed fetch no row comes twice and no row overtakes another.
InOrder == Increasing(Produced)

\* Between fetches HasMore is exact: "yes" while a row is still to come, "no" only
\* when every row has been delivered (a result that ends with a full page included).
HasMoreExact ==
    phase = "idle" /\ ~failed /\ more # "unasked"
        => (more = "yes" <=> Len(delivered) < total)

\* The inductive invariant behind the three: how the row read ahead, the end of the
\* result and the flag last answered go together.
IInv ==
    /\ TypeOK
    /\ pos <= total
    /\ phase = "idle" => records = <<>>
    /\ pending # 0 => phase = "idle" /\ ~exhausted
    /\ exhausted => pos = total /\ records = <<>>
    /\ phase = "idle" /\ more = "yes" => pending # 0
    /\ more = "no" => exhausted
    /\ \A i \in 1..Len(Produced) : Produced[i] <= pos
    /\ InOrder
    /\ NothingLost

\* A page never exceeds the requested size, and one that announces more rows is
\* full and not empty: a consumer that fetches while HasMore is set makes progress.
PageWellSized ==
    [][phase = "fetching" /\ more' # "unasked" /\ phase' = "idle"
        => LET size == Len(delivered') - Len(delivered)
           IN  /\ size <= limit
               /\ more' = "yes" => size = limit /\ size > 0]_vars

\* HasMore is kept: the fetch after it brings a row or fails, it never comes back empty.
PromiseKept ==
    [][phase = "fetching" /\ phase' = "idle" /\ more = "yes" /\ ~failed'
        => Len(delivered') > Len(delivered)]_vars

\* Every fetch ends, with a page or with an exception.
FetchEnds == phase = "fetching" ~> phase = "idle"

\* The cursor is a paged result.
Result == INSTANCE PagedResult WITH broken <- failed

ImplementsPagedResult == Result!Spec
====
