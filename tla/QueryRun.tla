---- MODULE QueryRun ----
(***************************************************************************)
(* Running a query and paging its result: RunAsync, RunPagedAsync,         *)
(* LoadMoreAsync, Stop and DisposeCursorAsync of QueryArea.razor, the      *)
(* CloseTab and DisconnectAsync of WorkspaceState that pull the tab or the *)
(* connection away from under them, and the grid of grid.js that asks for  *)
(* more rows.                                                              *)
(*                                                                         *)
(* Blazor runs every handler on one dispatcher, so a handler is atomic up  *)
(* to its next await and anything may run during one.  An invocation of    *)
(* RunAsync or LoadMoreAsync is a process whose pc says which await it is  *)
(* suspended at; its locals (the tab, cursor and grid it captured) are     *)
(* kept beside the pc.  Run r opens cursor r and builds grid r.            *)
(*                                                                         *)
(* Nothing in the code stops a shortcut from starting a run while another  *)
(* is in flight, a tab from being closed under a run, and so on.  Allowed  *)
(* names which of these overlaps happen, so that each property can be      *)
(* checked under the widest set of them it survives.                       *)
(***************************************************************************)
EXTENDS Naturals, Sequences

CONSTANTS
    Tabs,       \* query tabs
    Runs,       \* bound: invocations of RunAsync that get past its guards
    Loads,      \* bound: invocations of LoadMoreAsync that reach the fetch
    None,       \* null
    MaxPages,   \* bound: pages in a result
    Allowed     \* the overlaps that happen

Overlaps == {"run while running",      \* F5, F8 or Ctrl+Enter during a run
             "run while loading",      \* a run while a page is being loaded
             "scroll early",           \* scrolling before the run has ended and its
                                       \* final form of the grid has been rendered
             "scroll while appending", \* scrolling before the last page is on the screen
             "switch while loading",   \* another tab is shown before the page arrives
             "close while busy",       \* closing a tab whose run or load is in flight
             "disconnect while busy",  \* closing the connection of such a tab
             "rebind"}                 \* choosing another connection for a tab with rows

ASSUME RunAssumption ==
    /\ None \notin Tabs \union Runs
    /\ MaxPages \in Nat \ {0}
    /\ Allowed \subseteq Overlaps

VARIABLES
    open,       \* the tabs in Workspace.Tabs
    fresh,      \* tabs not created yet
    active,     \* ActiveTabId
    bound,      \* tabs whose ConnectionId is the connection's
    server,     \* the connection: "up", "closing" (in DisconnectAsync's await), "gone"
    pendingRun, \* tabs with PendingRun
    tab,        \* each tab's Grid, Editability (both: the run they come from), HasMore, Cursor
    running,    \* _running
    cts,        \* _cts: the run that created it, None when null
    cancelled,  \* runs whose CancellationTokenSource was cancelled
    run,        \* each RunAsync: its pc, tab and the token its server call was given
    cur,        \* each cursor: its connection, the pages it has served, _exhausted
    rows,       \* grid r's row list: its pages, each <<cursor, page number>>
    load,       \* each LoadMoreAsync: its pc, tab, cursor, grid, and its page's HasMore
    shown       \* the grid in the page: its model, flags and the pages it displays

wsVars == <<open, fresh, active, bound, server, pendingRun>>
srcVars == <<running, cts, cancelled>>
vars == <<wsVars, tab, srcVars, run, cur, rows, load, shown>>

EmptyTab  == [grid |-> None, editable |-> None, hasMore |-> FALSE, cursor |-> None]
Resting(pc) == [pc |-> pc, tab |-> None, tok |-> None]
Idle(pc) == [pc |-> pc, tab |-> None, cur |-> None, grid |-> None, more |-> FALSE]
Blank == [grid |-> None, edit |-> FALSE, more |-> FALSE, loading |-> FALSE, rows |-> <<>>]

Busy(r)     == run[r].pc \notin {"idle", "done"}
Loading(l)  == load[l].pc \notin {"idle", "done"}
AtServer(r) == run[r].pc \in {"opening", "fetching"}

BusyTabs == {run[r].tab : r \in Runs} \union {load[l].tab : l \in Loads}

\* Whether overlap o may happen now, given that it would be one when `overlapping`.
May(o, overlapping) == overlapping => o \in Allowed

Init ==
    /\ open \in (SUBSET Tabs) \ {{}}
    /\ fresh = Tabs \ open
    /\ active \in open
    /\ bound = open /\ server = "up" /\ pendingRun = {}
    /\ tab = [t \in Tabs |-> EmptyTab]
    /\ running = FALSE /\ cts = None /\ cancelled = {}
    /\ run = [r \in Runs |-> Resting("idle")]
    /\ cur = [r \in Runs |-> [conn |-> "none", sent |-> 0, atEnd |-> FALSE]]
    /\ rows = [r \in Runs |-> <<>>]
    /\ load = [l \in Loads |-> Idle("idle")]
    /\ shown = Blank

----------------------------------------------------------------------------
(* RunAsync and RunPagedAsync *)

Connected(t) == t \in bound /\ server = "up"

MayStart ==
    /\ May("run while running", \E q \in Runs : Busy(q))
    /\ May("run while loading", \E l \in Loads : Loading(l))

\* A mutant: the cursor is disposed, and stays the tab's.
ReleaseKeepsReference(ts) ==
    LET held == {tab[t].cursor : t \in ts}
    IN  /\ cur' = [r \in Runs |-> IF r \in held THEN [cur[r] EXCEPT !.conn = "closed"]
                                  ELSE cur[r]]
        /\ UNCHANGED tab

\* tab.Cursor and tab.HasMore are cleared and the cursor is disposed, for all tabs of ts
\* (DisposeCursorAsync of QueryArea, DisposeCursor of WorkspaceState).
Release(ts) ==
    LET holders == {t \in ts : tab[t].cursor # None}
        held == {tab[t].cursor : t \in holders}
    IN  /\ tab' = [t \in Tabs |-> IF t \in holders
                                  THEN [tab[t] EXCEPT !.cursor = None, !.hasMore = FALSE]
                                  ELSE tab[t]]
        /\ cur' = [r \in Runs |-> IF r \in held THEN [cur[r] EXCEPT !.conn = "closed"]
                                  ELSE cur[r]]

\* F5, F8, Ctrl+Enter or a button: the tab and its connection are captured, then the
\* editor is asked for its text.
StartRun(r) ==
    /\ run[r].pc = "idle"
    /\ active # None /\ Connected(active)
    /\ MayStart
    /\ run' = [run EXCEPT ![r].pc = "flush", ![r].tab = active]
    /\ UNCHANGED <<wsVars, tab, srcVars, cur, rows, load, shown>>

\* A new CancellationTokenSource, then OpenAsync with its token.
CallOpen(r, t) ==
    /\ cts' = r
    /\ run' = [run EXCEPT ![r] = [pc |-> "opening", tab |-> t, tok |-> r]]

\* Mutants of Begin: the old cursor is not disposed, the old editability not cleared.
BeginUndisposed(r, t) ==
    /\ running' = TRUE
    /\ tab' = [tab EXCEPT ![t].grid = None, ![t].editable = None]
    /\ CallOpen(r, t)
    /\ UNCHANGED <<cancelled, cur, rows, load, shown>>

BeginStaleEditability(r, t) ==
    /\ running' = TRUE
    /\ tab' = [tab EXCEPT ![t].grid = None, ![t].cursor = None, ![t].hasMore = FALSE]
    /\ cur' = [q \in Runs |-> IF q = tab[t].cursor THEN [cur[q] EXCEPT !.conn = "closed"]
                              ELSE cur[q]]
    /\ CallOpen(r, t)
    /\ UNCHANGED <<cancelled, rows, load, shown>>

\* The old result goes away; its cursor, if any, is disposed before OpenAsync is called.
Begin(r, t) ==
    /\ running' = TRUE
    /\ IF tab[t].cursor = None
       THEN /\ tab' = [tab EXCEPT ![t].grid = None, ![t].editable = None]
            /\ CallOpen(r, t)
            /\ UNCHANGED cur
       ELSE /\ tab' = [tab EXCEPT ![t] = EmptyTab]
            /\ cur' = [cur EXCEPT ![tab[t].cursor].conn = "closed"]
            /\ run' = [run EXCEPT ![r] = [pc |-> "clearing", tab |-> t, tok |-> None]]
            /\ UNCHANGED cts
    /\ UNCHANGED <<cancelled, rows, load, shown>>

\* The editor answers: blank text ends the run, any other begins it.
EditorAnswers(r) ==
    /\ run[r].pc = "flush"
    /\ \/ /\ run' = [run EXCEPT ![r] = Resting("done")]
          /\ UNCHANGED <<tab, srcVars, cur, rows, load, shown>>
       \/ Begin(r, run[r].tab)
    /\ UNCHANGED wsVars

\* OnAfterRenderAsync runs the query that a tree node opened the tab with.
StartPendingRun(r) ==
    /\ run[r].pc = "idle"
    /\ ~running
    /\ active \in pendingRun /\ Connected(active)
    /\ MayStart
    /\ pendingRun' = pendingRun \ {active}
    /\ Begin(r, active)
    /\ UNCHANGED <<open, fresh, active, bound, server>>

\* The old cursor is disposed.
Cleared(r) ==
    /\ run[r].pc = "clearing"
    /\ CallOpen(r, run[r].tab)
    /\ UNCHANGED <<wsVars, tab, running, cancelled, cur, rows, load, shown>>

\* A mutant: the first fetch is given no token.
OpenedUncancellable(r, hasFields) ==
    /\ run[r].pc = "opening"
    /\ cur' = [cur EXCEPT ![r].conn = IF hasFields THEN "open" ELSE "closed"]
    /\ run' = [run EXCEPT ![r].pc = IF hasFields THEN "fetching" ELSE "unneeded",
                          ![r].tok = None]
    /\ UNCHANGED <<wsVars, tab, srcVars, rows, load, shown>>

\* OpenAsync returns a cursor.  One with fields is asked for its first page, with
\* `_cts.Token` read anew: when another run has nulled _cts that throws, and the cursor is
\* disposed.  One without fields (an UPDATE, say) is disposed at once.
Opened(r, hasFields) ==
    /\ run[r].pc = "opening"
    /\ IF hasFields /\ cts # None
       THEN /\ cur' = [cur EXCEPT ![r].conn = "open"]
            /\ run' = [run EXCEPT ![r].pc = "fetching", ![r].tok = cts]
       ELSE /\ cur' = [cur EXCEPT ![r].conn = "closed"]
            /\ run' = [run EXCEPT ![r].pc = IF hasFields THEN "failing" ELSE "unneeded"]
    /\ UNCHANGED <<wsVars, tab, srcVars, rows, load, shown>>

\* The finally block clears the fields that all runs share, whichever run ends.  (Tokens
\* nobody holds any more are dropped from the state.)
Ended(r) ==
    /\ running' = FALSE
    /\ cts' = None
    /\ run' = [run EXCEPT ![r] = Resting("done")]
    /\ cancelled' = {c \in cancelled : \E q \in Runs \ {r} : run[q].tok = c}

\* An exception leaves the try block: a query error is first recorded in the history.
Caught(r) ==
    \/ Ended(r)
    \/ run' = [run EXCEPT ![r].pc = "recording"] /\ UNCHANGED srcVars

\* OpenAsync throws, after having released its own connection.
OpenThrows(r) ==
    /\ run[r].pc = "opening"
    /\ Caught(r)
    /\ UNCHANGED <<wsVars, tab, cur, rows, load, shown>>

\* The first page: the tab gets the grid, and keeps the cursor if more is to come; the
\* cursor of a complete result is disposed.
FirstPage(r, more) ==
    LET t == run[r].tab
    IN  /\ run[r].pc = "fetching"
        /\ more => MaxPages > 1
        /\ tab' = [tab EXCEPT ![t].grid = r, ![t].hasMore = more,
                              ![t].cursor = IF more THEN r ELSE @]
        /\ cur' = [cur EXCEPT ![r] = [conn |-> IF more THEN "open" ELSE "closed",
                                      sent |-> 1, atEnd |-> ~more]]
        /\ rows' = [rows EXCEPT ![r] = << <<r, 1>> >>]
        /\ run' = [run EXCEPT ![r].pc = IF more THEN "analyzing" ELSE "drained"]
        /\ UNCHANGED <<wsVars, srcVars, load, shown>>

\* The first fetch throws: the catch block disposes the run's own cursor ...
FirstPageThrows(r) ==
    /\ run[r].pc = "fetching"
    /\ cur' = [cur EXCEPT ![r].conn = "closed"]
    /\ run' = [run EXCEPT ![r].pc = "failing"]
    /\ UNCHANGED <<wsVars, tab, srcVars, rows, load, shown>>

\* ... then clears the tab's, whichever cursor that is, and rethrows.
Failed(r) ==
    /\ run[r].pc = "failing"
    /\ tab' = [tab EXCEPT ![run[r].tab].cursor = None, ![run[r].tab].hasMore = FALSE]
    /\ Caught(r)
    /\ UNCHANGED <<wsVars, cur, rows, load, shown>>

\* The cursor is disposed: a complete result is analysed, a statement recorded.
Disposed(r) ==
    /\ run[r].pc \in {"drained", "unneeded"}
    /\ run' = [run EXCEPT ![r].pc = IF @ = "drained" THEN "analyzing" ELSE "recording"]
    /\ UNCHANGED <<wsVars, tab, srcVars, cur, rows, load, shown>>

\* The schema is loaded (or its load failed): the tab's result is editable or is not.
Analyzed(r) ==
    /\ run[r].pc = "analyzing"
    /\ \E verdict \in {r, None} : tab' = [tab EXCEPT ![run[r].tab].editable = verdict]
    /\ run' = [run EXCEPT ![r].pc = "recording"]
    /\ UNCHANGED <<wsVars, srcVars, cur, rows, load, shown>>

\* The history is written: the run ends.
Recorded(r) ==
    /\ run[r].pc = "recording"
    /\ Ended(r)
    /\ UNCHANGED <<wsVars, tab, cur, rows, load, shown>>

\* A mutant: `_cts.Cancel()`, without the null check.
StopUnchecked ==
    /\ running
    /\ cancelled' = cancelled \union {cts}
    /\ UNCHANGED <<wsVars, tab, running, cts, run, cur, rows, load, shown>>

\* The Stop button, shown while _running: `_cts?.Cancel()`.
Stop ==
    /\ running
    /\ cancelled' = cancelled \union ({cts} \ {None})
    /\ UNCHANGED <<wsVars, tab, running, cts, run, cur, rows, load, shown>>

----------------------------------------------------------------------------
(* The displayed grid and LoadMoreAsync *)

HasGrid(t) == t # None /\ tab[t].grid # None

Wanted ==
    IF ~HasGrid(active) THEN Blank
    ELSE [grid |-> tab[active].grid, edit |-> tab[active].editable # None,
          more |-> tab[active].hasMore, loading |-> FALSE, rows |-> rows[tab[active].grid]]

Rebuilt == Wanted.grid # shown.grid \/ Wanted.edit # shown.edit

\* A render: another model, or a grid that turns editable, is built anew; otherwise only
\* a changed HasMore is passed on.
Render ==
    /\ Rebuilt \/ Wanted.more # shown.more
    /\ shown' = IF Rebuilt THEN Wanted ELSE [shown EXCEPT !.more = Wanted.more]
    /\ UNCHANGED <<wsVars, tab, srcVars, run, cur, rows, load>>

MayScroll ==
    /\ May("scroll early", Rebuilt \/ active \in {run[r].tab : r \in Runs})
    /\ May("scroll while appending", \E l \in Loads : load[l].pc \in {"appending", "closing"})
    /\ May("disconnect while busy", server = "closing")

\* LoadMoreAsync captures the active tab's cursor and grid and fetches; without them it
\* returns.
LoadMore(l) ==
    IF HasGrid(active) /\ tab[active].cursor # None
    THEN load' = [load EXCEPT ![l] = [pc |-> "fetching", tab |-> active,
                                      cur |-> tab[active].cursor,
                                      grid |-> tab[active].grid, more |-> FALSE]]
    ELSE UNCHANGED load

\* A mutant: the grid does not remember that it has asked.
ScrollUnguarded(l) ==
    /\ shown.grid # None /\ shown.more
    /\ load[l].pc = "idle"
    /\ MayScroll
    /\ LoadMore(l)
    /\ UNCHANGED <<wsVars, tab, srcVars, run, cur, rows, shown>>

\* The grid is scrolled to its end (maybeLoadMore) and asks for more, once.
Scroll(l) ==
    /\ shown.grid # None /\ shown.more /\ ~shown.loading
    /\ load[l].pc = "idle"
    /\ MayScroll
    /\ shown' = [shown EXCEPT !.loading = TRUE]
    /\ LoadMore(l)
    /\ UNCHANGED <<wsVars, tab, srcVars, run, cur, rows>>

\* A mutant: the rows are not added to the grid's model.
NextPageDisplayOnly(l, more) ==
    LET c == load[l].cur
        page == <<c, cur[c].sent + 1>>
    IN  /\ load[l].pc = "fetching" /\ ~cur[c].atEnd
        /\ more => cur[c].sent + 1 < MaxPages
        /\ cur' = [cur EXCEPT ![c].sent = @ + 1, ![c].atEnd = ~more]
        /\ load' = [load EXCEPT ![l].pc = "appending", ![l].more = more]
        /\ shown' = IF shown.grid = None THEN shown
                    ELSE [shown EXCEPT !.rows = Append(@, page), !.loading = FALSE]
        /\ UNCHANGED <<wsVars, tab, srcVars, run, rows>>

\* A page arrives: it joins the captured grid's rows and is appended to the grid in the
\* page, whichever that is by now.
NextPage(l, more) ==
    LET c == load[l].cur
        page == <<c, cur[c].sent + 1>>
    IN  /\ load[l].pc = "fetching" /\ ~cur[c].atEnd
        /\ more => cur[c].sent + 1 < MaxPages
        /\ cur' = [cur EXCEPT ![c].sent = @ + 1, ![c].atEnd = ~more]
        /\ rows' = [rows EXCEPT ![load[l].grid] = Append(@, page)]
        /\ load' = [load EXCEPT ![l].pc = "appending", ![l].more = more]
        /\ shown' = IF shown.grid = None THEN shown
                    ELSE [shown EXCEPT !.rows = Append(@, page), !.loading = FALSE]
        /\ UNCHANGED <<wsVars, tab, srcVars, run>>

\* An exhausted cursor answers an empty page: there is nothing to append, and nothing
\* awaited before the cursor is disposed.
NoPage(l) ==
    /\ load[l].pc = "fetching" /\ cur[load[l].cur].atEnd
    /\ load' = [load EXCEPT ![l].pc = "closing"]
    /\ tab' = [tab EXCEPT ![load[l].tab].hasMore = FALSE]
    /\ cur' = [cur EXCEPT ![load[l].cur].conn = "closed"]
    /\ UNCHANGED <<wsVars, srcVars, run, rows, shown>>

\* A mutant: HasMore is not stored, and the tab announces rows it cannot load.
AppendedKeepsHasMore(l) ==
    /\ load[l].pc = "appending"
    /\ IF load[l].more
       THEN load' = [load EXCEPT ![l] = Idle("done")] /\ UNCHANGED cur
       ELSE /\ load' = [load EXCEPT ![l].pc = "closing"]
            /\ cur' = [cur EXCEPT ![load[l].cur].conn = "closed"]
    /\ UNCHANGED <<wsVars, tab, srcVars, run, rows, shown>>

\* The rows are on the screen: HasMore is stored, and a finished cursor is disposed.
Appended(l) ==
    /\ load[l].pc = "appending"
    /\ tab' = [tab EXCEPT ![load[l].tab].hasMore = load[l].more]
    /\ IF load[l].more
       THEN load' = [load EXCEPT ![l] = Idle("done")] /\ UNCHANGED cur
       ELSE /\ load' = [load EXCEPT ![l].pc = "closing"]
            /\ cur' = [cur EXCEPT ![load[l].cur].conn = "closed"]
    /\ UNCHANGED <<wsVars, srcVars, run, rows, shown>>

\* A mutant: the tab keeps the disposed cursor.
LoadClosedKeepsCursor(l) ==
    /\ load[l].pc = "closing"
    /\ load' = [load EXCEPT ![l] = Idle("done")]
    /\ UNCHANGED <<wsVars, tab, srcVars, run, cur, rows, shown>>

\* The finished cursor is disposed: the tab lets go of its cursor.
LoadClosed(l) ==
    /\ load[l].pc = "closing"
    /\ tab' = [tab EXCEPT ![load[l].tab].cursor = None]
    /\ load' = [load EXCEPT ![l] = Idle("done")]
    /\ UNCHANGED <<wsVars, srcVars, run, cur, rows, shown>>

\* The fetch throws, or appending to a grid that has gone does: the cursor the tab has
\* now is disposed.
LoadThrows(l) ==
    /\ \/ load[l].pc = "fetching" /\ ~cur[load[l].cur].atEnd
       \/ load[l].pc = "appending" /\ shown.grid = None
    /\ Release({load[l].tab})
    /\ load' = [load EXCEPT ![l] = Idle("done")]
    /\ UNCHANGED <<wsVars, srcVars, run, rows, shown>>

----------------------------------------------------------------------------
(* The workspace around it *)

MaySwitch == May("switch while loading", \E l \in Loads : Loading(l))
MayClose(t) == May("close while busy", t \in BusyTabs)
MayDisconnect == May("disconnect while busy", BusyTabs \intersect bound # {})

\* Another tab is selected.
SwitchTab(t) ==
    /\ t \in open /\ t # active
    /\ MaySwitch
    /\ active' = t
    /\ UNCHANGED <<open, fresh, bound, server, pendingRun, tab, srcVars, run, cur, rows,
                   load, shown>>

\* A table is opened from the tree: a new tab whose query runs once it is rendered.
OpenTableData(t) ==
    /\ t \in fresh /\ server # "gone"
    /\ MaySwitch
    /\ fresh' = fresh \ {t}
    /\ open' = open \union {t}
    /\ active' = t
    /\ bound' = bound \union {t}
    /\ pendingRun' = pendingRun \union {t}
    /\ UNCHANGED <<server, tab, srcVars, run, cur, rows, load, shown>>

\* The tab leaves Tabs; when it was active, the last tab becomes so.
Remove(t) ==
    /\ t \in open
    /\ MayClose(t)
    /\ t = active => MaySwitch
    /\ open' = open \ {t}
    /\ IF t = active THEN active' \in (IF open = {t} THEN {None} ELSE open \ {t})
       ELSE UNCHANGED active
    /\ UNCHANGED <<fresh, bound, server, pendingRun, srcVars, run, rows, load, shown>>

\* A mutant: the tab goes, its cursor stays.
CloseTabUndisposed(t) == Remove(t) /\ UNCHANGED <<tab, cur>>

CloseTab(t) == Remove(t) /\ Release({t})

\* DisconnectAsync removes the connection and disposes it ...
Disconnect ==
    /\ server = "up"
    /\ MayDisconnect
    /\ server' = "closing"
    /\ UNCHANGED <<open, fresh, active, bound, pendingRun, tab, srcVars, run, cur, rows,
                   load, shown>>

\* A mutant: the tabs are unbound and keep their cursors.
DisconnectedUndisposed ==
    /\ server = "closing"
    /\ server' = "gone"
    /\ bound' = bound \ open
    /\ UNCHANGED <<open, fresh, active, pendingRun, tab, srcVars, run, cur, rows, load,
                   shown>>

\* ... then unbinds the open tabs that use it and disposes their cursors.
Disconnected ==
    /\ server = "closing"
    /\ server' = "gone"
    /\ bound' = bound \ open
    /\ Release(bound \intersect open)
    /\ UNCHANGED <<open, fresh, active, pendingRun, srcVars, run, rows, load, shown>>

\* The connection list of the tab: the tab is bound elsewhere, and keeps its cursor.
SetConnection(t) ==
    /\ "rebind" \in Allowed
    /\ t \in open \intersect bound /\ t = active
    /\ bound' = bound \ {t}
    /\ UNCHANGED <<open, fresh, active, server, pendingRun, tab, srcVars, run, cur, rows,
                   load, shown>>

----------------------------------------------------------------------------

\* What the application finishes by itself once it has begun it.
Local(r) ==
    \/ EditorAnswers(r) \/ Cleared(r) \/ Failed(r) \/ Disposed(r) \/ Analyzed(r)
    \/ Recorded(r)

\* A server call whose token was cancelled throws.
Cancels(r) == run[r].tok \in cancelled /\ (OpenThrows(r) \/ FirstPageThrows(r))

Next ==
    \/ \E r \in Runs :
          \/ StartRun(r)
          \/ EditorAnswers(r)
          \/ StartPendingRun(r)
          \/ Cleared(r)
          \/ \E hasFields \in BOOLEAN : Opened(r, hasFields)
          \/ OpenThrows(r)
          \/ \E more \in BOOLEAN : FirstPage(r, more)
          \/ FirstPageThrows(r)
          \/ Failed(r)
          \/ Disposed(r)
          \/ Analyzed(r)
          \/ Recorded(r)
    \/ Stop
    \/ Render
    \/ \E l \in Loads :
          \/ Scroll(l)
          \/ \E more \in BOOLEAN : NextPage(l, more)
          \/ NoPage(l)
          \/ Appended(l)
          \/ LoadClosed(l)
          \/ LoadThrows(l)
    \/ \E t \in Tabs :
          \/ SwitchTab(t)
          \/ OpenTableData(t)
          \/ CloseTab(t)
          \/ SetConnection(t)
    \/ Disconnect
    \/ Disconnected

\* The server may take forever over a query.  What is fair: the steps of the dispatcher
\* and of the page, the schema reader's answer, and the driver's reaction to a cancelled
\* token.
Spec ==
    /\ Init /\ [][Next]_vars
    /\ \A r \in Runs : WF_vars(Local(r)) /\ WF_vars(Cancels(r))

----------------------------------------------------------------------------

MaybeRun == Runs \union {None}
MaybeTab == Tabs \union {None}

Page == Runs \X (1..MaxPages)
TabState == [grid : MaybeRun, editable : MaybeRun, hasMore : BOOLEAN, cursor : MaybeRun]
RunState == [pc : {"idle", "flush", "clearing", "opening", "fetching", "failing", "drained",
                   "analyzing", "unneeded", "recording", "done"},
             tab : MaybeTab, tok : MaybeRun]
Cursor == [conn : {"none", "open", "closed"}, sent : 0..MaxPages, atEnd : BOOLEAN]
LoadState == [pc : {"idle", "fetching", "appending", "closing", "done"},
              tab : MaybeTab, cur : MaybeRun, grid : MaybeRun, more : BOOLEAN]
Display == [grid : MaybeRun, edit : BOOLEAN, more : BOOLEAN, loading : BOOLEAN, rows : Seq(Page)]

TypeOK ==
    /\ open \subseteq Tabs /\ fresh \subseteq Tabs /\ active \in MaybeTab
    /\ bound \subseteq Tabs /\ pendingRun \subseteq Tabs
    /\ server \in {"up", "closing", "gone"}
    /\ tab \in [Tabs -> TabState]
    /\ running \in BOOLEAN /\ cts \in MaybeRun /\ cancelled \subseteq Runs
    /\ run \in [Runs -> RunState]
    /\ cur \in [Runs -> Cursor]
    /\ rows \in [Runs -> Seq(Page)]
    /\ load \in [Loads -> LoadState]
    /\ shown \in Display

\* "The consumer ... disposes the cursor when done": an open cursor, which holds a server
\* connection, is the cursor of an open tab or of a run that has not published it yet.
NoOrphan ==
    \A r \in Runs : cur[r].conn = "open" =>
        run[r].pc = "fetching" \/ \E t \in open : tab[t].cursor = r

\* A tab keeps a disposed cursor only while a load of that tab is about to clear it.
NoDangling ==
    \A t \in Tabs : tab[t].cursor # None /\ cur[tab[t].cursor].conn = "closed" =>
        \E l \in Loads : load[l].pc = "closing" /\ load[l].tab = t
                           /\ load[l].cur = tab[t].cursor

\* The cursor a tab would fetch from belongs to the grid it would append to.
SameResult ==
    \A t \in Tabs : tab[t].cursor # None /\ tab[t].grid # None
                      => tab[t].cursor = tab[t].grid

\* An open tab that announces more rows can load them.
HasMoreHonest ==
    \A t \in open : tab[t].hasMore =>
        tab[t].cursor # None /\ cur[tab[t].cursor].conn = "open"

\* A grid's rows are its own cursor's pages, from the first, in order, without a gap.
RowsInOrder ==
    \A r \in Runs : rows[r] = [i \in 1..cur[r].sent |-> <<r, i>>]

\* The editability a tab carries, hence the table and the key its edits would be applied
\* with, is that of the result it shows.
EditsMatchResult ==
    \A t \in Tabs : tab[t].editable # None => tab[t].editable = tab[t].grid

\* The grid in the page shows exactly the rows of its model.
DisplayMatches == shown.grid # None => shown.rows = rows[shown.grid]

\* A cursor serves one fetch at a time: AdoQueryCursor is not made for two.
OneFetch ==
    \A k, l \in Loads : load[k].pc = "fetching" /\ load[l].pc = "fetching"
                          /\ load[k].cur = load[l].cur => k = l

\* While a run waits for the server the Stop button is shown and stops that run.
StopReaches ==
    \A r \in Runs : AtServer(r) => running /\ cts = r /\ run[r].tok = r

\* A run whose token is cancelled while it waits for the server ends.
StopWorks ==
    \A r \in Runs : AtServer(r) /\ run[r].tok \in cancelled ~> run[r].pc = "done"

\* No fetch begins on a disposed reader: the cursor is open, or it is exhausted and
\* answers an empty page without reading (a scroll while the last page's cursor closes).
FetchesAlive ==
    [][\A l \in Loads : load[l].pc = "idle" /\ load'[l].pc = "fetching" =>
        cur[load'[l].cur].conn = "open" \/ cur[load'[l].cur].atEnd]_vars

\* Disconnecting closes the cursors on that server: none is left open behind it.
DisconnectReleases ==
    [][server = "closing" /\ server' = "gone" =>
        \A r \in Runs : cur[r].conn = "open" => cur'[r].conn = "closed"]_vars
====
