# Lexql: formal models

Lexql is a .NET MAUI Blazor desktop client for MySQL.  This directory holds TLA+
models of the parts where steps of several actors meet, the TLC configurations
that check them, and TLAPS proofs.  Paths below are relative to the repository.

## The system

Every handler of the user interface runs on one Blazor dispatcher.  A handler is
atomic up to its next `await`; anything may run during one.  All the concurrency of
the program is in those gaps, and in the server and the page (JavaScript) that answer
when they like.

| Component | State | Operations | What is hard |
|---|---|---|---|
| `AdoQueryCursor` | reader position, row read ahead, exhausted | fetch a page, dispose | page boundary, look-ahead, failure in mid-page |
| `MySqlPagedQueryExecutor` | a connection per cursor | open | release on every failure path |
| `QueryArea` (running) | `_running`, `_cts`; per tab Grid, Cursor, HasMore, Editability | run, stop, load more, pending run | handlers overlapping at awaits, shared fields |
| `WorkspaceState` | tabs, active tab, connections | switch, open, close, connect, disconnect, refresh | state pulled away from suspended handlers |
| `ResultGrid`, `grid.js` | displayed rows, edits, hasMore, loadingMore | render, append, scroll, edit, collect changes | rebuilt while a page is on its way; keys of edited rows |
| `DmlApplier`, apply dialog | pending commands, `_applying`; transaction of the shared session | preview, confirm, cancel | a transaction spread over calls on a shared connection |
| `MySqlQueryExecutor`, schema readers | the one shared `MySqlConnection` | execute, read metadata | one command at a time; reopening loses the session |
| `CachingSchemaReader`, object index | task per namespace, index with a token | load, invalidate, refresh | shared failures, removal by key, stale stamps |
| `SqlEditor`, `editor.js` | one global Monaco instance; `QueryTab.Sql` | init, flush, dispose | asynchronous initialisation, flush against tab changes |
| Profile store, key store | a JSON file, a key file | load, save | crash in mid-write, undecryptable secrets |
| `SshTunnel`, provider | tunnel, connection | connect, dispose | release when the second half of connecting fails |
| SQL text analysis, DML generation | none | pure functions | quoting, comments, nesting |
| History, localisation, theme, export, logging | rows, strings | single calls | nothing coordinated |

`QueryArea` calls the workspace, the executor and the page; the workspace disposes the
cursors that `QueryArea` stored in its tabs; cursors have connections of their own,
while edits and all metadata share one connection per server; `PROJECT.json` gives the
status of each component and lists the hazards, each at its line.

### What makes each component correct

- Cursor: the pages are the result, in order, with an exact HasMore.
- Running: every server connection a query opened is closed or reachable; the grid,
  the cursor, the flag and the editability a tab carries are of one run; Stop works.
- Grid: what is displayed is the model; one fetch at a time; the change set turns the table
  into what the user sees.
- Applying: a batch reaches the right server whole and once, or not at all, the user is
  told which, and no transaction is left open.
- Schema cache: one load per namespace, failures not kept, nothing older than the last
  refresh.
- Editor: text the user typed is never lost, nor stored in another tab; a tab with unsaved
  work is not closed without the question.
- Profiles: a save or a crash never loses a profile or a secret.

## Modules

| Module | Models | Extends / uses |
|---|---|---|
| `PagedResult` | abstract: what a consumer of pages may rely on | |
| `QueryCursor` | `AdoQueryCursor` | instance of `PagedResult` |
| `QueryCursorProofs` | proofs about `QueryCursor` | `QueryCursor`, TLAPS |
| `QueryRun` | running, paging, stopping, the grid, closing and disconnecting | cursors at page granularity |
| `BatchStore` | abstract: batches applied whole | |
| `QueryRunProofs` | proofs about `QueryRun` | `QueryRun`, TLAPS |
| `PagingProofs` | proofs about `QueryRun`: pages, display, leaks | `QueryRunProofs` |
| `DmlApply` | preview, confirmation, `DmlApplier`, shared connection and session | instance of `BatchStore` |
| `DmlApplyProofs` | proofs about `DmlApply`, the refinement included | `DmlApply`, TLAPS |
| `DmlReportProofs` | proofs about `DmlApply`: what the user is told | `DmlApplyProofs` |
| `GridEdits` | edit state of `grid.js`, `BuildRowChanges`, `DmlGenerator` | a table executing the commands |
| `GridEditsProofs` | proofs about `GridEdits` | `GridEdits`, TLAPS |
| `EditorBuffer` | `SqlEditor`, `editor.js`, tabs, saving and closing | |
| `EditorBufferProofs` | proofs about `EditorBuffer` | `EditorBuffer`, TLAPS |
| `SchemaCache` | `CachingSchemaReader`, object index, refresh | |
| `SchemaCacheProofs` | proofs about `SchemaCache` | `SchemaCache`, TLAPS |
| `MCQueryCursor`, `MCQueryRun`, `MCDmlApply`, `MCGridEdits`, `MCEditorBuffer`, `MCSchemaCache` | instances for TLC | |

Each definition says which handler or part of one it is; `map` in `PROJECT.json` gives
the lines.  Definitions whose comment begins "A mutant" are faulty variants of the
definition that follows them and are used by no specification; they show that a
property can fail.

### QueryCursor

`FetchAsync` is cut at every `_reader.ReadAsync`: `BeginFetch` up to the first, then one
action per answer (a row, the end, an exception, which may come from `ReadRecord` after the row was
taken), so `Dispose` may come between any two.
`records` is the page being filled, `pending` the row read ahead.  `delivered`, `more`
and `failed` are history.  A row is its position.  `maxRows` below 1 is normalised as in
the code.  The abstract `PagedResult` has three steps: `Serve` delivers the next rows with
an exact flag, `Break` is a fetch that fails, `ServeBroken` is what remains true after
that (new rows, still in order).

### QueryRun

Each invocation of `RunAsync` and `LoadMoreAsync` is a process; its `pc` names the await
it is suspended at, beside the locals it captured.  The fields that all runs share
(`_running`, `_cts`) are variables.  Run `r` opens cursor `r` and builds grid `r`, so
"is this the cursor of this grid" is an equality.  `server` is one connection; leaving it
(`SetConnection`) unbinds a tab.  `shown` is the grid in the page: `Render` is
`ResultGrid.OnAfterRenderAsync`, rebuilding for another model (or a grid that turns
editable, which is another branch of the markup) and else passing on HasMore.

The code prevents few overlaps: the buttons are disabled during a run, the shortcuts of
the editor are not.  A property that fails under every overlap says little about the
rest, so the constant `Allowed` names the overlaps that happen and each property is
checked under a set that it survives, and proved under the widest one.  The result of allowing one overlap alone:

| Overlap | Properties that fail |
|---|---|
| run while running | NoOrphan, SameResult, EditsMatchResult, StopReaches, DisconnectReleases |
| run while loading | NoOrphan, HasMoreHonest, DisplayMatches, OneFetch (with three loads), DisconnectReleases |
| scroll early (before the final grid is rendered) | NoOrphan, HasMoreHonest, DisplayMatches, OneFetch, DisconnectReleases |
| scroll while appending | HasMoreHonest |
| switch while loading | HasMoreHonest, DisplayMatches, OneFetch |
| close while busy | NoOrphan, DisconnectReleases |
| disconnect while busy | HasMoreHonest, DisconnectReleases |
| rebind | DisconnectReleases |

`NoDangling` and `FetchesAlive` survive all of them together, SameResult, EditsMatchResult and
StopReaches all but the first.  The run `overlaps`, which checks the five, leaves out the first and,
for the size of the instance, "scroll while appending" and "disconnect while busy" (with one load
these were checked once, too); the theorems have what it leaves out.  `RowsInOrder` survives each
alone; "run while running" with "scroll early" breaks it.  Where `OneFetch` fails two fetches
use one reader, which `AdoQueryCursor` does not define and the model takes one after the
other; there `RowsInOrder` says only that nothing is lost or repeated if they are.

### DmlApply

`step` counts the calls of `ApplyAsync` (0 is START TRANSACTION, 1..Size the commands,
Size + 1 COMMIT).  A call is two steps, `Send` and its answer, and between an answer and
the next `Send` the dispatcher may run something else.  `session[c]` joins the driver's
view (`state`, `user`) and the server's (`alive`, `inTx`, `work`).  The external parts are
taken from how the code depends on them: a connection in use refuses a second command, a
broken one becomes closed, `ExecuteAsync` reopens a closed one with a new session, a
session that ends rolls back, START TRANSACTION commits what is open.  An answer may be
success, a rejected statement, a deadlock that rolls everything back, or a lost link under
which the command may or may not have been executed.  "other" stands for the exceptions
`ConfirmApplyAsync` does not catch, after which the preview stays and can be confirmed
again.  Read-only connections, which refuse START TRANSACTION before anything happens, are
left out, as is the rerun that follows a success (QueryRun has it); because of that `applying`
ends before the rerun where the code ends it after, which allows the model more.

A tab has a connection, `tab[t].conn`, and shows rows read from one, `tab[t].loaded`; the two part
when the tab is bound anew.  `Load` is a run on the active tab, `Bind` the choice of another
connection (`SetConnectionAsync`, whose second half comes when the connection has been opened, and
`ConnectAsync`, which takes an active tab without one), `Disconnect` unbinds its tabs; neither
touches the rows or their edits.  `Prepare` takes what the grid shows, and the history
`origin` remembers where that came from; `Confirm` takes the connection the active tab has by
then.  A connection opened anew to the same server is another one, so "each database" below means
what was committed over each connection.

What each overlap breaks, alone (with one batch and two applies for the last three):

| Overlap | Properties that fail |
|---|---|
| read while applying (a metadata read between two calls) | Atomic, AppliedIsDurable, FailedIsUndone, CleanSession, ImplementsBatchStore |
| confirm twice | the same |
| switch while previewing | RightConnection, ImplementsBatchStore |
| rebind while previewing (a connection being opened takes the active tab) | RightConnection, ImplementsBatchStore |
| edit after rebinding (rows of one connection previewed on another) | RightConnection |

ImplementsBatchStore fails with the third and fourth because a batch whose COMMIT was not
answered can be confirmed again, on another connection.  If that connection is a new one to the
same server, the server gets the batch twice: the per-connection properties do not speak about
that, and no theorem excludes it.  "edit after rebinding" needs nothing to happen at the same
time, only a user who chooses another connection for a tab with a result (finding 3).
`Absent` and `Complete` say what it means that nothing, or all, of a batch is in a database.

### GridEdits

What the user sees (`display`) and what would be sent (`updates`, `inserts`, `deletes`,
`originalKeys`) are two data structures of `grid.js`, kept in step by hand: `EditCell`,
`AddRow`, `DeleteSelected`, `AppendRows`, `Render`.  `PrepareApply` is `getChanges` followed
by `BuildRowChanges` and `DmlGenerator.Generate`: `RowChanges` is the sequence of commands,
in its order, with one INSERT for each added row; `Execute` is what one command does to a
table, `Executed` the table after each of them.  (`EditCell` takes a number that is typed as it was for a
change, too: Tabulator compares the new text with the old number and reports it.)
`ChangesFaithful` runs them on the table of
the query and compares the outcome with the reference `Intended`, which looks at the display
only, and at the history `edited`, the cells that were typed in: a cell the page rounded is
still the server's, while one that was typed back to the rounded value is the user's.  Several
tabs are there because `Render` decides by identity whether the edits survive.

Data is abstract with one exception: `Number` is the rounding of a JSON number in the page.
`ChangesFaithful` therefore has the precondition `KeysExact`, that no key on display was
rounded; dropping it makes the property fail (the edit then goes to the row of the rounded
key).  `deletes` holds the keys the page sends; that C# cannot read them is `Unreadable`, which
enables `PrepareThrows` (finding 4).  `ChangesFaithful` judges the change set as the page
means it.

### EditorBuffer

A tab's text is in `sql[t]`, except the active one's, which is in the single Monaco instance
(`editor`) of the page.  `phase` is the life of the rendered component: importing its module,
waiting for Monaco (`pendingInit`), ready.  Every handler that needs the text flushes first
(`Flush`), and waits: `op[o]` is the handler and the tab it captured; the second step
(`Switched`, `RunFlushed`, `SaveFlushed`, `CloseFlushed`) stores the answer.  `typed` is what
the user sees in a tab, `saved` what is in its file; a write that throws is taken to leave the
file as it was.  The list of tabs is the set of them, `tabs`, with the relation `left`: who stands
left of whom.  The overlaps, and what each breaks when it is allowed alone (the first
three properties with three tabs, EditorComes with two; with two tabs the last overlap breaks
EditorComes only):

| Overlap | Properties that fail |
|---|---|
| open unflushed (a tab opened with newer text in the editor) | TextKept, CleanIsSaved, ClosePrompts |
| close unflushed (several tabs closed, likewise) | ClosePrompts |
| flush before ready, load before ready | TextKept, CleanIsSaved, ClosePrompts |
| type while flushing | TextKept, CleanIsSaved, ClosePrompts |
| act while switching (a tab opened or closed under a switch) | TextKept, CleanIsSaved, ClosePrompts, EditorComes |

### SchemaCache

A load is a numbered task, begun by the first who asks for a namespace.  `LoadAsync` is two
steps, `Load` (get or add, and await) and `Resume`; a failed load is noticed by each of its
callers in its own `Resume`, and each removes the entry of the namespace (`Forget`), which
may be a newer load by then.  `outdated` is history: a load begun before its namespace was
invalidated.  The object index walks the roots (`BeginIndex`, `ContinueIndex`), collects
names and failures, and is stamped with the token read at the end (`Stamp`).  "refresh while
indexing" is the one overlap; it breaks `IndexHonest`.  That a removal may hit a load that is
still running costs a second load and nothing else: `FreshAfterInvalidate` and
`FailureForgotten` hold in every interleaving.

## Runs

| Run | Instance | Shows |
|---|---|---|
| `cursor` | results of 0..5 rows, page sizes -1..6 | order, completeness, exact HasMore, full pages, progress, termination of a fetch, refinement of `PagedResult` |
| `patient` | 2 tabs, 2 runs, 2 loads, 3 pages, no overlaps | no leak, honest flags, display equals model, one fetch, rows in order, disconnection closes cursors, a cancelled run ends |
| `overlaps` | 2 tabs, 2 runs, 2 loads, 2 pages, second runs while a page is loaded, early scrolling, switches, closing and rebinding of busy tabs | grid, cursor and editability of one run; Stop reaches the run; no disposed cursor kept, no fetch begins on one |
| `leak` | a tab closed under its run | **violation** of NoOrphan: the run publishes its cursor on a closed tab |
| `apply` | 2 tabs, 2 connections, 2 batches of 2 commands, 2 applies, no overlaps | atomicity (`BatchStore`), truthful reports, right connection, no open transaction |
| `edits` | 2 tables of 3 and 1 rows, pages of 2, one added row, exact integers up to 4 | the edit state accounts for the display; the commands turn the table into it |
| `edits_delete` | the same | **violation** of PreviewAnswers: after a deletion of a loaded row the preview throws |
| `editor` | 2 tabs, one text each beside the blank one, 2 handlers, no overlaps | no text lost or misplaced, dirty marks tell the truth, unsaved tabs ask, the editor appears |
| `editor_loss` | the same, 1 handler, tabs opened with text unflushed | **violation** of ClosePrompts: the text is gone and nobody asked |
| `cache` | 2 namespaces, 2 readers, 1 indexer, 3 loads, 2 refreshes | failures forgotten, no outdated load given out, current index complete |
| `apply_rebound` | 1 tab, 2 connections, 1 batch, rows previewed after the tab was bound anew | **violation** of RightConnection: the changes go to the other database |
| `apply_disturbed` | 1 connection, schema reads during the apply | **violation** of Atomic: part of a batch is committed |

Why the bounds are enough.  The cursor's behaviour depends on how a page boundary meets
the end of the result; five rows with every page size have all the cases (short, exact,
one more) several pages deep, and the proofs remove the bound.  In `QueryRun` the
interference is between two handlers and one tab, or one handler and two tabs; two of each,
and three pages (first, middle, last), have every pair at every pair of awaits.  In
`DmlApply` two commands are the fewest of which a part can be lost or committed, two
applies allow a retry and a leftover transaction, two connections a wrong one, two tabs a switch; the proofs
remove these bounds.  In `GridEdits` the larger table has a first page, a later page, a key
beyond the exact integers (5, rounded to the key 4 of the row before) and the same value in a
column that is no key; the typed values are the keys of two rows, so that keys meet, are
exchanged and are typed back; the second tab is there for `Render`.  With a second added row
the instance is too large, but the proofs hold for any number.  In `EditorBuffer` a
text can only be lost to, or stored in, one other tab, by at most two handlers that wait;
without overlaps three tabs with one handler, and two texts with one handler, were checked once
and show nothing else, and the proofs remove the bounds for all but `EditorComes`.  In `SchemaCache` a stale removal needs two callers of one load, one of a
second, and a third load to see the result; its proofs remove the bounds.

Symmetry is used only in runs without liveness.  Deadlock is checked only in `QueryCursor`:
elsewhere the counters are bounded and the application rests when nobody uses it.

Fairness.  `QueryCursor`: the driver answers or throws each `ReadAsync` (`WF(Answer)`); the
consumer owes nothing.  `QueryRun`: the dispatcher resumes what is ready, the page and the
schema reader answer, and a call whose token was cancelled throws, as MySqlConnector does;
a query itself may run for ever, and the user owes nothing.  `EditorBuffer`: the import of
the module and Monaco's loader answer (`WF(Imported)`, `WF(MonacoLoads)`): both are files
inside the application; the flushes and the user owe nothing.  `DmlApply`, `GridEdits` and
`SchemaCache` state no liveness: what they wait for is the user or the server.
Assumed besides: disposing a cursor does not throw where the code does not catch it.

## Findings

1. A tab closed while its query runs leaks the cursor and its server connection
   (`leak`; `QueryArea.razor:930`).
2. "Apply in transaction" can commit a part of the batch (`apply_disturbed`;
   `DmlApplier.cs:29`, `MySqlQueryExecutor.cs:35`).
3. Rows loaded from one connection and edited in a tab that was bound to another since are
   applied to the other's database (`apply_rebound`; `QueryArea.razor:494`, `498` and `701`).
4. Deleting a loaded row makes "Preview & apply" throw until the result is shown anew: the
   page sends bare keys where C# reads objects with a property Key (`edits_delete`;
   `grid.js:163` and `194`, `GridChangeSet.cs:12`, `QueryArea.razor:754`).
5. Opening a tab discards what was typed since the last flush, and the tab then closes
   without the question (`editor_loss`; `WorkspaceState.cs:245`).

## Proofs

All theorems hold for every value of the constants that satisfies the module's named
assumption (`CursorAssumption`, `RunAssumption`, `DmlAssumption`,
`GridAssumption`, `CacheAssumption`, `EditorAssumption`), which
TLC evaluates; a theorem that needs some overlap excluded says so in an ASSUME of its own.

`QueryCursorProofs` proves, for every bound `MaxTotal` and every set of page sizes:
`TypeCorrect`, `NothingIsLost`, `AlwaysInOrder`, `HasMoreIsExact`, `Refinement` (the
cursor implements `PagedResult`), and the action properties `PagesAreWellSized` (`PageWellSized`)
and `PromisesAreKept` (`PromiseKept`).  The only assumption is `CursorAssumption`, on the
constants.  The argument rests on `IInv`: none of the safety properties is inductive, because
HasMore speaks about the server's rows while the code decides it from a row it has put
aside.  `IInv` ties them: a row read ahead exists only between fetches and only before the
end was seen; "yes" was answered only if one exists; "no" only if the end was seen; and
delivered, page and waiting row together are the reader's output, bounded by its position.
`Invariance` shows each action keeps it, one lemma on concatenation and order at a time;
the refinement then maps each return to `Serve` or `ServeBroken`, an exception to `Break`
and all else to stuttering.  The two action properties speak of the step that returns a page,
and need to know of the page while it is being filled that it is within the size asked for and
has the row that was promised (`PageFits`).

`QueryRunProofs`, for any numbers of tabs, runs, loads and pages:
- `TypeCorrect`, whatever overlaps happen.  `TypeOK` alone is not inductive: a suspended
  handler must have captured a real tab and cursor (`Captured`), and a result that has not
  ended must have pages left.
- `CursorsNotLeftBehind` (`NoDangling`) and `LoadsFetchAlive` (`FetchesAlive`), whatever
  overlaps happen.  The invariant `Owned` says who may hold a cursor: a tab's cursor was
  published by a run past its first page, no two tabs share one, a load fetches from a cursor
  that at most its own tab holds, and a load that is about to close knows from the cursor that
  it ended.
- `StopReachesTheRun`, `EditsOfTheResultShown` and `CursorOfTheGrid`, under `OneAtATime` (no
  second run is started while one is in flight).  `OInv`: the one run in flight owns
  `_running` and `_cts`, its tab shows nothing but its own result, and every tab's cursor and
  editability belong to its grid.

`PagingProofs`, for any numbers of tabs, runs, loads and pages.  Each theorem has an assumption
on the overlaps, which excludes those that break the property (the table above) and no others;
a second run breaks the order of the rows only with scrolling early beside it:
- `RowsAreInOrder` (`RowsInOrder`), under `OneAtATime`.  `RowsInv` adds that a load fetches from
  the cursor of the grid it will append to.
- `DisplayIsTheModel` (`DisplayMatches`) and `OneFetchAtATime` (`OneFetch`), under `InFront`: no run
  starts and no tab is switched while a page is loaded, and nobody scrolls before the final grid
  is rendered.  In `FInv` every load is one of the tab in front, and a fetch is for the grid
  in the page, whose `loading` keeps the next from starting.
- `MoreIsHonest` (`HasMoreHonest`), under `Unhurried`: furthermore no scrolling while rows are
  appended, no disconnection of a busy tab.  `HasMoreHonest` is about open tabs; `MInv` has it for
  closed ones too, whose loads go on, and says who keeps the cursor a load works with.
- `NoneOrphaned` (`NoOrphan`), under `BusyTabsKept`: one run at a time, not while its tab is
  loaded, no scrolling too early, and no busy tab is closed.  `NInv` adds that busy tabs are open,
  that no tab is run and loaded at once, and that a tab which is loaded has the load's cursor or
  none, so that whoever drops a cursor has closed it.
- `DisconnectingReleases` (`DisconnectReleases`), under `ConnectionKept`: furthermore no busy tab is
  disconnected and none with a result changes its connection.  It follows from `NoneOrphaned`,
  and from `DInv`: every open tab is on the connection until it is gone, and while it closes
  nothing runs.

`DmlApplyProofs`, for any numbers of connections, batches, applies and commands:
- `TypeCorrect`, whatever overlaps happen.
- `ChangesReachTheirOwnConnection` (`RightConnection`), under `Steady` (no switch and no rebinding
  of the active tab under a preview) and `OwnRows` (no preview of rows in a tab bound to
  another connection than theirs), with every other overlap.  `RInv` follows a batch along its
  way: the grid, pending commands, apply, the work of a session, the committed changes; while it
  is previewed the active tab is bound to its connection or, after a disconnection, to none.
- `NoTransactionLeftBehind` (`CleanSession`), under `Undisturbed` (no schema read during an
  apply, no second confirmation).  `AInv` relates what an apply believes to what its session
  is: at step k the session is in a transaction that holds exactly the first k - 1 commands,
  or it is dead and will say so to the next command; and nobody else is in a transaction.
- `ApplyingIsAtomic` (`ImplementsBatchStore`), under `Undisturbed` and `Steady`.  From `AInv`
  a COMMIT that is executed adds a whole batch; `BInv` adds that it is a batch that was never
  committed before, the subtle case being a COMMIT whose answer is lost: the apply reports an
  error, and its preview may stay open only if the connection is disposed, so that it cannot
  be confirmed again.

`DmlReportProofs`, for the same numbers and under `Undisturbed` alone, so that tabs may be switched
and bound anew under a preview or before editing: `EachDatabaseIsWhole` (`Atomic`), `SuccessIsDurable` (`AppliedIsDurable`) and
`FailureIsUndone` (`FailedIsUndone`).  A batch may then reach two databases, and `BInv` is false;
what holds is that none gets it twice.  `LInv`, on top of `AInv`: a batch that is prepared is in no
database; one that is pending and already in a database can only be there because the apply
that put it there has not returned, or because its connection is gone for good
(`OncePerConnection`); and a batch in a database is there whole, with an apply that sent COMMIT
(`Told`).

`SchemaCacheProofs`, for any numbers of namespaces, callers, loads and refreshes:
`TypeCorrect`, `FailuresAreForgotten`, `InvalidationWorks` (no assumption on overlaps) and
`IndexIsHonest` (no refresh ends while an index is built).  `IInv`: loads are numbered as they
begin, what is kept is of its namespace and not outdated, and a kept load that has not
succeeded is attended: somebody waits for it who will remove it if it fails.

`GridEditsProofs`, for any tables, columns and page sizes, whatever is typed and however many rows
are added:
- `EditsAreAccountedFor` (`EditsTrackDisplay`).  It needs two things beside itself: that the numbers
  of added rows are negative and below those already given, so that none is taken for a loaded
  row (`Counted`), and that the page still knows the key of every loaded row, deleted ones
  included (`Keyed`).
- `TypeCorrect`.  `TypeOK` is inductive with these and with the fact that no grid loads more rows
  than there are (`Sized`).
- `CommandsAreFaithful` (`ChangesFaithful`).  `SInv` adds that the order of the updates names each
  changed row once (`Ordered`), that the cells typed in are those the updates name (`Traced`), and
  that finitely many rows were added (`Bounded`).  The rest is about one state: by induction over
  the commands the table after k of them is the family of rows `Updated(k)`, then `Inserted(k)`,
  then `Deleted(k)`, no two with the same key, unless two keys have met, which `Execute`
  answers with a conflict that stays.  Each command hits its own row and no other: an update goes
  to the key a row was loaded with, and an earlier command that moved another row to that key
  while it was taken was a conflict.  Rows of later pages are in the family throughout.  That the
  rows at the end are as many as displayed and not loaded follows from their keys.

`EditorBufferProofs`, for any numbers of tabs, texts and handlers:
- `TypeCorrect`, whatever overlaps happen: among others that `left` stays an order of the open
  tabs, and that a component is rendered only for an open active tab, whose instance, or init that
  waits for Monaco, is that tab's (`PageOK`).
- `NoTextIsLost` (`TextKept`) and `MarksTellTheTruth` (`CleanIsSaved`), under `Patient`: every
  overlap but "close unflushed" is excluded.  `TextKept` speaks of what is stored, while the
  danger is in what is on its way, so `KInv` adds the three places a text can be: the init that waits
  for Monaco has the text of its tab (`Pending`), so has every handler that was answered
  (`Answers`), and while a switch flushes nobody is about to close a tab or to switch
  elsewhere (`Alone`), so that what it stores is the text of the tab it leaves.
- `UnsavedTabsAsk` (`ClosePrompts`), under `Patient` and without "close unflushed": a step that
  closes a tab unasked saw its text, and by `KInv` that is the text the user sees.

Only model-checked is liveness: `FetchEnds`, `StopWorks` and `EditorComes`, which is out of the
prover's reach, as is everything about fairness.  All other properties of the passing runs are
theorems; the runs with a violation show properties that are false, with the overlaps those
runs allow.  What the proofs do not say is what happens under the overlaps that their assumptions exclude: that each of these breaks the
property, as the tables say, was found with TLC.

Two limits of the prover shaped the modules.  The library's induction theorems take an operator
as parameter, which cannot be instantiated; `CountingUp` replaces them by an induction over a set
of numbers, from the well-foundedness of < (`WellFoundedInduction`).  And recursion is written as
recursive functions (`Remaining`, `Executed`): recursive operators lose the SMT solver,
`SelectSeq` is built in without a definition that could be expanded, and a fold has no name for
the tables between the commands, which the induction is about.

## What could follow

1. `Workspace`: connecting twice, a refresh of all connections while their list changes.
2. In `DmlApply` servers beside connections, so that a batch given to one server over two connections
   can be told.
3. For `GridEdits`, that keys beyond `Exact` always send an edit to the row of the rounded key, and
   an abstract specification of a grid's edits that it implements.

## Not modelled

Schema mapping, cell conversion, localisation, theme, export, logging, window chrome and the
splitter, history storage and the vendored grammar: data transformation and single calls
without coordination.  `ConnectionManager` is not used by the application.
`RunBufferedAsync` is unreachable with the MySQL provider, which always offers the paged
executor.  Connecting, the tunnel and the profile store: straight lines of code whose
failures go wrong in one step, without anything to interleave or recover (the hazards in
`PROJECT.json` name them).  The analysis of SQL text (splitter, classifier, table
references, editability) consists of pure functions over the tokens of a generated lexer:
nothing in them depends on an order of events.

Most of the repository's JavaScript is vendored: Monaco (`wwwroot/lib/monaco`, 52,800 of
some 53,400 lines) and Tabulator are libraries, modelled only by what the code that uses them
relies on.  The models therefore stand for a small share of the JavaScript there is; of the
application's own scripts, `grid.js` and `editor.js` are modelled but for formatting,
completion and themes, while the C# and Razor code, where the state is, is modelled as the
tables above say.
