---- MODULE PagingProofs ----
(***************************************************************************)
(* What a user who does not overlap certain things gets from QueryRun:     *)
(* rows in order, a display that shows its model, one fetch at a time, an  *)
(* honest HasMore, and no cursor left open behind a tab or a connection.   *)
(* Each is proved for any numbers of tabs, runs, loads and pages, from an  *)
(* assumption that excludes no overlap the property would survive: each    *)
(* overlap it excludes breaks the property alone, but for the second run,  *)
(* which takes scrolling early beside it to break the order of the rows.   *)
(***************************************************************************)
EXTENDS QueryRunProofs

\* The step of one run, field by field: what each kind of step does to its own state, to
\* its tab and to the cursors.  Nothing a property below depends on is left out.

Given(r) == run[r].pc \in {"drained", "analyzing", "recording", "done"}

\* RunAsync passes its guards.
Starts(r) ==
    /\ run[r].pc = "idle" /\ run'[r].pc = "flush" /\ run'[r].tab = active
    /\ UNCHANGED <<tab, cur, rows>>

\* The old result of tab t goes away.
Begins(r, t) ==
    /\ (run[r].pc = "flush" /\ t = run[r].tab) \/ (run[r].pc = "idle" /\ t = active)
    /\ run'[r].pc \in {"clearing", "opening"} /\ run'[r].tab = t
    /\ \A u \in Tabs \ {t} : tab'[u] = tab[u]
    /\ tab'[t].grid = None /\ tab'[t].editable = None /\ tab'[t].cursor = None
    /\ tab'[t].hasMore => tab[t].hasMore /\ tab[t].cursor = None
    /\ \A q \in Runs : /\ cur'[q].sent = cur[q].sent
                       /\ cur'[q].conn = IF tab[t].cursor = q THEN "closed" ELSE cur[q].conn
    /\ UNCHANGED rows

\* Only the run and its own cursor move.
GoesOn(r) ==
    /\ Busy(r) /\ (Busy(r)' => run'[r].tab = run[r].tab)
    /\ run'[r].pc # "idle" /\ (Given(r) => Given(r)')
    /\ run'[r].pc = "failing" => run[r].pc \in {"opening", "fetching"}
    /\ \A q \in Runs \ {r} : cur'[q] = cur[q]
    /\ cur'[r].sent = cur[r].sent /\ (Given(r) => cur'[r] = cur[r])
    /\ cur'[r].conn = "open" => run'[r].pc = "fetching" \/ (cur[r].conn = "open" /\ run[r].pc # "fetching")
    /\ UNCHANGED <<tab, rows>>

\* The first page.
Gives(r, more) ==
    /\ run[r].pc = "fetching" /\ run'[r].tab = run[r].tab
    /\ run'[r].pc = IF more THEN "analyzing" ELSE "drained"
    /\ \A u \in Tabs \ {run[r].tab} : tab'[u] = tab[u]
    /\ tab'[run[r].tab].grid = r /\ tab'[run[r].tab].hasMore = more
    /\ tab'[run[r].tab].cursor = IF more THEN r ELSE tab[run[r].tab].cursor
    /\ \A q \in Runs \ {r} : cur'[q] = cur[q] /\ rows'[q] = rows[q]
    /\ cur'[r].conn = (IF more THEN "open" ELSE "closed") /\ cur'[r].sent = 1
    /\ rows'[r] = << <<r, 1>> >>

\* The catch block clears the tab.
Fails(r) ==
    /\ run[r].pc = "failing" /\ run'[r].pc \in {"recording", "done"}
    /\ Busy(r)' => run'[r].tab = run[r].tab
    /\ \A u \in Tabs \ {run[r].tab} : tab'[u] = tab[u]
    /\ tab'[run[r].tab].cursor = None /\ ~tab'[run[r].tab].hasMore
    /\ tab'[run[r].tab].grid = tab[run[r].tab].grid
    /\ UNCHANGED <<cur, rows>>

\* The editability is known.
Judges(r) ==
    /\ run[r].pc = "analyzing" /\ run'[r].pc = "recording" /\ run'[r].tab = run[r].tab
    /\ \A u \in Tabs \ {run[r].tab} : tab'[u] = tab[u]
    /\ \A u \in Tabs : /\ tab'[u].grid = tab[u].grid /\ tab'[u].cursor = tab[u].cursor
                       /\ tab'[u].hasMore = tab[u].hasMore
    /\ UNCHANGED <<cur, rows>>

LEMMA BeginKind ==
  ASSUME TInv, NEW r \in Runs, NEW t \in Tabs, Begin(r, t),
         (run[r].pc = "flush" /\ t = run[r].tab) \/ (run[r].pc = "idle" /\ t = active)
  PROVE  Begins(r, t) /\ (\A q \in Runs \ {r} : run'[q] = run[q]) /\ UNCHANGED <<load, shown>>
<1>t. tab \in [Tabs -> TabState]
  BY Shape
<1>r. run \in [Runs -> RunState]
  BY Shape
<1>c. cur \in [Runs -> Cursor]
  BY Shape
<1>n. None \notin Runs /\ tab[t].cursor \in Runs \union {None}
  BY Shape
<1>1. UNCHANGED <<rows, load, shown>>
  BY DEF Begin
<1>2. CASE tab[t].cursor = None
  <2>1. /\ tab' = [tab EXCEPT ![t].grid = None, ![t].editable = None]
        /\ run' = [run EXCEPT ![r] = [pc |-> "opening", tab |-> t, tok |-> r]]
        /\ UNCHANGED cur
    BY <1>2 DEF Begin, CallOpen
  <2>2. /\ \A u \in Tabs \ {t} : tab'[u] = tab[u]
        /\ tab'[t].grid = None /\ tab'[t].editable = None /\ tab'[t].cursor = None
        /\ tab'[t].hasMore = tab[t].hasMore
    BY <1>t, <1>2, <2>1 DEF TabState
  <2>3. /\ \A q \in Runs \ {r} : run'[q] = run[q]
        /\ run'[r].pc = "opening" /\ run'[r].tab = t
    BY <1>r, <2>1
  <2> QED BY <1>n, <1>1, <1>2, <2>1, <2>2, <2>3 DEF Begins
<1>3. CASE tab[t].cursor # None
  <2>1. /\ tab' = [tab EXCEPT ![t] = EmptyTab]
        /\ run' = [run EXCEPT ![r] = [pc |-> "clearing", tab |-> t, tok |-> None]]
        /\ cur' = [cur EXCEPT ![tab[t].cursor].conn = "closed"]
    BY <1>3 DEF Begin
  <2>2. /\ \A u \in Tabs \ {t} : tab'[u] = tab[u]
        /\ tab'[t].grid = None /\ tab'[t].editable = None /\ tab'[t].cursor = None
        /\ ~tab'[t].hasMore
    BY <1>t, <2>1 DEF EmptyTab
  <2>3. /\ \A q \in Runs \ {r} : run'[q] = run[q]
        /\ run'[r].pc = "clearing" /\ run'[r].tab = t
    BY <1>r, <2>1
  <2>4. \A q \in Runs : /\ cur'[q].sent = cur[q].sent
                        /\ cur'[q].conn = IF tab[t].cursor = q THEN "closed" ELSE cur[q].conn
    BY <1>c, <1>n, <1>3, <2>1 DEF Cursor
  <2> QED BY <1>1, <2>2, <2>3, <2>4 DEF Begins
<1> QED BY <1>2, <1>3

\* A run that ends, or goes on to record its error, keeps its tab while it goes on.
LEMMA CaughtKind ==
  ASSUME TInv, NEW r \in Runs, Caught(r)
  PROVE  /\ \A q \in Runs \ {r} : run'[q] = run[q]
         /\ run'[r].pc \in {"recording", "done"}
         /\ Busy(r)' => run'[r].tab = run[r].tab
<1>0. run \in [Runs -> RunState]
  BY Shape
<1>1. CASE run' = [run EXCEPT ![r] = Resting("done")]
  BY <1>0, <1>1 DEF Resting, Busy
<1>2. CASE run' = [run EXCEPT ![r].pc = "recording"]
  BY <1>0, <1>2 DEF RunState
<1> QED BY <1>1, <1>2 DEF Caught, Ended

\* Every step of a run is one of these, and leaves the rest as it was.
LEMMA RunKinds ==
  ASSUME TInv, NEW r \in Runs, RunStep(r)
  PROVE  /\ \A q \in Runs \ {r} : run'[q] = run[q]
         /\ UNCHANGED <<open, fresh, active, bound, server, load, shown>>
         /\ Busy(r) \/ (MayStart /\ active \in Tabs /\ Connected(active))
         /\ Busy(r) => run[r].tab \in Tabs
         /\ \/ Starts(r) \/ GoesOn(r) \/ Fails(r) \/ Judges(r)
            \/ \E t \in Tabs : Begins(r, t)
            \/ \E more \in BOOLEAN : Gives(r, more)
<1> DEFINE Rest == UNCHANGED <<open, fresh, active, bound, server, load, shown>>
           Others == \A q \in Runs \ {r} : run'[q] = run[q]
           May0 == Busy(r) \/ (MayStart /\ active \in Tabs /\ Connected(active))
           Kind == \/ Starts(r) \/ GoesOn(r) \/ Fails(r) \/ Judges(r)
                   \/ \E t \in Tabs : Begins(r, t)
                   \/ \E more \in BOOLEAN : Gives(r, more)
<1>t. tab \in [Tabs -> TabState]
  BY Shape
<1>r. run \in [Runs -> RunState]
  BY Shape
<1>c. cur \in [Runs -> Cursor]
  BY Shape
<1>b. Busy(r) => run[r].tab \in Tabs
  BY Shape
<1>a. active \in Tabs \union {None} /\ None \notin Tabs
  BY RunAssumption DEF TInv, TypeOK, MaybeTab
<1>1. CASE StartRun(r)
  <2>1. /\ run[r].pc = "idle" /\ active # None /\ Connected(active) /\ MayStart
        /\ run' = [run EXCEPT ![r].pc = "flush", ![r].tab = active]
        /\ UNCHANGED <<wsVars, tab, cur, rows, load, shown>>
    BY <1>1 DEF StartRun
  <2>2. Others /\ run'[r].pc = "flush" /\ run'[r].tab = active
    BY <1>r, <2>1 DEF RunState
  <2> QED BY <1>a, <1>b, <2>1, <2>2 DEF Starts, wsVars
<1>2. CASE EditorAnswers(r)
  <2>0. run[r].pc = "flush" /\ UNCHANGED wsVars /\ Busy(r) /\ run[r].tab \in Tabs
    BY <1>b, <1>2 DEF EditorAnswers, Busy
  <2>1. CASE run' = [run EXCEPT ![r] = Resting("done")] /\ UNCHANGED <<tab, srcVars, cur, rows, load, shown>>
    <3>1. Others /\ run'[r].pc = "done" /\ UNCHANGED <<tab, cur, rows, load, shown>>
      BY <1>r, <2>1 DEF Resting
    <3>2. GoesOn(r)
      BY <2>0, <3>1 DEF GoesOn, Busy, Given
    <3> QED BY <2>0, <3>1, <3>2 DEF wsVars
  <2>2. CASE Begin(r, run[r].tab)
    <3>1. Begins(r, run[r].tab) /\ Others /\ UNCHANGED <<load, shown>>
      BY <2>0, <2>2, BeginKind
    <3> QED BY <2>0, <3>1 DEF wsVars
  <2> QED BY <1>2, <2>1, <2>2 DEF EditorAnswers
<1>3. CASE StartPendingRun(r)
  <2>1. /\ run[r].pc = "idle" /\ Connected(active) /\ MayStart /\ active \in Tabs /\ Begin(r, active)
        /\ UNCHANGED <<open, fresh, active, bound, server>>
    BY <1>3 DEF StartPendingRun, TInv, TypeOK
  <2>2. Begins(r, active) /\ Others /\ UNCHANGED <<load, shown>>
    BY <2>1, BeginKind
  <2> QED BY <1>b, <2>1, <2>2
<1>4. CASE Cleared(r)
  <2>1. /\ run[r].pc = "clearing" /\ Busy(r)
        /\ run' = [run EXCEPT ![r] = [pc |-> "opening", tab |-> run[r].tab, tok |-> r]]
        /\ UNCHANGED <<wsVars, tab, cur, rows, load, shown>>
    BY <1>4 DEF Cleared, CallOpen, Busy
  <2>2. Others /\ run'[r].pc = "opening" /\ run'[r].tab = run[r].tab
    BY <1>r, <2>1
  <2>3. GoesOn(r)
    BY <2>1, <2>2 DEF GoesOn, Given
  <2> QED BY <1>b, <2>1, <2>2, <2>3 DEF wsVars
<1>5. ASSUME NEW hasFields \in BOOLEAN, Opened(r, hasFields)
      PROVE  Others /\ Rest /\ May0 /\ Kind
  <2>1. /\ run[r].pc = "opening" /\ Busy(r)
        /\ UNCHANGED <<wsVars, tab, rows, load, shown>>
        /\ \/ /\ cur' = [cur EXCEPT ![r].conn = "open"]
              /\ run' = [run EXCEPT ![r].pc = "fetching", ![r].tok = cts]
           \/ /\ cur' = [cur EXCEPT ![r].conn = "closed"]
              /\ \E p \in {"failing", "unneeded"} : run' = [run EXCEPT ![r].pc = p]
    BY <1>5 DEF Opened, Busy
  <2>2. Others /\ run'[r].pc \in {"fetching", "failing", "unneeded"} /\ run'[r].tab = run[r].tab
    BY <1>r, <2>1 DEF RunState
  <2>3. /\ \A q \in Runs \ {r} : cur'[q] = cur[q]
        /\ cur'[r].sent = cur[r].sent
        /\ cur'[r].conn = "open" => run'[r].pc = "fetching"
    BY <1>c, <1>r, <2>1 DEF Cursor, RunState
  <2>4. GoesOn(r)
    BY <2>1, <2>2, <2>3 DEF GoesOn, Given
  <2> QED BY <2>1, <2>2, <2>4 DEF wsVars
<1>6. CASE OpenThrows(r)
  <2>1. run[r].pc = "opening" /\ Busy(r) /\ Caught(r) /\ UNCHANGED <<wsVars, tab, cur, rows, load, shown>>
    BY <1>6 DEF OpenThrows, Busy
  <2>2. GoesOn(r) /\ Others
    BY <2>1, CaughtKind DEF GoesOn, Given
  <2> QED BY <1>b, <2>1, <2>2 DEF wsVars
<1>7. ASSUME NEW more \in BOOLEAN, FirstPage(r, more)
      PROVE  Others /\ Rest /\ May0 /\ Kind
  <2> DEFINE t == run[r].tab
             c == [conn |-> IF more THEN "open" ELSE "closed", sent |-> 1, atEnd |-> ~more]
  <2>1. /\ run[r].pc = "fetching" /\ Busy(r) /\ t \in Tabs
        /\ tab' = [tab EXCEPT ![t].grid = r, ![t].hasMore = more, ![t].cursor = IF more THEN r ELSE @]
        /\ cur' = [cur EXCEPT ![r] = c]
        /\ rows' = [rows EXCEPT ![r] = << <<r, 1>> >>]
        /\ run' = [run EXCEPT ![r].pc = IF more THEN "analyzing" ELSE "drained"]
        /\ UNCHANGED <<wsVars, load, shown>>
    BY <1>b, <1>7 DEF FirstPage, Busy
  <2>2. Others /\ run'[r].pc = (IF more THEN "analyzing" ELSE "drained") /\ run'[r].tab = t
    BY <1>r, <2>1 DEF RunState
  <2>3. /\ \A u \in Tabs \ {t} : tab'[u] = tab[u]
        /\ tab'[t].grid = r /\ tab'[t].hasMore = more
        /\ tab'[t].cursor = IF more THEN r ELSE tab[t].cursor
    BY <1>t, <2>1 DEF TabState
  <2>4. /\ \A q \in Runs \ {r} : cur'[q] = cur[q]
        /\ cur'[r].conn = (IF more THEN "open" ELSE "closed") /\ cur'[r].sent = 1
    BY <1>c, <2>1
  <2>5. /\ \A q \in Runs \ {r} : rows'[q] = rows[q]
        /\ rows'[r] = << <<r, 1>> >>
    BY <2>1 DEF TInv, TypeOK
  <2>6. Gives(r, more)
    BY <2>1, <2>2, <2>3, <2>4, <2>5 DEF Gives
  <2> QED BY <2>1, <2>2, <2>6 DEF wsVars
<1>8. CASE FirstPageThrows(r)
  <2>1. /\ run[r].pc = "fetching" /\ Busy(r)
        /\ cur' = [cur EXCEPT ![r].conn = "closed"] /\ run' = [run EXCEPT ![r].pc = "failing"]
        /\ UNCHANGED <<wsVars, tab, rows, load, shown>>
    BY <1>8 DEF FirstPageThrows, Busy
  <2>2. Others /\ run'[r].pc = "failing" /\ run'[r].tab = run[r].tab
    BY <1>r, <2>1 DEF RunState
  <2>3. /\ \A q \in Runs \ {r} : cur'[q] = cur[q]
        /\ cur'[r].sent = cur[r].sent /\ cur'[r].conn = "closed"
    BY <1>c, <2>1 DEF Cursor
  <2>4. GoesOn(r)
    BY <2>1, <2>2, <2>3 DEF GoesOn, Given
  <2> QED BY <1>b, <2>1, <2>2, <2>4 DEF wsVars
<1>9. CASE Failed(r)
  <2>1. /\ run[r].pc = "failing" /\ Busy(r) /\ run[r].tab \in Tabs /\ Caught(r)
        /\ tab' = [tab EXCEPT ![run[r].tab].cursor = None, ![run[r].tab].hasMore = FALSE]
        /\ UNCHANGED <<wsVars, cur, rows, load, shown>>
    BY <1>b, <1>9 DEF Failed, Busy
  <2>2. /\ \A u \in Tabs \ {run[r].tab} : tab'[u] = tab[u]
        /\ tab'[run[r].tab].cursor = None /\ ~tab'[run[r].tab].hasMore
        /\ tab'[run[r].tab].grid = tab[run[r].tab].grid
    BY <1>t, <2>1 DEF TabState
  <2>3. Fails(r) /\ Others
    BY <2>1, <2>2, CaughtKind DEF Fails
  <2> QED BY <2>1, <2>3 DEF wsVars
<1>10. CASE Disposed(r)
  <2>1. /\ run[r].pc \in {"drained", "unneeded"} /\ Busy(r)
        /\ run' = [run EXCEPT ![r].pc = IF @ = "drained" THEN "analyzing" ELSE "recording"]
        /\ UNCHANGED <<wsVars, tab, cur, rows, load, shown>>
    BY <1>10 DEF Disposed, Busy
  <2>2. Others /\ run'[r].pc \in {"analyzing", "recording"} /\ run'[r].tab = run[r].tab
    BY <1>r, <2>1 DEF RunState
  <2>3. GoesOn(r)
    BY <2>1, <2>2 DEF GoesOn, Given
  <2> QED BY <1>b, <2>1, <2>2, <2>3 DEF wsVars
<1>11. CASE Analyzed(r)
  <2>1. /\ run[r].pc = "analyzing" /\ Busy(r) /\ run[r].tab \in Tabs
        /\ \E verdict \in {r, None} : tab' = [tab EXCEPT ![run[r].tab].editable = verdict]
        /\ run' = [run EXCEPT ![r].pc = "recording"]
        /\ UNCHANGED <<wsVars, cur, rows, load, shown>>
    BY <1>b, <1>11 DEF Analyzed, Busy
  <2>2. Others /\ run'[r].pc = "recording" /\ run'[r].tab = run[r].tab
    BY <1>r, <2>1 DEF RunState
  <2>3. /\ \A u \in Tabs \ {run[r].tab} : tab'[u] = tab[u]
        /\ \A u \in Tabs : /\ tab'[u].grid = tab[u].grid /\ tab'[u].cursor = tab[u].cursor
                           /\ tab'[u].hasMore = tab[u].hasMore
    BY <1>t, <2>1 DEF TabState
  <2>4. Judges(r)
    BY <2>1, <2>2, <2>3 DEF Judges
  <2> QED BY <2>1, <2>2, <2>4 DEF wsVars
<1>12. CASE Recorded(r)
  <2>1. /\ run[r].pc = "recording" /\ Busy(r) /\ Caught(r) /\ UNCHANGED <<wsVars, tab, cur, rows, load, shown>>
    BY <1>12 DEF Recorded, Caught, Busy
  <2>2. GoesOn(r) /\ Others
    BY <2>1, CaughtKind DEF GoesOn, Given
  <2> QED BY <1>b, <2>1, <2>2 DEF wsVars
<1> QED BY <1>b, <1>1, <1>2, <1>3, <1>4, <1>5, <1>6, <1>7, <1>8, <1>9, <1>10, <1>11, <1>12 DEF RunStep

\* What Release does, field by field.
Released(ts) ==
    /\ \A u \in Tabs : /\ tab'[u].grid = tab[u].grid /\ tab'[u].editable = tab[u].editable
                       /\ tab'[u].cursor = IF u \in ts THEN None ELSE tab[u].cursor
                       /\ tab'[u].hasMore => tab[u].hasMore /\ (u \in ts => tab[u].cursor = None)
    /\ \A r \in Runs : /\ cur'[r].sent = cur[r].sent
                       /\ cur'[r].conn = IF \E t \in ts : tab[t].cursor = r THEN "closed" ELSE cur[r].conn

LEMMA ReleaseKind ==
  ASSUME TInv, NEW ts \in SUBSET Tabs, Release(ts)
  PROVE  Released(ts)
<1> DEFINE holders == {t \in ts : tab[t].cursor # None}
           held == {tab[t].cursor : t \in holders}
<1>0. tab \in [Tabs -> TabState] /\ cur \in [Runs -> Cursor] /\ None \notin Runs
  BY Shape
<1>1. /\ tab' = [t \in Tabs |-> IF t \in holders
                                THEN [tab[t] EXCEPT !.cursor = None, !.hasMore = FALSE] ELSE tab[t]]
      /\ cur' = [r \in Runs |-> IF r \in held THEN [cur[r] EXCEPT !.conn = "closed"] ELSE cur[r]]
  BY DEF Release
<1>2. \A r \in Runs : r \in held <=> \E t \in ts : tab[t].cursor = r
  BY <1>0
<1>3. \A t \in Tabs : t \in holders <=> t \in ts /\ tab[t].cursor # None
  OBVIOUS
<1> HIDE DEF holders, held
<1>4. \A r \in Runs : /\ cur'[r].sent = cur[r].sent
                      /\ cur'[r].conn = IF r \in held THEN "closed" ELSE cur[r].conn
  BY <1>0, <1>1 DEF Cursor
<1>5. \A u \in Tabs : /\ tab'[u].grid = tab[u].grid /\ tab'[u].editable = tab[u].editable
                      /\ tab'[u].cursor = IF u \in holders THEN None ELSE tab[u].cursor
                      /\ tab'[u].hasMore = IF u \in holders THEN FALSE ELSE tab[u].hasMore
  BY <1>0, <1>1 DEF TabState
<1>6. \A u \in Tabs : /\ tab'[u].cursor = IF u \in ts THEN None ELSE tab[u].cursor
                      /\ tab'[u].hasMore => tab[u].hasMore /\ (u \in ts => tab[u].cursor = None)
  BY <1>3, <1>5
<1>7. \A r \in Runs : cur'[r].conn = IF \E t \in ts : tab[t].cursor = r THEN "closed" ELSE cur[r].conn
  BY <1>2, <1>4
<1> QED BY <1>4, <1>5, <1>6, <1>7 DEF Released

\* The step of one load, field by field.

\* Load l goes on for the tab, cursor and grid it has captured.
SameLoad(l) == load'[l].tab = load[l].tab /\ load'[l].cur = load[l].cur /\ load'[l].grid = load[l].grid

\* The grid is scrolled to its end; a tab with a cursor starts to fetch.
Scrolls(l) ==
    /\ shown.grid # None /\ ~shown.loading /\ load[l].pc = "idle" /\ MayScroll
    /\ shown'.grid = shown.grid /\ shown'.edit = shown.edit /\ shown'.rows = shown.rows /\ shown'.loading
    /\ \/ UNCHANGED load
       \/ /\ active \in Tabs /\ tab[active].grid # None /\ tab[active].cursor # None
          /\ load'[l].pc = "fetching" /\ load'[l].tab = active
          /\ load'[l].cur = tab[active].cursor /\ load'[l].grid = tab[active].grid
    /\ UNCHANGED <<tab, cur, rows>>

\* A page arrives.
Pages(l, more) ==
    LET c == load[l].cur
        page == <<c, cur[c].sent + 1>>
    IN  /\ load[l].pc = "fetching" /\ load'[l].pc = "appending" /\ SameLoad(l)
        /\ load'[l].more = more
        /\ \A q \in Runs \ {c} : cur'[q] = cur[q]
        /\ cur'[c].conn = cur[c].conn /\ cur'[c].sent = cur[c].sent + 1
        /\ \A q \in Runs \ {load[l].grid} : rows'[q] = rows[q]
        /\ rows'[load[l].grid] = Append(rows[load[l].grid], page)
        /\ shown'.grid = shown.grid /\ shown'.edit = shown.edit
        /\ shown.grid # None => shown'.rows = Append(shown.rows, page)
        /\ UNCHANGED tab

\* The end of the result: the tab announces no more, and the cursor is disposed.
Closes(l) ==
    /\ load[l].pc \in {"fetching", "appending"} /\ load'[l].pc = "closing" /\ SameLoad(l)
    /\ \A u \in Tabs \ {load[l].tab} : tab'[u] = tab[u]
    /\ \A u \in Tabs : /\ tab'[u].grid = tab[u].grid /\ tab'[u].editable = tab[u].editable
                       /\ tab'[u].cursor = tab[u].cursor
    /\ ~tab'[load[l].tab].hasMore
    /\ \A q \in Runs \ {load[l].cur} : cur'[q] = cur[q]
    /\ cur'[load[l].cur].conn = "closed" /\ cur'[load[l].cur].sent = cur[load[l].cur].sent
    /\ UNCHANGED <<rows, shown>>

\* More is to come.
Keeps(l) ==
    /\ load[l].pc = "appending" /\ load'[l].pc = "done"
    /\ \A u \in Tabs \ {load[l].tab} : tab'[u] = tab[u]
    /\ \A u \in Tabs : /\ tab'[u].grid = tab[u].grid /\ tab'[u].editable = tab[u].editable
                       /\ tab'[u].cursor = tab[u].cursor
    /\ UNCHANGED <<cur, rows, shown>>

\* The tab lets go of the disposed cursor.
LetsGo(l) ==
    /\ load[l].pc = "closing" /\ load'[l].pc = "done"
    /\ \A u \in Tabs \ {load[l].tab} : tab'[u] = tab[u]
    /\ tab'[load[l].tab].grid = tab[load[l].tab].grid
    /\ tab'[load[l].tab].editable = tab[load[l].tab].editable
    /\ tab'[load[l].tab].hasMore = tab[load[l].tab].hasMore
    /\ tab'[load[l].tab].cursor = None
    /\ UNCHANGED <<cur, rows, shown>>

\* The fetch, or appending its page, throws.
Throws(l) ==
    /\ load[l].pc \in {"fetching", "appending"} /\ load'[l].pc = "done"
    /\ Released({load[l].tab})
    /\ UNCHANGED <<rows, shown>>

LEMMA LoadKinds ==
  ASSUME TInv, NEW l \in Loads, LoadStep(l)
  PROVE  /\ \A k \in Loads \ {l} : load'[k] = load[k]
         /\ UNCHANGED <<open, fresh, active, bound, server, run>>
         /\ Loading(l) => load[l].tab \in Tabs /\ load[l].cur \in Runs /\ load[l].grid \in Runs
         /\ \/ Scrolls(l) \/ Closes(l) \/ Keeps(l) \/ LetsGo(l) \/ Throws(l)
            \/ \E more \in BOOLEAN : Pages(l, more)
<1> DEFINE Rest == UNCHANGED <<open, fresh, active, bound, server, run>>
           Others == \A k \in Loads \ {l} : load'[k] = load[k]
<1>t. tab \in [Tabs -> TabState]
  BY Shape
<1>c. cur \in [Runs -> Cursor]
  BY Shape
<1>l. load \in [Loads -> LoadState]
  BY Shape
<1>s. shown \in Display
  BY DEF TInv, TypeOK
<1>b. Loading(l) => load[l].tab \in Tabs /\ load[l].cur \in Runs /\ load[l].grid \in Runs
  BY Shape
<1>1. CASE Scroll(l)
  <2>1. /\ shown.grid # None /\ ~shown.loading /\ load[l].pc = "idle" /\ MayScroll
        /\ shown' = [shown EXCEPT !.loading = TRUE] /\ LoadMore(l)
        /\ UNCHANGED <<wsVars, tab, run, cur, rows>>
    BY <1>1 DEF Scroll
  <2>2. shown'.grid = shown.grid /\ shown'.edit = shown.edit /\ shown'.rows = shown.rows /\ shown'.loading
    BY <1>s, <2>1 DEF Display
  <2>3. CASE UNCHANGED load
    <3>1. Scrolls(l)
      BY <2>1, <2>2, <2>3 DEF Scrolls
    <3> QED BY <1>b, <2>1, <2>3, <3>1 DEF wsVars
  <2>4. CASE /\ HasGrid(active) /\ tab[active].cursor # None
             /\ load' = [load EXCEPT ![l] = [pc |-> "fetching", tab |-> active, cur |-> tab[active].cursor,
                                             grid |-> tab[active].grid, more |-> FALSE]]
    <3>1. active \in Tabs /\ tab[active].grid # None
      BY <2>4 DEF HasGrid, TInv, TypeOK, MaybeTab
    <3>2. /\ Others
          /\ load'[l].pc = "fetching" /\ load'[l].tab = active
          /\ load'[l].cur = tab[active].cursor /\ load'[l].grid = tab[active].grid
      BY <1>l, <2>4
    <3>3. Scrolls(l)
      BY <2>1, <2>2, <2>4, <3>1, <3>2 DEF Scrolls
    <3> QED BY <1>b, <2>1, <3>2, <3>3 DEF wsVars
  <2> QED BY <2>1, <2>3, <2>4 DEF LoadMore
<1>2. ASSUME NEW more \in BOOLEAN, NextPage(l, more)
      PROVE  Others /\ Rest /\ Pages(l, more)
  <2> DEFINE c == load[l].cur
             page == <<c, cur[c].sent + 1>>
  <2>1. /\ load[l].pc = "fetching" /\ c \in Runs /\ load[l].grid \in Runs
        /\ cur' = [cur EXCEPT ![c].sent = @ + 1, ![c].atEnd = ~more]
        /\ rows' = [rows EXCEPT ![load[l].grid] = Append(@, page)]
        /\ load' = [load EXCEPT ![l].pc = "appending", ![l].more = more]
        /\ shown' = IF shown.grid = None THEN shown
                    ELSE [shown EXCEPT !.rows = Append(@, page), !.loading = FALSE]
        /\ UNCHANGED <<wsVars, tab, run>>
    BY <1>b, <1>2 DEF NextPage, Loading
  <2>2. Others /\ load'[l].pc = "appending" /\ SameLoad(l) /\ load'[l].more = more
    BY <1>l, <2>1 DEF LoadState, SameLoad
  <2>3. /\ \A q \in Runs \ {c} : cur'[q] = cur[q]
        /\ cur'[c].conn = cur[c].conn /\ cur'[c].sent = cur[c].sent + 1
    BY <1>c, <2>1 DEF Cursor
  <2> HIDE DEF page
  <2>4. /\ \A q \in Runs \ {load[l].grid} : rows'[q] = rows[q]
        /\ rows'[load[l].grid] = Append(rows[load[l].grid], page)
    BY <2>1 DEF TInv, TypeOK
  <2>5. /\ shown'.grid = shown.grid /\ shown'.edit = shown.edit
        /\ shown.grid # None => shown'.rows = Append(shown.rows, page)
    BY <1>s, <2>1 DEF Display
  <2>6. Pages(l, more)
    BY <2>1, <2>2, <2>3, <2>4, <2>5 DEF Pages, page
  <2> QED BY <2>1, <2>2, <2>6 DEF wsVars
<1>3. ASSUME Loading(l), load[l].pc \in {"fetching", "appending"},
             load' = [load EXCEPT ![l].pc = "closing"],
             tab' = [tab EXCEPT ![load[l].tab].hasMore = FALSE],
             cur' = [cur EXCEPT ![load[l].cur].conn = "closed"],
             UNCHANGED <<rows, shown>>
      PROVE  Others /\ Closes(l)
  <2>1. Others /\ load'[l].pc = "closing" /\ SameLoad(l)
    BY <1>l, <1>3 DEF LoadState, SameLoad
  <2>2. /\ \A u \in Tabs \ {load[l].tab} : tab'[u] = tab[u]
        /\ \A u \in Tabs : /\ tab'[u].grid = tab[u].grid /\ tab'[u].editable = tab[u].editable
                           /\ tab'[u].cursor = tab[u].cursor
        /\ ~tab'[load[l].tab].hasMore
    BY <1>t, <1>b, <1>3 DEF TabState
  <2>3. /\ \A q \in Runs \ {load[l].cur} : cur'[q] = cur[q]
        /\ cur'[load[l].cur].conn = "closed" /\ cur'[load[l].cur].sent = cur[load[l].cur].sent
    BY <1>c, <1>b, <1>3 DEF Cursor
  <2> QED BY <1>3, <2>1, <2>2, <2>3 DEF Closes
<1>4. CASE NoPage(l)
  <2>1. /\ load[l].pc = "fetching" /\ Loading(l)
        /\ load' = [load EXCEPT ![l].pc = "closing"]
        /\ tab' = [tab EXCEPT ![load[l].tab].hasMore = FALSE]
        /\ cur' = [cur EXCEPT ![load[l].cur].conn = "closed"]
        /\ UNCHANGED <<wsVars, run, rows, shown>>
    BY <1>4 DEF NoPage, Loading
  <2>2. Others /\ Closes(l)
    BY <1>3, <2>1
  <2> QED BY <1>b, <2>1, <2>2 DEF wsVars
<1>5. CASE Appended(l)
  <2>1. /\ load[l].pc = "appending" /\ Loading(l)
        /\ tab' = [tab EXCEPT ![load[l].tab].hasMore = load[l].more]
        /\ UNCHANGED <<wsVars, run, rows, shown>>
    BY <1>5 DEF Appended, Loading
  <2>2. CASE load[l].more
    <3>1. load' = [load EXCEPT ![l] = Idle("done")] /\ UNCHANGED cur
      BY <1>5, <2>2 DEF Appended
    <3>2. Others /\ load'[l].pc = "done"
      BY <1>l, <3>1 DEF Idle
    <3>3. /\ \A u \in Tabs \ {load[l].tab} : tab'[u] = tab[u]
          /\ \A u \in Tabs : /\ tab'[u].grid = tab[u].grid /\ tab'[u].editable = tab[u].editable
                             /\ tab'[u].cursor = tab[u].cursor
      BY <1>t, <1>b, <2>1 DEF TabState
    <3>4. Keeps(l)
      BY <2>1, <3>1, <3>2, <3>3 DEF Keeps
    <3> QED BY <1>b, <2>1, <3>2, <3>4 DEF wsVars
  <2>3. CASE ~load[l].more
    <3>1. /\ load' = [load EXCEPT ![l].pc = "closing"]
          /\ cur' = [cur EXCEPT ![load[l].cur].conn = "closed"]
      BY <1>5, <2>3 DEF Appended
    <3>2. tab' = [tab EXCEPT ![load[l].tab].hasMore = FALSE]
      <4>1. load[l].more = FALSE
        BY <1>l, <2>3 DEF LoadState
      <4> QED BY <2>1, <4>1
    <3>3. Others /\ Closes(l)
      BY <1>3, <2>1, <3>1, <3>2
    <3> QED BY <1>b, <2>1, <3>3 DEF wsVars
  <2> QED BY <2>2, <2>3
<1>6. CASE LoadClosed(l)
  <2>1. /\ load[l].pc = "closing" /\ load[l].tab \in Tabs
        /\ tab' = [tab EXCEPT ![load[l].tab].cursor = None]
        /\ load' = [load EXCEPT ![l] = Idle("done")]
        /\ UNCHANGED <<wsVars, run, cur, rows, shown>>
    BY <1>b, <1>6 DEF LoadClosed, Loading
  <2>2. Others /\ load'[l].pc = "done"
    BY <1>l, <2>1 DEF Idle
  <2>3. LetsGo(l)
    BY <1>t, <2>1, <2>2 DEF LetsGo, TabState
  <2> QED BY <1>b, <2>1, <2>2, <2>3 DEF wsVars
<1>7. CASE LoadThrows(l)
  <2>1. /\ load[l].pc \in {"fetching", "appending"} /\ load[l].tab \in Tabs
        /\ Release({load[l].tab})
        /\ load' = [load EXCEPT ![l] = Idle("done")]
        /\ UNCHANGED <<wsVars, run, rows, shown>>
    BY <1>b, <1>7 DEF LoadThrows, Loading
  <2>2. Others /\ load'[l].pc = "done"
    BY <1>l, <2>1 DEF Idle
  <2>3. {load[l].tab} \in SUBSET Tabs
    BY <2>1
  <2>4. Throws(l)
    BY <2>1, <2>2, <2>3, ReleaseKind DEF Throws
  <2> QED BY <1>b, <2>1, <2>2, <2>4 DEF wsVars
<1> QED BY <1>b, <1>1, <1>2, <1>4, <1>5, <1>6, <1>7 DEF LoadStep

----------------------------------------------------------------------------
(* With one run at a time, a grid's rows are its own cursor's pages *)

OwnGrid == \A l \in Loads : Loading(l) => load[l].cur = load[l].grid

RowsInv == OwnGrid /\ RowsInOrder

\* The first n pages of a cursor, and the next.
LEMMA NextOfPages ==
  ASSUME NEW c, NEW n \in Nat
  PROVE  Append([i \in 1..n |-> <<c, i>>], <<c, n + 1>>) = [i \in 1..(n + 1) |-> <<c, i>>]
<1> DEFINE s == [i \in 1..n |-> <<c, i>>]
           e == [i \in 1..(n + 1) |-> <<c, i>>]
           Pair == {<<c, i>> : i \in 1..(n + 1)}
<1>1. s \in Seq(Pair) /\ Len(s) = n
  OBVIOUS
<1>2. e \in Seq(Pair) /\ Len(e) = n + 1
  OBVIOUS
<1>3. Append(s, <<c, n + 1>>) \in Seq(Pair) /\ Len(Append(s, <<c, n + 1>>)) = n + 1
  BY <1>1
<1>4. ASSUME NEW i \in 1..(n + 1)
      PROVE  Append(s, <<c, n + 1>>)[i] = e[i]
  BY <1>1, AppendProperties
<1> HIDE DEF s, e, Pair
<1>5. Append(s, <<c, n + 1>>) = e
  BY <1>2, <1>3, <1>4, SeqEqual
<1> QED BY <1>5 DEF s, e

LEMMA RowsInit == Init => RowsInv
<1> SUFFICES ASSUME Init PROVE RowsInv
  OBVIOUS
<1>1. \A l \in Loads : load[l].pc = "idle"
  BY DEF Init, Idle
<1>2. \A r \in Runs : rows[r] = <<>> /\ cur[r].sent = 0
  BY DEF Init
<1>3. ASSUME NEW r \in Runs PROVE <<>> = [i \in 1..0 |-> <<r, i>>]
  OBVIOUS
<1> QED BY <1>1, <1>2, <1>3 DEF RowsInv, OwnGrid, RowsInOrder, Loading

\* No page is added, and no load captures a cursor and a grid.
LEMMA RowsFrame ==
  ASSUME RowsInv, UNCHANGED rows, \A r \in Runs : cur'[r].sent = cur[r].sent,
         \A l \in Loads : Loading(l)' => Loading(l) /\ load'[l].cur = load[l].cur /\ load'[l].grid = load[l].grid
  PROVE  RowsInv'
BY DEF RowsInv, OwnGrid, RowsInOrder

LEMMA RowsRun ==
  ASSUME TInv, RowsInv, NEW r \in Runs, RunStep(r)
  PROVE  RowsInv'
<1>0. UNCHANGED load
  BY RunKinds
<1>k. \A l \in Loads : Loading(l)' => Loading(l) /\ load'[l].cur = load[l].cur /\ load'[l].grid = load[l].grid
  BY <1>0 DEF Loading
<1>1. CASE Starts(r) \/ GoesOn(r) \/ Fails(r) \/ Judges(r) \/ \E t \in Tabs : Begins(r, t)
  <2>1. UNCHANGED rows /\ \A q \in Runs : cur'[q].sent = cur[q].sent
    BY <1>1 DEF Starts, GoesOn, Fails, Judges, Begins
  <2> QED BY <1>k, <2>1, RowsFrame
<1>2. ASSUME NEW more \in BOOLEAN, Gives(r, more)
      PROVE  RowsInv'
  <2>1. /\ \A q \in Runs \ {r} : cur'[q] = cur[q] /\ rows'[q] = rows[q]
        /\ cur'[r].sent = 1 /\ rows'[r] = << <<r, 1>> >>
    BY <1>2 DEF Gives
  <2>2. << <<r, 1>> >> = [i \in 1..1 |-> <<r, i>>]
    OBVIOUS
  <2>3. RowsInOrder'
    BY <2>1, <2>2 DEF RowsInv, RowsInOrder
  <2>4. OwnGrid'
    BY <1>k DEF RowsInv, OwnGrid
  <2> QED BY <2>3, <2>4 DEF RowsInv
<1> QED BY <1>1, <1>2, RunKinds

LEMMA RowsLoad ==
  ASSUME TInv, OInv, RowsInv, NEW l \in Loads, LoadStep(l)
  PROVE  RowsInv'
<1>0. \A k \in Loads \ {l} : load'[k] = load[k]
  BY LoadKinds
<1>b. Loading(l) => load[l].tab \in Tabs /\ load[l].cur \in Runs /\ load[l].grid \in Runs
  BY LoadKinds
<1>1. CASE Scrolls(l)
  <2>1. OwnGrid'
    <3>1. CASE UNCHANGED load
      BY <3>1 DEF RowsInv, OwnGrid, Loading
    <3>2. CASE /\ active \in Tabs /\ tab[active].grid # None /\ tab[active].cursor # None
               /\ load'[l].cur = tab[active].cursor /\ load'[l].grid = tab[active].grid
      <4>1. tab[active].cursor = tab[active].grid
        BY <3>2 DEF OInv, Fits
      <4> QED BY <1>0, <3>2, <4>1 DEF RowsInv, OwnGrid, Loading
    <3> QED BY <1>1, <3>1, <3>2 DEF Scrolls
  <2> QED BY <1>1, <2>1 DEF Scrolls, RowsInv, RowsInOrder
<1>2. ASSUME NEW more \in BOOLEAN, Pages(l, more)
      PROVE  RowsInv'
  <2> DEFINE c == load[l].cur
  <2>1. Loading(l) /\ c \in Runs /\ c = load[l].grid
    BY <1>b, <1>2 DEF Pages, Loading, RowsInv, OwnGrid
  <2>2. /\ \A q \in Runs \ {c} : cur'[q] = cur[q] /\ rows'[q] = rows[q]
        /\ cur'[c].sent = cur[c].sent + 1
        /\ rows'[c] = Append(rows[c], <<c, cur[c].sent + 1>>)
    BY <1>2, <2>1 DEF Pages
  <2>3. cur[c].sent \in Nat
    BY <2>1, Shape, RunAssumption DEF Cursor
  <2>o. load'[l].cur = load'[l].grid
    BY <1>2, <2>1 DEF Pages, SameLoad
  <2> HIDE DEF c
  <2>4. rows'[c] = [i \in 1..(cur'[c].sent) |-> <<c, i>>]
    <3>1. rows[c] = [i \in 1..(cur[c].sent) |-> <<c, i>>]
      BY <2>1 DEF RowsInv, RowsInOrder
    <3> QED BY <2>2, <2>3, <3>1, NextOfPages
  <2>5. RowsInOrder'
    BY <2>2, <2>4 DEF RowsInv, RowsInOrder
  <2>6. OwnGrid'
    BY <1>0, <2>o DEF RowsInv, OwnGrid, Loading
  <2> QED BY <2>5, <2>6 DEF RowsInv
<1>3. CASE Closes(l)
  <2>1. UNCHANGED rows /\ SameLoad(l) /\ Loading(l) /\ \A q \in Runs : cur'[q].sent = cur[q].sent
    BY <1>b, <1>3 DEF Closes, Loading
  <2>2. \A k \in Loads : Loading(k)' => Loading(k) /\ load'[k].cur = load[k].cur /\ load'[k].grid = load[k].grid
    BY <1>0, <2>1 DEF SameLoad, Loading
  <2> QED BY <2>1, <2>2, RowsFrame
<1>4. CASE Keeps(l) \/ LetsGo(l) \/ Throws(l)
  <2>1. UNCHANGED rows /\ load'[l].pc = "done" /\ \A q \in Runs : cur'[q].sent = cur[q].sent
    BY <1>4 DEF Keeps, LetsGo, Throws, Released
  <2>2. \A k \in Loads : Loading(k)' => Loading(k) /\ load'[k].cur = load[k].cur /\ load'[k].grid = load[k].grid
    BY <1>0, <2>1 DEF Loading
  <2> QED BY <2>1, <2>2, RowsFrame
<1> QED BY <1>1, <1>2, <1>3, <1>4, LoadKinds

LEMMA RowsUser ==
  ASSUME TInv, RowsInv, UserStep
  PROVE  RowsInv'
<1>1. CASE UNCHANGED <<rows, cur, load>>
  BY <1>1, RowsFrame DEF Loading
<1>2. ASSUME NEW ts \in SUBSET Tabs, Release(ts), UNCHANGED <<rows, load>>
      PROVE  RowsInv'
  <2>1. \A q \in Runs : cur'[q].sent = cur[q].sent
    BY <1>2, ReleaseKind DEF Released
  <2> QED BY <1>2, <2>1, RowsFrame DEF Loading
<1>3. ASSUME NEW t \in Tabs, CloseTab(t)
      PROVE  RowsInv'
  <2>1. Release({t}) /\ UNCHANGED <<rows, load>> /\ {t} \in SUBSET Tabs
    BY <1>3 DEF CloseTab, Remove
  <2> QED BY <1>2, <2>1
<1>4. CASE Disconnected
  <2>1. Release(bound \intersect open) /\ UNCHANGED <<rows, load>> /\ bound \intersect open \in SUBSET Tabs
    BY <1>4 DEF Disconnected, TInv, TypeOK
  <2> QED BY <1>2, <2>1
<1>5. ASSUME Stop \/ Render \/ Disconnect \/ \E t \in Tabs : SwitchTab(t) \/ OpenTableData(t) \/ SetConnection(t)
      PROVE  UNCHANGED <<rows, cur, load>>
  BY <1>5 DEF Stop, Render, Disconnect, SwitchTab, OpenTableData, SetConnection
<1> QED BY <1>1, <1>3, <1>4, <1>5 DEF UserStep

\* LoadMoreAsync: with one run at a time, and whatever else overlaps, a grid's rows are the pages of
\* its own cursor, from the first, in order, without a gap.
THEOREM RowsAreInOrder ==
  ASSUME OneAtATime
  PROVE  Spec => []RowsInOrder
<1>1. Spec => [](TInv /\ OInv)
  BY OneHolds
<1>2. TInv /\ OInv /\ RowsInv /\ [Next]_vars => RowsInv'
  <2> SUFFICES ASSUME TInv, OInv, RowsInv, [Next]_vars PROVE RowsInv'
    OBVIOUS
  <2>1. CASE Next
    BY <2>1, Steps, RowsRun, RowsLoad, RowsUser
  <2>2. CASE UNCHANGED vars
    BY <2>2, RowsFrame DEF vars, Loading
  <2> QED BY <2>1, <2>2
<1>3. RowsInv => RowsInOrder
  BY DEF RowsInv
<1> QED BY <1>1, <1>2, <1>3, RowsInit, PTL DEF Spec

----------------------------------------------------------------------------
(* With loads only in the tab in front, the display is the model *)

\* While a page is loaded no run starts and no other tab is shown, and nobody scrolls a tab
\* whose run has not ended or whose grid has still to be rendered.
InFront ==
    /\ "run while loading" \notin Allowed
    /\ "scroll early" \notin Allowed
    /\ "switch while loading" \notin Allowed

\* A load is one of the tab in front, where no run is in flight.
LoadsInFront ==
    \A l \in Loads : Loading(l) =>
        /\ load[l].tab = active
        /\ \A r \in Runs : Busy(r) => run[r].tab # active

\* A fetch is for the grid in the page, which knows that it has asked.
LoadsOfTheDisplay ==
    \A l \in Loads : load[l].pc = "fetching" =>
        /\ shown.loading
        /\ shown.grid = load[l].grid /\ tab[active].grid = load[l].grid
        /\ shown.edit = (tab[active].editable # None)

OneFetching == \A k, l \in Loads : load[k].pc = "fetching" /\ load[l].pc = "fetching" => k = l

\* A grid that somebody refers to has had its first page.
GridsGiven ==
    /\ \A t \in Tabs : tab[t].grid # None => Given(tab[t].grid)
    /\ shown.grid # None => Given(shown.grid)

FInv == LoadsInFront /\ LoadsOfTheDisplay /\ OneFetching /\ GridsGiven /\ DisplayMatches

LEMMA FrontGuards ==
  ASSUME InFront
  PROVE  /\ MayStart => \A l \in Loads : ~Loading(l)
         /\ MaySwitch => \A l \in Loads : ~Loading(l)
         /\ MayScroll => ~Rebuilt /\ \A r \in Runs : run[r].tab # active
<1>1. MayStart => \A l \in Loads : ~Loading(l)
  BY Zenon DEF MayStart, May, InFront
<1>2. MaySwitch => \A l \in Loads : ~Loading(l)
  BY Zenon DEF MaySwitch, May, InFront
<1>3. MayScroll => ~(Rebuilt \/ active \in {run[r].tab : r \in Runs})
  BY Zenon DEF MayScroll, May, InFront
<1> QED BY <1>1, <1>2, <1>3

\* The grids that tabs and the page refer to.
LEMMA Grids ==
  ASSUME TInv
  PROVE  /\ \A t \in Tabs : tab[t].grid \in Runs \union {None}
         /\ shown.grid \in Runs \union {None}
         /\ active \in Tabs \union {None} /\ None \notin Tabs /\ None \notin Runs
BY RunAssumption DEF TInv, TypeOK, TabState, Display, MaybeRun, MaybeTab

LEMMA FocusInit == Init => FInv
<1> SUFFICES ASSUME Init PROVE FInv
  OBVIOUS
<1>1. \A l \in Loads : load[l].pc = "idle"
  BY DEF Init, Idle
<1>2. (\A t \in Tabs : tab[t].grid = None) /\ shown.grid = None
  BY DEF Init, EmptyTab, Blank
<1> QED BY <1>1, <1>2 DEF FInv, LoadsInFront, LoadsOfTheDisplay, OneFetching, GridsGiven, DisplayMatches, Loading

\* Tabs keep their grids, and another tab is shown only while nothing is loaded.
LEMMA FocusFrame ==
  ASSUME TInv, FInv, UNCHANGED <<run, load, rows, shown>>,
         \A u \in Tabs : tab'[u].grid = tab[u].grid /\ tab'[u].editable = tab[u].editable,
         active' = active \/ \A l \in Loads : ~Loading(l)
  PROVE  FInv'
<1>1. \A l \in Loads : Loading(l) => active' = active /\ load[l].tab = active /\ active \in Tabs
  BY Shape DEF FInv, LoadsInFront
<1>2. LoadsInFront'
  BY <1>1 DEF FInv, LoadsInFront, Loading, Busy
<1>3. LoadsOfTheDisplay'
  <2> SUFFICES ASSUME NEW l \in Loads, load[l].pc = "fetching"
               PROVE  /\ shown.loading
                      /\ shown.grid = load[l].grid /\ tab'[active'].grid = load[l].grid
                      /\ shown.edit = (tab'[active'].editable # None)
    BY DEF LoadsOfTheDisplay
  <2>1. active' = active /\ active \in Tabs
    BY <1>1 DEF Loading
  <2>2. tab'[active].grid = tab[active].grid /\ tab'[active].editable = tab[active].editable
    BY <2>1
  <2> QED BY <2>1, <2>2 DEF FInv, LoadsOfTheDisplay
<1>4. OneFetching' /\ GridsGiven' /\ DisplayMatches'
  BY DEF FInv, OneFetching, GridsGiven, Given, DisplayMatches
<1> QED BY <1>2, <1>3, <1>4 DEF FInv

LEMMA FocusRun ==
  ASSUME InFront, TInv, FInv, NEW r \in Runs, RunStep(r)
  PROVE  FInv'
<1>0. /\ UNCHANGED <<active, load, shown>>
      /\ \A q \in Runs \ {r} : run'[q] = run[q]
      /\ Busy(r) \/ \A l \in Loads : ~Loading(l)
      /\ Busy(r) => run[r].tab \in Tabs
  BY RunKinds, FrontGuards
<1>1. /\ \A q \in Runs : Given(q) => Given(q)' /\ rows'[q] = rows[q]
      /\ \A u \in Tabs : tab'[u].grid \in {tab[u].grid, None} \/ (tab'[u].grid = r /\ Given(r)')
      /\ Busy(r) => /\ \A u \in Tabs \ {run[r].tab} : tab'[u] = tab[u]
                    /\ Busy(r)' => run'[r].tab = run[r].tab
  <2>1. CASE Starts(r)
    BY <1>0, <2>1 DEF Starts, Given, Busy
  <2>2. CASE GoesOn(r)
    BY <1>0, <2>2 DEF GoesOn, Given
  <2>3. CASE Fails(r)
    BY <1>0, <2>3 DEF Fails, Given
  <2>4. CASE Judges(r)
    BY <1>0, <2>4 DEF Judges, Given
  <2>5. ASSUME NEW t \in Tabs, Begins(r, t)
        PROVE  <1>1!1 /\ <1>1!2 /\ <1>1!3
    BY <1>0, <2>5 DEF Begins, Given, Busy
  <2>6. ASSUME NEW more \in BOOLEAN, Gives(r, more)
        PROVE  <1>1!1 /\ <1>1!2 /\ <1>1!3
    BY <1>0, <2>6 DEF Gives, Given, Busy
  <2> QED BY <2>1, <2>2, <2>3, <2>4, <2>5, <2>6, RunKinds
<1>2. GridsGiven'
  BY <1>0, <1>1, Grids DEF FInv, GridsGiven
<1>3. DisplayMatches'
  BY <1>0, <1>1, Grids DEF FInv, GridsGiven, DisplayMatches
<1>4. OneFetching'
  BY <1>0 DEF FInv, OneFetching
<1>5. CASE \A l \in Loads : ~Loading(l)
  <2>1. LoadsInFront' /\ LoadsOfTheDisplay'
    BY <1>0, <1>5 DEF LoadsInFront, LoadsOfTheDisplay, Loading
  <2> QED BY <1>2, <1>3, <1>4, <2>1 DEF FInv
<1>6. ASSUME NEW k \in Loads, Loading(k)
      PROVE  FInv'
  <2>1. Busy(r) /\ active \in Tabs /\ run[r].tab # active
    BY <1>0, <1>6, Shape DEF FInv, LoadsInFront
  <2>2. tab'[active] = tab[active]
    BY <1>1, <2>1
  <2>3. \A q \in Runs : Busy(q)' => Busy(q) /\ run'[q].tab = run[q].tab
    BY <1>0, <1>1, <2>1 DEF Busy
  <2>4. LoadsInFront'
    BY <1>0, <2>3 DEF FInv, LoadsInFront, Loading
  <2>5. LoadsOfTheDisplay'
    BY <1>0, <2>2 DEF FInv, LoadsOfTheDisplay
  <2> QED BY <1>2, <1>3, <1>4, <2>4, <2>5 DEF FInv
<1> QED BY <1>5, <1>6

LEMMA FocusLoad ==
  ASSUME InFront, TInv, FInv, NEW l \in Loads, LoadStep(l)
  PROVE  FInv'
<1>0. /\ \A k \in Loads \ {l} : load'[k] = load[k]
      /\ UNCHANGED <<active, run>>
      /\ Loading(l) => load[l].tab \in Tabs /\ load[l].cur \in Runs /\ load[l].grid \in Runs
  BY LoadKinds
<1>1. CASE Scrolls(l)
  <2>1. /\ shown.grid # None /\ ~shown.loading /\ load[l].pc = "idle"
        /\ ~Rebuilt /\ (\A r \in Runs : run[r].tab # active)
        /\ shown'.grid = shown.grid /\ shown'.edit = shown.edit /\ shown'.rows = shown.rows /\ shown'.loading
        /\ UNCHANGED <<tab, rows>>
    BY <1>1, FrontGuards DEF Scrolls
  <2>2. GridsGiven' /\ DisplayMatches'
    BY <1>0, <2>1 DEF FInv, GridsGiven, Given, DisplayMatches
  <2>3. CASE UNCHANGED load
    <3>1. LoadsInFront' /\ OneFetching'
      BY <1>0, <2>3 DEF FInv, LoadsInFront, OneFetching, Loading, Busy
    <3>2. LoadsOfTheDisplay'
      BY <1>0, <2>1, <2>3 DEF FInv, LoadsOfTheDisplay
    <3> QED BY <2>2, <3>1, <3>2 DEF FInv
  <2>4. CASE /\ active \in Tabs /\ tab[active].grid # None
             /\ load'[l].pc = "fetching" /\ load'[l].tab = active /\ load'[l].grid = tab[active].grid
    <3>1. \A k \in Loads : load[k].pc # "fetching"
      BY <2>1 DEF FInv, LoadsOfTheDisplay
    <3>2. shown.grid = tab[active].grid /\ shown.edit = (tab[active].editable # None)
      <4>1. HasGrid(active)
        BY <2>4, Grids DEF HasGrid
      <4> QED BY <2>1, <4>1 DEF Rebuilt, Wanted
    <3>3. OneFetching'
      BY <1>0, <3>1 DEF OneFetching
    <3>4. LoadsOfTheDisplay'
      BY <1>0, <2>1, <2>4, <3>1, <3>2 DEF LoadsOfTheDisplay
    <3>5. LoadsInFront'
      BY <1>0, <2>1, <2>4 DEF FInv, LoadsInFront, Loading, Busy
    <3> QED BY <2>2, <3>3, <3>4, <3>5 DEF FInv
  <2> QED BY <1>1, <2>3, <2>4 DEF Scrolls
<1>2. ASSUME NEW more \in BOOLEAN, Pages(l, more)
      PROVE  FInv'
  <2> DEFINE g == load[l].grid
             page == <<load[l].cur, cur[load[l].cur].sent + 1>>
  <2>1. /\ load[l].pc = "fetching" /\ load'[l].pc = "appending" /\ load'[l].tab = load[l].tab /\ g \in Runs
        /\ \A q \in Runs \ {g} : rows'[q] = rows[q]
        /\ rows'[g] = Append(rows[g], page)
        /\ shown'.grid = shown.grid /\ shown'.edit = shown.edit
        /\ shown.grid # None => shown'.rows = Append(shown.rows, page)
        /\ UNCHANGED tab
    BY <1>0, <1>2 DEF Pages, SameLoad, Loading
  <2>2. shown.grid = g /\ shown.rows = rows[g]
    BY <2>1, Grids DEF FInv, LoadsOfTheDisplay, DisplayMatches
  <2> HIDE DEF page
  <2>3. DisplayMatches'
    BY <2>1, <2>2, Grids DEF DisplayMatches
  <2>4. \A k \in Loads : load'[k].pc # "fetching"
    BY <1>0, <2>1 DEF FInv, OneFetching
  <2>5. OneFetching' /\ LoadsOfTheDisplay'
    BY <2>4 DEF OneFetching, LoadsOfTheDisplay
  <2>6. LoadsInFront'
    BY <1>0, <2>1 DEF FInv, LoadsInFront, Loading, Busy
  <2>7. GridsGiven'
    BY <1>0, <2>1 DEF FInv, GridsGiven, Given
  <2> QED BY <2>3, <2>5, <2>6, <2>7 DEF FInv
<1>3. CASE Closes(l) \/ Keeps(l) \/ LetsGo(l) \/ Throws(l)
  <2>1. /\ load[l].pc # "idle" /\ load[l].pc # "done" /\ load'[l].pc \in {"closing", "done"}
        /\ load'[l].pc = "closing" => load'[l].tab = load[l].tab
        /\ \A u \in Tabs : tab'[u].grid = tab[u].grid /\ tab'[u].editable = tab[u].editable
        /\ UNCHANGED <<rows, shown>>
    BY <1>3 DEF Closes, SameLoad, Keeps, LetsGo, Throws, Released
  <2>2. active \in Tabs
    BY <1>0, <2>1 DEF FInv, LoadsInFront, Loading
  <2>3. tab'[active].grid = tab[active].grid /\ tab'[active].editable = tab[active].editable
    BY <2>1, <2>2
  <2>4. LoadsInFront'
    BY <1>0, <2>1 DEF FInv, LoadsInFront, Loading, Busy
  <2>5. LoadsOfTheDisplay'
    BY <1>0, <2>1, <2>3 DEF FInv, LoadsOfTheDisplay
  <2>6. OneFetching'
    BY <1>0, <2>1 DEF FInv, OneFetching
  <2>7. GridsGiven' /\ DisplayMatches'
    BY <1>0, <2>1 DEF FInv, GridsGiven, Given, DisplayMatches
  <2> QED BY <2>4, <2>5, <2>6, <2>7 DEF FInv
<1> QED BY <1>1, <1>2, <1>3, LoadKinds

LEMMA FocusRender ==
  ASSUME TInv, FInv, Render
  PROVE  FInv'
<1>1. /\ shown' = IF Rebuilt THEN Wanted ELSE [shown EXCEPT !.more = Wanted.more]
      /\ UNCHANGED <<active, tab, run, rows, load>>
  BY DEF Render, wsVars
<1>2. CASE Rebuilt
  <2>1. shown' = Wanted
    BY <1>1, <1>2
  <2>2. Wanted.grid # None => Given(Wanted.grid) /\ Wanted.rows = rows[Wanted.grid]
    <3>1. CASE ~HasGrid(active)
      BY <3>1 DEF Wanted, Blank
    <3>2. CASE HasGrid(active)
      BY <3>2, Grids DEF Wanted, HasGrid, FInv, GridsGiven
    <3> QED BY <3>1, <3>2
  <2>3. \A l \in Loads : load[l].pc # "fetching"
    <3> SUFFICES ASSUME NEW l \in Loads, load[l].pc = "fetching" PROVE FALSE
      OBVIOUS
    <3>1. /\ shown.grid = tab[active].grid /\ shown.edit = (tab[active].editable # None)
          /\ tab[active].grid \in Runs /\ active \in Tabs
      BY Shape DEF FInv, LoadsOfTheDisplay, LoadsInFront, Loading
    <3>2. HasGrid(active)
      BY <3>1, Grids DEF HasGrid
    <3> QED BY <1>2, <3>1, <3>2 DEF Rebuilt, Wanted
  <2> HIDE DEF Wanted
  <2>4. LoadsOfTheDisplay'
    BY <1>1, <2>3 DEF LoadsOfTheDisplay
  <2>5. GridsGiven' /\ DisplayMatches'
    BY <1>1, <2>1, <2>2 DEF FInv, GridsGiven, Given, DisplayMatches
  <2>6. LoadsInFront' /\ OneFetching'
    BY <1>1 DEF FInv, LoadsInFront, OneFetching, Loading, Busy
  <2> QED BY <2>4, <2>5, <2>6 DEF FInv
<1>3. CASE ~Rebuilt
  <2>1. shown' = [shown EXCEPT !.more = Wanted.more] /\ shown \in Display
    BY <1>1, <1>3 DEF TInv, TypeOK
  <2> HIDE DEF Wanted
  <2>2. /\ shown'.grid = shown.grid /\ shown'.edit = shown.edit
        /\ shown'.loading = shown.loading /\ shown'.rows = shown.rows
    BY <2>1 DEF Display
  <2>3. LoadsOfTheDisplay' /\ GridsGiven' /\ DisplayMatches'
    BY <1>1, <2>2 DEF FInv, LoadsOfTheDisplay, GridsGiven, Given, DisplayMatches
  <2>4. LoadsInFront' /\ OneFetching'
    BY <1>1 DEF FInv, LoadsInFront, OneFetching, Loading, Busy
  <2> QED BY <2>3, <2>4 DEF FInv
<1> QED BY <1>2, <1>3

LEMMA FocusUser ==
  ASSUME InFront, TInv, FInv, UserStep
  PROVE  FInv'
<1>1. CASE Stop \/ Disconnect \/ \E t \in Tabs : SetConnection(t)
  <2>1. UNCHANGED <<active, tab, run, rows, load, shown>>
    BY <1>1 DEF Stop, Disconnect, SetConnection, wsVars
  <2> QED BY <2>1, FocusFrame
<1>2. CASE Render
  BY <1>2, FocusRender
<1>3. CASE \E t \in Tabs : SwitchTab(t) \/ OpenTableData(t)
  <2>1. UNCHANGED <<tab, run, rows, load, shown>> /\ \A l \in Loads : ~Loading(l)
    BY <1>3, FrontGuards DEF SwitchTab, OpenTableData
  <2> QED BY <2>1, FocusFrame
<1>4. ASSUME NEW t \in Tabs, CloseTab(t)
      PROVE  FInv'
  <2>1. /\ Release({t}) /\ UNCHANGED <<run, rows, load, shown>> /\ {t} \in SUBSET Tabs
        /\ active' = active \/ \A l \in Loads : ~Loading(l)
    BY <1>4, FrontGuards DEF CloseTab, Remove
  <2>2. \A u \in Tabs : tab'[u].grid = tab[u].grid /\ tab'[u].editable = tab[u].editable
    BY <2>1, ReleaseKind DEF Released
  <2> QED BY <2>1, <2>2, FocusFrame
<1>5. CASE Disconnected
  <2>1. /\ Release(bound \intersect open) /\ UNCHANGED <<active, run, rows, load, shown>>
        /\ bound \intersect open \in SUBSET Tabs
    BY <1>5 DEF Disconnected, TInv, TypeOK
  <2>2. \A u \in Tabs : tab'[u].grid = tab[u].grid /\ tab'[u].editable = tab[u].editable
    BY <2>1, ReleaseKind DEF Released
  <2> QED BY <2>1, <2>2, FocusFrame
<1> QED BY <1>1, <1>2, <1>3, <1>4, <1>5 DEF UserStep

LEMMA FocusKept ==
  ASSUME InFront
  PROVE  TInv /\ FInv /\ [Next]_vars => (TInv /\ FInv)'
<1> SUFFICES ASSUME TInv, FInv, [Next]_vars PROVE (TInv /\ FInv)'
  OBVIOUS
<1>1. TInv'
  BY Typed
<1>2. CASE Next
  BY <1>1, <1>2, Steps, FocusRun, FocusLoad, FocusUser
<1>3. CASE UNCHANGED vars
  <2>1. UNCHANGED <<active, tab, run, rows, load, shown>>
    BY <1>3 DEF vars, wsVars
  <2> QED BY <1>1, <2>1, FocusFrame
<1> QED BY <1>2, <1>3

LEMMA FocusHolds ==
  ASSUME InFront
  PROVE  Spec => [](TInv /\ FInv)
<1>1. Init => TInv /\ FInv
  BY TypeInit, FocusInit
<1> QED BY <1>1, FocusKept, PTL DEF Spec

\* LoadMoreAsync and grid.js: when loads are only of the tab in front, the grid in the page shows
\* exactly the rows of its model, whatever runs, closings and disconnections overlap elsewhere.
THEOREM DisplayIsTheModel ==
  ASSUME InFront
  PROVE  Spec => []DisplayMatches
<1>1. TInv /\ FInv => DisplayMatches
  BY DEF FInv
<1> QED BY <1>1, FocusHolds, PTL

\* LoadMoreAsync: when loads are only of the tab in front, a cursor serves one fetch at a time.
THEOREM OneFetchAtATime ==
  ASSUME InFront
  PROVE  Spec => []OneFetch
<1>1. TInv /\ FInv => OneFetch
  BY DEF FInv, OneFetching, OneFetch
<1> QED BY <1>1, FocusHolds, PTL

----------------------------------------------------------------------------
(* A tab that announces more rows can load them *)

\* Furthermore nobody scrolls before the last page is on the screen, and nobody disconnects
\* a tab that is busy.
Unhurried ==
    /\ InFront
    /\ "scroll while appending" \notin Allowed
    /\ "disconnect while busy" \notin Allowed

OneLoading == \A k, l \in Loads : Loading(k) /\ Loading(l) => k = l

\* Any tab, open or not, that announces more rows has an open cursor.
TabsAhead ==
    \A t \in Tabs : tab[t].hasMore => tab[t].cursor # None /\ cur[tab[t].cursor].conn = "open"

\* The tab keeps the cursor a load fetches from, and announces nothing once it closes.
LoadsOfTheTab ==
    \A l \in Loads :
        /\ load[l].pc \in {"fetching", "appending"} => tab[load[l].tab].cursor = load[l].cur
        /\ load[l].pc = "closing" => ~tab[load[l].tab].hasMore

NotWhileClosing == server = "closing" => \A l \in Loads : Loading(l) => load[l].tab \notin bound

MInv == OneLoading /\ TabsAhead /\ LoadsOfTheTab /\ NotWhileClosing

LEMMA UnhurriedGuards ==
  ASSUME Unhurried
  PROVE  /\ InFront
         /\ MayScroll => /\ \A l \in Loads : load[l].pc \notin {"appending", "closing"}
                         /\ server # "closing"
         /\ MayDisconnect => \A l \in Loads : load[l].tab \notin bound
<1>1. MayScroll => /\ ~\E l \in Loads : load[l].pc \in {"appending", "closing"}
                   /\ server # "closing"
  BY Zenon DEF MayScroll, May, Unhurried
<1>2. MayDisconnect => BusyTabs \intersect bound = {}
  BY Zenon DEF MayDisconnect, May, Unhurried
<1>3. \A l \in Loads : load[l].tab \in BusyTabs
  BY DEF BusyTabs
<1> QED BY <1>1, <1>2, <1>3 DEF Unhurried

LEMMA MoreInit == Init => MInv
<1> SUFFICES ASSUME Init PROVE MInv
  OBVIOUS
<1>1. \A l \in Loads : load[l].pc = "idle"
  BY DEF Init, Idle
<1>2. \A t \in Tabs : ~tab[t].hasMore
  BY DEF Init, EmptyTab
<1> QED BY <1>1, <1>2 DEF Init, MInv, OneLoading, TabsAhead, LoadsOfTheTab, NotWhileClosing, Loading

\* What is released announces nothing, and nobody else's cursor is closed.
LEMMA AheadReleased ==
  ASSUME TInv, Owned, TabsAhead, NEW ts \in SUBSET Tabs, Released(ts)
  PROVE  TabsAhead'
<1> SUFFICES ASSUME NEW u \in Tabs, tab'[u].hasMore
             PROVE  tab'[u].cursor # None /\ cur'[tab'[u].cursor].conn = "open"
  BY DEF TabsAhead
<1>1. tab[u].hasMore /\ (u \in ts => tab[u].cursor = None)
  BY DEF Released
<1>2. tab[u].cursor # None /\ cur[tab[u].cursor].conn = "open" /\ tab[u].cursor \in Runs
  BY <1>1, Shape DEF TabsAhead
<1>3. u \notin ts /\ tab'[u].cursor = tab[u].cursor
  BY <1>1, <1>2 DEF Released
<1>4. ~\E t \in ts : tab[t].cursor = tab[u].cursor
  BY <1>2, <1>3 DEF Owned, OneHolder
<1> QED BY <1>2, <1>3, <1>4 DEF Released

LEMMA MoreRun ==
  ASSUME Unhurried, TInv, Owned, FInv, MInv, NEW r \in Runs, RunStep(r)
  PROVE  MInv'
<1>0. /\ UNCHANGED <<bound, server, load>>
      /\ \A q \in Runs \ {r} : run'[q] = run[q]
      /\ Busy(r) \/ \A l \in Loads : ~Loading(l)
      /\ Busy(r) => run[r].tab \in Tabs
  BY RunKinds, UnhurriedGuards, FrontGuards
<1>p. \A u \in Tabs : tab[u].cursor # None => tab[u].cursor \in Runs /\ Given(tab[u].cursor)
  BY Shape DEF Owned, Published, Past, Given
<1>1. TabsAhead'
  <2>1. CASE Starts(r) \/ GoesOn(r)
    <3>1. UNCHANGED tab /\ \A q \in Runs : Given(q) => cur'[q] = cur[q]
      BY <2>1 DEF Starts, GoesOn
    <3> QED BY <1>p, <3>1 DEF MInv, TabsAhead
  <2>2. CASE Fails(r) \/ Judges(r)
    <3>1. /\ \A u \in Tabs : \/ ~tab'[u].hasMore
                             \/ tab'[u].hasMore = tab[u].hasMore /\ tab'[u].cursor = tab[u].cursor
          /\ UNCHANGED cur
      BY <2>2 DEF Fails, Judges
    <3> QED BY <3>1 DEF MInv, TabsAhead
  <2>3. ASSUME NEW t \in Tabs, Begins(r, t)
        PROVE  TabsAhead'
    <3> SUFFICES ASSUME NEW u \in Tabs, tab'[u].hasMore
                 PROVE  tab'[u].cursor # None /\ cur'[tab'[u].cursor].conn = "open"
      BY DEF TabsAhead
    <3>1. u # t
      BY <2>3 DEF Begins, MInv, TabsAhead
    <3>2. tab'[u] = tab[u] /\ tab[u].cursor # None /\ cur[tab[u].cursor].conn = "open" /\ tab[u].cursor \in Runs
      BY <1>p, <2>3, <3>1 DEF Begins, MInv, TabsAhead
    <3>3. tab[t].cursor # tab[u].cursor
      BY <3>1, <3>2 DEF Owned, OneHolder
    <3> QED BY <2>3, <3>2, <3>3 DEF Begins
  <2>4. ASSUME NEW more \in BOOLEAN, Gives(r, more)
        PROVE  TabsAhead'
    <3> SUFFICES ASSUME NEW u \in Tabs, tab'[u].hasMore
                 PROVE  tab'[u].cursor # None /\ cur'[tab'[u].cursor].conn = "open"
      BY DEF TabsAhead
    <3>1. CASE u = run[r].tab
      BY <2>4, <3>1, Grids DEF Gives
    <3>2. CASE u # run[r].tab
      <4>1. tab'[u] = tab[u] /\ tab[u].cursor # None /\ cur[tab[u].cursor].conn = "open"
        BY <2>4, <3>2 DEF Gives, MInv, TabsAhead
      <4>2. tab[u].cursor \in Runs \ {r}
        BY <1>p, <2>4, <4>1 DEF Gives, Given
      <4> QED BY <2>4, <4>1, <4>2 DEF Gives
    <3> QED BY <3>1, <3>2
  <2> QED BY <2>1, <2>2, <2>3, <2>4, RunKinds
<1>2. OneLoading' /\ NotWhileClosing'
  BY <1>0 DEF MInv, OneLoading, NotWhileClosing, Loading
<1>3. LoadsOfTheTab'
  <2> SUFFICES ASSUME NEW l \in Loads, Loading(l)
               PROVE  /\ load[l].pc \in {"fetching", "appending"} => tab'[load[l].tab].cursor = load[l].cur
                      /\ load[l].pc = "closing" => ~tab'[load[l].tab].hasMore
    BY <1>0 DEF LoadsOfTheTab, Loading
  <2>1. Busy(r) /\ load[l].tab \in Tabs /\ run[r].tab # load[l].tab
    BY <1>0, Shape DEF FInv, LoadsInFront
  <2>2. \A u \in Tabs \ {run[r].tab} : tab'[u] = tab[u]
    BY <2>1, RunKinds DEF Starts, Begins, GoesOn, Gives, Fails, Judges, Busy
  <2> QED BY <2>1, <2>2 DEF MInv, LoadsOfTheTab
<1> QED BY <1>1, <1>2, <1>3 DEF MInv

LEMMA MoreLoad ==
  ASSUME Unhurried, TInv, Owned, FInv, MInv, NEW l \in Loads, LoadStep(l)
  PROVE  MInv'
<1>0. /\ \A k \in Loads \ {l} : load'[k] = load[k]
      /\ UNCHANGED <<bound, server>>
      /\ Loading(l) => load[l].tab \in Tabs /\ load[l].cur \in Runs /\ load[l].grid \in Runs
  BY LoadKinds
<1>1. CASE Scrolls(l)
  <2>1. /\ \A k \in Loads : load[k].pc \notin {"appending", "closing"} /\ load[k].pc # "fetching"
        /\ server # "closing" /\ UNCHANGED <<tab, cur>>
    BY <1>1, UnhurriedGuards DEF Scrolls, FInv, LoadsOfTheDisplay
  <2>2. \A k \in Loads : ~Loading(k)
    BY <2>1, Shape DEF Loading, LoadState
  <2>3. OneLoading'
    BY <1>0, <2>2 DEF OneLoading, Loading, MInv
  <2>4. LoadsOfTheTab'
    <3>1. CASE UNCHANGED load
      BY <2>1, <3>1 DEF MInv, LoadsOfTheTab
    <3>2. CASE load'[l].pc = "fetching" /\ load'[l].tab = active /\ load'[l].cur = tab[active].cursor
      BY <1>0, <2>1, <3>2 DEF LoadsOfTheTab
    <3> QED BY <1>1, <3>1, <3>2 DEF Scrolls
  <2>5. TabsAhead' /\ NotWhileClosing'
    BY <1>0, <2>1 DEF MInv, TabsAhead, NotWhileClosing
  <2> QED BY <2>3, <2>4, <2>5 DEF MInv
<1>o. Loading(l) => \A k \in Loads \ {l} : ~Loading(k)
  BY DEF MInv, OneLoading
<1>2. ASSUME Loading(l), load'[l].pc \in {"appending", "closing", "done"},
             Loading(l)' => load'[l].tab = load[l].tab
      PROVE  OneLoading' /\ NotWhileClosing'
  BY <1>0, <1>2, <1>o DEF MInv, OneLoading, NotWhileClosing, Loading
<1>3. ASSUME NEW more \in BOOLEAN, Pages(l, more)
      PROVE  MInv'
  <2>1. /\ load[l].pc = "fetching" /\ load'[l].pc = "appending" /\ SameLoad(l) /\ load[l].cur \in Runs
        /\ \A q \in Runs : cur'[q].conn = cur[q].conn
        /\ UNCHANGED tab
    BY <1>0, <1>3 DEF Pages, Loading
  <2>2. OneLoading' /\ NotWhileClosing'
    BY <1>2, <2>1 DEF SameLoad, Loading
  <2>3. TabsAhead'
    BY <2>1, Shape DEF MInv, TabsAhead
  <2>4. LoadsOfTheTab'
    BY <1>0, <2>1 DEF MInv, LoadsOfTheTab, SameLoad
  <2> QED BY <2>2, <2>3, <2>4 DEF MInv
<1>4. CASE Closes(l)
  <2>1. Loading(l) /\ load'[l].pc = "closing" /\ SameLoad(l) /\ ~tab'[load[l].tab].hasMore
    BY <1>4 DEF Closes, Loading
  <2>2. OneLoading' /\ NotWhileClosing'
    BY <1>2, <2>1 DEF SameLoad
  <2>3. TabsAhead'
    <3> SUFFICES ASSUME NEW u \in Tabs, tab'[u].hasMore
                 PROVE  tab'[u].cursor # None /\ cur'[tab'[u].cursor].conn = "open"
      BY DEF TabsAhead
    <3>1. u # load[l].tab /\ tab'[u] = tab[u]
      BY <1>4, <2>1 DEF Closes
    <3>2. tab[u].cursor # None /\ cur[tab[u].cursor].conn = "open" /\ tab[u].cursor \in Runs
      BY <3>1, Shape DEF MInv, TabsAhead
    <3>3. tab[u].cursor # load[l].cur
      BY <2>1, <3>1 DEF Owned, OwnLoads
    <3> QED BY <1>4, <3>1, <3>2, <3>3 DEF Closes
  <2>4. LoadsOfTheTab'
    BY <1>0, <1>o, <2>1 DEF LoadsOfTheTab, SameLoad, Loading
  <2> QED BY <2>2, <2>3, <2>4 DEF MInv
<1>5. ASSUME Loading(l), load'[l].pc = "done"
      PROVE  OneLoading' /\ NotWhileClosing' /\ LoadsOfTheTab'
  <2>1. OneLoading' /\ NotWhileClosing'
    BY <1>2, <1>5 DEF Loading
  <2>2. LoadsOfTheTab'
    BY <1>0, <1>o, <1>5 DEF LoadsOfTheTab, Loading
  <2> QED BY <2>1, <2>2
<1>6. CASE Keeps(l)
  <2>1. /\ Loading(l) /\ load[l].pc = "appending" /\ load'[l].pc = "done" /\ load[l].tab \in Tabs
        /\ \A u \in Tabs : tab'[u].cursor = tab[u].cursor
        /\ \A u \in Tabs \ {load[l].tab} : tab'[u] = tab[u]
        /\ UNCHANGED cur
    BY <1>0, <1>6 DEF Keeps, Loading
  <2>2. tab[load[l].tab].cursor = load[l].cur /\ load[l].cur \in Runs /\ load[l].cur # None
    BY <1>0, <2>1, Shape DEF MInv, LoadsOfTheTab
  <2>3. cur[load[l].cur].conn = "open"
    <3>1. cur[load[l].cur].conn \in {"open", "closed"}
      BY <2>1, <2>2 DEF Owned, Published
    <3>2. cur[load[l].cur].conn # "closed"
      BY <1>o, <2>1, <2>2 DEF Owned, NoDangling, Loading
    <3> QED BY <3>1, <3>2
  <2>4. TabsAhead'
    BY <2>1, <2>2, <2>3 DEF MInv, TabsAhead
  <2> QED BY <1>5, <2>1, <2>4 DEF MInv
<1>7. CASE LetsGo(l)
  <2>1. /\ Loading(l) /\ load'[l].pc = "done" /\ ~tab[load[l].tab].hasMore
        /\ tab'[load[l].tab].hasMore = tab[load[l].tab].hasMore
        /\ \A u \in Tabs \ {load[l].tab} : tab'[u] = tab[u]
        /\ UNCHANGED cur
    BY <1>7 DEF LetsGo, Loading, MInv, LoadsOfTheTab
  <2>2. TabsAhead'
    BY <2>1 DEF MInv, TabsAhead
  <2> QED BY <1>5, <2>1, <2>2 DEF MInv
<1>8. CASE Throws(l)
  <2>1. Loading(l) /\ load'[l].pc = "done" /\ Released({load[l].tab}) /\ {load[l].tab} \in SUBSET Tabs
    BY <1>0, <1>8 DEF Throws, Loading
  <2>2. TabsAhead'
    BY <2>1, AheadReleased DEF MInv
  <2> QED BY <1>5, <2>1, <2>2 DEF MInv
<1> QED BY <1>1, <1>3, <1>4, <1>6, <1>7, <1>8, LoadKinds

LEMMA MoreUser ==
  ASSUME Unhurried, TInv, Owned, FInv, MInv, UserStep
  PROVE  MInv'
<1>1. ASSUME UNCHANGED <<tab, cur, load>>, NotWhileClosing'
      PROVE  MInv'
  BY <1>1 DEF MInv, OneLoading, TabsAhead, LoadsOfTheTab, Loading
<1>2. CASE Stop \/ Render \/ \E t \in Tabs : SwitchTab(t) \/ SetConnection(t)
  <2>1. UNCHANGED <<tab, cur, load, server>> /\ bound' \subseteq bound
    BY <1>2 DEF Stop, Render, SwitchTab, SetConnection, wsVars
  <2>2. NotWhileClosing'
    BY <2>1 DEF MInv, NotWhileClosing, Loading
  <2> QED BY <1>1, <2>1, <2>2
<1>3. CASE \E t \in Tabs : OpenTableData(t)
  <2>1. UNCHANGED <<tab, cur, load>> /\ \A l \in Loads : ~Loading(l)
    BY <1>3, UnhurriedGuards, FrontGuards DEF OpenTableData
  <2>2. NotWhileClosing'
    BY <2>1 DEF NotWhileClosing, Loading
  <2> QED BY <1>1, <2>1, <2>2
<1>4. CASE Disconnect
  <2>1. UNCHANGED <<tab, cur, load, bound>> /\ \A l \in Loads : load[l].tab \notin bound
    BY <1>4, UnhurriedGuards DEF Disconnect
  <2>2. NotWhileClosing'
    BY <2>1 DEF NotWhileClosing
  <2> QED BY <1>1, <2>1, <2>2
<1>5. ASSUME NEW ts \in SUBSET Tabs, Release(ts), UNCHANGED load, NotWhileClosing',
             \A l \in Loads : Loading(l) => load[l].tab \notin ts
      PROVE  MInv'
  <2>1. Released(ts)
    BY <1>5, ReleaseKind
  <2>2. TabsAhead'
    BY <2>1, AheadReleased DEF MInv
  <2>3. OneLoading'
    BY <1>5 DEF MInv, OneLoading, Loading
  <2>4. LoadsOfTheTab'
    <3> SUFFICES ASSUME NEW l \in Loads, Loading(l)
                 PROVE  /\ load[l].pc \in {"fetching", "appending"} => tab'[load[l].tab].cursor = load[l].cur
                        /\ load[l].pc = "closing" => ~tab'[load[l].tab].hasMore
      BY <1>5 DEF LoadsOfTheTab, Loading
    <3>1. load[l].tab \in Tabs /\ load[l].tab \notin ts
      BY <1>5, Shape
    <3> QED BY <2>1, <3>1 DEF Released, MInv, LoadsOfTheTab
  <2> QED BY <1>5, <2>2, <2>3, <2>4 DEF MInv
<1>6. ASSUME NEW t \in Tabs, CloseTab(t)
      PROVE  MInv'
  <2>1. /\ Release({t}) /\ UNCHANGED <<load, bound, server>> /\ {t} \in SUBSET Tabs
        /\ t = active => \A l \in Loads : ~Loading(l)
    BY <1>6, UnhurriedGuards, FrontGuards DEF CloseTab, Remove
  <2>2. \A l \in Loads : Loading(l) => load[l].tab \notin {t}
    BY <2>1 DEF FInv, LoadsInFront
  <2>3. NotWhileClosing'
    BY <2>1 DEF MInv, NotWhileClosing, Loading
  <2> QED BY <1>5, <2>1, <2>2, <2>3
<1>7. CASE Disconnected
  <2>1. /\ server = "closing" /\ server' = "gone" /\ UNCHANGED load
        /\ Release(bound \intersect open) /\ bound \intersect open \in SUBSET Tabs
    BY <1>7 DEF Disconnected, TInv, TypeOK
  <2>2. \A l \in Loads : Loading(l) => load[l].tab \notin bound \intersect open
    BY <2>1 DEF MInv, NotWhileClosing
  <2>3. NotWhileClosing'
    BY <2>1 DEF NotWhileClosing
  <2> QED BY <1>5, <2>1, <2>2, <2>3
<1> QED BY <1>2, <1>3, <1>4, <1>6, <1>7 DEF UserStep

\* Cursors are where they belong, whatever overlaps.
LEMMA OwnedHolds == Spec => []CInv
<1>1. Init => CInv
  BY TypeInit, OwnedInit DEF CInv
<1> QED BY <1>1, Kept, PTL DEF Spec

\* LoadMoreAsync: when loads are only of the tab in front, one at a time, and no busy tab is
\* disconnected, an open tab that announces more rows has an open cursor to load them from, however
\* many runs overlap and whichever busy tabs are closed.
THEOREM MoreIsHonest ==
  ASSUME Unhurried
  PROVE  Spec => []HasMoreHonest
<1>1. InFront
  BY DEF Unhurried
<1>2. Spec => [](TInv /\ FInv)
  BY <1>1, FocusHolds
<1>3. TInv /\ FInv /\ CInv /\ MInv /\ [Next]_vars => MInv'
  <2> SUFFICES ASSUME TInv, FInv, CInv, MInv, [Next]_vars PROVE MInv'
    OBVIOUS
  <2>1. Owned
    BY DEF CInv
  <2>2. CASE Next
    BY <2>1, <2>2, Steps, MoreRun, MoreLoad, MoreUser
  <2>3. CASE UNCHANGED vars
    BY <2>3 DEF vars, wsVars, MInv, OneLoading, TabsAhead, LoadsOfTheTab, NotWhileClosing, Loading
  <2> QED BY <2>2, <2>3
<1>4. TInv /\ MInv => HasMoreHonest
  BY DEF TInv, TypeOK, MInv, TabsAhead, HasMoreHonest
<1> QED BY <1>2, <1>3, <1>4, MoreInit, OwnedHolds, PTL DEF Spec

----------------------------------------------------------------------------
(* No cursor is left open behind a tab *)

\* One run at a time, none while a page is loaded, no scrolling of a tab whose run has not
\* ended, and no closing of a tab that is busy.
BusyTabsKept ==
    /\ OneAtATime
    /\ "run while loading" \notin Allowed
    /\ "scroll early" \notin Allowed
    /\ "close while busy" \notin Allowed

\* The tab in front, and that of a run in flight, is open.
ActiveOpen == active \in open \union {None}
BusyOpen == \A r \in Runs : Busy(r) => run[r].tab \in open

\* No tab is run and loaded at once.
Apart == \A r \in Runs, l \in Loads : Busy(r) /\ Loading(l) => run[r].tab # load[l].tab

\* While it is loaded a tab has the cursor of its load or none, and the cursor that a load is
\* about to take from its tab is closed.
LoadsHold ==
    \A l \in Loads :
        /\ Loading(l) => tab[load[l].tab].cursor \in {None, load[l].cur}
        /\ load[l].pc = "closing" => cur[load[l].cur].conn = "closed"

\* The catch block clears a tab that holds nothing.
FailingEmpty == \A r \in Runs : run[r].pc = "failing" => tab[run[r].tab].cursor = None

NInv == ActiveOpen /\ BusyOpen /\ Apart /\ LoadsHold /\ FailingEmpty /\ NoOrphan

LEMMA KeptGuards ==
  ASSUME BusyTabsKept
  PROVE  /\ OneAtATime
         /\ MayStart => \A l \in Loads : ~Loading(l)
         /\ MayScroll => \A r \in Runs : run[r].tab # active
         /\ \A t : MayClose(t) => \A r \in Runs : run[r].tab # t
<1>1. MayStart => \A l \in Loads : ~Loading(l)
  BY Zenon DEF MayStart, May, BusyTabsKept
<1>2. MayScroll => active \notin {run[r].tab : r \in Runs}
  BY Zenon DEF MayScroll, May, BusyTabsKept
<1>3. ASSUME NEW t, MayClose(t) PROVE t \notin BusyTabs
  BY <1>3, Zenon DEF MayClose, May, BusyTabsKept
<1>4. \A r \in Runs : run[r].tab \in BusyTabs
  BY DEF BusyTabs
<1> QED BY <1>1, <1>2, <1>3, <1>4 DEF BusyTabsKept

LEMMA OrphanInit == Init => NInv
<1> SUFFICES ASSUME Init PROVE NInv
  OBVIOUS
<1>1. /\ \A l \in Loads : load[l].pc = "idle"
      /\ \A r \in Runs : run[r].pc = "idle" /\ cur[r].conn = "none"
  BY DEF Init, Idle, Resting
<1>2. active \in open
  BY DEF Init
<1> QED BY <1>1, <1>2 DEF NInv, ActiveOpen, BusyOpen, Apart, LoadsHold, FailingEmpty, NoOrphan, Loading, Busy

\* Loads stand still, and what they hold is at most closed and taken away.
LEMMA HoldFrame ==
  ASSUME TInv, LoadsHold, UNCHANGED load,
         \A l \in Loads : Loading(l) =>
             /\ tab'[load[l].tab].cursor \in {None, tab[load[l].tab].cursor}
             /\ cur'[load[l].cur].conn \in {"closed", cur[load[l].cur].conn}
  PROVE  LoadsHold'
BY DEF LoadsHold, Loading

LEMMA OrphanRun ==
  ASSUME BusyTabsKept, TInv, Owned, OInv, NInv, NEW r \in Runs, RunStep(r)
  PROVE  NInv'
<1>0. /\ UNCHANGED <<open, active, load>>
      /\ \A q \in Runs \ {r} : run'[q] = run[q]
      /\ Busy(r) \/ ((\A l \in Loads : ~Loading(l)) /\ active \in Tabs)
      /\ Busy(r) => run[r].tab \in Tabs
  BY RunKinds, KeptGuards
<1>a. \A q \in Runs \ {r} : ~Busy(q)
  BY RunKinds, KeptGuards, Alone
<1>w. run[r].pc \in {"opening", "fetching", "failing"} => tab[run[r].tab].cursor = None
  BY DEF OInv, RunFits, Waiting, NInv, FailingEmpty
<1>n. active \in Tabs => active \in open
  BY RunAssumption DEF NInv, ActiveOpen
<1>t. Busy(r)' => \/ Busy(r) /\ run'[r].tab = run[r].tab
                  \/ (\A l \in Loads : ~Loading(l)) /\ active \in Tabs /\ run'[r].tab = active
  <2>1. CASE Starts(r) \/ \E t \in Tabs : Begins(r, t)
    BY <1>0, <2>1 DEF Starts, Begins, Busy
  <2>2. CASE GoesOn(r) \/ Fails(r) \/ Judges(r) \/ \E more \in BOOLEAN : Gives(r, more)
    BY <2>2 DEF GoesOn, Fails, Judges, Gives, Busy
  <2> QED BY <2>1, <2>2, RunKinds
<1>1. ActiveOpen' /\ BusyOpen'
  BY <1>0, <1>a, <1>n, <1>t DEF NInv, ActiveOpen, BusyOpen, Busy
<1>2. Apart'
  BY <1>0, <1>a, <1>t DEF NInv, Apart, Busy, Loading
<1>3. LoadsHold'
  <2> SUFFICES ASSUME NEW l \in Loads, Loading(l)
               PROVE  /\ tab'[load[l].tab].cursor \in {None, tab[load[l].tab].cursor}
                      /\ cur'[load[l].cur].conn \in {"closed", cur[load[l].cur].conn}
    BY <1>0, HoldFrame DEF NInv
  <2>1. Busy(r) /\ run[r].tab # load[l].tab /\ load[l].tab \in Tabs /\ load[l].cur \in Runs /\ Given(load[l].cur)
    BY <1>0, Shape DEF NInv, Apart, Owned, OwnLoads, Past, Given
  <2>2. \A u \in Tabs \ {run[r].tab} : tab'[u] = tab[u]
    BY <2>1, RunKinds DEF Starts, Begins, GoesOn, Gives, Fails, Judges, Busy
  <2>3. \A q \in Runs : Given(q) => cur'[q].conn \in {"closed", cur[q].conn}
    <3>1. CASE Starts(r) \/ GoesOn(r) \/ Fails(r) \/ Judges(r)
      BY <3>1 DEF Starts, GoesOn, Fails, Judges
    <3>2. CASE \E t \in Tabs : Begins(r, t)
      BY <3>2 DEF Begins
    <3>3. CASE \E more \in BOOLEAN : Gives(r, more)
      BY <3>3 DEF Gives, Given
    <3> QED BY <3>1, <3>2, <3>3, RunKinds
  <2> QED BY <2>1, <2>2, <2>3
<1>4. FailingEmpty'
  <2>1. run'[r].pc = "failing" => tab'[run'[r].tab].cursor = None
    <3>1. run'[r].pc = "failing" => GoesOn(r)
      BY RunKinds DEF Starts, Begins, Gives, Fails, Judges
    <3> QED BY <1>w, <3>1 DEF GoesOn, Busy
  <2> QED BY <1>0, <1>a, <2>1 DEF FailingEmpty, Busy
<1>5. NoOrphan'
  <2> SUFFICES ASSUME NEW q \in Runs, cur'[q].conn = "open"
               PROVE  run'[q].pc = "fetching" \/ \E t \in open : tab'[t].cursor = q
    BY <1>0 DEF NoOrphan
  <2>0. /\ open \subseteq Tabs /\ None \notin Runs
        /\ cur[q].conn = "open" => run[q].pc = "fetching" \/ \E t \in open : tab[t].cursor = q
    BY Grids DEF TInv, TypeOK, NInv, NoOrphan
  <2>1. CASE Starts(r)
    BY <1>0, <2>0, <2>1 DEF Starts
  <2>2. CASE GoesOn(r)
    BY <1>0, <2>0, <2>2 DEF GoesOn
  <2>3. CASE Fails(r)
    BY <1>0, <1>w, <2>0, <2>3 DEF Fails
  <2>4. CASE Judges(r)
    BY <1>0, <2>0, <2>4 DEF Judges
  <2>5. ASSUME NEW t \in Tabs, Begins(r, t)
        PROVE  run'[q].pc = "fetching" \/ \E u \in open : tab'[u].cursor = q
    <3>1. cur[q].conn = "open" /\ tab[t].cursor # q
      BY <2>5 DEF Begins
    <3>2. CASE run[q].pc = "fetching"
      BY <1>0, <2>5, <3>2 DEF Begins
    <3>3. ASSUME NEW u \in open, tab[u].cursor = q
          PROVE  tab'[u].cursor = q
      BY <2>0, <2>5, <3>1, <3>3 DEF Begins
    <3> QED BY <2>0, <3>1, <3>2, <3>3
  <2>6. ASSUME NEW more \in BOOLEAN, Gives(r, more)
        PROVE  run'[q].pc = "fetching" \/ \E u \in open : tab'[u].cursor = q
    <3>1. run[r].pc = "fetching" /\ run[r].tab \in open /\ tab[run[r].tab].cursor = None
      BY <1>w, <2>6 DEF Gives, NInv, BusyOpen, Busy
    <3>2. CASE q = r
      BY <2>6, <3>1, <3>2 DEF Gives
    <3>3. CASE q # r
      <4>1. cur[q].conn = "open" /\ run'[q] = run[q]
        BY <1>0, <2>6, <3>3 DEF Gives
      <4>2. ASSUME NEW u \in open, tab[u].cursor = q
            PROVE  tab'[u].cursor = q
        BY <2>0, <2>6, <3>1, <4>2 DEF Gives
      <4> QED BY <2>0, <4>1, <4>2
    <3> QED BY <3>2, <3>3
  <2> QED BY <2>1, <2>2, <2>3, <2>4, <2>5, <2>6, RunKinds
<1> QED BY <1>1, <1>2, <1>3, <1>4, <1>5 DEF NInv

LEMMA OrphanLoad ==
  ASSUME BusyTabsKept, TInv, Owned, NInv, NEW l \in Loads, LoadStep(l)
  PROVE  NInv'
<1>0. /\ \A k \in Loads \ {l} : load'[k] = load[k]
      /\ UNCHANGED <<open, active, run>>
      /\ Loading(l) => load[l].tab \in Tabs /\ load[l].cur \in Runs /\ load[l].grid \in Runs
  BY LoadKinds
<1>s. /\ open \subseteq Tabs /\ None \notin Runs
      /\ \A k \in Loads : Loading(k) => load[k].tab \in Tabs /\ load[k].cur \in Runs
      /\ \A r \in Runs : Busy(r) => run[r].tab \in Tabs
  BY Shape DEF TInv, TypeOK
<1>c. \A u \in Tabs : tab'[u].cursor \in {None, tab[u].cursor}
  <2>1. CASE Scrolls(l) \/ Closes(l) \/ Keeps(l) \/ \E more \in BOOLEAN : Pages(l, more)
    BY <2>1 DEF Scrolls, Closes, Keeps, Pages
  <2>2. CASE LetsGo(l) \/ Throws(l)
    BY <2>2 DEF LetsGo, Throws, Released
  <2> QED BY <2>1, <2>2, LoadKinds
<1>o. \A q \in Runs : cur'[q].conn \in {"closed", cur[q].conn}
  <2>1. CASE Scrolls(l) \/ Keeps(l) \/ LetsGo(l) \/ Throws(l)
    BY <2>1 DEF Scrolls, Keeps, LetsGo, Throws, Released
  <2>2. CASE Closes(l)
    BY <2>2 DEF Closes
  <2>3. CASE \E more \in BOOLEAN : Pages(l, more)
    BY <2>3 DEF Pages
  <2> QED BY <2>1, <2>2, <2>3, LoadKinds
<1>l. Loading(l)' =>
        \/ Loading(l) /\ load'[l].tab = load[l].tab /\ load'[l].cur = load[l].cur
        \/ /\ Scrolls(l) /\ load'[l].pc = "fetching" /\ load'[l].tab = active
           /\ load'[l].cur = tab[active].cursor
  BY LoadKinds DEF Scrolls, Pages, Closes, SameLoad, Keeps, LetsGo, Throws, Loading
<1>1. ActiveOpen' /\ BusyOpen'
  BY <1>0 DEF NInv, ActiveOpen, BusyOpen, Busy
<1>2. Apart'
  <2>1. Scrolls(l) => \A r \in Runs : run[r].tab # active
    BY KeptGuards DEF Scrolls
  <2> QED BY <1>0, <1>l, <2>1 DEF NInv, Apart, Busy, Loading
<1>3. FailingEmpty'
  BY <1>0, <1>c, <1>s DEF NInv, FailingEmpty, Busy
<1>4. LoadsHold'
  <2>1. ASSUME NEW k \in Loads, Loading(k)'
        PROVE  tab'[load'[k].tab].cursor \in {None, load'[k].cur}
    <3>1. CASE Loading(k) /\ load'[k].tab = load[k].tab /\ load'[k].cur = load[k].cur
      BY <1>c, <1>s, <3>1 DEF NInv, LoadsHold
    <3>2. CASE Scrolls(l) /\ load'[k].tab = active /\ load'[k].cur = tab[active].cursor
      BY <3>2 DEF Scrolls
    <3> QED BY <1>0, <1>l, <2>1, <3>1, <3>2 DEF Loading
  <2>2. ASSUME NEW k \in Loads, load'[k].pc = "closing"
        PROVE  cur'[load'[k].cur].conn = "closed"
    <3>1. CASE load[k].pc = "closing" /\ load'[k] = load[k]
      BY <1>o, <1>s, <3>1 DEF NInv, LoadsHold, Loading
    <3>2. CASE k = l /\ Closes(l)
      BY <3>2 DEF Closes, SameLoad
    <3>3. k = l => Closes(l) \/ load'[k] = load[k]
      BY <2>2, LoadKinds DEF Scrolls, Pages, Keeps, LetsGo, Throws
    <3> QED BY <1>0, <2>2, <3>1, <3>2, <3>3
  <2> QED BY <2>1, <2>2 DEF LoadsHold
<1>5. NoOrphan'
  <2> SUFFICES ASSUME NEW q \in Runs, cur'[q].conn = "open", run[q].pc # "fetching"
               PROVE  \E t \in open : tab'[t].cursor = q
    BY <1>0 DEF NoOrphan
  <2>1. cur[q].conn = "open"
    BY <1>o
  <2>2. PICK t \in open : tab[t].cursor = q
    BY <2>1 DEF NInv, NoOrphan
  <2>3. tab'[t].cursor = tab[t].cursor
    <3>1. CASE Scrolls(l) \/ Closes(l) \/ Keeps(l) \/ \E more \in BOOLEAN : Pages(l, more)
      BY <1>s, <3>1 DEF Scrolls, Closes, Keeps, Pages
    <3>2. CASE LetsGo(l)
      <4>1. t # load[l].tab
        BY <1>s, <2>1, <2>2, <3>2 DEF LetsGo, NInv, LoadsHold, Loading
      <4> QED BY <1>s, <3>2, <4>1 DEF LetsGo
    <3>3. CASE Throws(l)
      <4>1. Released({load[l].tab})
        BY <3>3 DEF Throws
      <4>2. t # load[l].tab
        BY <2>2, <4>1 DEF Released
      <4> QED BY <1>s, <4>1, <4>2 DEF Released
    <3> QED BY <3>1, <3>2, <3>3, LoadKinds
  <2> QED BY <2>2, <2>3
<1> QED BY <1>1, <1>2, <1>3, <1>4, <1>5 DEF NInv

LEMMA OrphanUser ==
  ASSUME BusyTabsKept, TInv, NInv, UserStep
  PROVE  NInv'
<1>1. ASSUME UNCHANGED <<tab, run, cur, load>>, open \subseteq open', ActiveOpen'
      PROVE  NInv'
  <2>1. BusyOpen' /\ Apart' /\ FailingEmpty'
    BY <1>1 DEF NInv, BusyOpen, Apart, FailingEmpty, Busy, Loading
  <2>2. LoadsHold' /\ NoOrphan'
    BY <1>1 DEF NInv, LoadsHold, NoOrphan, Loading
  <2> QED BY <1>1, <2>1, <2>2 DEF NInv
<1>2. CASE Stop \/ Render \/ Disconnect \/ \E t \in Tabs : SwitchTab(t) \/ OpenTableData(t) \/ SetConnection(t)
  <2>1. UNCHANGED <<tab, run, cur, load>> /\ open \subseteq open'
    BY <1>2 DEF Stop, Render, Disconnect, SwitchTab, OpenTableData, SetConnection, wsVars
  <2>2. ActiveOpen'
    BY <1>2 DEF Stop, Render, Disconnect, SwitchTab, OpenTableData, SetConnection, wsVars, NInv, ActiveOpen
  <2> QED BY <1>1, <2>1, <2>2
<1>3. ASSUME NEW ts \in SUBSET Tabs, Release(ts), UNCHANGED <<run, load>>, open' \subseteq open, open \ ts \subseteq open',
             \A r \in Runs : Busy(r) => run[r].tab \in open', ActiveOpen'
      PROVE  NInv'
  <2>1. Released(ts)
    BY <1>3, ReleaseKind
  <2>2. BusyOpen' /\ Apart'
    BY <1>3 DEF NInv, BusyOpen, Apart, Busy, Loading
  <2>3. FailingEmpty'
    BY <1>3, <2>1, Shape DEF NInv, FailingEmpty, Released, Busy
  <2>4. LoadsHold'
    BY <1>3, <2>1, Shape, HoldFrame DEF NInv, Released
  <2>5. NoOrphan'
    <3> SUFFICES ASSUME NEW q \in Runs, cur'[q].conn = "open", run[q].pc # "fetching"
                 PROVE  \E t \in open' : tab'[t].cursor = q
      BY <1>3 DEF NoOrphan
    <3>1. cur[q].conn = "open" /\ ~\E t \in ts : tab[t].cursor = q
      BY <2>1 DEF Released
    <3>2. PICK t \in open : tab[t].cursor = q
      BY <3>1 DEF NInv, NoOrphan
    <3>3. t \in Tabs /\ t \notin ts
      BY <3>1, <3>2 DEF TInv, TypeOK
    <3>4. t \in open' /\ tab'[t].cursor = q
      BY <1>3, <2>1, <3>2, <3>3 DEF Released
    <3> QED BY <3>4
  <2> QED BY <1>3, <2>2, <2>3, <2>4, <2>5 DEF NInv
<1>4. ASSUME NEW t \in Tabs, CloseTab(t)
      PROVE  NInv'
  <2>1. /\ Release({t}) /\ UNCHANGED <<run, load>> /\ {t} \in SUBSET Tabs
        /\ open' = open \ {t} /\ MayClose(t)
        /\ IF t = active THEN active' \in (IF open = {t} THEN {None} ELSE open \ {t})
           ELSE UNCHANGED active
    BY <1>4 DEF CloseTab, Remove
  <2>2. \A r \in Runs : Busy(r) => run[r].tab \in open'
    BY <2>1, KeptGuards DEF NInv, BusyOpen
  <2>3. ActiveOpen'
    BY <2>1 DEF NInv, ActiveOpen
  <2> QED BY <1>3, <2>1, <2>2, <2>3
<1>5. CASE Disconnected
  <2>1. /\ Release(bound \intersect open) /\ UNCHANGED <<open, active, run, load>>
        /\ bound \intersect open \in SUBSET Tabs
    BY <1>5 DEF Disconnected, TInv, TypeOK
  <2>2. (\A r \in Runs : Busy(r) => run[r].tab \in open') /\ ActiveOpen'
    BY <2>1 DEF NInv, BusyOpen, ActiveOpen
  <2> QED BY <1>3, <2>1, <2>2
<1> QED BY <1>2, <1>4, <1>5 DEF UserStep

LEMMA OrphanHolds ==
  ASSUME BusyTabsKept
  PROVE  Spec => [](TInv /\ NInv)
<1>1. OneAtATime
  BY DEF BusyTabsKept
<1>2. Spec => [](TInv /\ OInv)
  BY <1>1, OneHolds
<1>3. TInv /\ OInv /\ CInv /\ NInv /\ [Next]_vars => NInv'
  <2> SUFFICES ASSUME TInv, OInv, CInv, NInv, [Next]_vars PROVE NInv'
    OBVIOUS
  <2>1. Owned
    BY DEF CInv
  <2>2. CASE Next
    BY <2>1, <2>2, Steps, OrphanRun, OrphanLoad, OrphanUser
  <2>3. CASE UNCHANGED vars
    <3>1. UNCHANGED <<open, active, tab, run, cur, load>>
      BY <2>3 DEF vars, wsVars
    <3> QED BY <3>1 DEF NInv, ActiveOpen, BusyOpen, Apart, LoadsHold, FailingEmpty, NoOrphan, Busy, Loading
  <2> QED BY <2>2, <2>3
<1> QED BY <1>2, <1>3, OrphanInit, OwnedHolds, PTL DEF Spec

\* RunPagedAsync, LoadMoreAsync and CloseTab: when runs do not overlap with runs, loads or the
\* closing of their tab, an open cursor is that of an open tab, or of a run that is fetching its
\* first page: no server connection is left behind, even by a disconnection while a tab is busy.
THEOREM NoneOrphaned ==
  ASSUME BusyTabsKept
  PROVE  Spec => []NoOrphan
<1>1. TInv /\ NInv => NoOrphan
  BY DEF NInv
<1> QED BY <1>1, OrphanHolds, PTL

----------------------------------------------------------------------------
(* Disconnecting leaves no cursor behind *)

\* Furthermore no busy tab is disconnected, and a tab with a result keeps its connection.
ConnectionKept ==
    /\ BusyTabsKept
    /\ "disconnect while busy" \notin Allowed
    /\ "rebind" \notin Allowed

\* Until it is gone every open tab is the connection's, and while it closes nothing runs.
AllBound == server # "gone" => open \subseteq bound
NothingRuns == server = "closing" => \A r \in Runs : ~Busy(r)

DInv == AllBound /\ NothingRuns

LEMMA ConnectionInit == Init => DInv
BY DEF Init, DInv, AllBound, NothingRuns

LEMMA ConnectionStep ==
  ASSUME ConnectionKept, TInv, NInv, DInv, Next
  PROVE  DInv'
<1>1. ASSUME NEW r \in Runs, RunStep(r)
      PROVE  DInv'
  <2>1. /\ UNCHANGED <<open, bound, server>>
        /\ \A q \in Runs \ {r} : run'[q] = run[q]
        /\ Busy(r) \/ Connected(active)
    BY <1>1, RunKinds
  <2>2. server # "closing"
    BY <2>1 DEF Connected, DInv, NothingRuns
  <2> QED BY <2>1, <2>2 DEF DInv, AllBound, NothingRuns
<1>2. ASSUME NEW l \in Loads, LoadStep(l)
      PROVE  DInv'
  BY <1>2, LoadKinds DEF DInv, AllBound, NothingRuns, Busy
<1>3. CASE Disconnect
  <2>1. UNCHANGED <<open, bound, run>> /\ server = "up" /\ MayDisconnect
    BY <1>3 DEF Disconnect
  <2>2. BusyTabs \intersect bound = {}
    BY <2>1, Zenon DEF MayDisconnect, May, ConnectionKept
  <2>3. ASSUME NEW r \in Runs, Busy(r)
        PROVE  FALSE
    <3>1. run[r].tab \in bound
      BY <2>1, <2>3 DEF NInv, BusyOpen, DInv, AllBound
    <3>2. run[r].tab \in BusyTabs
      BY DEF BusyTabs
    <3> QED BY <2>2, <3>1, <3>2
  <2> QED BY <2>1, <2>3 DEF DInv, AllBound, NothingRuns, Busy
<1>4. CASE Disconnected
  BY <1>4 DEF Disconnected, DInv, AllBound, NothingRuns
<1>5. ASSUME NEW t \in Tabs
      PROVE  ~SetConnection(t)
  BY Zenon DEF SetConnection, ConnectionKept
<1>6. ASSUME Stop \/ Render \/ \E t \in Tabs : SwitchTab(t) \/ OpenTableData(t) \/ CloseTab(t)
      PROVE  DInv'
  <2>1. /\ UNCHANGED <<server, run>>
        /\ \/ open' \subseteq open /\ bound' = bound
           \/ \E t \in Tabs : open' = open \union {t} /\ bound' = bound \union {t}
    BY <1>6 DEF Stop, Render, SwitchTab, OpenTableData, CloseTab, Remove, wsVars
  <2> QED BY <2>1 DEF DInv, AllBound, NothingRuns, Busy
<1> QED BY <1>1, <1>2, <1>3, <1>4, <1>5, <1>6, Steps DEF UserStep

LEMMA ConnectionHolds ==
  ASSUME ConnectionKept
  PROVE  Spec => [](TInv /\ NInv /\ DInv)
<1>1. BusyTabsKept
  BY DEF ConnectionKept
<1>2. Spec => [](TInv /\ NInv)
  BY <1>1, OrphanHolds
<1>3. TInv /\ NInv /\ DInv /\ [Next]_vars => DInv'
  <2> SUFFICES ASSUME TInv, NInv, DInv, [Next]_vars PROVE DInv'
    OBVIOUS
  <2>1. CASE UNCHANGED vars
    BY <2>1 DEF vars, wsVars, DInv, AllBound, NothingRuns, Busy
  <2> QED BY <2>1, ConnectionStep
<1> QED BY <1>2, <1>3, ConnectionInit, PTL DEF Spec

\* DisconnectAsync of WorkspaceState: when, besides, no busy tab is disconnected and no tab with a
\* result is bound elsewhere, a disconnection closes every cursor that was open.
THEOREM DisconnectingReleases ==
  ASSUME ConnectionKept
  PROVE  Spec => DisconnectReleases
<1> DEFINE Done == server = "closing" /\ server' = "gone" =>
                       \A r \in Runs : cur[r].conn = "open" => cur'[r].conn = "closed"
<1>1. TInv /\ NInv /\ DInv /\ [Next]_vars => [Done]_vars
  <2> SUFFICES ASSUME TInv, NInv, DInv, Next, server = "closing", server' = "gone",
                      NEW r \in Runs, cur[r].conn = "open"
               PROVE  cur'[r].conn = "closed"
    OBVIOUS
  <2>1. Disconnected
    <3>1. ~\E q \in Runs : RunStep(q)
      BY RunKinds
    <3>2. ~\E l \in Loads : LoadStep(l)
      BY LoadKinds
    <3>3. UserStep => Disconnected
      BY DEF UserStep, Stop, Render, SwitchTab, OpenTableData, CloseTab, Remove, SetConnection, Disconnect, wsVars
    <3> QED BY <3>1, <3>2, <3>3, Steps
  <2>2. Released(bound \intersect open)
    <3>1. Release(bound \intersect open) /\ bound \intersect open \in SUBSET Tabs
      BY <2>1 DEF Disconnected, TInv, TypeOK
    <3> QED BY <3>1, ReleaseKind
  <2>3. run[r].pc # "fetching"
    BY DEF DInv, NothingRuns, Busy
  <2>4. PICK t \in open : tab[t].cursor = r
    BY <2>3 DEF NInv, NoOrphan
  <2>5. t \in bound \intersect open
    BY <2>4 DEF DInv, AllBound
  <2> QED BY <2>2, <2>4, <2>5 DEF Released
<1>2. [][Done]_vars => DisconnectReleases
  BY PTL DEF DisconnectReleases
<1> QED BY <1>1, <1>2, ConnectionHolds, PTL DEF Spec
====
