---- MODULE QueryRunProofs ----
(***************************************************************************)
(* What QueryRun's runs show for two tabs, two runs and two loads, proved  *)
(* for any numbers of them.  The properties that survive every overlap are *)
(* proved whatever Allowed is; those that a second run in flight breaks    *)
(* are proved from the assumption that there is none.                      *)
(***************************************************************************)
EXTENDS QueryRun, SequenceTheorems, TLAPS

Past(r) == run[r].pc \in {"analyzing", "recording", "done"}

\* A suspended handler has captured real things.
Captured ==
    /\ \A r \in Runs : Busy(r) => run[r].tab \in Tabs
    /\ \A l \in Loads : Loading(l) => load[l].tab \in Tabs /\ load[l].cur \in Runs /\ load[l].grid \in Runs

\* A result that has not ended has pages left.
PagesLeft == \A r \in Runs : ~cur[r].atEnd => cur[r].sent < MaxPages

TInv == TypeOK /\ Captured /\ PagesLeft

\* The steps of a run, those of a load, and those of the user.
RunStep(r) ==
    \/ StartRun(r) \/ EditorAnswers(r) \/ StartPendingRun(r) \/ Cleared(r)
    \/ \E hasFields \in BOOLEAN : Opened(r, hasFields)
    \/ OpenThrows(r)
    \/ \E more \in BOOLEAN : FirstPage(r, more)
    \/ FirstPageThrows(r) \/ Failed(r) \/ Disposed(r) \/ Analyzed(r) \/ Recorded(r)

LoadStep(l) ==
    \/ Scroll(l)
    \/ \E more \in BOOLEAN : NextPage(l, more)
    \/ NoPage(l) \/ Appended(l) \/ LoadClosed(l) \/ LoadThrows(l)

LEMMA TypeInit == Init => TInv
<1> SUFFICES ASSUME Init PROVE TInv
  OBVIOUS
<1> USE RunAssumption DEF Init, MaybeRun, MaybeTab
<1>1. tab \in [Tabs -> TabState]
  BY DEF TabState, EmptyTab
<1>2. run \in [Runs -> RunState] /\ load \in [Loads -> LoadState]
  BY DEF RunState, LoadState, Resting, Idle
<1>3. cur \in [Runs -> Cursor]
  BY DEF Cursor
<1>4. rows \in [Runs -> Seq(Page)]
  OBVIOUS
<1>5. shown \in Display
  BY DEF Display, Blank
<1>6. Captured /\ PagesLeft
  BY DEF Captured, PagesLeft, Busy, Loading, Resting, Idle
<1> QED BY <1>1, <1>2, <1>3, <1>4, <1>5, <1>6 DEF TInv, TypeOK

LEMMA TypeBegin ==
  ASSUME TInv, NEW r \in Runs, NEW t \in Tabs, Begin(r, t), UNCHANGED <<open, fresh, active, bound, server>>,
         pendingRun' \subseteq Tabs
  PROVE  TInv'
<1> USE RunAssumption
<1>0. /\ tab \in [Tabs -> TabState] /\ run \in [Runs -> RunState] /\ cur \in [Runs -> Cursor]
      /\ Captured /\ PagesLeft
  BY DEF TInv, TypeOK
<1>1. CASE tab[t].cursor = None
  <2>0. /\ tab' = [tab EXCEPT ![t].grid = None, ![t].editable = None]
        /\ run' = [run EXCEPT ![r] = [pc |-> "opening", tab |-> t, tok |-> r]]
        /\ cts' = r /\ cur' = cur /\ load' = load
    BY <1>1 DEF Begin, CallOpen
  <2>1. tab' \in [Tabs -> TabState]
    BY <1>0, <2>0 DEF TabState, MaybeRun
  <2>2. run' \in [Runs -> RunState] /\ cts' \in MaybeRun
    BY <1>0, <2>0 DEF RunState, MaybeRun, MaybeTab
  <2>3. TypeOK'
    BY <1>0, <2>0, <2>1, <2>2 DEF Begin, TInv, TypeOK
  <2>4. Captured'
    BY <1>0, <2>0 DEF Captured, Busy, Loading
  <2>5. PagesLeft'
    BY <1>0, <2>0 DEF PagesLeft
  <2> QED BY <2>3, <2>4, <2>5 DEF TInv
<1>2. CASE tab[t].cursor # None
  <2>0. /\ tab' = [tab EXCEPT ![t] = EmptyTab]
        /\ run' = [run EXCEPT ![r] = [pc |-> "clearing", tab |-> t, tok |-> None]]
        /\ cur' = [cur EXCEPT ![tab[t].cursor].conn = "closed"]
        /\ cts' = cts /\ load' = load
    BY <1>2 DEF Begin
  <2>1. tab' \in [Tabs -> TabState]
    BY <1>0, <2>0 DEF TabState, EmptyTab, MaybeRun
  <2>2. run' \in [Runs -> RunState] /\ cur' \in [Runs -> Cursor]
    BY <1>0, <2>0 DEF RunState, MaybeRun, MaybeTab, Cursor
  <2>3. TypeOK'
    BY <1>0, <2>0, <2>1, <2>2 DEF Begin, TInv, TypeOK
  <2>4. Captured'
    BY <1>0, <2>0 DEF Captured, Busy, Loading
  <2>5. PagesLeft'
    BY <1>0, <2>0 DEF PagesLeft
  <2> QED BY <2>3, <2>4, <2>5 DEF TInv
<1> QED BY <1>1, <1>2

\* A step that changes the state of run r, and perhaps what the tabs and cursors are.
LEMMA TypeStep ==
  ASSUME TInv, NEW r \in Runs, NEW s \in RunState,
         run' = [run EXCEPT ![r] = s],
         s.pc \notin {"idle", "done"} => s.tab \in Tabs,
         tab' \in [Tabs -> TabState], cur' \in [Runs -> Cursor], rows' \in [Runs -> Seq(Page)], PagesLeft',
         running' \in BOOLEAN, cts' \in MaybeRun, cancelled' \subseteq Runs,
         UNCHANGED <<wsVars, load, shown>>
  PROVE  TInv'
<1>1. run \in [Runs -> RunState] /\ Captured
  BY DEF TInv, TypeOK
<1>2. run' \in [Runs -> RunState]
  BY <1>1
<1>3. TypeOK'
  BY <1>2 DEF TInv, TypeOK, wsVars
<1>4. Captured'
  BY <1>1 DEF Captured, Busy, Loading
<1> QED BY <1>3, <1>4 DEF TInv

LEMMA TypeEnded ==
  ASSUME TInv, NEW r \in Runs, Ended(r), tab' \in [Tabs -> TabState], UNCHANGED <<wsVars, cur, rows, load, shown>>
  PROVE  TInv'
<1>1. Resting("done") \in RunState /\ Resting("done").pc = "done"
  BY DEF RunState, MaybeTab, MaybeRun, Resting
<1>2. /\ run' = [run EXCEPT ![r] = Resting("done")]
      /\ running' \in BOOLEAN /\ cts' \in MaybeRun /\ cancelled' \subseteq Runs
  BY DEF Ended, MaybeRun, TInv, TypeOK
<1>3. /\ cur' \in [Runs -> Cursor] /\ rows' \in [Runs -> Seq(Page)] /\ PagesLeft'
  BY DEF TInv, TypeOK, PagesLeft
<1> HIDE DEF Resting
<1> QED BY <1>1, <1>2, <1>3, TypeStep

\* The state run r goes on with when only its pc changes.
LEMMA NextPc ==
  ASSUME TInv, NEW r \in Runs, NEW pc \in {"clearing", "opening", "fetching", "failing", "drained",
                                          "analyzing", "unneeded", "recording"}, Busy(r)
  PROVE  LET s == [run[r] EXCEPT !.pc = pc]
         IN  s \in RunState /\ s.tab \in Tabs /\ [run EXCEPT ![r].pc = pc] = [run EXCEPT ![r] = s]
  BY DEF TInv, TypeOK, Captured, RunState

LEMMA TypeCaught ==
  ASSUME TInv, NEW r \in Runs, Caught(r), Busy(r), tab' \in [Tabs -> TabState],
         UNCHANGED <<wsVars, cur, rows, load, shown>>
  PROVE  TInv'
<1>1. CASE run' = [run EXCEPT ![r].pc = "recording"] /\ UNCHANGED srcVars
  <2>1. PICK s \in RunState : s.tab \in Tabs /\ run' = [run EXCEPT ![r] = s]
    BY <1>1, NextPc
  <2>2. /\ cur' \in [Runs -> Cursor] /\ rows' \in [Runs -> Seq(Page)] /\ PagesLeft'
        /\ running' \in BOOLEAN /\ cts' \in MaybeRun /\ cancelled' \subseteq Runs
    BY <1>1 DEF TInv, TypeOK, PagesLeft, srcVars
  <2> QED BY <2>1, <2>2, TypeStep
<1> QED BY <1>1, TypeEnded DEF Caught

LEMMA TypeRun ==
  ASSUME TInv, NEW r \in Runs, RunStep(r)
  PROVE  TInv'
<1>t. tab \in [Tabs -> TabState]
  BY DEF TInv, TypeOK
<1>r. run \in [Runs -> RunState]
  BY DEF TInv, TypeOK
<1>c. cur \in [Runs -> Cursor]
  BY DEF TInv, TypeOK
<1>0. /\ tab \in [Tabs -> TabState] /\ run \in [Runs -> RunState] /\ cur \in [Runs -> Cursor]
      /\ rows \in [Runs -> Seq(Page)] /\ running \in BOOLEAN /\ cts \in MaybeRun /\ cancelled \subseteq Runs
      /\ active \in MaybeTab /\ Captured /\ PagesLeft
  BY DEF TInv, TypeOK
<1>1. CASE StartRun(r)
  <2> DEFINE s == [run[r] EXCEPT !.pc = "flush", !.tab = active]
  <2>1. active \in Tabs /\ run' = [run EXCEPT ![r].pc = "flush", ![r].tab = active]
        /\ UNCHANGED <<wsVars, tab, srcVars, cur, rows, load, shown>>
    BY <1>0, <1>1 DEF StartRun, MaybeTab
  <2>2. s \in RunState /\ s.tab \in Tabs /\ run' = [run EXCEPT ![r] = s]
    BY <1>r, <2>1 DEF RunState, MaybeTab
  <2>3. PagesLeft'
    BY <1>0, <2>1 DEF PagesLeft
  <2> HIDE DEF s
  <2> QED BY <1>0, <2>1, <2>2, <2>3, TypeStep DEF srcVars
<1>2. CASE EditorAnswers(r)
  <2>1. CASE run' = [run EXCEPT ![r] = Resting("done")] /\ UNCHANGED <<tab, srcVars, cur, rows, load, shown>>
    <3>1. Resting("done") \in RunState /\ Resting("done").pc = "done"
      BY DEF RunState, MaybeTab, MaybeRun, Resting
    <3>2. PagesLeft' /\ UNCHANGED wsVars
      BY <1>0, <1>2, <2>1 DEF PagesLeft, EditorAnswers
    <3> HIDE DEF Resting
    <3> QED BY <1>0, <2>1, <3>1, <3>2, TypeStep DEF srcVars
  <2>2. CASE Begin(r, run[r].tab)
    <3>1. run[r].tab \in Tabs
      BY <1>0, <1>2 DEF EditorAnswers, Captured, Busy
    <3>2. UNCHANGED <<open, fresh, active, bound, server>> /\ pendingRun' \subseteq Tabs
      BY <1>2 DEF EditorAnswers, wsVars, TInv, TypeOK
    <3> QED BY <2>2, <3>1, <3>2, TypeBegin
  <2> QED BY <1>2, <2>1, <2>2 DEF EditorAnswers
<1>3. CASE StartPendingRun(r)
  <2>1. /\ active \in Tabs /\ Begin(r, active) /\ pendingRun' \subseteq Tabs
        /\ UNCHANGED <<open, fresh, active, bound, server>>
    BY <1>3 DEF StartPendingRun, TInv, TypeOK
  <2> QED BY <2>1, TypeBegin
<1>4. CASE Cleared(r)
  <2> DEFINE s == [pc |-> "opening", tab |-> run[r].tab, tok |-> r]
  <2>1. /\ run' = [run EXCEPT ![r] = s] /\ cts' = r /\ run[r].tab \in Tabs
        /\ UNCHANGED <<wsVars, tab, running, cancelled, cur, rows, load, shown>>
    BY <1>0, <1>4 DEF Cleared, CallOpen, Captured, Busy
  <2>2. s \in RunState /\ s.tab \in Tabs /\ cts' \in MaybeRun
    BY <2>1 DEF RunState, MaybeTab, MaybeRun
  <2>3. PagesLeft'
    BY <1>0, <2>1 DEF PagesLeft
  <2> HIDE DEF s
  <2> QED BY <1>0, <2>1, <2>2, <2>3, TypeStep
<1>5. ASSUME NEW hasFields \in BOOLEAN, Opened(r, hasFields)
      PROVE  TInv'
  <2>0. run[r].tab \in Tabs /\ cts \in MaybeRun
    BY <1>0, <1>5 DEF Opened, Captured, Busy
  <2>1. /\ UNCHANGED <<wsVars, tab, srcVars, rows, load, shown>>
        /\ \E conn \in {"open", "closed"} : cur' = [cur EXCEPT ![r].conn = conn]
        /\ \/ run' = [run EXCEPT ![r].pc = "fetching", ![r].tok = cts]
           \/ run' = [run EXCEPT ![r].pc = "failing"]
           \/ run' = [run EXCEPT ![r].pc = "unneeded"]
    BY <1>0, <1>5 DEF Opened, Captured, Busy
  <2>2. PICK s \in RunState : s.tab \in Tabs /\ run' = [run EXCEPT ![r] = s]
    <3>1. CASE run' = [run EXCEPT ![r].pc = "fetching", ![r].tok = cts]
      <4> DEFINE s == [run[r] EXCEPT !.pc = "fetching", !.tok = cts]
      <4>1. s \in RunState /\ s.tab \in Tabs /\ run' = [run EXCEPT ![r] = s]
        BY <1>r, <2>0, <3>1 DEF RunState
      <4> QED BY <4>1
    <3>2. CASE run' = [run EXCEPT ![r].pc = "failing"]
      BY <1>5, <3>2, NextPc DEF Opened, Busy
    <3>3. CASE run' = [run EXCEPT ![r].pc = "unneeded"]
      BY <1>5, <3>3, NextPc DEF Opened, Busy
    <3> QED BY <2>1, <3>1, <3>2, <3>3
  <2>3. PICK conn \in {"open", "closed"} : cur' = [cur EXCEPT ![r].conn = conn]
    BY <2>1
  <2>4. cur' \in [Runs -> Cursor]
    BY <1>c, <2>3 DEF Cursor
  <2>5. PagesLeft'
    BY <1>0, <1>c, <2>3 DEF PagesLeft, Cursor
  <2> QED BY <1>0, <2>1, <2>2, <2>4, <2>5, TypeStep DEF srcVars
<1>6. CASE OpenThrows(r)
  BY <1>0, <1>6, TypeCaught DEF OpenThrows, Busy
<1>7. ASSUME NEW more \in BOOLEAN, FirstPage(r, more)
      PROVE  TInv'
  <2> DEFINE t == run[r].tab
             c == [conn |-> IF more THEN "open" ELSE "closed", sent |-> 1, atEnd |-> ~more]
             p == IF more THEN "analyzing" ELSE "drained"
  <2>1. /\ t \in Tabs /\ Busy(r) /\ (more => MaxPages > 1)
        /\ tab' = [tab EXCEPT ![t].grid = r, ![t].hasMore = more, ![t].cursor = IF more THEN r ELSE @]
        /\ cur' = [cur EXCEPT ![r] = c]
        /\ rows' = [rows EXCEPT ![r] = << <<r, 1>> >>]
        /\ run' = [run EXCEPT ![r].pc = p]
        /\ UNCHANGED <<wsVars, srcVars, load, shown>>
    BY <1>0, <1>7 DEF FirstPage, Captured, Busy
  <2>2. PICK s \in RunState : s.tab \in Tabs /\ run' = [run EXCEPT ![r] = s]
    BY <2>1, NextPc
  <2>3. c \in Cursor /\ c.sent = 1 /\ c.atEnd = ~more
    BY RunAssumption DEF Cursor
  <2>4. cur' \in [Runs -> Cursor] /\ PagesLeft'
    BY <1>0, <2>1, <2>3 DEF PagesLeft
  <2>5. tab' \in [Tabs -> TabState]
    BY <1>t, <2>1 DEF TabState, MaybeRun
  <2>6. rows' \in [Runs -> Seq(Page)]
    <3>1. <<r, 1>> \in Page
      BY RunAssumption DEF Page
    <3>2. << <<r, 1>> >> \in Seq(Page)
      BY <3>1
    <3> QED BY <1>0, <2>1, <3>2
  <2> QED BY <1>0, <2>1, <2>2, <2>4, <2>5, <2>6, TypeStep DEF srcVars
<1>8. CASE FirstPageThrows(r)
  <2>1. /\ Busy(r) /\ cur' = [cur EXCEPT ![r].conn = "closed"] /\ run' = [run EXCEPT ![r].pc = "failing"]
        /\ UNCHANGED <<wsVars, tab, srcVars, rows, load, shown>>
    BY <1>8 DEF FirstPageThrows, Busy
  <2>2. PICK s \in RunState : s.tab \in Tabs /\ run' = [run EXCEPT ![r] = s]
    BY <2>1, NextPc
  <2>3. cur' \in [Runs -> Cursor] /\ PagesLeft'
    BY <1>0, <1>c, <2>1 DEF Cursor, PagesLeft
  <2> QED BY <1>0, <2>1, <2>2, <2>3, TypeStep DEF srcVars
<1>9. CASE Failed(r)
  <2>1. /\ Busy(r) /\ Caught(r) /\ UNCHANGED <<wsVars, cur, rows, load, shown>>
        /\ tab' = [tab EXCEPT ![run[r].tab].cursor = None, ![run[r].tab].hasMore = FALSE]
    BY <1>9 DEF Failed, Busy
  <2>2. tab' \in [Tabs -> TabState]
    BY <1>t, <2>1 DEF TabState, MaybeRun
  <2> QED BY <2>1, <2>2, TypeCaught
<1>10. CASE Disposed(r)
  <2>1. /\ Busy(r) /\ UNCHANGED <<wsVars, tab, srcVars, cur, rows, load, shown>>
        /\ \E p \in {"analyzing", "recording"} : run' = [run EXCEPT ![r].pc = p]
    BY <1>0, <1>10 DEF Disposed, Busy
  <2>2. PICK s \in RunState : s.tab \in Tabs /\ run' = [run EXCEPT ![r] = s]
    BY <2>1, NextPc
  <2>3. PagesLeft'
    BY <1>0, <2>1 DEF PagesLeft
  <2> QED BY <1>0, <2>1, <2>2, <2>3, TypeStep DEF srcVars
<1>11. CASE Analyzed(r)
  <2>1. /\ Busy(r) /\ run' = [run EXCEPT ![r].pc = "recording"]
        /\ \E verdict \in {r, None} : tab' = [tab EXCEPT ![run[r].tab].editable = verdict]
        /\ UNCHANGED <<wsVars, srcVars, cur, rows, load, shown>>
    BY <1>11 DEF Analyzed, Busy
  <2>2. PICK s \in RunState : s.tab \in Tabs /\ run' = [run EXCEPT ![r] = s]
    BY <2>1, NextPc
  <2>3. tab' \in [Tabs -> TabState]
    BY <1>t, <2>1 DEF TabState, MaybeRun
  <2>4. PagesLeft'
    BY <1>0, <2>1 DEF PagesLeft
  <2> QED BY <1>0, <2>1, <2>2, <2>3, <2>4, TypeStep DEF srcVars
<1>12. CASE Recorded(r)
  BY <1>0, <1>12, TypeEnded DEF Recorded
<1> QED BY <1>1, <1>2, <1>3, <1>4, <1>5, <1>6, <1>7, <1>8, <1>9, <1>10, <1>11, <1>12 DEF RunStep

\* A step that changes load l, and perhaps cursors, rows, tabs and the display.
LEMMA TypeLoadStep ==
  ASSUME TInv, NEW l \in Loads, NEW s \in LoadState,
         load' = [load EXCEPT ![l] = s],
         s.pc \notin {"idle", "done"} => s.tab \in Tabs /\ s.cur \in Runs /\ s.grid \in Runs,
         tab' \in [Tabs -> TabState], cur' \in [Runs -> Cursor], rows' \in [Runs -> Seq(Page)], PagesLeft',
         shown' \in Display,
         UNCHANGED <<wsVars, srcVars, run>>
  PROVE  TInv'
<1>1. load \in [Loads -> LoadState] /\ Captured
  BY DEF TInv, TypeOK
<1>2. load' \in [Loads -> LoadState]
  BY <1>1
<1>3. TypeOK'
  BY <1>2 DEF TInv, TypeOK, wsVars, srcVars
<1>4. Captured'
  BY <1>1 DEF Captured, Busy, Loading
<1> QED BY <1>3, <1>4 DEF TInv

\* What is released is a tab's cursor, and nothing else about it.
LEMMA ReleaseTypes ==
  ASSUME tab \in [Tabs -> TabState], cur \in [Runs -> Cursor], PagesLeft, NEW ts \in SUBSET Tabs, Release(ts)
  PROVE  /\ tab' \in [Tabs -> TabState] /\ cur' \in [Runs -> Cursor] /\ PagesLeft'
         /\ \A t \in Tabs : tab'[t] = IF t \in ts /\ tab[t].cursor # None
                                      THEN [tab[t] EXCEPT !.cursor = None, !.hasMore = FALSE] ELSE tab[t]
         /\ \A r \in Runs :
               /\ cur'[r].atEnd = cur[r].atEnd
               /\ cur'[r].conn = IF \E t \in ts : tab[t].cursor # None /\ tab[t].cursor = r
                                 THEN "closed" ELSE cur[r].conn
<1> DEFINE holders == {t \in ts : tab[t].cursor # None}
           held == {tab[t].cursor : t \in holders}
<1>1. /\ tab' = [t \in Tabs |-> IF t \in holders
                                THEN [tab[t] EXCEPT !.cursor = None, !.hasMore = FALSE] ELSE tab[t]]
      /\ cur' = [r \in Runs |-> IF r \in held THEN [cur[r] EXCEPT !.conn = "closed"] ELSE cur[r]]
  BY DEF Release
<1>2. \A r \in Runs : r \in held <=> \E t \in ts : tab[t].cursor # None /\ tab[t].cursor = r
  OBVIOUS
<1>3. \A t \in Tabs : t \in holders <=> t \in ts /\ tab[t].cursor # None
  OBVIOUS
<1> HIDE DEF holders, held
<1>4. tab' \in [Tabs -> TabState]
  BY <1>1 DEF TabState, MaybeRun
<1>5. cur' \in [Runs -> Cursor]
  BY <1>1 DEF Cursor
<1>6. \A t \in Tabs : tab'[t] = IF t \in ts /\ tab[t].cursor # None
                                THEN [tab[t] EXCEPT !.cursor = None, !.hasMore = FALSE] ELSE tab[t]
  BY <1>1, <1>3
<1>7. \A r \in Runs : /\ cur'[r].atEnd = cur[r].atEnd /\ cur'[r].sent = cur[r].sent
                      /\ cur'[r].conn = IF r \in held THEN "closed" ELSE cur[r].conn
  BY <1>1 DEF Cursor
<1>8. PagesLeft'
  BY <1>7 DEF PagesLeft
<1>9. \A r \in Runs : cur'[r].conn = IF \E t \in ts : tab[t].cursor # None /\ tab[t].cursor = r
                                     THEN "closed" ELSE cur[r].conn
  BY <1>2, <1>7
<1> QED BY <1>4, <1>5, <1>6, <1>7, <1>8, <1>9

\* The state load l goes on with when only its pc changes, and the one it ends in.
LEMMA NextLoadPc ==
  ASSUME TInv, NEW l \in Loads, NEW pc \in {"appending", "closing"}, Loading(l)
  PROVE  LET s == [load[l] EXCEPT !.pc = pc]
         IN  /\ s \in LoadState /\ s.tab \in Tabs /\ s.cur \in Runs /\ s.grid \in Runs
             /\ [load EXCEPT ![l].pc = pc] = [load EXCEPT ![l] = s]
<1>1. load \in [Loads -> LoadState] /\ load[l].tab \in Tabs /\ load[l].cur \in Runs /\ load[l].grid \in Runs
  BY DEF TInv, TypeOK, Captured
<1> QED BY <1>1 DEF LoadState

LEMMA DoneLoad == Idle("done") \in LoadState /\ Idle("done").pc = "done"
BY DEF LoadState, Idle, MaybeTab, MaybeRun

LEMMA TypeLoad ==
  ASSUME TInv, NEW l \in Loads, LoadStep(l)
  PROVE  TInv'
<1>t. tab \in [Tabs -> TabState]
  BY DEF TInv, TypeOK
<1>c. cur \in [Runs -> Cursor]
  BY DEF TInv, TypeOK
<1>o. load \in [Loads -> LoadState] /\ rows \in [Runs -> Seq(Page)] /\ shown \in Display
  BY DEF TInv, TypeOK
<1>p. PagesLeft
  BY DEF TInv
<1>l. Loading(l) => load[l].tab \in Tabs /\ load[l].cur \in Runs /\ load[l].grid \in Runs
  BY DEF TInv, Captured
<1>1. CASE Scroll(l)
  <2>1. /\ shown' = [shown EXCEPT !.loading = TRUE] /\ LoadMore(l)
        /\ UNCHANGED <<wsVars, tab, srcVars, run, cur, rows>>
    BY <1>1 DEF Scroll
  <2>2. shown' \in Display /\ PagesLeft'
    BY <1>o, <1>p, <2>1 DEF Display, PagesLeft
  <2>3. CASE HasGrid(active) /\ tab[active].cursor # None
    <3> DEFINE s == [pc |-> "fetching", tab |-> active, cur |-> tab[active].cursor,
                     grid |-> tab[active].grid, more |-> FALSE]
    <3>1. load' = [load EXCEPT ![l] = s]
      BY <2>1, <2>3 DEF LoadMore
    <3>2. active \in Tabs
      BY <2>3 DEF HasGrid, TInv, TypeOK, MaybeTab
    <3>3. tab[active].cursor \in Runs /\ tab[active].grid \in Runs
      BY <1>t, <2>3, <3>2 DEF HasGrid, TabState, MaybeRun
    <3>4. s \in LoadState /\ s.tab \in Tabs /\ s.cur \in Runs /\ s.grid \in Runs
      BY <3>2, <3>3 DEF LoadState, MaybeTab, MaybeRun
    <3> HIDE DEF s
    <3> QED BY <1>t, <1>c, <1>o, <2>1, <2>2, <3>1, <3>4, TypeLoadStep
  <2>4. CASE ~(HasGrid(active) /\ tab[active].cursor # None)
    <3>1. UNCHANGED load
      BY <2>1, <2>4 DEF LoadMore
    <3>2. TypeOK'
      BY <2>1, <2>2, <3>1 DEF TInv, TypeOK, wsVars, srcVars
    <3>3. Captured'
      BY <2>1, <3>1 DEF TInv, Captured, Busy, Loading
    <3> QED BY <2>2, <3>2, <3>3 DEF TInv
  <2> QED BY <2>3, <2>4
<1>2. ASSUME NEW more \in BOOLEAN, NextPage(l, more)
      PROVE  TInv'
  <2> DEFINE c == load[l].cur
             page == <<c, cur[c].sent + 1>>
             s == [load[l] EXCEPT !.pc = "appending", !.more = more]
  <2>1. /\ Loading(l) /\ ~cur[c].atEnd /\ (more => cur[c].sent + 1 < MaxPages)
        /\ cur' = [cur EXCEPT ![c].sent = @ + 1, ![c].atEnd = ~more]
        /\ rows' = [rows EXCEPT ![load[l].grid] = Append(@, page)]
        /\ load' = [load EXCEPT ![l].pc = "appending", ![l].more = more]
        /\ shown' = IF shown.grid = None THEN shown
                    ELSE [shown EXCEPT !.rows = Append(@, page), !.loading = FALSE]
        /\ UNCHANGED <<wsVars, tab, srcVars, run>>
    BY <1>2 DEF NextPage, Loading
  <2>2. c \in Runs /\ load[l].grid \in Runs /\ load[l].tab \in Tabs
    BY <1>l, <2>1
  <2>3. cur[c] \in Cursor /\ cur[c].sent < MaxPages
    BY <1>c, <1>p, <2>1, <2>2 DEF PagesLeft
  <2>4. page \in Page
    BY RunAssumption, <2>2, <2>3 DEF Page, Cursor
  <2>5. s \in LoadState /\ s.tab \in Tabs /\ s.cur \in Runs /\ s.grid \in Runs
    BY <1>o, <2>2 DEF LoadState
  <2>6. load' = [load EXCEPT ![l] = s]
    BY <1>o, <2>1 DEF LoadState
  <2>7. cur' \in [Runs -> Cursor]
    <3>1. cur[c].sent \in 0..MaxPages
      BY <2>3 DEF Cursor
    <3>2. cur[c].sent + 1 \in 0..MaxPages
      BY RunAssumption, <2>3, <3>1
    <3> QED BY <1>c, <2>1, <2>2, <3>2 DEF Cursor
  <2>8. PagesLeft'
    <3>1. \A r \in Runs \ {c} : cur'[r] = cur[r]
      BY <1>c, <2>1
    <3>2. cur'[c].sent = cur[c].sent + 1 /\ cur'[c].atEnd = ~more
      BY <1>c, <2>1, <2>2 DEF Cursor
    <3> QED BY <1>p, <2>1, <3>1, <3>2 DEF PagesLeft
  <2> HIDE DEF page, s
  <2>9. rows' \in [Runs -> Seq(Page)]
    <3>1. Append(rows[load[l].grid], page) \in Seq(Page)
      BY <1>o, <2>2, <2>4
    <3> QED BY <1>o, <2>1, <2>2, <3>1
  <2>10. shown' \in Display
    <3>1. shown.rows \in Seq(Page)
      BY <1>o DEF Display
    <3>2. Append(shown.rows, page) \in Seq(Page)
      BY <2>4, <3>1
    <3> QED BY <1>o, <2>1, <3>2 DEF Display
  <2> QED BY <1>t, <2>1, <2>5, <2>6, <2>7, <2>8, <2>9, <2>10, TypeLoadStep
<1>3. CASE NoPage(l)
  <2>1. /\ Loading(l) /\ load' = [load EXCEPT ![l].pc = "closing"]
        /\ tab' = [tab EXCEPT ![load[l].tab].hasMore = FALSE]
        /\ cur' = [cur EXCEPT ![load[l].cur].conn = "closed"]
        /\ UNCHANGED <<wsVars, srcVars, run, rows, shown>>
    BY <1>3 DEF NoPage, Loading
  <2>2. PICK s \in LoadState : s.tab \in Tabs /\ s.cur \in Runs /\ s.grid \in Runs /\ load' = [load EXCEPT ![l] = s]
    BY <2>1, NextLoadPc
  <2>3. tab' \in [Tabs -> TabState]
    BY <1>t, <2>1 DEF TabState
  <2>4. cur' \in [Runs -> Cursor]
    BY <1>c, <2>1 DEF Cursor
  <2>5. PagesLeft'
    BY <1>c, <1>p, <2>1 DEF PagesLeft, Cursor
  <2> QED BY <1>o, <2>1, <2>2, <2>3, <2>4, <2>5, TypeLoadStep
<1>4. CASE Appended(l)
  <2>1. /\ Loading(l) /\ tab' = [tab EXCEPT ![load[l].tab].hasMore = load[l].more]
        /\ \/ load' = [load EXCEPT ![l] = Idle("done")] /\ UNCHANGED cur
           \/ /\ load' = [load EXCEPT ![l].pc = "closing"]
              /\ cur' = [cur EXCEPT ![load[l].cur].conn = "closed"]
        /\ UNCHANGED <<wsVars, srcVars, run, rows, shown>>
    BY <1>4 DEF Appended, Loading
  <2>2. tab' \in [Tabs -> TabState]
    <3>1. load[l].more \in BOOLEAN
      BY <1>o DEF LoadState
    <3> QED BY <1>t, <2>1, <3>1 DEF TabState
  <2>3. CASE load' = [load EXCEPT ![l] = Idle("done")] /\ UNCHANGED cur
    <3>1. PagesLeft'
      BY <1>p, <2>3 DEF PagesLeft
    <3> HIDE DEF Idle
    <3> QED BY <1>c, <1>o, <2>1, <2>2, <2>3, <3>1, TypeLoadStep, DoneLoad
  <2>4. CASE /\ load' = [load EXCEPT ![l].pc = "closing"]
             /\ cur' = [cur EXCEPT ![load[l].cur].conn = "closed"]
    <3>1. PICK s \in LoadState : s.tab \in Tabs /\ s.cur \in Runs /\ s.grid \in Runs /\ load' = [load EXCEPT ![l] = s]
      BY <2>1, <2>4, NextLoadPc
    <3>2. cur' \in [Runs -> Cursor]
      BY <1>c, <2>4 DEF Cursor
    <3>3. PagesLeft'
      BY <1>c, <1>p, <2>4 DEF PagesLeft, Cursor
    <3> QED BY <1>o, <2>1, <2>2, <3>1, <3>2, <3>3, TypeLoadStep
  <2> QED BY <2>1, <2>3, <2>4
<1>5. CASE LoadClosed(l)
  <2>1. /\ tab' = [tab EXCEPT ![load[l].tab].cursor = None]
        /\ load' = [load EXCEPT ![l] = Idle("done")]
        /\ UNCHANGED <<wsVars, srcVars, run, cur, rows, shown>>
    BY <1>5 DEF LoadClosed
  <2>2. tab' \in [Tabs -> TabState]
    BY <1>t, <2>1 DEF TabState, MaybeRun
  <2>3. PagesLeft'
    BY <1>p, <2>1 DEF PagesLeft
  <2> HIDE DEF Idle
  <2> QED BY <1>c, <1>o, <2>1, <2>2, <2>3, TypeLoadStep, DoneLoad
<1>6. CASE LoadThrows(l)
  <2>1. /\ Loading(l) /\ Release({load[l].tab}) /\ load' = [load EXCEPT ![l] = Idle("done")]
        /\ UNCHANGED <<wsVars, srcVars, run, rows, shown>>
    BY <1>6 DEF LoadThrows, Loading
  <2>2. {load[l].tab} \in SUBSET Tabs
    BY <1>l, <2>1
  <2>3. tab' \in [Tabs -> TabState] /\ cur' \in [Runs -> Cursor] /\ PagesLeft'
    BY <1>t, <1>c, <1>p, <2>1, <2>2, ReleaseTypes
  <2> HIDE DEF Idle
  <2> QED BY <1>o, <2>1, <2>3, TypeLoadStep, DoneLoad
<1> QED BY <1>1, <1>2, <1>3, <1>4, <1>5, <1>6 DEF LoadStep

\* The steps of the user and of the page.
UserStep ==
    \/ Stop \/ Render
    \/ \E t \in Tabs : SwitchTab(t) \/ OpenTableData(t) \/ CloseTab(t) \/ SetConnection(t)
    \/ Disconnect \/ Disconnected

LEMMA TypeUserStep ==
  ASSUME TInv, open' \subseteq Tabs, fresh' \subseteq Tabs, active' \in MaybeTab, bound' \subseteq Tabs,
         pendingRun' \subseteq Tabs, server' \in {"up", "closing", "gone"},
         tab' \in [Tabs -> TabState], cur' \in [Runs -> Cursor], PagesLeft', cancelled' \subseteq Runs,
         shown' \in Display,
         UNCHANGED <<running, cts, run, rows, load>>
  PROVE  TInv'
<1>1. TypeOK'
  BY DEF TInv, TypeOK
<1>2. Captured'
  BY DEF TInv, Captured, Busy, Loading
<1> QED BY <1>1, <1>2 DEF TInv

LEMMA TypeUser ==
  ASSUME TInv, UserStep
  PROVE  TInv'
<1>0. /\ open \subseteq Tabs /\ fresh \subseteq Tabs /\ active \in MaybeTab /\ bound \subseteq Tabs
      /\ pendingRun \subseteq Tabs /\ server \in {"up", "closing", "gone"}
      /\ tab \in [Tabs -> TabState] /\ cur \in [Runs -> Cursor] /\ PagesLeft
      /\ cts \in MaybeRun /\ cancelled \subseteq Runs /\ shown \in Display /\ rows \in [Runs -> Seq(Page)]
  BY DEF TInv, TypeOK
<1>p. UNCHANGED cur => PagesLeft'
  BY <1>0 DEF PagesLeft
<1>1. CASE Stop
  <2>1. cancelled' \subseteq Runs /\ UNCHANGED <<wsVars, tab, running, cts, run, cur, rows, load, shown>>
    BY <1>0, <1>1 DEF Stop, MaybeRun
  <2> QED BY <1>0, <1>p, <2>1, TypeUserStep DEF wsVars
<1>2. CASE Render
  <2>1. Wanted \in Display
    <3>1. CASE ~HasGrid(active)
      BY <3>1 DEF Wanted, Blank, Display, MaybeRun
    <3>2. CASE HasGrid(active)
      <4> DEFINE t == tab[active]
      <4>1. active \in Tabs
        BY <1>0, <3>2 DEF HasGrid, MaybeTab
      <4>2. t \in TabState /\ t.grid # None
        BY <1>0, <3>2, <4>1 DEF HasGrid
      <4>3. t.grid \in Runs /\ t.hasMore \in BOOLEAN
        BY <4>2 DEF TabState, MaybeRun
      <4>4. rows[t.grid] \in Seq(Page)
        BY <1>0, <4>3
      <4>5. Wanted = [grid |-> t.grid, edit |-> t.editable # None, more |-> t.hasMore,
                      loading |-> FALSE, rows |-> rows[t.grid]]
        BY <3>2 DEF Wanted
      <4> HIDE DEF t
      <4> QED BY <4>3, <4>4, <4>5 DEF Display, MaybeRun
    <3> QED BY <3>1, <3>2
  <2>2. /\ shown' = IF Rebuilt THEN Wanted ELSE [shown EXCEPT !.more = Wanted.more]
        /\ UNCHANGED <<wsVars, tab, srcVars, run, cur, rows, load>>
    BY <1>2 DEF Render
  <2> HIDE DEF Wanted
  <2>3. shown' \in Display
    <3>1. Wanted.more \in BOOLEAN
      BY <2>1 DEF Display
    <3> QED BY <1>0, <2>1, <2>2, <3>1 DEF Display
  <2> QED BY <1>0, <1>p, <2>2, <2>3, TypeUserStep DEF wsVars, srcVars
<1>3. ASSUME NEW t \in Tabs, SwitchTab(t)
      PROVE  TInv'
  <2>1. active' \in MaybeTab /\ UNCHANGED <<open, fresh, bound, server, pendingRun, tab, srcVars, run, cur, rows, load, shown>>
    BY <1>3 DEF SwitchTab, MaybeTab
  <2> QED BY <1>0, <1>p, <2>1, TypeUserStep DEF srcVars
<1>4. ASSUME NEW t \in Tabs, OpenTableData(t)
      PROVE  TInv'
  <2>1. /\ open' \subseteq Tabs /\ fresh' \subseteq Tabs /\ active' \in MaybeTab /\ bound' \subseteq Tabs
        /\ pendingRun' \subseteq Tabs
        /\ UNCHANGED <<server, tab, srcVars, run, cur, rows, load, shown>>
    BY <1>0, <1>4 DEF OpenTableData, MaybeTab
  <2> QED BY <1>0, <1>p, <2>1, TypeUserStep DEF srcVars
<1>5. ASSUME NEW t \in Tabs, CloseTab(t)
      PROVE  TInv'
  <2>1. /\ open' \subseteq Tabs /\ active' \in MaybeTab /\ Release({t})
        /\ UNCHANGED <<fresh, bound, server, pendingRun, srcVars, run, rows, load, shown>>
    BY <1>0, <1>5 DEF CloseTab, Remove, MaybeTab
  <2>2. tab' \in [Tabs -> TabState] /\ cur' \in [Runs -> Cursor] /\ PagesLeft'
    <3>1. {t} \in SUBSET Tabs
      OBVIOUS
    <3> QED BY <1>0, <2>1, <3>1, ReleaseTypes
  <2> QED BY <1>0, <2>1, <2>2, TypeUserStep DEF srcVars
<1>6. ASSUME NEW t \in Tabs, SetConnection(t)
      PROVE  TInv'
  <2>1. bound' \subseteq Tabs /\ UNCHANGED <<open, fresh, active, server, pendingRun, tab, srcVars, run, cur, rows, load, shown>>
    BY <1>0, <1>6 DEF SetConnection
  <2> QED BY <1>0, <1>p, <2>1, TypeUserStep DEF srcVars
<1>7. CASE Disconnect
  <2>1. server' = "closing" /\ UNCHANGED <<open, fresh, active, bound, pendingRun, tab, srcVars, run, cur, rows, load, shown>>
    BY <1>7 DEF Disconnect
  <2> QED BY <1>0, <1>p, <2>1, TypeUserStep DEF srcVars
<1>8. CASE Disconnected
  <2>1. /\ server' = "gone" /\ bound' \subseteq Tabs /\ Release(bound \intersect open)
        /\ UNCHANGED <<open, fresh, active, pendingRun, srcVars, run, rows, load, shown>>
    BY <1>0, <1>8 DEF Disconnected
  <2>2. tab' \in [Tabs -> TabState] /\ cur' \in [Runs -> Cursor] /\ PagesLeft'
    <3>1. bound \intersect open \in SUBSET Tabs
      BY <1>0
    <3> QED BY <1>0, <2>1, <3>1, ReleaseTypes
  <2> QED BY <1>0, <2>1, <2>2, TypeUserStep DEF srcVars
<1> QED BY <1>1, <1>2, <1>3, <1>4, <1>5, <1>6, <1>7, <1>8 DEF UserStep

\* Every step is one of these.
LEMMA Steps ==
  ASSUME Next
  PROVE  (\E r \in Runs : RunStep(r)) \/ (\E l \in Loads : LoadStep(l)) \/ UserStep
BY DEF Next, RunStep, LoadStep, UserStep

LEMMA Typed == TInv /\ [Next]_vars => TInv'
<1> SUFFICES ASSUME TInv, [Next]_vars PROVE TInv'
  OBVIOUS
<1>1. CASE Next
  BY <1>1, Steps, TypeRun, TypeLoad, TypeUser
<1>2. CASE UNCHANGED vars
  BY <1>2 DEF TInv, TypeOK, Captured, PagesLeft, Busy, Loading, vars, wsVars, srcVars
<1> QED BY <1>1, <1>2

\* Every reachable state is well typed, whatever overlaps happen.
THEOREM TypeCorrect == Spec => []TypeOK
<1>1. TInv => TypeOK
  BY DEF TInv
<1> QED BY <1>1, TypeInit, Typed, PTL DEF Spec

----------------------------------------------------------------------------
(* Whatever overlaps happen, cursors are where they belong *)

\* A tab's cursor was published by a run that has had its first page.
Published ==
    \A t \in Tabs : tab[t].cursor # None =>
        Past(tab[t].cursor) /\ cur[tab[t].cursor].conn \in {"open", "closed"}

OneHolder == \A t, u \in Tabs : tab[t].cursor # None /\ tab[t].cursor = tab[u].cursor => t = u

\* A load fetches from a cursor that at most its own tab holds.
OwnLoads ==
    \A l \in Loads : Loading(l) =>
        /\ Past(load[l].cur)
        /\ \A t \in Tabs : tab[t].cursor = load[l].cur => t = load[l].tab

\* A load that has no more to come knows it from a cursor that has ended.
EndKnown ==
    \A l \in Loads : load[l].pc = "closing" \/ (load[l].pc = "appending" /\ ~load[l].more) =>
        cur[load[l].cur].atEnd

Owned == Published /\ OneHolder /\ OwnLoads /\ EndKnown /\ NoDangling

CInv == TInv /\ Owned

LEMMA OwnedInit == Init => Owned
<1> SUFFICES ASSUME Init PROVE Owned
  OBVIOUS
<1>1. \A t \in Tabs : tab[t].cursor = None
  BY DEF Init, EmptyTab
<1>2. \A l \in Loads : load[l].pc = "idle"
  BY DEF Init, Idle
<1> QED BY <1>1, <1>2 DEF Owned, Published, OneHolder, OwnLoads, EndKnown, NoDangling, Loading

\* Steps that close a cursor only as they take it from its tab, and end loads.
LEMMA OwnedStep ==
  ASSUME TInv, TInv', Owned,
         \A t \in Tabs : tab'[t].cursor \in {tab[t].cursor, None},
         \A r \in Runs : Past(r) => Past(r)' /\ cur'[r].atEnd = cur[r].atEnd
                                             /\ cur'[r].conn \in {cur[r].conn, "closed"},
         \A t \in Tabs : tab'[t].cursor # None => cur'[tab[t].cursor].conn = cur[tab[t].cursor].conn,
         \A l \in Loads : \/ load'[l] = load[l]
                          \/ /\ load'[l].pc = "done"
                             /\ load[l].pc = "closing" => tab'[load[l].tab].cursor = None
  PROVE  Owned'
<1>1. \A t \in Tabs : tab[t].cursor # None => tab[t].cursor \in Runs
  BY DEF TInv, TypeOK, TabState, MaybeRun
<1>2. \A l \in Loads : Loading(l) => load[l].cur \in Runs
  BY DEF TInv, Captured
<1>3. Published'
  BY <1>1 DEF Owned, Published
<1>4. OneHolder'
  BY DEF Owned, OneHolder
<1>5. OwnLoads'
  <2> SUFFICES ASSUME NEW l \in Loads, Loading(l)'
               PROVE  /\ Past(load[l].cur)'
                      /\ \A t \in Tabs : tab'[t].cursor = load'[l].cur => t = load'[l].tab
    BY DEF OwnLoads
  <2>1. load'[l] = load[l] /\ Loading(l)
    BY DEF Loading
  <2>2. load[l].cur \in Runs /\ Past(load[l].cur) /\ load[l].cur # None
    BY <1>2, <2>1, RunAssumption DEF Owned, OwnLoads
  <2> QED BY <2>1, <2>2 DEF Owned, OwnLoads, Past
<1>6. EndKnown'
  <2> SUFFICES ASSUME NEW l \in Loads, load'[l].pc = "closing" \/ (load'[l].pc = "appending" /\ ~load'[l].more)
               PROVE  cur'[load'[l].cur].atEnd
    BY DEF EndKnown
  <2>1. load'[l] = load[l] /\ Loading(l)
    BY DEF Loading
  <2> QED BY <1>2, <2>1 DEF Owned, OwnLoads, EndKnown
<1>7. NoDangling'
  <2> SUFFICES ASSUME NEW t \in Tabs, tab'[t].cursor # None, cur'[tab'[t].cursor].conn = "closed"
               PROVE  \E l \in Loads : load'[l].pc = "closing" /\ load'[l].tab = t /\ load'[l].cur = tab'[t].cursor
    BY DEF NoDangling
  <2>1. tab'[t].cursor = tab[t].cursor /\ cur[tab[t].cursor].conn = "closed"
    OBVIOUS
  <2>2. PICK l \in Loads : load[l].pc = "closing" /\ load[l].tab = t /\ load[l].cur = tab[t].cursor
    BY <2>1 DEF Owned, NoDangling
  <2> QED BY <2>1, <2>2
<1> QED BY <1>3, <1>4, <1>5, <1>6, <1>7 DEF Owned

\* What every proof below starts from.
LEMMA Shape ==
  ASSUME TInv
  PROVE  /\ tab \in [Tabs -> TabState] /\ run \in [Runs -> RunState] /\ cur \in [Runs -> Cursor]
         /\ load \in [Loads -> LoadState]
         /\ \A t \in Tabs : tab[t].cursor \in Runs \union {None}
         /\ \A r \in Runs : Busy(r) => run[r].tab \in Tabs
         /\ \A l \in Loads : Loading(l) => load[l].tab \in Tabs /\ load[l].cur \in Runs /\ load[l].grid \in Runs
         /\ None \notin Runs
BY RunAssumption DEF TInv, TypeOK, Captured, TabState, MaybeRun

\* A run that only changes itself, and a cursor it has not published.
LEMMA OwnedPrivate ==
  ASSUME TInv, TInv', Owned, NEW r \in Runs, Past(r) => Past(r)', \A q \in Runs \ {r} : run'[q] = run[q],
         \A q \in Runs \ {r} : cur'[q] = cur[q], Past(r) => cur'[r] = cur[r],
         \A t \in Tabs : tab'[t].cursor \in {tab[t].cursor, None},
         UNCHANGED load
  PROVE  Owned'
<1>1. \A q \in Runs : Past(q) => Past(q)' /\ cur'[q] = cur[q]
  BY DEF Past
<1>2. \A t \in Tabs : tab[t].cursor # None => tab[t].cursor \in Runs /\ Past(tab[t].cursor)
  BY Shape DEF Owned, Published
<1>3. cur' \in [Runs -> Cursor] /\ cur \in [Runs -> Cursor]
  BY DEF TInv, TypeOK
<1>4. \A t \in Tabs : tab'[t].cursor # None => cur'[tab[t].cursor].conn = cur[tab[t].cursor].conn
  BY <1>1, <1>2
<1> QED BY <1>1, <1>4, OwnedStep

LEMMA OwnedRelease ==
  ASSUME TInv, TInv', Owned, NEW ts \in SUBSET Tabs, Release(ts), UNCHANGED run,
         \A l \in Loads : load'[l] = load[l] \/ (load'[l].pc = "done" /\ load[l].pc # "closing")
  PROVE  Owned'
<1>1. tab \in [Tabs -> TabState] /\ cur \in [Runs -> Cursor] /\ PagesLeft
  BY DEF TInv, TypeOK
<1>2. /\ \A t \in Tabs : tab'[t] = IF t \in ts /\ tab[t].cursor # None
                                   THEN [tab[t] EXCEPT !.cursor = None, !.hasMore = FALSE] ELSE tab[t]
      /\ \A r \in Runs : /\ cur'[r].atEnd = cur[r].atEnd
                         /\ cur'[r].conn = IF \E t \in ts : tab[t].cursor # None /\ tab[t].cursor = r
                                           THEN "closed" ELSE cur[r].conn
  BY <1>1, ReleaseTypes
<1>3. \A t \in Tabs : tab'[t].cursor = IF t \in ts THEN None ELSE tab[t].cursor
  <2> SUFFICES ASSUME NEW t \in Tabs PROVE tab'[t].cursor = IF t \in ts THEN None ELSE tab[t].cursor
    OBVIOUS
  <2>1. tab[t] \in TabState
    BY <1>1
  <2>2. CASE t \in ts /\ tab[t].cursor # None
    <3>1. tab'[t] = [tab[t] EXCEPT !.cursor = None, !.hasMore = FALSE]
      BY <1>2, <2>2
    <3> QED BY <2>1, <2>2, <3>1 DEF TabState
  <2>3. CASE ~(t \in ts /\ tab[t].cursor # None)
    BY <1>2, <2>3
  <2> QED BY <2>2, <2>3
<1>4. \A t \in Tabs : tab[t].cursor # None => tab[t].cursor \in Runs
  BY Shape
<1>5. \A r \in Runs : Past(r) => Past(r)' /\ cur'[r].atEnd = cur[r].atEnd /\ cur'[r].conn \in {cur[r].conn, "closed"}
  BY <1>2 DEF Past
<1>6. \A t \in Tabs : tab'[t].cursor # None => cur'[tab[t].cursor].conn = cur[tab[t].cursor].conn
  <2> SUFFICES ASSUME NEW t \in Tabs, tab'[t].cursor # None
               PROVE  cur'[tab[t].cursor].conn = cur[tab[t].cursor].conn
    OBVIOUS
  <2>1. t \notin ts /\ tab[t].cursor # None /\ tab[t].cursor \in Runs
    BY <1>3, <1>4
  <2>2. ~\E u \in ts : tab[u].cursor # None /\ tab[u].cursor = tab[t].cursor
    BY <2>1 DEF Owned, OneHolder
  <2> QED BY <1>2, <2>1, <2>2
<1>7. \A t \in Tabs : tab'[t].cursor \in {tab[t].cursor, None}
  BY <1>3
<1> QED BY <1>5, <1>6, <1>7, OwnedStep

\* A result is cleared: the cursor a tab holds is closed, and the run is not past its first page.
LEMMA OwnedBegin ==
  ASSUME TInv, TInv', Owned, NEW r \in Runs, NEW t \in Tabs, Begin(r, t), ~Past(r)
  PROVE  Owned'
<1>1. \A q \in Runs \ {r} : run'[q] = run[q]
  BY Shape DEF Begin, CallOpen
<1>2. UNCHANGED load
  BY DEF Begin
<1>3. CASE tab[t].cursor = None
  <2>1. tab' = [tab EXCEPT ![t].grid = None, ![t].editable = None] /\ UNCHANGED cur
    BY <1>3 DEF Begin
  <2>2. \A u \in Tabs : tab'[u].cursor = tab[u].cursor
    <3>1. tab \in [Tabs -> TabState]
      BY Shape
    <3> QED BY <2>1, <3>1 DEF TabState
  <2> QED BY <1>1, <1>2, <2>1, <2>2, OwnedPrivate
<1>4. CASE tab[t].cursor # None
  <2> DEFINE c == tab[t].cursor
  <2>1. tab' = [tab EXCEPT ![t] = EmptyTab] /\ cur' = [cur EXCEPT ![c].conn = "closed"]
    BY <1>4 DEF Begin
  <2>2. c \in Runs
    BY <1>4, Shape
  <2>3. /\ \A u \in Tabs \ {t} : tab'[u] = tab[u]
        /\ tab'[t].cursor = None
    BY <2>1, Shape DEF EmptyTab
  <2>4. /\ \A q \in Runs \ {c} : cur'[q] = cur[q]
        /\ cur'[c].conn = "closed" /\ cur'[c].atEnd = cur[c].atEnd
    <3>1. cur \in [Runs -> Cursor]
      BY Shape
    <3> QED BY <2>1, <2>2, <3>1 DEF Cursor
  <2>5. \A u \in Tabs \ {t} : tab[u].cursor # None => tab[u].cursor \in Runs \ {c}
    BY <1>4, Shape DEF Owned, OneHolder
  <2> HIDE DEF c
  <2>6. \A q \in Runs : Past(q) => Past(q)' /\ cur'[q].atEnd = cur[q].atEnd /\ cur'[q].conn \in {cur[q].conn, "closed"}
    BY <1>1, <2>4 DEF Past
  <2>7. \A u \in Tabs : tab'[u].cursor \in {tab[u].cursor, None}
    BY <2>3
  <2>8. \A u \in Tabs : tab'[u].cursor # None => cur'[tab[u].cursor].conn = cur[tab[u].cursor].conn
    BY <2>3, <2>4, <2>5
  <2> QED BY <1>2, <2>6, <2>7, <2>8, OwnedStep
<1> QED BY <1>3, <1>4

LEMMA OwnedFirstPage ==
  ASSUME TInv, TInv', Owned, NEW r \in Runs, NEW more \in BOOLEAN, FirstPage(r, more)
  PROVE  Owned'
<1> DEFINE t == run[r].tab
<1>1. /\ t \in Tabs /\ run[r].pc = "fetching" /\ UNCHANGED load
      /\ tab' = [tab EXCEPT ![t].grid = r, ![t].hasMore = more, ![t].cursor = IF more THEN r ELSE @]
      /\ cur' = [cur EXCEPT ![r] = [conn |-> IF more THEN "open" ELSE "closed", sent |-> 1, atEnd |-> ~more]]
      /\ run' = [run EXCEPT ![r].pc = IF more THEN "analyzing" ELSE "drained"]
  BY Shape DEF FirstPage, Busy
<1>2. ~Past(r) /\ (more => Past(r)') /\ \A q \in Runs \ {r} : (Past(q) => Past(q)')
  BY <1>1, Shape DEF Past, RunState
<1>3. /\ \A q \in Runs \ {r} : cur'[q] = cur[q]
      /\ more => cur'[r].conn = "open"
  BY <1>1, Shape
<1>4. /\ \A u \in Tabs \ {t} : tab'[u].cursor = tab[u].cursor
      /\ tab'[t].cursor = IF more THEN r ELSE tab[t].cursor
  <2>1. tab \in [Tabs -> TabState]
    BY Shape
  <2> QED BY <1>1, <2>1 DEF TabState
<1> HIDE DEF t
<1>5. \A u \in Tabs : tab[u].cursor # None => tab[u].cursor \in Runs \ {r} /\ Past(tab[u].cursor)
  BY <1>2, Shape DEF Owned, Published
<1>6. \A l \in Loads : Loading(l) => load[l].cur \in Runs \ {r} /\ Past(load[l].cur)
  BY <1>2, Shape DEF Owned, OwnLoads
<1>7. Published'
  <2> SUFFICES ASSUME NEW u \in Tabs, tab'[u].cursor # None
               PROVE  /\ run'[tab'[u].cursor].pc \in {"analyzing", "recording", "done"}
                      /\ cur'[tab'[u].cursor].conn \in {"open", "closed"}
    BY DEF Published, Past
  <2>1. CASE tab'[u].cursor = tab[u].cursor
    <3>1. tab[u].cursor \in Runs \ {r} /\ Past(tab[u].cursor) /\ cur[tab[u].cursor].conn \in {"open", "closed"}
      BY <1>5, <2>1 DEF Owned, Published
    <3> QED BY <1>2, <1>3, <2>1, <3>1 DEF Past
  <2>2. CASE tab'[u].cursor # tab[u].cursor
    <3>1. tab'[u].cursor = r /\ more
      BY <1>4, <2>2
    <3> QED BY <1>2, <1>3, <3>1 DEF Past
  <2> QED BY <2>1, <2>2
<1>8. OneHolder'
  <2> SUFFICES ASSUME NEW u \in Tabs, NEW v \in Tabs, tab'[u].cursor # None, tab'[u].cursor = tab'[v].cursor
               PROVE  u = v
    BY DEF OneHolder
  <2>1. tab[u].cursor = tab[v].cursor /\ tab[u].cursor # None => u = v
    BY DEF Owned, OneHolder
  <2>2. \A w \in Tabs : tab'[w].cursor = tab[w].cursor \/ (w = t /\ tab'[w].cursor = r)
    BY <1>4
  <2>3. tab[u].cursor # r /\ tab[v].cursor # r
    <3>1. r # None
      BY Shape
    <3> QED BY <1>5, <3>1
  <2> QED BY <2>1, <2>2, <2>3
<1>9. OwnLoads'
  <2> SUFFICES ASSUME NEW l \in Loads, Loading(l)
               PROVE  /\ Past(load[l].cur)'
                      /\ \A u \in Tabs : tab'[u].cursor = load[l].cur => u = load[l].tab
    BY <1>1 DEF OwnLoads, Loading, Past
  <2>1. Past(load[l].cur)'
    BY <1>1, <1>2, <1>6 DEF Past
  <2>2. \A u \in Tabs : tab[u].cursor = load[l].cur => u = load[l].tab
    BY DEF Owned, OwnLoads
  <2>3. load[l].cur # r
    BY <1>6
  <2> QED BY <1>4, <2>1, <2>2, <2>3
<1>10. EndKnown'
  BY <1>1, <1>3, <1>6 DEF Owned, EndKnown, Loading
<1>11. NoDangling'
  <2> SUFFICES ASSUME NEW u \in Tabs, tab'[u].cursor # None, cur'[tab'[u].cursor].conn = "closed"
               PROVE  \E l \in Loads : load'[l].pc = "closing" /\ load'[l].tab = u /\ load'[l].cur = tab'[u].cursor
    BY DEF NoDangling
  <2>1. tab'[u].cursor = tab[u].cursor
    BY <1>1, <1>3, <1>4
  <2>2. cur[tab[u].cursor].conn = "closed"
    BY <1>3, <1>5, <2>1
  <2> QED BY <1>1, <2>1, <2>2 DEF Owned, NoDangling
<1> QED BY <1>7, <1>8, <1>9, <1>10, <1>11 DEF Owned

LEMMA OwnedRun ==
  ASSUME TInv, TInv', Owned, NEW r \in Runs, RunStep(r)
  PROVE  Owned'
<1>0. tab \in [Tabs -> TabState] /\ run \in [Runs -> RunState] /\ cur \in [Runs -> Cursor]
  BY Shape
<1>1. CASE StartRun(r)
  <2>1. /\ \A q \in Runs \ {r} : run'[q] = run[q]
        /\ ~Past(r) /\ UNCHANGED <<tab, cur, load>>
    BY <1>0, <1>1 DEF StartRun, Past
  <2> QED BY <2>1, OwnedPrivate
<1>2. CASE EditorAnswers(r)
  <2>1. ~Past(r)
    BY <1>2 DEF EditorAnswers, Past
  <2>2. CASE run' = [run EXCEPT ![r] = Resting("done")] /\ UNCHANGED <<tab, srcVars, cur, rows, load, shown>>
    <3>1. /\ \A q \in Runs \ {r} : run'[q] = run[q]
          /\ UNCHANGED <<tab, cur, load>>
      BY <1>0, <2>2
    <3> QED BY <2>1, <3>1, OwnedPrivate
  <2>3. CASE Begin(r, run[r].tab)
    <3>1. run[r].tab \in Tabs
      BY <1>2, Shape DEF EditorAnswers, Busy
    <3> QED BY <2>1, <2>3, <3>1, OwnedBegin
  <2> QED BY <1>2, <2>2, <2>3 DEF EditorAnswers
<1>3. CASE StartPendingRun(r)
  <2>1. active \in Tabs /\ Begin(r, active) /\ ~Past(r)
    BY <1>3 DEF StartPendingRun, Past, TInv, TypeOK
  <2> QED BY <2>1, OwnedBegin
<1>4. CASE Cleared(r)
  <2>1. /\ \A q \in Runs \ {r} : run'[q] = run[q]
        /\ ~Past(r) /\ UNCHANGED <<tab, cur, load>>
    BY <1>0, <1>4 DEF Cleared, CallOpen, Past
  <2> QED BY <2>1, OwnedPrivate
<1>5. ASSUME NEW hasFields \in BOOLEAN, Opened(r, hasFields)
      PROVE  Owned'
  <2>1. /\ \A q \in Runs \ {r} : run'[q] = run[q] /\ cur'[q] = cur[q]
        /\ ~Past(r) /\ UNCHANGED <<tab, load>>
    BY <1>0, <1>5 DEF Opened, Past
  <2> QED BY <2>1, OwnedPrivate
<1>c. ASSUME Caught(r)
      PROVE  /\ \A q \in Runs \ {r} : run'[q] = run[q]
             /\ Past(r)'
  <2>1. CASE run' = [run EXCEPT ![r] = Resting("done")]
    BY <1>0, <2>1 DEF Past, Resting
  <2>2. CASE run' = [run EXCEPT ![r].pc = "recording"]
    <3>1. run'[r].pc = "recording"
      BY <1>0, <2>2 DEF RunState
    <3> QED BY <1>0, <2>2, <3>1 DEF Past
  <2> QED BY <1>c, <2>1, <2>2 DEF Caught, Ended
<1>6. CASE OpenThrows(r)
  <2>1. Caught(r) /\ UNCHANGED <<tab, cur, load>>
    BY <1>6 DEF OpenThrows
  <2> QED BY <1>c, <2>1, OwnedPrivate
<1>7. ASSUME NEW more \in BOOLEAN, FirstPage(r, more)
      PROVE  Owned'
  BY <1>7, OwnedFirstPage
<1>8. CASE FirstPageThrows(r)
  <2>1. /\ \A q \in Runs \ {r} : run'[q] = run[q] /\ cur'[q] = cur[q]
        /\ ~Past(r) /\ UNCHANGED <<tab, load>>
    BY <1>0, <1>8 DEF FirstPageThrows, Past
  <2> QED BY <2>1, OwnedPrivate
<1>9. CASE Failed(r)
  <2>1. /\ Caught(r) /\ UNCHANGED <<cur, load>>
        /\ tab' = [tab EXCEPT ![run[r].tab].cursor = None, ![run[r].tab].hasMore = FALSE]
    BY <1>9 DEF Failed
  <2>2. \A t \in Tabs : tab'[t].cursor \in {tab[t].cursor, None}
    BY <1>0, <2>1 DEF TabState
  <2> QED BY <1>c, <2>1, <2>2, OwnedPrivate
<1>10. CASE Disposed(r)
  <2>1. /\ \A q \in Runs \ {r} : run'[q] = run[q]
        /\ Past(r)' /\ UNCHANGED <<tab, cur, load>>
    BY <1>0, <1>10 DEF Disposed, Past, RunState
  <2> QED BY <2>1, OwnedPrivate
<1>11. CASE Analyzed(r)
  <2>1. /\ \E verdict \in {r, None} : tab' = [tab EXCEPT ![run[r].tab].editable = verdict]
        /\ run' = [run EXCEPT ![r].pc = "recording"] /\ UNCHANGED <<cur, load>>
    BY <1>11 DEF Analyzed
  <2>2. \A q \in Runs \ {r} : run'[q] = run[q]
    BY <1>0, <2>1
  <2>3. Past(r)'
    BY <1>0, <2>1 DEF Past, RunState
  <2>4. \A t \in Tabs : tab'[t].cursor = tab[t].cursor
    BY <1>0, <2>1 DEF TabState
  <2> QED BY <2>1, <2>2, <2>3, <2>4, OwnedPrivate
<1>12. CASE Recorded(r)
  <2>1. Caught(r) /\ UNCHANGED <<tab, cur, load>>
    BY <1>12 DEF Recorded, Caught
  <2> QED BY <1>c, <2>1, OwnedPrivate
<1> QED BY <1>1, <1>2, <1>3, <1>4, <1>5, <1>6, <1>7, <1>8, <1>9, <1>10, <1>11, <1>12 DEF RunStep

\* A load closes the cursor it has come to the end of.
LEMMA OwnedClosing ==
  ASSUME TInv, TInv', Owned, NEW l \in Loads, Loading(l), cur[load[l].cur].atEnd,
         load' = [load EXCEPT ![l].pc = "closing"],
         cur' = [cur EXCEPT ![load[l].cur].conn = "closed"],
         \A t \in Tabs : tab'[t].cursor = tab[t].cursor,
         UNCHANGED run
  PROVE  Owned'
<1> DEFINE c == load[l].cur
<1>0. /\ c \in Runs /\ load \in [Loads -> LoadState] /\ cur \in [Runs -> Cursor]
      /\ \A t \in Tabs : tab[t].cursor \in Runs \union {None}
      /\ \A k \in Loads : Loading(k) => load[k].cur \in Runs
  BY Shape
<1>1. /\ \A k \in Loads \ {l} : load'[k] = load[k]
      /\ load'[l].pc = "closing" /\ load'[l].tab = load[l].tab /\ load'[l].cur = c
  BY <1>0 DEF LoadState
<1>2. /\ \A r \in Runs \ {c} : cur'[r] = cur[r]
      /\ cur'[c].conn = "closed" /\ cur'[c].atEnd = cur[c].atEnd
  BY <1>0 DEF Cursor
<1>3. \A t \in Tabs : tab[t].cursor = c => t = load[l].tab
  BY DEF Owned, OwnLoads
<1> HIDE DEF c
<1>4. Published'
  BY <1>0, <1>2 DEF Owned, Published, Past
<1>5. OneHolder'
  BY DEF Owned, OneHolder
<1>6. OwnLoads'
  <2> SUFFICES ASSUME NEW k \in Loads, Loading(k)'
               PROVE  /\ run'[load'[k].cur].pc \in {"analyzing", "recording", "done"}
                      /\ \A t \in Tabs : tab'[t].cursor = load'[k].cur => t = load'[k].tab
    BY DEF OwnLoads, Past
  <2>1. Loading(k) /\ load'[k].cur = load[k].cur /\ load'[k].tab = load[k].tab
    BY <1>1 DEF Loading, c
  <2> QED BY <2>1 DEF Owned, OwnLoads, Past
<1>7. EndKnown'
  <2> SUFFICES ASSUME NEW k \in Loads, load'[k].pc = "closing" \/ (load'[k].pc = "appending" /\ ~load'[k].more)
               PROVE  cur'[load'[k].cur].atEnd
    BY DEF EndKnown
  <2>1. CASE k = l
    BY <1>1, <1>2, <2>1 DEF c
  <2>2. CASE k # l
    <3>0. load'[k] = load[k] /\ Loading(k)
      BY <1>1, <2>2 DEF Loading
    <3>1. load[k].pc = "closing" \/ (load[k].pc = "appending" /\ ~load[k].more)
      BY <3>0
    <3>2. cur[load[k].cur].atEnd
      BY <3>1 DEF Owned, EndKnown
    <3>3. load[k].cur \in Runs
      BY <1>0, <3>0
    <3> QED BY <1>2, <3>0, <3>2, <3>3
  <2> QED BY <2>1, <2>2
<1>8. NoDangling'
  <2> SUFFICES ASSUME NEW t \in Tabs, tab[t].cursor # None, cur'[tab[t].cursor].conn = "closed"
               PROVE  \E k \in Loads : load'[k].pc = "closing" /\ load'[k].tab = t /\ load'[k].cur = tab[t].cursor
    BY DEF NoDangling
  <2>1. CASE tab[t].cursor = c
    BY <1>1, <1>3, <2>1
  <2>2. CASE tab[t].cursor # c
    <3>1. cur[tab[t].cursor].conn = "closed"
      BY <1>0, <1>2, <2>2
    <3>2. PICK k \in Loads : load[k].pc = "closing" /\ load[k].tab = t /\ load[k].cur = tab[t].cursor
      BY <3>1 DEF Owned, NoDangling
    <3>3. k # l
      BY <2>2, <3>2 DEF c
    <3> QED BY <1>1, <3>2, <3>3
  <2> QED BY <2>1, <2>2
<1> QED BY <1>4, <1>5, <1>6, <1>7, <1>8 DEF Owned

LEMMA OwnedLoad ==
  ASSUME TInv, TInv', Owned, NEW l \in Loads, LoadStep(l)
  PROVE  Owned'
<1>0. /\ tab \in [Tabs -> TabState] /\ cur \in [Runs -> Cursor] /\ load \in [Loads -> LoadState]
      /\ \A t \in Tabs : tab[t].cursor \in Runs \union {None}
      /\ \A k \in Loads : Loading(k) => load[k].tab \in Tabs /\ load[k].cur \in Runs
      /\ None \notin Runs
  BY Shape
<1>1. CASE Scroll(l)
  <2>1. LoadMore(l) /\ load[l].pc = "idle" /\ UNCHANGED <<tab, run, cur>>
    BY <1>1 DEF Scroll
  <2>2. CASE UNCHANGED load
    BY <2>1, <2>2 DEF Owned, Published, OneHolder, OwnLoads, EndKnown, NoDangling, Past, Loading
  <2>3. CASE /\ HasGrid(active) /\ tab[active].cursor # None
             /\ load' = [load EXCEPT ![l] = [pc |-> "fetching", tab |-> active, cur |-> tab[active].cursor,
                                             grid |-> tab[active].grid, more |-> FALSE]]
    <3> DEFINE c == tab[active].cursor
    <3>1. active \in Tabs /\ c # None
      BY <2>3 DEF HasGrid, TInv, TypeOK, MaybeTab
    <3>2. /\ \A k \in Loads \ {l} : load'[k] = load[k]
          /\ load'[l].pc = "fetching" /\ load'[l].tab = active /\ load'[l].cur = c
      BY <1>0, <2>3
    <3> HIDE DEF c
    <3>3. Published' /\ OneHolder'
      BY <2>1 DEF Owned, Published, OneHolder, Past
    <3>4. OwnLoads'
      <4>1. Past(c) /\ \A t \in Tabs : tab[t].cursor = c => t = active
        BY <3>1 DEF c, Owned, Published, OneHolder
      <4> QED BY <2>1, <3>2, <4>1 DEF Owned, OwnLoads, Loading, Past
    <3>5. EndKnown'
      BY <2>1, <3>2 DEF Owned, EndKnown
    <3>6. NoDangling'
      BY <2>1, <3>2 DEF Owned, NoDangling
    <3> QED BY <3>3, <3>4, <3>5, <3>6 DEF Owned
  <2> QED BY <2>1, <2>2, <2>3 DEF LoadMore
<1>2. ASSUME NEW more \in BOOLEAN, NextPage(l, more)
      PROVE  Owned'
  <2> DEFINE c == load[l].cur
  <2>1. /\ Loading(l) /\ load[l].pc = "fetching" /\ c \in Runs
        /\ cur' = [cur EXCEPT ![c].sent = @ + 1, ![c].atEnd = ~more]
        /\ load' = [load EXCEPT ![l].pc = "appending", ![l].more = more]
        /\ ~cur[c].atEnd /\ UNCHANGED <<tab, run>>
    BY <1>0, <1>2 DEF NextPage, Loading
  <2>2. /\ \A k \in Loads \ {l} : load'[k] = load[k]
        /\ load'[l].pc = "appending" /\ load'[l].tab = load[l].tab /\ load'[l].cur = c /\ load'[l].more = more
    BY <1>0, <2>1 DEF LoadState
  <2>3. /\ \A r \in Runs \ {c} : cur'[r] = cur[r]
        /\ cur'[c].conn = cur[c].conn /\ cur'[c].atEnd = ~more
    BY <1>0, <2>1 DEF Cursor
  <2>t. UNCHANGED tab
    BY <2>1
  <2> HIDE DEF c
  <2>4. \A r \in Runs : cur'[r].conn = cur[r].conn
    BY <2>3
  <2>5. Published' /\ OneHolder'
    BY <1>0, <2>1, <2>4 DEF Owned, Published, OneHolder, Past
  <2>6. OwnLoads'
    <3> SUFFICES ASSUME NEW k \in Loads, Loading(k)'
                 PROVE  /\ run'[load'[k].cur].pc \in {"analyzing", "recording", "done"}
                        /\ \A t \in Tabs : tab'[t].cursor = load'[k].cur => t = load'[k].tab
      BY DEF OwnLoads, Past
    <3>1. Loading(k) /\ load'[k].cur = load[k].cur /\ load'[k].tab = load[k].tab
      BY <2>1, <2>2 DEF Loading, c
    <3>2. Past(load[k].cur) /\ \A t \in Tabs : tab[t].cursor = load[k].cur => t = load[k].tab
      BY <3>1 DEF Owned, OwnLoads
    <3>3. UNCHANGED run
      BY <2>1
    <3> QED BY <2>t, <3>1, <3>2, <3>3 DEF Past
  <2>7. EndKnown'
    <3> SUFFICES ASSUME NEW k \in Loads, load'[k].pc = "closing" \/ (load'[k].pc = "appending" /\ ~load'[k].more)
                 PROVE  cur'[load'[k].cur].atEnd
      BY DEF EndKnown
    <3>1. CASE k = l
      BY <2>2, <2>3, <3>1
    <3>2. CASE k # l
      <4>1. load'[k] = load[k] /\ Loading(k)
        BY <2>2, <3>2 DEF Loading
      <4>2. load[k].cur \in Runs /\ cur[load[k].cur].atEnd
        BY <1>0, <4>1 DEF Owned, EndKnown
      <4> QED BY <2>1, <2>3, <4>1, <4>2
    <3> QED BY <3>1, <3>2
  <2>8. NoDangling'
    <3> SUFFICES ASSUME NEW t \in Tabs, tab[t].cursor # None, cur'[tab[t].cursor].conn = "closed"
                 PROVE  \E k \in Loads : load'[k].pc = "closing" /\ load'[k].tab = t /\ load'[k].cur = tab[t].cursor
      BY <2>t DEF NoDangling
    <3>1. cur[tab[t].cursor].conn = "closed"
      BY <1>0, <2>4
    <3>2. PICK k \in Loads : load[k].pc = "closing" /\ load[k].tab = t /\ load[k].cur = tab[t].cursor
      BY <3>1 DEF Owned, NoDangling
    <3>3. k # l
      BY <2>1, <3>2
    <3> QED BY <2>2, <3>2, <3>3
  <2> QED BY <2>5, <2>6, <2>7, <2>8 DEF Owned
<1>3. CASE NoPage(l)
  <2>1. /\ Loading(l) /\ cur[load[l].cur].atEnd
        /\ load' = [load EXCEPT ![l].pc = "closing"]
        /\ tab' = [tab EXCEPT ![load[l].tab].hasMore = FALSE]
        /\ cur' = [cur EXCEPT ![load[l].cur].conn = "closed"]
        /\ UNCHANGED run
    BY <1>3 DEF NoPage, Loading
  <2>2. \A t \in Tabs : tab'[t].cursor = tab[t].cursor
    BY <1>0, <2>1 DEF TabState
  <2> QED BY <2>1, <2>2, OwnedClosing
<1>4. CASE Appended(l)
  <2>1. /\ Loading(l) /\ load[l].pc = "appending"
        /\ tab' = [tab EXCEPT ![load[l].tab].hasMore = load[l].more]
        /\ UNCHANGED run
    BY <1>4 DEF Appended, Loading
  <2>2. \A t \in Tabs : tab'[t].cursor = tab[t].cursor
    BY <1>0, <2>1 DEF TabState
  <2>3. CASE load[l].more
    <3>1. load' = [load EXCEPT ![l] = Idle("done")] /\ UNCHANGED cur
      BY <1>4, <2>3 DEF Appended
    <3>2. /\ \A k \in Loads \ {l} : load'[k] = load[k]
          /\ load'[l].pc = "done"
      BY <1>0, <3>1 DEF Idle
    <3> QED BY <2>1, <2>2, <3>1, <3>2, OwnedStep DEF Past
  <2>4. CASE ~load[l].more
    <3>1. /\ load' = [load EXCEPT ![l].pc = "closing"]
          /\ cur' = [cur EXCEPT ![load[l].cur].conn = "closed"]
      BY <1>4, <2>4 DEF Appended
    <3>2. cur[load[l].cur].atEnd
      BY <2>1, <2>4 DEF Owned, EndKnown
    <3> QED BY <2>1, <2>2, <3>1, <3>2, OwnedClosing
  <2> QED BY <2>3, <2>4
<1>5. CASE LoadClosed(l)
  <2>1. /\ tab' = [tab EXCEPT ![load[l].tab].cursor = None]
        /\ load' = [load EXCEPT ![l] = Idle("done")]
        /\ UNCHANGED <<run, cur>> /\ load[l].tab \in Tabs
    BY <1>0, <1>5 DEF LoadClosed, Loading
  <2>2. /\ \A t \in Tabs : tab'[t].cursor \in {tab[t].cursor, None}
        /\ tab'[load[l].tab].cursor = None
    BY <1>0, <2>1 DEF TabState
  <2>3. /\ \A k \in Loads \ {l} : load'[k] = load[k]
        /\ load'[l].pc = "done"
    BY <1>0, <2>1 DEF Idle
  <2> QED BY <2>1, <2>2, <2>3, OwnedStep DEF Past
<1>6. CASE LoadThrows(l)
  <2>1. /\ Loading(l) /\ load[l].pc # "closing" /\ Release({load[l].tab})
        /\ load' = [load EXCEPT ![l] = Idle("done")] /\ UNCHANGED run
    BY <1>6 DEF LoadThrows, Loading
  <2>2. {load[l].tab} \in SUBSET Tabs
    BY <1>0, <2>1
  <2>3. /\ \A k \in Loads \ {l} : load'[k] = load[k]
        /\ load'[l].pc = "done"
    BY <1>0, <2>1 DEF Idle
  <2> QED BY <2>1, <2>2, <2>3, OwnedRelease
<1> QED BY <1>1, <1>2, <1>3, <1>4, <1>5, <1>6 DEF LoadStep

LEMMA OwnedUser ==
  ASSUME TInv, TInv', Owned, UserStep
  PROVE  Owned'
<1>1. CASE UNCHANGED <<tab, run, cur, load>>
  BY <1>1 DEF Owned, Published, OneHolder, OwnLoads, EndKnown, NoDangling, Past, Loading
<1>2. CASE \E ts \in SUBSET Tabs : Release(ts) /\ UNCHANGED <<run, load>>
  BY <1>2, OwnedRelease
<1>3. ASSUME NEW t \in Tabs, CloseTab(t)
      PROVE  \E ts \in SUBSET Tabs : Release(ts) /\ UNCHANGED <<run, load>>
  <2>1. Release({t}) /\ UNCHANGED <<run, load>> /\ {t} \in SUBSET Tabs
    BY <1>3 DEF CloseTab, Remove
  <2> QED BY <2>1
<1>4. ASSUME Disconnected
      PROVE  \E ts \in SUBSET Tabs : Release(ts) /\ UNCHANGED <<run, load>>
  <2>1. Release(bound \intersect open) /\ UNCHANGED <<run, load>> /\ bound \intersect open \in SUBSET Tabs
    BY <1>4 DEF Disconnected, TInv, TypeOK
  <2> QED BY <2>1
<1>5. ASSUME Stop \/ Render \/ Disconnect \/ \E t \in Tabs : SwitchTab(t) \/ OpenTableData(t) \/ SetConnection(t)
      PROVE  UNCHANGED <<tab, run, cur, load>>
  BY <1>5 DEF Stop, Render, Disconnect, SwitchTab, OpenTableData, SetConnection
<1> QED BY <1>1, <1>2, <1>3, <1>4, <1>5 DEF UserStep

LEMMA Kept == CInv /\ [Next]_vars => CInv'
<1> SUFFICES ASSUME CInv, [Next]_vars PROVE CInv'
  OBVIOUS
<1>1. TInv /\ TInv' /\ Owned
  BY Typed DEF CInv
<1>2. CASE Next
  <2>1. Owned'
    BY <1>1, <1>2, Steps, OwnedRun, OwnedLoad, OwnedUser
  <2> QED BY <1>1, <2>1 DEF CInv
<1>3. CASE UNCHANGED vars
  <2>1. UNCHANGED <<tab, run, cur, load>>
    BY <1>3 DEF vars
  <2>2. Owned'
    BY <1>1, <2>1 DEF Owned, Published, OneHolder, OwnLoads, EndKnown, NoDangling, Past, Loading
  <2> QED BY <1>1, <2>2 DEF CInv
<1> QED BY <1>2, <1>3

\* DisposeCursorAsync, LoadMoreAsync and the workspace: whatever overlaps happen, a tab keeps a
\* disposed cursor only while a load of that tab is about to clear it.
THEOREM CursorsNotLeftBehind == Spec => []NoDangling
<1>1. Init => CInv
  BY TypeInit, OwnedInit DEF CInv
<1>2. CInv => NoDangling
  BY DEF CInv, Owned
<1> QED BY <1>1, <1>2, Kept, PTL DEF Spec

\* LoadMoreAsync: whatever overlaps happen, no fetch begins on a disposed reader that has not
\* come to its end.
THEOREM LoadsFetchAlive == Spec => FetchesAlive
<1> DEFINE Alive == \A l \in Loads : load[l].pc = "idle" /\ load'[l].pc = "fetching" =>
                        cur[load'[l].cur].conn = "open" \/ cur[load'[l].cur].atEnd
<1>1. Init => CInv
  BY TypeInit, OwnedInit DEF CInv
<1>2. CInv /\ [Next]_vars => [Alive]_vars
  <2> SUFFICES ASSUME CInv, Next, NEW l \in Loads, load[l].pc = "idle", load'[l].pc = "fetching"
               PROVE  cur[load'[l].cur].conn = "open" \/ cur[load'[l].cur].atEnd
    BY DEF CInv
  <2>1. TInv /\ Owned
    BY DEF CInv
  <2>2. PICK k \in Loads : LoadStep(k)
    <3>1. \A r \in Runs : RunStep(r) => UNCHANGED load
      BY DEF RunStep, StartRun, EditorAnswers, StartPendingRun, Begin, Cleared, Opened, OpenThrows, FirstPage,
             FirstPageThrows, Failed, Disposed, Analyzed, Recorded
    <3>2. UserStep => UNCHANGED load
      BY DEF UserStep, Stop, Render, SwitchTab, OpenTableData, CloseTab, Remove, SetConnection, Disconnect,
             Disconnected
    <3> QED BY <3>1, <3>2, Steps
  <2>3. load \in [Loads -> LoadState] /\ \A q \in Loads : Loading(q) => load[q].cur \in Runs
    BY <2>1, Shape
  <2>4. Scroll(l)
    <3>1. load'[k].pc \in {"appending", "closing", "done"} \/ Scroll(k)
      BY <2>2, <2>3 DEF LoadStep, NextPage, NoPage, Appended, LoadClosed, LoadThrows, Idle, LoadState
    <3>2. k = l
      BY <2>2, <2>3 DEF LoadStep, Scroll, LoadMore, NextPage, NoPage, Appended, LoadClosed, LoadThrows
    <3> QED BY <3>1, <3>2
  <2>5. active \in Tabs /\ tab[active].cursor # None /\ load'[l].cur = tab[active].cursor
    <3>1. LoadMore(l)
      BY <2>4 DEF Scroll
    <3>2. /\ HasGrid(active) /\ tab[active].cursor # None
          /\ load' = [load EXCEPT ![l] = [pc |-> "fetching", tab |-> active, cur |-> tab[active].cursor,
                                          grid |-> tab[active].grid, more |-> FALSE]]
      BY <3>1 DEF LoadMore
    <3>3. active \in Tabs
      BY <2>1, <3>2 DEF HasGrid, TInv, TypeOK, MaybeTab
    <3> QED BY <2>3, <3>2, <3>3
  <2>6. cur[tab[active].cursor].conn \in {"open", "closed"}
    BY <2>1, <2>5 DEF Owned, Published
  <2>7. cur[tab[active].cursor].conn = "closed" => cur[tab[active].cursor].atEnd
    BY <2>1, <2>5 DEF Owned, NoDangling, EndKnown
  <2> QED BY <2>5, <2>6, <2>7
<1>3. [][Alive]_vars => FetchesAlive
  BY PTL DEF FetchesAlive
<1> QED BY <1>1, <1>2, <1>3, Kept, PTL DEF Spec

----------------------------------------------------------------------------
(* With one run at a time, the fields that all runs share are the run's own *)

OneAtATime == "run while running" \notin Allowed

\* Waiting(r): run r has cleared its tab and has no result yet.
Waiting(r) == run[r].pc \in {"clearing", "opening", "fetching"}

\* A run in flight that has begun owns the shared fields, and its tab shows nothing but its result.
RunFits(r) ==
    /\ Waiting(r) => running
    /\ AtServer(r) => cts = r /\ run[r].tok = r
    /\ Waiting(r) => /\ tab[run[r].tab].grid = None /\ tab[run[r].tab].editable = None
                     /\ tab[run[r].tab].cursor = None
    /\ run[r].pc \in {"drained", "analyzing"} => tab[run[r].tab].grid = r

\* A tab's editability and cursor are those of its grid.
Fits(s) ==
    /\ s.editable # None => s.editable = s.grid
    /\ s.cursor # None /\ s.grid # None => s.cursor = s.grid

OneRun == \A q, r \in Runs : Busy(q) /\ Busy(r) => q = r

OInv ==
    /\ OneRun
    /\ \A r \in Runs : RunFits(r)
    /\ \A t \in Tabs : Fits(tab[t])

LEMMA OneInit == Init => OInv
<1> SUFFICES ASSUME Init PROVE OInv
  OBVIOUS
<1>1. \A r \in Runs : run[r].pc = "idle"
  BY DEF Init, Resting
<1>2. \A t \in Tabs : tab[t].editable = None /\ tab[t].cursor = None
  BY DEF Init, EmptyTab
<1> QED BY <1>1, <1>2 DEF OInv, OneRun, RunFits, Fits, Busy, AtServer, Waiting

\* A run that begins or goes on is the only one.
LEMMA Alone ==
  ASSUME OneAtATime, OInv, NEW r \in Runs, Busy(r) \/ MayStart
  PROVE  \A q \in Runs \ {r} : ~Busy(q)
<1>1. CASE Busy(r)
  BY <1>1 DEF OInv, OneRun
<1>2. CASE MayStart
  <2>1. ~\E q \in Runs : Busy(q)
    BY <1>2, Zenon DEF MayStart, May, OneAtATime
  <2> QED BY <2>1
<1> QED BY <1>1, <1>2

\* A step of the only run, which touches only its own tab.
LEMMA OneStep ==
  ASSUME OInv, NEW r \in Runs, NEW t \in Tabs,
         \A q \in Runs \ {r} : run'[q] = run[q] /\ ~Busy(q),
         \A u \in Tabs \ {t} : tab'[u] = tab[u],
         RunFits(r)', Fits(tab'[t])
  PROVE  OInv'
<1>1. \A q \in Runs \ {r} : ~Busy(q)'
  BY DEF Busy
<1>2. OneRun'
  BY <1>1 DEF OneRun
<1>3. ASSUME NEW q \in Runs \ {r} PROVE RunFits(q)'
  BY <1>1 DEF RunFits, Busy, AtServer, Waiting
<1>4. \A u \in Tabs \ {t} : Fits(tab'[u])
  BY DEF OInv, Fits
<1> QED BY <1>2, <1>3, <1>4 DEF OInv

\* A step of the only run that leaves it neither waiting nor showing.
LEMMA OneQuiet ==
  ASSUME TInv, TInv', OInv, NEW r \in Runs,
         \A q \in Runs \ {r} : run'[q] = run[q] /\ ~Busy(q),
         run'[r].pc \in {"idle", "flush", "failing", "unneeded", "recording", "done"},
         \A u \in Tabs : /\ tab'[u].grid = tab[u].grid
                         /\ tab'[u].editable = tab[u].editable \/ tab'[u].editable = tab[u].grid
                         /\ tab'[u].cursor \in {tab[u].cursor, None}
  PROVE  OInv'
<1>1. \A q \in Runs \ {r} : ~Busy(q)'
  BY DEF Busy
<1>2. OneRun'
  BY <1>1 DEF OneRun
<1>3. ASSUME NEW q \in Runs \ {r} PROVE RunFits(q)'
  BY <1>1 DEF RunFits, Busy, AtServer, Waiting
<1>4. RunFits(r)'
  BY DEF RunFits, AtServer, Waiting
<1>5. \A u \in Tabs : Fits(tab'[u])
  BY DEF OInv, Fits
<1> QED BY <1>2, <1>3, <1>4, <1>5 DEF OInv

\* Nobody's run moves, and cursors can only leave their tabs.
LEMMA OneFrame ==
  ASSUME TInv, OInv, UNCHANGED <<run, running, cts>>,
         \A u \in Tabs : /\ tab'[u].grid = tab[u].grid /\ tab'[u].editable = tab[u].editable
                         /\ tab'[u].cursor \in {tab[u].cursor, None}
  PROVE  OInv'
<1>1. OneRun'
  BY DEF OInv, OneRun, Busy
<1>2. ASSUME NEW r \in Runs PROVE RunFits(r)'
  <2>1. RunFits(r)
    BY DEF OInv
  <2>2. Busy(r) => run[r].tab \in Tabs
    BY Shape
  <2>3. Waiting(r)' = Waiting(r) /\ AtServer(r)' = AtServer(r) /\ (Waiting(r) => Busy(r))
    BY DEF Waiting, AtServer, Busy
  <2> QED BY <2>1, <2>2, <2>3 DEF RunFits, Busy
<1>3. \A t \in Tabs : Fits(tab'[t])
  BY DEF OInv, Fits
<1> QED BY <1>1, <1>2, <1>3 DEF OInv

LEMMA OneBegin ==
  ASSUME TInv, OInv, NEW r \in Runs, NEW t \in Tabs, Begin(r, t), \A q \in Runs \ {r} : ~Busy(q)
  PROVE  OInv'
<1>0. tab \in [Tabs -> TabState] /\ run \in [Runs -> RunState]
  BY Shape
<1>1. CASE tab[t].cursor = None
  <2>1. /\ running' = TRUE /\ cts' = r
        /\ tab' = [tab EXCEPT ![t].grid = None, ![t].editable = None]
        /\ run' = [run EXCEPT ![r] = [pc |-> "opening", tab |-> t, tok |-> r]]
    BY <1>1 DEF Begin, CallOpen
  <2>2. \A u \in Tabs \ {t} : tab'[u] = tab[u]
    BY <1>0, <2>1
  <2>3. tab'[t].grid = None /\ tab'[t].editable = None /\ tab'[t].cursor = None
    BY <1>0, <1>1, <2>1 DEF TabState
  <2>4. /\ \A q \in Runs \ {r} : run'[q] = run[q]
        /\ run'[r].pc = "opening" /\ run'[r].tab = t /\ run'[r].tok = r
    BY <1>0, <2>1
  <2>5. RunFits(r)'
    BY <2>1, <2>3, <2>4 DEF RunFits
  <2>6. Fits(tab'[t])
    BY <2>3 DEF Fits
  <2> QED BY <2>2, <2>4, <2>5, <2>6, OneStep
<1>2. CASE tab[t].cursor # None
  <2>1. /\ running' = TRUE
        /\ tab' = [tab EXCEPT ![t] = EmptyTab]
        /\ run' = [run EXCEPT ![r] = [pc |-> "clearing", tab |-> t, tok |-> None]]
    BY <1>2 DEF Begin
  <2>2. \A u \in Tabs \ {t} : tab'[u] = tab[u]
    BY <1>0, <2>1
  <2>3. tab'[t].grid = None /\ tab'[t].editable = None /\ tab'[t].cursor = None
    BY <1>0, <2>1 DEF EmptyTab
  <2>4. /\ \A q \in Runs \ {r} : run'[q] = run[q]
        /\ run'[r].pc = "clearing" /\ run'[r].tab = t
    BY <1>0, <2>1
  <2>5. RunFits(r)'
    BY <2>1, <2>3, <2>4 DEF RunFits, AtServer
  <2>6. Fits(tab'[t])
    BY <2>3 DEF Fits
  <2> QED BY <2>2, <2>4, <2>5, <2>6, OneStep
<1> QED BY <1>1, <1>2

LEMMA OneFirstPage ==
  ASSUME TInv, TInv', OInv, NEW r \in Runs, NEW more \in BOOLEAN, FirstPage(r, more), \A q \in Runs \ {r} : ~Busy(q)
  PROVE  OInv'
<1> DEFINE t == run[r].tab
<1>0. tab \in [Tabs -> TabState] /\ run \in [Runs -> RunState] /\ t \in Tabs
  BY Shape DEF FirstPage, Busy
<1>1. /\ run[r].pc = "fetching"
      /\ tab' = [tab EXCEPT ![t].grid = r, ![t].hasMore = more, ![t].cursor = IF more THEN r ELSE @]
      /\ run' = [run EXCEPT ![r].pc = IF more THEN "analyzing" ELSE "drained"]
  BY DEF FirstPage
<1>2. tab[t].editable = None /\ tab[t].cursor = None
  BY <1>1 DEF OInv, RunFits, Waiting
<1>3. /\ \A u \in Tabs \ {t} : tab'[u] = tab[u]
      /\ tab'[t].grid = r /\ tab'[t].editable = tab[t].editable
      /\ tab'[t].cursor = IF more THEN r ELSE tab[t].cursor
  BY <1>0, <1>1 DEF TabState
<1>4. /\ \A q \in Runs \ {r} : run'[q] = run[q]
      /\ run'[r].pc \in {"analyzing", "drained"} /\ run'[r].tab = t
  BY <1>0, <1>1 DEF RunState
<1> HIDE DEF t
<1>5. RunFits(r)'
  BY <1>3, <1>4 DEF RunFits, AtServer, Waiting
<1>6. Fits(tab'[t])
  BY <1>2, <1>3 DEF Fits
<1> QED BY <1>0, <1>3, <1>4, <1>5, <1>6, OneStep

\* A run that ends, or goes on to record its error.
LEMMA OneCaught ==
  ASSUME TInv, NEW r \in Runs, Caught(r)
  PROVE  /\ \A q \in Runs \ {r} : run'[q] = run[q]
         /\ run'[r].pc \in {"recording", "done"}
<1>0. run \in [Runs -> RunState]
  BY Shape
<1>1. CASE run' = [run EXCEPT ![r] = Resting("done")]
  BY <1>0, <1>1 DEF Resting
<1>2. CASE run' = [run EXCEPT ![r].pc = "recording"]
  BY <1>0, <1>2 DEF RunState
<1> QED BY <1>1, <1>2 DEF Caught, Ended

LEMMA OneRunStep ==
  ASSUME OneAtATime, TInv, TInv', OInv, NEW r \in Runs, RunStep(r)
  PROVE  OInv'
<1>0. /\ tab \in [Tabs -> TabState] /\ run \in [Runs -> RunState]
      /\ Busy(r) => run[r].tab \in Tabs
  BY Shape
<1>a. \A q \in Runs \ {r} : ~Busy(q)
  <2>1. Busy(r) \/ MayStart
    BY DEF RunStep, Busy, StartRun, EditorAnswers, StartPendingRun, Cleared, Opened, OpenThrows, FirstPage,
           FirstPageThrows, Failed, Disposed, Analyzed, Recorded
  <2> QED BY <2>1, Alone
<1>f. RunFits(r)
  BY DEF OInv
<1>1. CASE StartRun(r)
  <2>1. /\ \A q \in Runs \ {r} : run'[q] = run[q]
        /\ run'[r].pc = "flush" /\ UNCHANGED tab
    BY <1>0, <1>1 DEF StartRun, RunState
  <2> QED BY <1>a, <2>1, OneQuiet
<1>2. CASE EditorAnswers(r)
  <2>1. CASE run' = [run EXCEPT ![r] = Resting("done")] /\ UNCHANGED <<tab, srcVars, cur, rows, load, shown>>
    <3>1. /\ \A q \in Runs \ {r} : run'[q] = run[q]
          /\ run'[r].pc = "done" /\ UNCHANGED tab
      BY <1>0, <2>1 DEF Resting
    <3> QED BY <1>a, <3>1, OneQuiet
  <2>2. CASE Begin(r, run[r].tab)
    <3>1. run[r].tab \in Tabs
      BY <1>0, <1>2 DEF EditorAnswers, Busy
    <3> QED BY <1>a, <2>2, <3>1, OneBegin
  <2> QED BY <1>2, <2>1, <2>2 DEF EditorAnswers
<1>3. CASE StartPendingRun(r)
  <2>1. active \in Tabs /\ Begin(r, active)
    BY <1>3 DEF StartPendingRun, TInv, TypeOK
  <2> QED BY <1>a, <2>1, OneBegin
<1>4. CASE Cleared(r)
  <2>1. /\ run[r].pc = "clearing" /\ run[r].tab \in Tabs /\ cts' = r /\ UNCHANGED <<tab, running>>
        /\ run' = [run EXCEPT ![r] = [pc |-> "opening", tab |-> run[r].tab, tok |-> r]]
    BY <1>0, <1>4 DEF Cleared, CallOpen, Busy
  <2>2. /\ \A q \in Runs \ {r} : run'[q] = run[q]
        /\ run'[r].pc = "opening" /\ run'[r].tab = run[r].tab /\ run'[r].tok = r
    BY <1>0, <2>1
  <2>3. RunFits(r)'
    BY <1>f, <2>1, <2>2 DEF RunFits, Waiting
  <2>4. Fits(tab'[run[r].tab])
    BY <2>1 DEF OInv, Fits
  <2> QED BY <1>a, <2>1, <2>2, <2>3, <2>4, OneStep
<1>5. ASSUME NEW hasFields \in BOOLEAN, Opened(r, hasFields)
      PROVE  OInv'
  <2>1. run[r].pc = "opening" /\ run[r].tab \in Tabs /\ UNCHANGED <<tab, running, cts>>
    BY <1>0, <1>5 DEF Opened, srcVars, Busy
  <2>2. CASE hasFields /\ cts # None
    <3>1. run' = [run EXCEPT ![r].pc = "fetching", ![r].tok = cts]
      BY <1>5, <2>2 DEF Opened
    <3>2. /\ \A q \in Runs \ {r} : run'[q] = run[q]
          /\ run'[r].pc = "fetching" /\ run'[r].tab = run[r].tab /\ run'[r].tok = cts
      BY <1>0, <3>1 DEF RunState
    <3>3. RunFits(r)'
      BY <1>f, <2>1, <3>2 DEF RunFits, Waiting, AtServer
    <3>4. Fits(tab'[run[r].tab])
      BY <2>1 DEF OInv, Fits
    <3> QED BY <1>a, <2>1, <3>2, <3>3, <3>4, OneStep
  <2>3. CASE ~(hasFields /\ cts # None)
    <3>1. run' = [run EXCEPT ![r].pc = IF hasFields THEN "failing" ELSE "unneeded"]
      BY <1>5, <2>3 DEF Opened
    <3>2. /\ \A q \in Runs \ {r} : run'[q] = run[q]
          /\ run'[r].pc \in {"failing", "unneeded"}
      BY <1>0, <3>1 DEF RunState
    <3> QED BY <1>a, <2>1, <3>2, OneQuiet
  <2> QED BY <2>2, <2>3
<1>6. CASE OpenThrows(r)
  <2>1. Caught(r) /\ UNCHANGED tab
    BY <1>6 DEF OpenThrows
  <2> QED BY <1>a, <2>1, OneCaught, OneQuiet
<1>7. ASSUME NEW more \in BOOLEAN, FirstPage(r, more)
      PROVE  OInv'
  BY <1>a, <1>7, OneFirstPage
<1>8. CASE FirstPageThrows(r)
  <2>1. run' = [run EXCEPT ![r].pc = "failing"] /\ UNCHANGED tab
    BY <1>8 DEF FirstPageThrows
  <2>2. /\ \A q \in Runs \ {r} : run'[q] = run[q]
        /\ run'[r].pc = "failing"
    BY <1>0, <2>1 DEF RunState
  <2> QED BY <1>a, <2>1, <2>2, OneQuiet
<1>9. CASE Failed(r)
  <2>1. /\ Caught(r)
        /\ tab' = [tab EXCEPT ![run[r].tab].cursor = None, ![run[r].tab].hasMore = FALSE]
    BY <1>9 DEF Failed
  <2>2. \A u \in Tabs : /\ tab'[u].grid = tab[u].grid /\ tab'[u].editable = tab[u].editable
                        /\ tab'[u].cursor \in {tab[u].cursor, None}
    BY <1>0, <2>1 DEF TabState
  <2> QED BY <1>a, <2>1, <2>2, OneCaught, OneQuiet
<1>10. CASE Disposed(r)
  <2>1. /\ run[r].pc \in {"drained", "unneeded"} /\ run[r].tab \in Tabs /\ UNCHANGED tab
        /\ run' = [run EXCEPT ![r].pc = IF @ = "drained" THEN "analyzing" ELSE "recording"]
    BY <1>0, <1>10 DEF Disposed, Busy
  <2>2. /\ \A q \in Runs \ {r} : run'[q] = run[q]
        /\ run'[r].pc = IF run[r].pc = "drained" THEN "analyzing" ELSE "recording"
        /\ run'[r].tab = run[r].tab
    BY <1>0, <2>1 DEF RunState
  <2>3. RunFits(r)'
    BY <1>f, <2>1, <2>2 DEF RunFits, Waiting, AtServer
  <2>4. Fits(tab'[run[r].tab])
    BY <2>1 DEF OInv, Fits
  <2> QED BY <1>a, <2>1, <2>2, <2>3, <2>4, OneStep
<1>11. CASE Analyzed(r)
  <2>1. /\ \E verdict \in {r, None} : tab' = [tab EXCEPT ![run[r].tab].editable = verdict]
        /\ run[r].pc = "analyzing"
        /\ run' = [run EXCEPT ![r].pc = "recording"] /\ run[r].tab \in Tabs
    BY <1>0, <1>11 DEF Analyzed, Busy
  <2>2. /\ \A q \in Runs \ {r} : run'[q] = run[q]
        /\ run'[r].pc = "recording"
    BY <1>0, <2>1 DEF RunState
  <2>3. PICK verdict \in {r, None} : tab' = [tab EXCEPT ![run[r].tab].editable = verdict]
    BY <2>1
  <2>4. /\ \A u \in Tabs \ {run[r].tab} : tab'[u] = tab[u]
        /\ tab'[run[r].tab].grid = tab[run[r].tab].grid
        /\ tab'[run[r].tab].cursor = tab[run[r].tab].cursor
        /\ tab'[run[r].tab].editable = verdict
    BY <1>0, <2>1, <2>3 DEF TabState
  <2>5. tab[run[r].tab].grid = r
    BY <1>f, <2>1 DEF RunFits
  <2>6. RunFits(r)'
    BY <2>2 DEF RunFits, Waiting, AtServer
  <2>7. Fits(tab[run[r].tab])
    BY <2>1 DEF OInv
  <2>8. Fits(tab'[run[r].tab])
    BY <2>4, <2>5, <2>7 DEF Fits
  <2> QED BY <1>a, <2>1, <2>2, <2>4, <2>6, <2>8, OneStep
<1>12. CASE Recorded(r)
  <2>1. Caught(r) /\ UNCHANGED tab
    BY <1>12 DEF Recorded, Caught
  <2> QED BY <1>a, <2>1, OneCaught, OneQuiet
<1> QED BY <1>1, <1>2, <1>3, <1>4, <1>5, <1>6, <1>7, <1>8, <1>9, <1>10, <1>11, <1>12 DEF RunStep

LEMMA ReleaseFrame ==
  ASSUME TInv, NEW ts \in SUBSET Tabs, Release(ts)
  PROVE  \A u \in Tabs : /\ tab'[u].grid = tab[u].grid /\ tab'[u].editable = tab[u].editable
                         /\ tab'[u].cursor \in {tab[u].cursor, None}
<1>1. tab \in [Tabs -> TabState] /\ cur \in [Runs -> Cursor] /\ PagesLeft
  BY DEF TInv, TypeOK
<1>2. \A u \in Tabs : tab'[u] = IF u \in ts /\ tab[u].cursor # None
                                THEN [tab[u] EXCEPT !.cursor = None, !.hasMore = FALSE] ELSE tab[u]
  BY <1>1, ReleaseTypes
<1> QED BY <1>1, <1>2 DEF TabState

LEMMA OneLoad ==
  ASSUME TInv, OInv, NEW l \in Loads, LoadStep(l)
  PROVE  OInv'
<1>0. /\ tab \in [Tabs -> TabState]
      /\ \A k \in Loads : Loading(k) => load[k].tab \in Tabs
  BY Shape
<1>1. CASE Scroll(l) \/ \E more \in BOOLEAN : NextPage(l, more)
  BY <1>1, OneFrame DEF Scroll, NextPage, srcVars
<1>2. CASE NoPage(l)
  <2>1. tab' = [tab EXCEPT ![load[l].tab].hasMore = FALSE] /\ UNCHANGED <<run, running, cts>>
    BY <1>2 DEF NoPage, srcVars
  <2>2. \A u \in Tabs : /\ tab'[u].grid = tab[u].grid /\ tab'[u].editable = tab[u].editable
                        /\ tab'[u].cursor = tab[u].cursor
    BY <1>0, <2>1 DEF TabState
  <2> QED BY <2>1, <2>2, OneFrame
<1>3. CASE Appended(l)
  <2>1. tab' = [tab EXCEPT ![load[l].tab].hasMore = load[l].more] /\ UNCHANGED <<run, running, cts>>
    BY <1>3 DEF Appended, srcVars
  <2>2. \A u \in Tabs : /\ tab'[u].grid = tab[u].grid /\ tab'[u].editable = tab[u].editable
                        /\ tab'[u].cursor = tab[u].cursor
    BY <1>0, <2>1 DEF TabState
  <2> QED BY <2>1, <2>2, OneFrame
<1>4. CASE LoadClosed(l)
  <2>1. tab' = [tab EXCEPT ![load[l].tab].cursor = None] /\ UNCHANGED <<run, running, cts>>
    BY <1>4 DEF LoadClosed, srcVars
  <2>2. \A u \in Tabs : /\ tab'[u].grid = tab[u].grid /\ tab'[u].editable = tab[u].editable
                        /\ tab'[u].cursor \in {tab[u].cursor, None}
    BY <1>0, <2>1 DEF TabState
  <2> QED BY <2>1, <2>2, OneFrame
<1>5. CASE LoadThrows(l)
  <2>1. {load[l].tab} \in SUBSET Tabs /\ Release({load[l].tab}) /\ UNCHANGED <<run, running, cts>>
    BY <1>0, <1>5 DEF LoadThrows, Loading, srcVars
  <2> QED BY <2>1, ReleaseFrame, OneFrame
<1> QED BY <1>1, <1>2, <1>3, <1>4, <1>5 DEF LoadStep

LEMMA OneUser ==
  ASSUME TInv, OInv, UserStep
  PROVE  OInv'
<1>1. CASE UNCHANGED <<tab, run, running, cts>>
  BY <1>1, OneFrame
<1>2. ASSUME NEW ts \in SUBSET Tabs, Release(ts), UNCHANGED <<run, running, cts>>
      PROVE  OInv'
  BY <1>2, ReleaseFrame, OneFrame
<1>3. ASSUME NEW t \in Tabs, CloseTab(t)
      PROVE  OInv'
  <2>1. Release({t}) /\ UNCHANGED <<run, running, cts>> /\ {t} \in SUBSET Tabs
    BY <1>3 DEF CloseTab, Remove, srcVars
  <2> QED BY <1>2, <2>1
<1>4. CASE Disconnected
  <2>1. /\ Release(bound \intersect open) /\ UNCHANGED <<run, running, cts>>
        /\ bound \intersect open \in SUBSET Tabs
    BY <1>4 DEF Disconnected, TInv, TypeOK, srcVars
  <2> QED BY <1>2, <2>1
<1>5. ASSUME Stop \/ Render \/ Disconnect \/ \E t \in Tabs : SwitchTab(t) \/ OpenTableData(t) \/ SetConnection(t)
      PROVE  UNCHANGED <<tab, run, running, cts>>
  BY <1>5 DEF Stop, Render, Disconnect, SwitchTab, OpenTableData, SetConnection, srcVars
<1> QED BY <1>1, <1>3, <1>4, <1>5 DEF UserStep

LEMMA OneKept ==
  ASSUME OneAtATime
  PROVE  TInv /\ OInv /\ [Next]_vars => (TInv /\ OInv)'
<1> SUFFICES ASSUME TInv, OInv, [Next]_vars PROVE (TInv /\ OInv)'
  OBVIOUS
<1>1. TInv'
  BY Typed
<1>2. CASE Next
  BY <1>1, <1>2, Steps, OneRunStep, OneLoad, OneUser
<1>3. CASE UNCHANGED vars
  <2>1. UNCHANGED <<tab, run, running, cts>>
    BY <1>3 DEF vars, srcVars
  <2> QED BY <1>1, <2>1, OneFrame
<1> QED BY <1>2, <1>3

LEMMA OneHolds ==
  ASSUME OneAtATime
  PROVE  Spec => [](TInv /\ OInv)
<1>1. Init => TInv /\ OInv
  BY TypeInit, OneInit
<1> QED BY <1>1, OneKept, PTL DEF Spec

\* Stop: with one run at a time, and whatever else happens to tabs and connection meanwhile,
\* while a run waits for the server the Stop button is there and stops that run.
THEOREM StopReachesTheRun ==
  ASSUME OneAtATime
  PROVE  Spec => []StopReaches
<1>1. TInv /\ OInv => StopReaches
  BY DEF OInv, RunFits, Waiting, AtServer, StopReaches
<1> QED BY <1>1, OneHolds, PTL

\* AnalyzeEditabilityAsync: with one run at a time, a tab's edits would be applied with the table and
\* key of the result it shows.
THEOREM EditsOfTheResultShown ==
  ASSUME OneAtATime
  PROVE  Spec => []EditsMatchResult
<1>1. TInv /\ OInv => EditsMatchResult
  BY DEF OInv, Fits, EditsMatchResult
<1> QED BY <1>1, OneHolds, PTL

\* LoadMoreAsync: with one run at a time, the cursor a tab would fetch from belongs to the grid it
\* would append to.
THEOREM CursorOfTheGrid ==
  ASSUME OneAtATime
  PROVE  Spec => []SameResult
<1>1. TInv /\ OInv => SameResult
  BY DEF OInv, Fits, SameResult
<1> QED BY <1>1, OneHolds, PTL
====
