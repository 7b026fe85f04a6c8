---- MODULE EditorBufferProofs ----
(***************************************************************************)
(* EditorBuffer, proved for any numbers of tabs, texts and handlers: types *)
(* whatever overlaps happen; that no text is lost or misplaced, and no tab *)
(* with unsaved text closes unasked, for a user who waits for the editor   *)
(* and for its flushes.                                                    *)
(***************************************************************************)
EXTENDS EditorBuffer, TLAPS

\* What the handlers of the tabs do, by which of the parts below they may disturb.
Starts(o) ==
    \/ \E t \in Tabs : SwitchTab(o, t) /\ active \in tabs
    \/ Run(o) \/ Save(o) \/ SaveAndClose(o) \/ RequestClose(o)

\* A tab is shown when the active one is gone.
Shows == \E o \in Ops, t \in Tabs : SwitchTab(o, t) /\ active \notin tabs

Opens ==
    \/ \E t \in Tabs : OpenTab(t, Blank, FALSE)
    \/ \E t \in Tabs, c \in Contents, fromFile \in BOOLEAN : OpenTab(t, <<t, c>>, fromFile)

\* The next-state relation, by what is behind a step: the page, a handler, a tab.
LEMMA Steps ==
  ASSUME Next
  PROVE  \/ Imported \/ MonacoLoads \/ \E text \in Texts : Type(text) \/ LoadSql(text)
         \/ Opens \/ Shows
         \/ \E o \in Ops : \/ Starts(o) \/ Switched(o) \/ RunFlushed(o) \/ SaveFlushed(o)
                           \/ NotSaved(o) \/ Written(o) \/ CloseFlushed(o)
         \/ \E t \in Tabs : RequestCloseInactive(t)
         \/ CancelClose \/ DiscardAndClose
         \/ \E S : CloseTabs(S)
BY DEF Next, Starts, Opens, Shows

----------------------------------------------------------------------------
(* Types *)

ListOK ==
    /\ tabs \subseteq Tabs /\ left \subseteq tabs \X tabs
    /\ \A t, u \in tabs : t # u => (<<t, u>> \in left <=> <<u, t>> \notin left)
    /\ \A t, u, v \in tabs : <<t, u>> \in left /\ <<u, v>> \in left => <<t, v>> \in left
    /\ \A t \in tabs : <<t, t>> \notin left

\* The page has a component only for an active tab that is open, and its instance, or the init
\* that waits for Monaco, is that tab's.
PageOK ==
    /\ active \in Tabs \union {None}
    /\ phase \in {"none", "importing", "initing", "ready"} /\ monaco \in BOOLEAN
    /\ editor \in Buffer \union {None} /\ pendingInit \in Buffer \union {None}
    /\ phase # "none" => active \in tabs
    /\ phase = "ready" => monaco /\ editor # None /\ editor.tab = active
    /\ phase = "initing" => ~monaco /\ pendingInit # None /\ pendingInit.tab = active

TextsOK ==
    /\ sql \in [Tabs -> Texts] /\ typed \in [Tabs -> Texts] /\ saved \in [Tabs -> Texts]
    /\ dirty \in [Tabs -> BOOLEAN] /\ path \in [Tabs -> BOOLEAN]

\* A handler that waits has a tab.
OpsOK ==
    /\ closing \in Tabs \union {None}
    /\ op \in [Ops -> Operation]
    /\ \A o \in Ops : op[o].pc # "idle" => op[o].tab \in Tabs

TInv == ListOK /\ PageOK /\ TextsOK /\ OpsOK

LEMMA TypeInit == Init => TInv
<1> SUFFICES ASSUME Init PROVE TInv
  OBVIOUS
<1>1. Idle \in Operation
  BY DEF Idle, Operation, Texts
<1>2. \A o \in Ops : op[o] = Idle
  BY DEF Init
<1>3. OpsOK
  BY <1>1, <1>2 DEF Init, OpsOK, Idle
<1>4. TextsOK
  BY DEF Init, TextsOK, Texts
<1> QED BY <1>3, <1>4 DEF Init, TInv, ListOK, PageOK

\* The last of some tabs is one of them, or there is none.
LEMMA LastIsOne ==
  ASSUME NEW T
  PROVE  LastOf(T) \in T \union {None}
<1> DEFINE last == {t \in T : \A u \in T : <<t, u>> \notin left}
<1>1. LastOf(T) = IF last = {} THEN None ELSE CHOOSE t \in last : TRUE
  BY DEF LastOf
<1>2. last # {} => (CHOOSE t \in last : TRUE) \in last
  OBVIOUS
<1> QED BY <1>1, <1>2

\* Another tab becomes active, of those that are open then.
LEMMA Activated ==
  ASSUME TInv, NEW t \in Tabs \union {None}, NEW T \in SUBSET Tabs,
         Activate(t, T), tabs' = T, t = active /\ phase # "none" => t \in T
  PROVE  PageOK'
<1>1. /\ active' = t
      /\ phase' = IF t = active THEN phase ELSE IF t \in T THEN "importing" ELSE "none"
      /\ editor' = IF t # active /\ phase \in {"initing", "ready"} THEN None ELSE editor
      /\ pendingInit' = pendingInit /\ monaco' = monaco
  BY DEF Activate
<1>2. CASE t = active
  BY <1>1, <1>2 DEF TInv, PageOK
<1>3. CASE t # active
  BY <1>1, <1>3 DEF TInv, PageOK
<1> QED BY <1>2, <1>3

\* Tabs leave the list: those that stay keep their places, and the page follows the active one.
LEMMA Removed ==
  ASSUME TInv, NEW T \in SUBSET tabs, Keep(T),
         \/ UNCHANGED <<active, pageVars>> /\ (active \in tabs => active \in T)
         \/ Activate(LastOf(T), T) /\ active \in tabs \ T
  PROVE  ListOK' /\ PageOK'
<1>1. ListOK'
  BY DEF TInv, ListOK, Keep
<1>2. CASE UNCHANGED <<active, pageVars>> /\ (active \in tabs => active \in T)
  BY <1>1, <1>2 DEF TInv, PageOK, pageVars, Keep
<1>3. CASE Activate(LastOf(T), T) /\ active \in tabs \ T
  <2>1. LastOf(T) \in T \union {None} /\ T \subseteq Tabs /\ tabs' = T
    BY LastIsOne DEF TInv, ListOK, Keep
  <2>2. LastOf(T) # active
    BY <1>3, <2>1, EditorAssumption DEF TInv, ListOK
  <2>3. PageOK'
    BY <1>3, <2>1, <2>2, Activated
  <2> QED BY <1>1, <2>3
<1> QED BY <1>2, <1>3

\* CloseTab and CloseTabs remove tabs in this sense.
LEMMA ClosesOne ==
  ASSUME TInv, NEW t, CloseTab(t)
  PROVE  /\ ListOK' /\ PageOK' /\ tabs' = tabs \ {t}
         /\ \/ UNCHANGED <<active, pageVars>> /\ (active \in tabs => active # t)
            \/ active = t /\ Activate(LastOf(tabs \ {t}), tabs \ {t})
<1>1. tabs \ {t} \in SUBSET tabs /\ Keep(tabs \ {t})
  BY DEF CloseTab
<1>2. CASE active = t /\ t \in tabs
  <2>1. Activate(LastOf(tabs \ {t}), tabs \ {t}) /\ active \in tabs \ (tabs \ {t})
    BY <1>2 DEF CloseTab
  <2> QED BY <1>1, <1>2, <2>1, Removed DEF Keep
<1>3. CASE ~(active = t /\ t \in tabs)
  <2>1. UNCHANGED <<active, pageVars>> /\ (active \in tabs => active \in tabs \ {t})
    BY <1>3 DEF CloseTab
  <2> QED BY <1>1, <1>3, <2>1, Removed DEF Keep
<1> QED BY <1>2, <1>3

LEMMA ClosesMany ==
  ASSUME TInv, NEW S, CloseTabs(S)
  PROVE  /\ ListOK' /\ PageOK'
         /\ tabs' = {t \in tabs : t \notin S \/ HasUnsavedWork(t)}
         /\ \/ UNCHANGED <<active, pageVars>> /\ (active \in tabs => active \in tabs')
            \/ active \notin tabs' /\ Activate(LastOf(tabs'), tabs')
<1> DEFINE kept == {t \in tabs : t \notin S \/ HasUnsavedWork(t)}
<1>1. kept \in SUBSET tabs /\ Keep(kept) /\ None \notin tabs
  BY EditorAssumption DEF CloseTabs, TInv, ListOK
<1>2. IF active \in kept \union {None} THEN UNCHANGED <<active, pageVars>> ELSE Activate(LastOf(kept), kept)
  BY DEF CloseTabs
<1>3. tabs' = kept
  BY <1>1 DEF Keep
<1> HIDE DEF kept
<1>4. CASE active \in kept \union {None}
  BY <1>1, <1>2, <1>3, <1>4, Removed DEF kept
<1>5. CASE active \notin kept \union {None}
  <2>1. CASE active \in tabs
    BY <1>1, <1>2, <1>3, <1>5, <2>1, Removed DEF kept
  <2>2. CASE active \notin tabs
    <3>1. phase = "none"
      BY <2>2 DEF TInv, PageOK
    <3>2. LastOf(kept) \in Tabs \union {None} /\ kept \in SUBSET Tabs
      BY <1>1, LastIsOne DEF TInv, ListOK
    <3>3. PageOK'
      BY <1>2, <1>3, <1>5, <3>1, <3>2, Activated
    <3>4. ListOK'
      BY <1>1 DEF TInv, ListOK, Keep
    <3> QED BY <1>2, <1>3, <1>5, <3>3, <3>4 DEF kept
  <2> QED BY <2>1, <2>2
<1> QED BY <1>4, <1>5

\* A flush asks the page, and its answer is a text.
LEMMA Flushed ==
  ASSUME TInv, NEW o \in Ops, NEW pc \in {"switch", "run", "save", "close"}, NEW next \in Tabs \union {None},
         Flush(o, pc, next)
  PROVE  /\ active \in tabs /\ active \in Tabs
         /\ op[o] = Idle
         /\ \E x \in Operation : /\ op' = [op EXCEPT ![o] = x]
                                 /\ x = [pc |-> pc, tab |-> active, next |-> next, text |-> GetValue]
         /\ OpsOK'
         /\ UNCHANGED <<tabs, left, active, sql, dirty, path, closing, phase, editor, pendingInit, monaco, typed, saved>>
<1>1. active \in tabs /\ active \in Tabs /\ op[o] = Idle
  BY DEF Flush, TInv, ListOK
<1>2. GetValue \in Texts
  BY DEF TInv, PageOK, GetValue, Buffer, Texts
<1> DEFINE x == [pc |-> pc, tab |-> active, next |-> next, text |-> GetValue]
<1>3. op' = [op EXCEPT ![o] = x]
      /\ UNCHANGED <<tabs, left, active, sql, dirty, path, closing, phase, editor, pendingInit, monaco, typed, saved>>
  BY DEF Flush, tabVars, pageVars
<1>4. x \in Operation /\ x.tab \in Tabs
  BY <1>1, <1>2 DEF Operation
<1>5. OpsOK'
  <2> HIDE DEF x
  <2> QED BY <1>3, <1>4 DEF TInv, OpsOK
<1> QED BY <1>1, <1>3, <1>4, <1>5

\* The answer of a flush goes to the tab it was asked for.
LEMMA Stored ==
  ASSUME TInv, NEW o \in Ops, op[o].pc # "idle", Store(o)
  PROVE  /\ sql' \in [Tabs -> Texts] /\ op[o].tab \in Tabs
         /\ sql'[op[o].tab] = op[o].text
         /\ \A t \in Tabs \ {op[o].tab} : sql'[t] = sql[t]
<1>1. op[o].tab \in Tabs /\ op[o].text \in Texts /\ sql \in [Tabs -> Texts]
  BY DEF TInv, OpsOK, Operation, TextsOK
<1> QED BY <1>1 DEF Store

\* A handler that is through.
LEMMA Done ==
  ASSUME TInv, NEW o \in Ops, op' = [op EXCEPT ![o] = Idle], closing' \in Tabs \union {None}
  PROVE  OpsOK'
<1>1. Idle \in Operation /\ Idle.pc = "idle"
  BY DEF Idle, Operation, Texts
<1> QED BY <1>1 DEF TInv, OpsOK

\* Text in the instance is replaced.
LEMMA Replaced ==
  ASSUME TInv, phase = "ready", NEW text \in Texts, editor' = [editor EXCEPT !.text = text]
  PROVE  /\ editor' \in Buffer /\ editor' # None
         /\ editor'.tab = active /\ editor'.text = text
<1>1. editor \in Buffer /\ editor.tab = active
  BY DEF TInv, PageOK
<1>2. editor' \in Buffer /\ editor'.tab = editor.tab /\ editor'.text = text
  BY <1>1 DEF Buffer
<1> QED BY <1>1, <1>2, EditorAssumption

LEMMA TypePage ==
  ASSUME TInv, Imported \/ MonacoLoads \/ \E text \in Texts : Type(text) \/ LoadSql(text)
  PROVE  TInv'
<1>1. CASE Imported
  <2>1. active \in Tabs /\ [tab |-> active, text |-> sql[active]] \in Buffer
    BY <1>1 DEF Imported, TInv, PageOK, ListOK, TextsOK, Buffer
  <2>2. PageOK'
    <3> DEFINE b == [tab |-> active, text |-> sql[active]]
    <3>1. b \in Buffer /\ b.tab = active /\ b # None
      <4>1. b # None
        BY <2>1, EditorAssumption
      <4> QED BY <2>1, <4>1
    <3>2. /\ UNCHANGED <<active, tabs, monaco>> /\ phase = "importing"
          /\ IF monaco THEN editor' = b /\ phase' = "ready" /\ UNCHANGED pendingInit
             ELSE pendingInit' = b /\ phase' = "initing" /\ UNCHANGED editor
      BY <1>1 DEF Imported, tabVars
    <3> HIDE DEF b
    <3> QED BY <3>1, <3>2 DEF TInv, PageOK
  <2>3. UNCHANGED <<tabs, left, sql, typed, saved, dirty, path, closing, op>>
    BY <1>1 DEF Imported, tabVars
  <2> QED BY <2>2, <2>3 DEF TInv, ListOK, TextsOK, OpsOK
<1>2. CASE MonacoLoads
  BY <1>2 DEF MonacoLoads, tabVars, TInv, ListOK, PageOK, TextsOK, OpsOK
<1>3. ASSUME NEW text \in Texts, Type(text) PROVE TInv'
  <2>1. /\ editor' = [editor EXCEPT !.text = text] /\ typed' = [typed EXCEPT ![active] = text]
        /\ dirty' = [dirty EXCEPT ![active] = TRUE] /\ phase = "ready"
        /\ UNCHANGED <<tabs, left, active, sql, path, closing, op, phase, pendingInit, monaco, saved>>
    BY <1>3 DEF Type
  <2>2. TextsOK'
    BY <2>1 DEF TInv, TextsOK
  <2>3. editor' \in Buffer /\ editor' # None /\ editor'.tab = active
    BY <2>1, Replaced
  <2>4. PageOK'
    BY <2>1, <2>3 DEF TInv, PageOK
  <2> QED BY <2>1, <2>2, <2>4 DEF TInv, ListOK, OpsOK
<1>4. ASSUME NEW text \in Texts, LoadSql(text) PROVE TInv'
  <2>1. /\ sql' = [sql EXCEPT ![active] = text] /\ typed' = [typed EXCEPT ![active] = text]
        /\ IF phase = "ready"
           THEN dirty' = [dirty EXCEPT ![active] = TRUE] /\ editor' = [editor EXCEPT !.text = text]
           ELSE UNCHANGED <<dirty, editor>>
        /\ UNCHANGED <<tabs, left, active, path, closing, op, phase, pendingInit, monaco, saved>>
    BY <1>4 DEF LoadSql
  <2>2. TextsOK'
    BY <2>1 DEF TInv, TextsOK
  <2>3. phase = "ready" => editor' \in Buffer /\ editor' # None /\ editor'.tab = active
    BY <2>1, Replaced
  <2>4. phase # "ready" => UNCHANGED editor
    BY <2>1
  <2>5. UNCHANGED <<tabs, active, phase, pendingInit, monaco>>
    BY <2>1
  <2>6. PageOK'
    BY <2>3, <2>4, <2>5 DEF TInv, PageOK
  <2> QED BY <2>1, <2>2, <2>6 DEF TInv, ListOK, OpsOK
<1> QED BY <1>1, <1>2, <1>3, <1>4

\* A tab appears: it is active and the last.
LEMMA TypeOpen ==
  ASSUME TInv, Opens
  PROVE  TInv'
<1>1. PICK t \in Tabs, text \in Texts, fromFile \in BOOLEAN : OpenTab(t, text, fromFile)
  BY DEF Opens, Texts
<1>2. /\ t \notin tabs /\ tabs' = tabs \union {t} /\ left' = left \union (tabs \X {t})
      /\ sql' = [sql EXCEPT ![t] = text]
      /\ typed' = [typed EXCEPT ![t] = text] /\ saved' = [saved EXCEPT ![t] = text]
      /\ dirty' = [dirty EXCEPT ![t] = FALSE] /\ path' = [path EXCEPT ![t] = fromFile]
      /\ Activate(t, tabs \union {t})
      /\ UNCHANGED <<closing, op>>
  BY <1>1 DEF OpenTab
<1>4. ListOK'
  BY <1>2 DEF TInv, ListOK
<1>5. PageOK'
  BY <1>2, Activated DEF TInv, ListOK
<1>6. TextsOK'
  BY <1>2 DEF TInv, TextsOK
<1>7. OpsOK'
  BY <1>2 DEF TInv, OpsOK
<1> QED BY <1>4, <1>5, <1>6, <1>7 DEF TInv

\* What Shows does.
LEMMA Shown ==
  ASSUME TInv, Shows
  PROVE  \E t \in tabs : /\ active \notin tabs /\ phase = "none" /\ Activate(t, tabs)
                        /\ UNCHANGED <<tabs, left, sql, dirty, path, closing, op, typed, saved>>
BY DEF Shows, SwitchTab, TInv, PageOK

\* What a handler does first changes nothing but what is known of it.
LEMMA Started ==
  ASSUME TInv, NEW o \in Ops, Starts(o)
  PROVE  /\ OpsOK'
         /\ UNCHANGED <<tabs, left, active, sql, dirty, path, closing, phase, editor, pendingInit, monaco, typed, saved>>
<1>1. CASE \E t \in Tabs : SwitchTab(o, t) /\ active \in tabs
  BY <1>1, Flushed DEF SwitchTab
<1>2. CASE Run(o)
  BY <1>2, Flushed DEF Run
<1>3. CASE Save(o)
  BY <1>3, Flushed DEF Save
<1>4. CASE SaveAndClose(o)
  <2>1. closing \in Tabs
    BY <1>4 DEF SaveAndClose, TInv, OpsOK
  <2>2. CASE closing = active
    <3>1. Flush(o, "save", closing)
      BY <1>4, <2>2 DEF SaveAndClose
    <3> QED BY <2>1, <3>1, Flushed
  <2>3. CASE closing # active
    <3> DEFINE x == [pc |-> "write", tab |-> closing, next |-> closing, text |-> sql[closing]]
    <3>1. /\ op' = [op EXCEPT ![o] = x]
          /\ UNCHANGED <<tabs, left, active, sql, dirty, path, closing, phase, editor, pendingInit, monaco, typed, saved>>
      BY <1>4, <2>3 DEF SaveAndClose, tabVars, pageVars
    <3>2. sql[closing] \in Texts
      BY <2>1 DEF TInv, TextsOK
    <3>3. x \in Operation /\ x.tab \in Tabs
      BY <2>1, <3>2 DEF Operation
    <3> HIDE DEF x
    <3>4. OpsOK'
      BY <3>1, <3>3 DEF TInv, OpsOK
    <3> QED BY <3>1, <3>4
  <2> QED BY <2>2, <2>3
<1>5. CASE RequestClose(o)
  BY <1>5, Flushed DEF RequestClose
<1> QED BY <1>1, <1>2, <1>3, <1>4, <1>5 DEF Starts

\* What may be closed is, or is asked about, or stays.
LEMMA ClosesAtMostOne ==
  ASSUME TInv, NEW t, CloseTab(t) \/ NoneCloses
  PROVE  ListOK' /\ PageOK' /\ tabs' \subseteq tabs
<1>1. CASE CloseTab(t)
  BY <1>1, ClosesOne
<1>2. CASE NoneCloses
  BY <1>2 DEF NoneCloses, pageVars, TInv, ListOK, PageOK
<1> QED BY <1>1, <1>2

\* How the handlers end, and the closing of tabs.
LEMMA TypeClose ==
  ASSUME TInv, NEW o \in Ops,
         \/ Switched(o) \/ RunFlushed(o) \/ SaveFlushed(o) \/ NotSaved(o) \/ Written(o) \/ CloseFlushed(o)
  PROVE  TInv'
<1>1. CASE Switched(o)
  <2>1. /\ op[o].pc # "idle" /\ Store(o) /\ Activate(op[o].next, tabs) /\ op' = [op EXCEPT ![o] = Idle]
        /\ UNCHANGED <<tabs, left, dirty, path, closing, typed, saved>>
    BY <1>1 DEF Switched
  <2>2. op[o].next \in Tabs \union {None} /\ tabs \in SUBSET Tabs
    BY DEF TInv, OpsOK, Operation, ListOK
  <2>3. PageOK'
    BY <2>1, <2>2, Activated DEF TInv, PageOK
  <2>4. OpsOK'
    BY <2>1, Done DEF TInv, OpsOK
  <2>5. TextsOK'
    BY <2>1, Stored DEF TInv, TextsOK
  <2> QED BY <2>1, <2>3, <2>4, <2>5 DEF TInv, ListOK
<1>2. CASE RunFlushed(o)
  <2>1. /\ op[o].pc # "idle" /\ Store(o) /\ op' = [op EXCEPT ![o] = Idle]
        /\ UNCHANGED <<tabs, left, active, dirty, path, closing, phase, editor, pendingInit, monaco, typed, saved>>
    BY <1>2 DEF RunFlushed, pageVars
  <2>2. OpsOK'
    BY <2>1, Done DEF TInv, OpsOK
  <2>3. TextsOK'
    BY <2>1, Stored DEF TInv, TextsOK
  <2> QED BY <2>1, <2>2, <2>3 DEF TInv, ListOK, PageOK
<1>3. CASE SaveFlushed(o)
  <2>1. /\ op[o].pc # "idle" /\ Store(o) /\ op' = [op EXCEPT ![o].pc = "write"]
        /\ UNCHANGED <<tabs, left, active, dirty, path, closing, phase, editor, pendingInit, monaco, typed, saved>>
    BY <1>3 DEF SaveFlushed, pageVars
  <2>2. OpsOK'
    BY <2>1 DEF TInv, OpsOK, Operation
  <2>3. TextsOK'
    BY <2>1, Stored DEF TInv, TextsOK
  <2> QED BY <2>1, <2>2, <2>3 DEF TInv, ListOK, PageOK
<1>4. CASE NotSaved(o) \/ Written(o)
  <2>1. PICK isDirty \in BOOLEAN : SaveEnds(o, isDirty)
    <3>1. op[o].pc = "write"
      BY <1>4 DEF NotSaved, Written
    <3>2. dirty[op[o].tab] \in BOOLEAN /\ TRUE \in BOOLEAN /\ FALSE \in BOOLEAN
      BY <3>1 DEF TInv, OpsOK, TextsOK
    <3> QED BY <1>4, <3>2 DEF NotSaved, Written
  <2>2. /\ op' = [op EXCEPT ![o] = Idle] /\ closing' \in {closing, None}
        /\ CloseTab(op[o].tab) \/ NoneCloses
    BY <2>1 DEF SaveEnds
  <2>3. OpsOK'
    BY <2>2, Done DEF TInv, OpsOK
  <2>4. op[o].tab \in Tabs /\ op[o].text \in Texts
    BY <1>4 DEF NotSaved, Written, TInv, OpsOK, Operation
  <2>5. TextsOK'
    BY <1>4, <2>4 DEF NotSaved, Written, TInv, TextsOK
  <2> QED BY <2>2, <2>3, <2>5, ClosesAtMostOne DEF TInv
<1>5. CASE CloseFlushed(o)
  <2>1. /\ op[o].pc # "idle" /\ Store(o) /\ op' = [op EXCEPT ![o] = Idle]
        /\ AskClose(op[o].tab, op[o].text)
        /\ UNCHANGED <<dirty, path, typed, saved>>
    BY <1>5 DEF CloseFlushed
  <2>2. /\ closing' \in {closing, op[o].tab}
        /\ CloseTab(op[o].tab) \/ NoneCloses
    BY <2>1 DEF AskClose
  <2>3. TextsOK'
    BY <2>1, Stored DEF TInv, TextsOK
  <2>4. OpsOK'
    BY <2>1, <2>2, Stored, Done DEF TInv, OpsOK
  <2> QED BY <2>2, <2>3, <2>4, ClosesAtMostOne DEF TInv
<1> QED BY <1>1, <1>2, <1>3, <1>4, <1>5

\* Every step keeps the types, whatever overlaps happen.
LEMMA TypeStep == TInv /\ [Next]_vars => TInv'
<1> SUFFICES ASSUME TInv, [Next]_vars PROVE TInv'
  OBVIOUS
<1>1. ASSUME NEW o \in Ops, Starts(o) PROVE TInv'
  BY <1>1, Started DEF TInv, ListOK, PageOK, TextsOK
<1>2. ASSUME NEW t \in Tabs, RequestCloseInactive(t) PROVE TInv'
  <2>1. /\ closing' \in {closing, t} /\ (CloseTab(t) \/ NoneCloses)
        /\ UNCHANGED <<sql, dirty, path, op, typed, saved>>
    BY <1>2 DEF RequestCloseInactive, AskClose
  <2>2. OpsOK' /\ TextsOK'
    BY <2>1 DEF TInv, OpsOK, TextsOK
  <2> QED BY <2>1, <2>2, ClosesAtMostOne DEF TInv
<1>3. CASE CancelClose
  BY <1>3 DEF CancelClose, tabVars, pageVars, TInv, ListOK, PageOK, TextsOK, OpsOK
<1>4. CASE DiscardAndClose
  <2>1. closing' = None /\ CloseTab(closing) /\ UNCHANGED <<sql, dirty, path, op, typed, saved>>
    BY <1>4 DEF DiscardAndClose
  <2>2. OpsOK' /\ TextsOK'
    BY <2>1 DEF TInv, OpsOK, TextsOK
  <2> QED BY <2>1, <2>2, ClosesAtMostOne DEF TInv
<1>5. ASSUME NEW S, CloseTabs(S) PROVE TInv'
  <2>1. UNCHANGED <<sql, dirty, path, closing, op, typed, saved>>
    BY <1>5 DEF CloseTabs
  <2>2. OpsOK' /\ TextsOK'
    BY <2>1 DEF TInv, OpsOK, TextsOK
  <2> QED BY <1>5, <2>2, ClosesMany DEF TInv
<1>6. CASE UNCHANGED vars
  BY <1>6 DEF vars, tabVars, pageVars, TInv, ListOK, PageOK, TextsOK, OpsOK
<1>7. CASE Shows
  <2>1. PICK t \in tabs : /\ phase = "none" /\ Activate(t, tabs)
                          /\ UNCHANGED <<tabs, left, sql, dirty, path, closing, op, typed, saved>>
    BY <1>7, Shown
  <2>2. t \in Tabs \union {None} /\ tabs \in SUBSET Tabs
    BY DEF TInv, ListOK
  <2>3. PageOK'
    BY <2>1, <2>2, Activated
  <2> QED BY <2>1, <2>3 DEF TInv, ListOK, TextsOK, OpsOK
<1> QED BY <1>1, <1>2, <1>3, <1>4, <1>5, <1>6, <1>7, Steps, TypePage, TypeOpen, TypeClose

LEMMA TypeAlways == Spec => []TInv
BY TypeInit, TypeStep, PTL DEF Spec

\* Every variable keeps its type: the list of the tabs stays an order, whatever is closed while
\* a switch or a save waits, and an editor that is up has an instance.
THEOREM TypeCorrect == Spec => []TypeOK
<1>1. TInv => TypeOK
  BY DEF TInv, ListOK, PageOK, TextsOK, OpsOK, TypeOK
<1> QED BY <1>1, TypeAlways, PTL

----------------------------------------------------------------------------
(* No text is lost *)

\* A user who waits for the editor and its flushes, though not before closing several tabs.
Patient == Allowed \subseteq {"close unflushed"}

\* The init that waits for Monaco was given the text the tab still has.
Pending == phase = "initing" => pendingInit.text = typed[active]

\* What a handler was told, or took from the tab, is what the tab has.
Answers == \A o \in Ops : op[o].pc # "idle" /\ op[o].tab \in tabs => op[o].text = typed[op[o].tab]

\* While a switch flushes, nobody is about to close a tab or to switch to another.
Alone ==
    \A o \in Ops : op[o].pc = "switch" =>
        /\ op[o].tab = active /\ active \in tabs /\ op[o].next # None /\ closing = None
        /\ \A e \in Ops \ {o} : op[e].pc # "close" /\ op[e].next = None

KInv == TInv /\ TextKept /\ CleanIsSaved /\ Pending /\ Answers /\ Alone

\* The tab's text is in Sql, or the page has it.
InPage(t) == t = active /\ phase = "ready"

\* What a patient user does not do.
LEMMA Quiet ==
  ASSUME Patient
  PROVE  /\ MayOpen => ~Unflushed
         /\ MayFlush => phase = "ready" \/ typed[active] = Blank
         /\ MayLoad => phase = "ready"
         /\ MayType => \A o \in Ops : op[o].tab # active
         /\ MayAct => \A o \in Ops : op[o].pc # "switch"
         /\ MaySwitch => \A o \in Ops : op[o].pc # "close" /\ op[o].next = None
<1>1. /\ "open unflushed" \notin Allowed /\ "flush before ready" \notin Allowed
      /\ "load before ready" \notin Allowed /\ "type while flushing" \notin Allowed
      /\ "act while switching" \notin Allowed
  BY DEF Patient
<1>2. MayOpen => ~Unflushed
  BY <1>1 DEF MayOpen, May
<1>3. MayFlush => phase = "ready" \/ typed[active] = Blank
  BY <1>1 DEF MayFlush, May
<1>4. MayLoad => phase = "ready"
  BY <1>1 DEF MayLoad, May
<1>5. MayType => \A o \in Ops : op[o].tab # active
  BY <1>1 DEF MayType, May
<1>6. MayAct => \A o \in Ops : op[o].pc # "switch"
  BY <1>1 DEF MayAct, May, Switching
<1>7. MaySwitch => \A o \in Ops : op[o].pc # "close" /\ op[o].next = None
  BY <1>1 DEF MaySwitch, May, SwitchingOrClosing
<1> QED BY <1>2, <1>3, <1>4, <1>5, <1>6, <1>7

LEMMA KInit == Init => KInv
<1> SUFFICES ASSUME Init PROVE KInv
  OBVIOUS
<1>1. \A o \in Ops : op[o].pc = "idle"
  BY DEF Init, Idle
<1>2. Answers /\ Alone
  BY <1>1 DEF Answers, Alone
<1> QED BY <1>2, TypeInit DEF Init, KInv, TextKept, CleanIsSaved, Pending

\* Another tab is shown: the texts of all are in Sql by then.
LEMMA ShownKept ==
  ASSUME TInv, TextKept, Pending, NEW u, NEW T,
         Activate(u, T), \A t \in tabs' : sql'[t] = typed'[t],
         u = active /\ active \in tabs => typed'[active] = typed[active]
  PROVE  TextKept' /\ Pending'
<1>1. /\ active' = u
      /\ phase' = IF u = active THEN phase ELSE IF u \in T THEN "importing" ELSE "none"
      /\ editor' = IF u # active /\ phase \in {"initing", "ready"} THEN None ELSE editor
      /\ pendingInit' = pendingInit
  BY DEF Activate
<1>2. CASE u # active
  BY <1>1, <1>2 DEF TextKept, Pending
<1>3. CASE u = active
  <2>1. active' = active /\ phase' = phase /\ editor' = editor
    BY <1>1, <1>3
  <2>2. Pending'
    BY <1>1, <1>3, <2>1 DEF Pending, TInv, PageOK
  <2>3. phase = "ready" => active \in tabs /\ editor.tab = active /\ editor.text = typed[active]
    BY DEF TextKept, TInv, PageOK
  <2>4. TextKept'
    BY <1>3, <2>1, <2>3 DEF TextKept
  <2> QED BY <2>2, <2>4
<1> QED BY <1>2, <1>3

\* The same tab is shown, and those that stay have their texts in Sql.
LEMMA UnshownKept ==
  ASSUME TextKept, Pending, UNCHANGED <<active, phase, editor, pendingInit, typed>>,
         tabs' \subseteq tabs, \A t \in tabs : ~InPage(t) => sql'[t] = typed[t]
  PROVE  TextKept' /\ Pending'
<1>1. Pending'
  BY DEF Pending
<1>2. ASSUME NEW t \in tabs'
      PROVE  IF t = active' /\ phase' = "ready" THEN editor'.tab = t /\ editor'.text = typed'[t]
             ELSE sql'[t] = typed'[t]
  <2>1. t \in tabs
    BY <1>2
  <2> QED BY <2>1 DEF TextKept, InPage
<1> QED BY <1>1, <1>2 DEF TextKept

\* One tab is closed, or none.
LEMMA ClosingKept ==
  ASSUME TInv, TextKept, Pending, NEW t, CloseTab(t) \/ NoneCloses, typed' = typed,
         \A u \in tabs : ~InPage(u) => sql'[u] = typed[u]
  PROVE  TextKept' /\ Pending'
<1>1. CASE NoneCloses
  BY <1>1, UnshownKept DEF NoneCloses, pageVars
<1>2. CASE CloseTab(t)
  <2>1. /\ tabs' = tabs \ {t}
        /\ \/ UNCHANGED <<active, pageVars>>
           \/ active = t /\ Activate(LastOf(tabs \ {t}), tabs \ {t})
    BY <1>2, ClosesOne
  <2>2. CASE UNCHANGED <<active, pageVars>>
    BY <2>1, <2>2, UnshownKept DEF pageVars
  <2>3. CASE active = t /\ Activate(LastOf(tabs \ {t}), tabs \ {t})
    <3>1. \A u \in tabs' : sql'[u] = typed'[u]
      BY <2>1, <2>3 DEF InPage
    <3> QED BY <2>3, <3>1, ShownKept
  <2> QED BY <2>1, <2>2, <2>3
<1> QED BY <1>1, <1>2

\* An answer that is stored is the text of its tab.
LEMMA StoredKept ==
  ASSUME KInv, NEW o \in Ops, op[o].pc # "idle", Store(o)
  PROVE  \A u \in tabs : sql'[u] = typed[u] \/ (InPage(u) /\ u # op[o].tab)
<1>1. /\ op[o].tab \in Tabs /\ sql'[op[o].tab] = op[o].text
      /\ \A t \in Tabs \ {op[o].tab} : sql'[t] = sql[t]
  BY Stored DEF KInv
<1>2. op[o].tab \in tabs => op[o].text = typed[op[o].tab]
  BY DEF KInv, Answers
<1>3. tabs \subseteq Tabs
  BY DEF KInv, TInv, ListOK
<1> QED BY <1>1, <1>2, <1>3 DEF KInv, TextKept, InPage

\* A handler ends or goes on; the texts are as before.
LEMMA AnswersKept ==
  ASSUME KInv, NEW o \in Ops, NEW x, op' = [op EXCEPT ![o] = x],
         x.pc # "idle" /\ x.tab \in tabs => x.text = typed[x.tab],
         typed' = typed, tabs' \subseteq tabs
  PROVE  Answers'
<1>1. \A e \in Ops \ {o} : op'[e] = op[e]
  BY DEF KInv, TInv, OpsOK
<1>2. op'[o] = x
  BY DEF KInv, TInv, OpsOK
<1> QED BY <1>1, <1>2 DEF KInv, Answers

\* A switch that is on its way stays alone if nobody begins to close and the same tab is shown.
LEMMA AloneKept ==
  ASSUME KInv, NEW o \in Ops, NEW x, op' = [op EXCEPT ![o] = x],
         x.pc # "switch",
         \/ \A e \in Ops : op[e].pc # "switch"
         \/ UNCHANGED <<tabs, active, closing>> /\ x.pc # "close" /\ x.next = None
  PROVE  Alone'
<1>1. \A e \in Ops \ {o} : op'[e] = op[e]
  BY DEF KInv, TInv, OpsOK
<1>2. op'[o] = x
  BY DEF KInv, TInv, OpsOK
<1> QED BY <1>1, <1>2 DEF KInv, Alone

\* Only the page moves on.
LEMMA KPage ==
  ASSUME KInv, TInv', Imported \/ MonacoLoads
  PROVE  KInv'
<1>1. UNCHANGED <<tabs, active, sql, dirty, closing, op, typed, saved>>
  BY DEF Imported, MonacoLoads, tabVars
<1>2. CleanIsSaved' /\ Answers' /\ Alone'
  BY <1>1 DEF KInv, CleanIsSaved, Answers, Alone
<1>3. TextKept' /\ Pending'
  <2>1. CASE Imported
    <3> DEFINE b == [tab |-> active, text |-> sql[active]]
    <3>1. /\ phase = "importing" /\ active \in tabs
          /\ IF monaco THEN editor' = b /\ phase' = "ready" ELSE pendingInit' = b /\ phase' = "initing"
      BY <2>1 DEF Imported, KInv, TInv, PageOK
    <3>2. b.tab = active /\ b.text = typed[active]
      BY <3>1 DEF KInv, TextKept
    <3>3. \A t \in tabs : sql[t] = typed[t]
      BY <3>1 DEF KInv, TextKept
    <3> HIDE DEF b
    <3> QED BY <1>1, <3>1, <3>2, <3>3 DEF TextKept, Pending
  <2>2. CASE MonacoLoads
    <3>1. /\ ~monaco /\ pendingInit # None /\ editor' = pendingInit
          /\ phase' = IF phase = "initing" THEN "ready" ELSE phase
      BY <2>2 DEF MonacoLoads
    <3>2. phase # "ready" /\ (phase = "initing" => pendingInit.tab = active /\ pendingInit.text = typed[active])
      BY <3>1 DEF KInv, TInv, PageOK, Pending
    <3> QED BY <1>1, <3>1, <3>2 DEF KInv, TextKept, Pending
  <2> QED BY <2>1, <2>2
<1> QED BY <1>2, <1>3 DEF KInv

\* The user types, or takes a query from the history, into the editor that is up.
LEMMA KEdit ==
  ASSUME Patient, KInv, TInv', NEW text \in Texts, Type(text) \/ LoadSql(text)
  PROVE  KInv'
<1>1. /\ phase = "ready" /\ active \in tabs /\ active \in Tabs
      /\ \A o \in Ops : op[o].tab # active
  BY Quiet DEF Type, LoadSql, KInv, TInv, PageOK, ListOK
<1>2. /\ editor' = [editor EXCEPT !.text = text] /\ typed' = [typed EXCEPT ![active] = text]
      /\ dirty' = [dirty EXCEPT ![active] = TRUE]
      /\ sql' = sql \/ sql' = [sql EXCEPT ![active] = text]
      /\ UNCHANGED <<tabs, active, closing, op, phase, saved>>
  BY <1>1 DEF Type, LoadSql
<1>3. editor'.tab = active /\ editor'.text = text
  BY <1>1, <1>2, Replaced DEF KInv
<1>4. /\ typed'[active] = text /\ dirty'[active]
      /\ \A t \in Tabs \ {active} : typed'[t] = typed[t] /\ dirty'[t] = dirty[t] /\ sql'[t] = sql[t]
  BY <1>1, <1>2 DEF KInv, TInv, TextsOK
<1>5. tabs \subseteq Tabs
  BY DEF KInv, TInv, ListOK
<1>6. TextKept'
  BY <1>1, <1>2, <1>3, <1>4, <1>5 DEF KInv, TextKept
<1>7. CleanIsSaved'
  BY <1>2, <1>4, <1>5 DEF KInv, CleanIsSaved
<1>8. Pending' /\ Answers' /\ Alone'
  BY <1>1, <1>2, <1>4, <1>5 DEF KInv, Pending, Answers, Alone
<1> QED BY <1>6, <1>7, <1>8 DEF KInv

\* A tab appears; what the editor had is in Sql already.
LEMMA KOpen ==
  ASSUME Patient, KInv, TInv', Opens
  PROVE  KInv'
<1>1. PICK t \in Tabs, text \in Texts, fromFile \in BOOLEAN : OpenTab(t, text, fromFile)
  BY DEF Opens, Texts
<1>2. /\ t \notin tabs /\ \A o \in Ops : op[o].tab # t
      /\ tabs' = tabs \union {t}
      /\ sql' = [sql EXCEPT ![t] = text]
      /\ typed' = [typed EXCEPT ![t] = text] /\ saved' = [saved EXCEPT ![t] = text]
      /\ dirty' = [dirty EXCEPT ![t] = FALSE]
      /\ Activate(t, tabs \union {t})
      /\ UNCHANGED <<closing, op>>
  BY <1>1 DEF OpenTab
<1>3. ~Unflushed /\ \A o \in Ops : op[o].pc # "switch"
  BY <1>1, Quiet DEF OpenTab
<1>4. \A u \in tabs : sql[u] = typed[u]
  BY <1>3 DEF KInv, TextKept, Unflushed
<1>5. /\ sql'[t] = text /\ typed'[t] = text /\ saved'[t] = text
      /\ \A u \in tabs : /\ sql'[u] = sql[u] /\ typed'[u] = typed[u]
                         /\ saved'[u] = saved[u] /\ dirty'[u] = dirty[u]
  <2>1. /\ tabs \subseteq Tabs
        /\ DOMAIN sql = Tabs /\ DOMAIN typed = Tabs /\ DOMAIN saved = Tabs /\ DOMAIN dirty = Tabs
    BY DEF KInv, TInv, TextsOK, ListOK
  <2>2. /\ t \notin tabs
        /\ sql' = [sql EXCEPT ![t] = text]
        /\ typed' = [typed EXCEPT ![t] = text] /\ saved' = [saved EXCEPT ![t] = text]
        /\ dirty' = [dirty EXCEPT ![t] = FALSE]
    BY <1>2
  <2>3. \A u \in tabs : u \in Tabs /\ u # t
    BY <2>1, <2>2
  <2> QED BY <2>1, <2>2, <2>3
<1>6. TextKept' /\ Pending'
  <2>1. \A u \in tabs' : sql'[u] = typed'[u]
    BY <1>2, <1>4, <1>5
  <2>2. TInv /\ TextKept /\ Pending
    BY DEF KInv
  <2> QED BY <1>2, <1>5, <2>1, <2>2, ShownKept
<1>7. CleanIsSaved'
  BY <1>2, <1>5 DEF KInv, CleanIsSaved
<1>8. Answers'
  BY <1>2, <1>5 DEF KInv, Answers
<1>9. Alone'
  BY <1>2, <1>3 DEF Alone
<1> QED BY <1>6, <1>7, <1>8, <1>9 DEF KInv

\* What a flush answers is the text of the active tab.
LEMMA FlushTells ==
  ASSUME Patient, KInv, NEW o \in Ops, NEW pc \in {"switch", "run", "save", "close"},
         NEW next \in Tabs \union {None}, Flush(o, pc, next)
  PROVE  /\ op' = [op EXCEPT ![o] = [pc |-> pc, tab |-> active, next |-> next, text |-> typed[active]]]
         /\ active \in tabs
<1>1. active \in tabs
  BY DEF Flush
<1>2. GetValue = typed[active]
  BY <1>1, Quiet DEF Flush, GetValue, KInv, TextKept
<1> QED BY <1>1, <1>2 DEF Flush

\* A handler begins.
LEMMA KStart ==
  ASSUME Patient, KInv, TInv', NEW o \in Ops, Starts(o)
  PROVE  KInv'
<1>1. UNCHANGED <<tabs, active, sql, dirty, closing, phase, editor, pendingInit, typed, saved>>
  BY Started DEF KInv
<1>2. TextKept' /\ CleanIsSaved' /\ Pending'
  BY <1>1 DEF KInv, TextKept, CleanIsSaved, Pending
<1>3. Answers' /\ Alone'
  <2>1. CASE \E t \in Tabs : SwitchTab(o, t) /\ active \in tabs
    <3>1. PICK t \in Tabs : SwitchTab(o, t) /\ active \in tabs
      BY <2>1
    <3> DEFINE x == [pc |-> "switch", tab |-> active, next |-> t, text |-> typed[active]]
    <3>2. op' = [op EXCEPT ![o] = x] /\ closing = None /\ active \in tabs
      BY <3>1, FlushTells DEF SwitchTab
    <3>3. \A e \in Ops : op[e].pc # "close" /\ op[e].next = None
      BY <3>1, Quiet DEF SwitchTab
    <3>4. x.pc = "switch" /\ x.tab = active /\ x.next # None /\ x.text = typed[x.tab]
      BY EditorAssumption
    <3> HIDE DEF x
    <3>5. Answers'
      BY <1>1, <3>2, <3>4, AnswersKept
    <3>6. op'[o] = x /\ \A e \in Ops \ {o} : op'[e] = op[e]
      BY <3>2 DEF KInv, TInv, OpsOK
    <3>7. \A e \in Ops : op[e].pc # "switch"
      BY <3>3 DEF KInv, Alone
    <3>8. Alone'
      BY <1>1, <3>2, <3>3, <3>4, <3>6, <3>7 DEF Alone
    <3> QED BY <3>5, <3>8
  <2>2. CASE Run(o) \/ Save(o)
    <3>1. PICK pc \in {"run", "save"} : Flush(o, pc, None)
      BY <2>2 DEF Run, Save
    <3> DEFINE x == [pc |-> pc, tab |-> active, next |-> None, text |-> typed[active]]
    <3>2. op' = [op EXCEPT ![o] = x]
      BY <3>1, FlushTells
    <3>3. x.pc # "switch" /\ x.pc # "close" /\ x.next = None /\ x.text = typed[x.tab]
      OBVIOUS
    <3> HIDE DEF x
    <3> QED BY <1>1, <3>2, <3>3, AnswersKept, AloneKept
  <2>3. CASE SaveAndClose(o)
    <3>1. closing \in Tabs /\ \A e \in Ops : op[e].pc # "switch"
      BY <2>3 DEF SaveAndClose, KInv, TInv, OpsOK, Alone
    <3>2. CASE closing = active
      <4> DEFINE x == [pc |-> "save", tab |-> active, next |-> closing, text |-> typed[active]]
      <4>1. Flush(o, "save", closing)
        BY <2>3, <3>2 DEF SaveAndClose
      <4>2. op' = [op EXCEPT ![o] = x]
        BY <3>1, <4>1, FlushTells
      <4>3. x.pc # "switch" /\ x.text = typed[x.tab]
        OBVIOUS
      <4> HIDE DEF x
      <4> QED BY <1>1, <3>1, <4>2, <4>3, AnswersKept, AloneKept
    <3>3. CASE closing # active
      <4> DEFINE x == [pc |-> "write", tab |-> closing, next |-> closing, text |-> sql[closing]]
      <4>1. op' = [op EXCEPT ![o] = x]
        BY <2>3, <3>3 DEF SaveAndClose
      <4>2. x.pc # "switch" /\ (x.tab \in tabs => x.text = typed[x.tab])
        BY <3>3 DEF KInv, TextKept
      <4> HIDE DEF x
      <4> QED BY <1>1, <3>1, <4>1, <4>2, AnswersKept, AloneKept
    <3> QED BY <3>2, <3>3
  <2>4. CASE RequestClose(o)
    <3> DEFINE x == [pc |-> "close", tab |-> active, next |-> None, text |-> typed[active]]
    <3>1. op' = [op EXCEPT ![o] = x] /\ \A e \in Ops : op[e].pc # "switch"
      BY <2>4, FlushTells, Quiet DEF RequestClose
    <3>2. x.pc # "switch" /\ x.text = typed[x.tab]
      OBVIOUS
    <3> HIDE DEF x
    <3> QED BY <1>1, <3>1, <3>2, AnswersKept, AloneKept
  <2> QED BY <2>1, <2>2, <2>3, <2>4 DEF Starts
<1> QED BY <1>2, <1>3 DEF KInv

\* A tab is shown when none was: every text is in Sql, and no switch is on its way.
LEMMA KShown ==
  ASSUME KInv, TInv', Shows
  PROVE  KInv'
<1>1. PICK t \in tabs : /\ active \notin tabs /\ phase = "none" /\ Activate(t, tabs)
                        /\ UNCHANGED <<tabs, left, sql, dirty, path, closing, op, typed, saved>>
  BY Shown DEF KInv
<1>2. TInv /\ TextKept /\ Pending
  BY DEF KInv
<1>3. \A u \in tabs' : sql'[u] = typed'[u]
  BY <1>1, <1>2 DEF TextKept
<1>4. TextKept' /\ Pending'
  BY <1>1, <1>2, <1>3, ShownKept
<1>5. CleanIsSaved' /\ Answers'
  BY <1>1 DEF KInv, CleanIsSaved, Answers
<1>6. Alone'
  BY <1>1 DEF KInv, Alone
<1> QED BY <1>4, <1>5, <1>6 DEF KInv

\* A handler ends: Idle is a state without an answer.
LEMMA EndKept ==
  ASSUME KInv, NEW o \in Ops, op' = [op EXCEPT ![o] = Idle], typed' = typed, tabs' \subseteq tabs,
         (\A e \in Ops : op[e].pc # "switch") \/ UNCHANGED <<tabs, active, closing>>
  PROVE  Answers' /\ Alone'
<1>1. Idle.pc = "idle" /\ Idle.next = None
  BY DEF Idle
<1>2. Answers'
  BY <1>1, AnswersKept
<1>3. Alone'
  BY <1>1, AloneKept
<1> QED BY <1>2, <1>3

\* The tab that was chosen is shown.
LEMMA KSwitched ==
  ASSUME KInv, TInv', NEW o \in Ops, Switched(o)
  PROVE  KInv'
<1>1. /\ op[o].pc = "switch" /\ Store(o) /\ Activate(op[o].next, tabs) /\ op' = [op EXCEPT ![o] = Idle]
      /\ UNCHANGED <<tabs, dirty, closing, typed, saved>>
  BY DEF Switched
<1>2. op[o].tab = active /\ op[o].next # None
  BY <1>1 DEF KInv, Alone
<1>3. \A t \in tabs' : sql'[t] = typed'[t]
  BY <1>1, <1>2, StoredKept DEF InPage
<1>4. TextKept' /\ Pending'
  <2>1. TInv /\ TextKept /\ Pending
    BY DEF KInv
  <2> QED BY <1>1, <1>3, <2>1, ShownKept
<1>5. CleanIsSaved'
  BY <1>1 DEF KInv, CleanIsSaved
<1>6. Answers'
  <2>1. Idle.pc = "idle"
    BY DEF Idle
  <2> QED BY <1>1, <2>1, AnswersKept
<1>7. Alone'
  <2>1. \A e \in Ops \ {o} : op'[e] = op[e] /\ op[e].pc # "switch"
    BY <1>1, <1>2 DEF KInv, TInv, OpsOK, Alone
  <2>2. op'[o].pc = "idle"
    BY <1>1 DEF KInv, TInv, OpsOK, Idle
  <2> QED BY <2>1, <2>2 DEF Alone
<1> QED BY <1>4, <1>5, <1>6, <1>7 DEF KInv

\* A run goes on, or a save, with the text it asked for.
LEMMA KFlushed ==
  ASSUME KInv, TInv', NEW o \in Ops, RunFlushed(o) \/ SaveFlushed(o)
  PROVE  KInv'
<1>1. /\ op[o].pc # "idle" /\ Store(o)
      /\ UNCHANGED <<tabs, active, dirty, closing, phase, editor, pendingInit, typed, saved>>
  BY DEF RunFlushed, SaveFlushed, pageVars
<1>2. \A u \in tabs : ~InPage(u) => sql'[u] = typed[u]
  BY <1>1, StoredKept
<1>3. TextKept' /\ Pending'
  BY <1>1, <1>2, UnshownKept DEF KInv
<1>4. CleanIsSaved'
  BY <1>1 DEF KInv, CleanIsSaved
<1>5. Answers' /\ Alone'
  <2>1. CASE RunFlushed(o)
    <3>1. op' = [op EXCEPT ![o] = Idle]
      BY <2>1 DEF RunFlushed
    <3> QED BY <1>1, <3>1, EndKept
  <2>2. CASE SaveFlushed(o)
    <3>1. op[o].pc = "save" /\ op' = [op EXCEPT ![o].pc = "write"]
      BY <2>2 DEF SaveFlushed
    <3>2. \A e \in Ops \ {o} : op'[e] = op[e]
      BY <3>1 DEF KInv, TInv, OpsOK
    <3>3. op'[o].pc = "write" /\ op'[o].tab = op[o].tab /\ op'[o].next = op[o].next /\ op'[o].text = op[o].text
      BY <3>1 DEF KInv, TInv, OpsOK, Operation
    <3>4. Answers'
      BY <1>1, <3>1, <3>2, <3>3 DEF KInv, Answers
    <3>5. Alone'
      BY <1>1, <3>1, <3>2, <3>3 DEF KInv, Alone
    <3> QED BY <3>4, <3>5
  <2> QED BY <2>1, <2>2
<1> QED BY <1>3, <1>4, <1>5 DEF KInv

\* A save ends, and perhaps the tab with it.
LEMMA KSaved ==
  ASSUME KInv, TInv', NEW o \in Ops, NotSaved(o) \/ Written(o)
  PROVE  KInv'
<1>1. PICK isDirty : SaveEnds(o, isDirty)
  BY DEF NotSaved, Written
<1>2. /\ op' = [op EXCEPT ![o] = Idle]
      /\ \/ CloseTab(op[o].tab) /\ op[o].next # None
         \/ NoneCloses /\ UNCHANGED closing
  BY <1>1 DEF SaveEnds
<1>3. op[o].pc = "write" /\ op[o].tab \in Tabs /\ UNCHANGED <<sql, typed>>
  BY DEF NotSaved, Written, KInv, TInv, OpsOK
<1>4. tabs' \subseteq tabs
  BY <1>2, ClosesAtMostOne DEF KInv
<1>5. \A u \in tabs : ~InPage(u) => sql'[u] = typed[u]
  BY <1>3 DEF KInv, TextKept, InPage
<1>6. TextKept' /\ Pending'
  BY <1>2, <1>3, <1>5, ClosingKept DEF KInv
<1>7. CleanIsSaved'
  <2>1. CASE NotSaved(o)
    BY <1>3, <1>4, <2>1 DEF NotSaved, KInv, CleanIsSaved
  <2>2. CASE Written(o)
    <3>1. op[o].tab \in tabs => op[o].text = typed[op[o].tab]
      BY <1>3 DEF KInv, Answers
    <3>2. saved' = [saved EXCEPT ![op[o].tab] = op[o].text] /\ dirty' = [dirty EXCEPT ![op[o].tab] = FALSE]
      BY <2>2 DEF Written
    <3>3. tabs \subseteq Tabs /\ DOMAIN saved = Tabs /\ DOMAIN dirty = Tabs
      BY DEF KInv, TInv, ListOK, TextsOK
    <3> QED BY <1>3, <1>4, <3>1, <3>2, <3>3 DEF KInv, CleanIsSaved
  <2> QED BY <2>1, <2>2
<1>8. Answers' /\ Alone'
  <2>1. CASE op[o].next # None
    <3>1. \A e \in Ops : op[e].pc # "switch"
      BY <1>3, <2>1 DEF KInv, Alone
    <3> QED BY <1>2, <1>3, <1>4, <3>1, EndKept
  <2>2. CASE NoneCloses /\ UNCHANGED closing
    BY <1>2, <1>3, <1>4, <2>2, EndKept DEF NoneCloses
  <2> QED BY <1>2, <2>1, <2>2
<1> QED BY <1>6, <1>7, <1>8 DEF KInv

\* A tab is closed, or its user asked.
LEMMA KCloseFlushed ==
  ASSUME KInv, TInv', NEW o \in Ops, CloseFlushed(o)
  PROVE  KInv'
<1>1. /\ op[o].pc = "close" /\ Store(o) /\ op' = [op EXCEPT ![o] = Idle]
      /\ CloseTab(op[o].tab) \/ NoneCloses
      /\ UNCHANGED <<dirty, typed, saved>>
  BY DEF CloseFlushed, AskClose
<1>2. tabs' \subseteq tabs
  BY <1>1, ClosesAtMostOne DEF KInv
<1>3. \A u \in tabs : ~InPage(u) => sql'[u] = typed[u]
  BY <1>1, StoredKept
<1>4. TextKept' /\ Pending'
  BY <1>1, <1>3, ClosingKept DEF KInv
<1>5. CleanIsSaved'
  BY <1>1, <1>2 DEF KInv, CleanIsSaved
<1>6. \A e \in Ops : op[e].pc # "switch"
  BY <1>1 DEF KInv, Alone
<1>7. Answers' /\ Alone'
  BY <1>1, <1>2, <1>6, EndKept
<1> QED BY <1>4, <1>5, <1>7 DEF KInv

\* The other ways to close: no handler is concerned.
LEMMA KClose ==
  ASSUME KInv, TInv', UNCHANGED <<sql, dirty, op, typed, saved>>, \A o \in Ops : op[o].pc # "switch",
         (\E t : CloseTab(t) \/ NoneCloses) \/ \E S : CloseTabs(S)
  PROVE  KInv'
<1>1. \A u \in tabs : ~InPage(u) => sql'[u] = typed[u]
  BY DEF KInv, TextKept, InPage
<1>2. tabs' \subseteq tabs /\ TextKept' /\ Pending'
  <2>1. ASSUME NEW t, CloseTab(t) \/ NoneCloses PROVE tabs' \subseteq tabs /\ TextKept' /\ Pending'
    BY <1>1, <2>1, ClosesAtMostOne, ClosingKept DEF KInv
  <2>2. ASSUME NEW S, CloseTabs(S) PROVE tabs' \subseteq tabs /\ TextKept' /\ Pending'
    <3>1. tabs' \subseteq tabs
      BY <2>2, ClosesMany DEF KInv
    <3>2. CASE UNCHANGED <<active, pageVars>>
      BY <1>1, <3>1, <3>2, UnshownKept DEF KInv, pageVars
    <3>3. CASE active \notin tabs' /\ Activate(LastOf(tabs'), tabs')
      <4>1. \A t \in tabs' : sql'[t] = typed'[t]
        BY <1>1, <3>1, <3>3 DEF InPage
      <4>2. LastOf(tabs') = active => active \notin tabs
        <5>1. LastOf(tabs') \in tabs' \union {None} /\ None \notin tabs
          BY LastIsOne, EditorAssumption DEF KInv, TInv, ListOK
        <5> QED BY <3>3, <5>1
      <4>3. TInv /\ TextKept /\ Pending
        BY DEF KInv
      <4> QED BY <3>1, <3>3, <4>1, <4>2, <4>3, ShownKept
    <3> QED BY <2>2, <3>2, <3>3, ClosesMany DEF KInv
  <2> QED BY <2>1, <2>2
<1>3. CleanIsSaved' /\ Answers' /\ Alone'
  BY <1>2 DEF KInv, CleanIsSaved, Answers, Alone
<1> QED BY <1>2, <1>3 DEF KInv

LEMMA KStep ==
  ASSUME Patient, KInv, [Next]_vars
  PROVE  KInv'
<1>1. TInv'
  BY TypeStep DEF KInv
<1>2. ASSUME NEW o \in Ops,
             \/ Starts(o) \/ Switched(o) \/ RunFlushed(o) \/ SaveFlushed(o)
             \/ NotSaved(o) \/ Written(o) \/ CloseFlushed(o)
      PROVE  KInv'
  BY <1>1, <1>2, KStart, KSwitched, KFlushed, KSaved, KCloseFlushed
<1>3. ASSUME NEW t \in Tabs, RequestCloseInactive(t) PROVE KInv'
  <2>1. /\ CloseTab(t) \/ NoneCloses
        /\ UNCHANGED <<sql, dirty, op, typed, saved>>
        /\ \A o \in Ops : op[o].pc # "switch"
    BY <1>3, Quiet DEF RequestCloseInactive, AskClose
  <2> QED BY <1>1, <2>1, KClose
<1>4. CASE CancelClose
  BY <1>1, <1>4 DEF CancelClose, tabVars, pageVars, KInv, TextKept, CleanIsSaved, Pending, Answers, Alone
<1>5. CASE DiscardAndClose
  <2>1. CloseTab(closing) /\ UNCHANGED <<sql, dirty, op, typed, saved>>
    BY <1>5 DEF DiscardAndClose
  <2>2. \A o \in Ops : op[o].pc # "switch"
    BY <1>5 DEF DiscardAndClose, KInv, Alone
  <2> QED BY <1>1, <2>1, <2>2, KClose
<1>6. ASSUME NEW S, CloseTabs(S) PROVE KInv'
  <2>1. UNCHANGED <<sql, dirty, op, typed, saved>> /\ \A o \in Ops : op[o].pc # "switch"
    BY <1>6, Quiet DEF CloseTabs
  <2> QED BY <1>1, <1>6, <2>1, KClose
<1>7. CASE UNCHANGED vars
  BY <1>1, <1>7 DEF vars, tabVars, pageVars, KInv, TextKept, CleanIsSaved, Pending, Answers, Alone
<1> QED BY <1>1, <1>2, <1>3, <1>4, <1>5, <1>6, <1>7, Steps, KPage, KEdit, KOpen, KShown

\* No text is lost or misplaced while a user switches, runs, saves and closes tabs, in however
\* many handlers at once, if he waits for the editor and its flushes.
THEOREM NoTextIsLost ==
  ASSUME Patient
  PROVE  Spec => []TextKept
<1>1. KInv => TextKept
  BY DEF KInv
<1>2. KInv /\ [Next]_vars => KInv'
  BY KStep
<1> QED BY KInit, <1>1, <1>2, PTL DEF Spec

\* A tab without the mark of a change has the text of its file.
THEOREM MarksTellTheTruth ==
  ASSUME Patient
  PROVE  Spec => []CleanIsSaved
<1>1. KInv => CleanIsSaved
  BY DEF KInv
<1>2. KInv /\ [Next]_vars => KInv'
  BY KStep
<1> QED BY KInit, <1>1, <1>2, PTL DEF Spec

\* The tabs that a step closes, and why they may be.
LEMMA Prompted ==
  ASSUME Patient, "close unflushed" \notin Allowed, KInv, [Next]_vars, NEW t \in tabs \ tabs'
  PROVE  closing = t \/ typed[t] \in {Blank, saved'[t]}
<1>1. t \in Tabs /\ (~dirty[t] => typed[t] = saved[t])
  BY DEF KInv, TInv, ListOK, CleanIsSaved
<1>2. ASSUME NEW o \in Ops, NotSaved(o) \/ Written(o) PROVE typed[t] = saved'[t]
  <2>1. PICK isDirty : SaveEnds(o, isDirty) /\ (NotSaved(o) => isDirty \in {dirty[op[o].tab], TRUE})
    BY <1>2 DEF NotSaved, Written
  <2>2. CloseTab(op[o].tab) /\ ~isDirty
    BY <2>1 DEF SaveEnds, NoneCloses
  <2>3. t = op[o].tab
    BY <2>2, ClosesOne DEF KInv
  <2>4. CASE NotSaved(o)
    BY <1>1, <2>1, <2>2, <2>3, <2>4 DEF NotSaved
  <2>5. CASE Written(o)
    <3>1. saved' = [saved EXCEPT ![t] = op[o].text] /\ op[o].pc # "idle"
      BY <2>3, <2>5 DEF Written
    <3>2. op[o].text = typed[t] /\ DOMAIN saved = Tabs
      BY <2>3, <3>1 DEF KInv, Answers, TInv, TextsOK
    <3> QED BY <1>1, <3>1, <3>2
  <2> QED BY <1>2, <2>4, <2>5
<1>3. ASSUME NEW o \in Ops, CloseFlushed(o) PROVE typed[t] \in {Blank, saved'[t]}
  <2>1. /\ op[o].pc # "idle" /\ saved' = saved
        /\ AskClose(op[o].tab, op[o].text)
    BY <1>3 DEF CloseFlushed
  <2>2. CloseTab(op[o].tab) /\ ~(dirty[op[o].tab] /\ op[o].text # Blank)
    BY <2>1 DEF AskClose, NoneCloses
  <2>3. t = op[o].tab
    BY <2>2, ClosesOne DEF KInv
  <2>4. op[o].text = typed[t]
    BY <2>1, <2>3 DEF KInv, Answers
  <2> QED BY <1>1, <2>1, <2>2, <2>3, <2>4
<1>4. ASSUME NEW u \in Tabs, RequestCloseInactive(u) PROVE typed[t] \in {Blank, saved'[t]}
  <2>1. u \in tabs \ {active} /\ AskClose(u, sql[u]) /\ saved' = saved
    BY <1>4 DEF RequestCloseInactive
  <2>2. CloseTab(u) /\ ~(dirty[u] /\ sql[u] # Blank)
    BY <2>1 DEF AskClose, NoneCloses
  <2>3. t = u
    BY <2>2, ClosesOne DEF KInv
  <2>4. sql[t] = typed[t]
    BY <2>1, <2>3 DEF KInv, TextKept
  <2> QED BY <1>1, <2>1, <2>2, <2>3, <2>4
<1>5. CASE DiscardAndClose
  <2>1. CloseTab(closing)
    BY <1>5 DEF DiscardAndClose
  <2>2. tabs' = tabs \ {closing}
    BY <2>1 DEF CloseTab, Keep
  <2> QED BY <2>2
<1>6. ASSUME NEW S, CloseTabs(S) PROVE typed[t] \in {Blank, saved'[t]}
  <2>1. MayCloseAll /\ saved' = saved
    BY <1>6 DEF CloseTabs
  <2>2. ~Unflushed
    BY <2>1 DEF MayCloseAll, May
  <2>3. sql[t] = typed[t]
    BY <2>2 DEF Unflushed, KInv, TextKept
  <2>4. ~HasUnsavedWork(t)
    BY <1>6, ClosesMany DEF KInv
  <2> QED BY <1>1, <2>1, <2>3, <2>4 DEF HasUnsavedWork
<1>7. ASSUME tabs' = tabs \/ \E v : tabs' = tabs \union {v} PROVE FALSE
  BY <1>7
<1>8. ASSUME NEW o \in Ops, Starts(o) \/ Switched(o) \/ RunFlushed(o) \/ SaveFlushed(o) PROVE FALSE
  <2>1. ~Starts(o)
    BY <1>7, Started DEF KInv
  <2> QED BY <1>7, <1>8, <2>1 DEF Switched, RunFlushed, SaveFlushed
<1>9. ~(\/ Imported \/ MonacoLoads \/ \E text \in Texts : Type(text) \/ LoadSql(text)
        \/ Opens \/ Shows \/ CancelClose \/ UNCHANGED vars)
  <2>1. ~Imported /\ ~MonacoLoads /\ ~CancelClose /\ ~UNCHANGED vars
    BY <1>7 DEF Imported, MonacoLoads, CancelClose, vars, tabVars
  <2>2. ASSUME NEW text \in Texts PROVE ~Type(text) /\ ~LoadSql(text)
    BY <1>7 DEF Type, LoadSql
  <2>3. ~Opens
    BY <1>7 DEF Opens, OpenTab
  <2>4. ~Shows
    BY <1>7, Shown DEF KInv
  <2> QED BY <2>1, <2>2, <2>3, <2>4
<1> QED BY <1>2, <1>3, <1>4, <1>5, <1>6, <1>8, <1>9, Steps

\* A tab with text that was neither saved nor opened from somewhere closes only after the
\* question was put, if what is in the editor is flushed before several tabs are closed, too.
THEOREM UnsavedTabsAsk ==
  ASSUME Patient, "close unflushed" \notin Allowed
  PROVE  Spec => ClosePrompts
<1>1. KInv /\ [Next]_vars => KInv'
  BY KStep
<1>2. KInv /\ [Next]_vars
      => [\A t \in tabs \ tabs' : closing = t \/ typed[t] \in {Blank, saved'[t]}]_vars
  BY Prompted
<1> QED BY KInit, <1>1, <1>2, PTL DEF Spec, ClosePrompts
====
