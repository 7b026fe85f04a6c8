---- MODULE EditorBuffer ----
(***************************************************************************)
(* The text of the query tabs.  A tab that is not active keeps its text in *)
(* QueryTab.Sql; the active one's is in Monaco, of which editor.js holds   *)
(* one global instance.  SqlEditor.razor is keyed by the active tab: a new *)
(* component is created, and the old one disposed, whenever that changes.  *)
(* The instance appears only after the module was imported and Monaco      *)
(* loaded.  Text moves from the page to the tab when somebody flushes it   *)
(* (SaveEditorAsync of QueryArea.razor), and only then.                    *)
(*                                                                         *)
(* The page executes the calls it gets in their order, so a flush reads    *)
(* the instance of the tab it was called for; its answer takes time.       *)
(* External: a component disposed while it imports has no host element     *)
(* left, and creating its Monaco instance throws.                          *)
(***************************************************************************)

CONSTANTS
    Tabs,       \* tabs that may be open; one that was closed may come back as a new one
    Contents,   \* what a user may type in a tab
    Ops,        \* bound: handlers waiting at the same time
    Blank,      \* the empty text
    None,
    Allowed     \* the overlaps that happen

Overlaps == {"open unflushed",      \* a tab is opened while the editor holds newer text
             "close unflushed",     \* several tabs are closed, likewise
             "flush before ready",  \* the text is asked for before Monaco is there
             "load before ready",   \* a query from the history, likewise
             "type while flushing", \* the user types before a flush or a save has ended
             "act while switching"} \* a tab is closed or opened while a switch flushes

Texts == {Blank} \union (Tabs \X Contents)
Buffer == [tab : Tabs, text : Texts]

ASSUME EditorAssumption ==
    /\ None \notin Tabs \union Ops \union Texts \union Buffer
    /\ Blank \notin Tabs \X Contents
    /\ Allowed \subseteq Overlaps

VARIABLES
    tabs, left, active, \* Workspace.Tabs: its members, and who is left of whom; ActiveTabId
    sql, dirty, path,   \* QueryTab.Sql, Dirty, and whether FilePath is set
    closing,            \* _closingTab
    op,                 \* handlers that wait for the page or for a file
    phase,              \* the SqlEditor component that is rendered
    editor,             \* the global of editor.js: the instance's tab and text
    pendingInit,        \* the last init that waits for Monaco
    monaco,             \* Monaco has been loaded
    typed, saved        \* history: the text the user sees in a tab; what was opened or saved

tabVars == <<tabs, left, active, sql, dirty, path>>
pageVars == <<phase, editor, pendingInit, monaco>>
vars == <<tabVars, closing, op, pageVars, typed, saved>>

TextsOf(t) == {Blank} \union ({t} \X Contents)
Idle == [pc |-> "idle", tab |-> None, next |-> None, text |-> Blank]

May(o, overlapping) == overlapping => o \in Allowed
Unflushed == active \in tabs /\ phase = "ready" /\ editor.text # sql[active]
Switching == \E o \in Ops : op[o].pc = "switch"
SwitchingOrClosing == \E o \in Ops : op[o].pc = "close" \/ op[o].next # None

MayOpen == May("open unflushed", Unflushed)
MayCloseAll == May("close unflushed", Unflushed)
MayFlush == May("flush before ready", phase # "ready" /\ typed[active] # Blank)
MayLoad == May("load before ready", phase # "ready")
MayType == May("type while flushing", \E o \in Ops : op[o].tab = active)
MayAct == May("act while switching", Switching)
MaySwitch == May("act while switching", SwitchingOrClosing)

Init ==
    /\ tabs = {} /\ left = {} /\ active = None
    /\ sql = [t \in Tabs |-> Blank]
    /\ dirty = [t \in Tabs |-> FALSE] /\ path = [t \in Tabs |-> FALSE]
    /\ closing = None /\ op = [o \in Ops |-> Idle]
    /\ phase = "none" /\ editor = None /\ pendingInit = None /\ monaco = FALSE
    /\ typed = [t \in Tabs |-> Blank] /\ saved = [t \in Tabs |-> Blank]

----------------------------------------------------------------------------
(* The component and the page *)

\* A mutant: the component is not keyed by its tab, and the next tab gets the old one.
ActivateUnkeyed(t, open) ==
    /\ active' = t
    /\ phase' = IF phase = "none" \/ t \notin open THEN IF t \in open THEN "importing" ELSE "none" ELSE phase
    /\ editor' = IF t # active /\ phase \in {"initing", "ready"} THEN None ELSE editor
    /\ UNCHANGED <<pendingInit, monaco>>

\* ActiveTabId becomes t and QueryArea is rendered: another key, so SqlEditor.DisposeAsync
\* for the old component, if it has its module, and OnAfterRenderAsync for the new.
Activate(t, open) ==
    /\ active' = t
    /\ phase' = IF t = active THEN phase ELSE IF t \in open THEN "importing" ELSE "none"
    /\ editor' = IF t # active /\ phase \in {"initing", "ready"} THEN None ELSE editor
    /\ UNCHANGED <<pendingInit, monaco>>

\* A mutant: an init that finds another one waiting leaves it at that.
ImportedOnce ==
    /\ phase = "importing"
    /\ IF monaco
       THEN /\ editor' = [tab |-> active, text |-> sql[active]]
            /\ phase' = "ready" /\ UNCHANGED pendingInit
       ELSE /\ pendingInit' = IF pendingInit = None THEN [tab |-> active, text |-> sql[active]] ELSE pendingInit
            /\ phase' = "initing" /\ UNCHANGED editor
    /\ UNCHANGED <<tabVars, closing, op, monaco, typed, saved>>

\* The import answers and init is called with InitialValue.
Imported ==
    /\ phase = "importing"
    /\ IF monaco
       THEN /\ editor' = [tab |-> active, text |-> sql[active]]
            /\ phase' = "ready" /\ UNCHANGED pendingInit
       ELSE /\ pendingInit' = [tab |-> active, text |-> sql[active]]
            /\ phase' = "initing" /\ UNCHANGED editor
    /\ UNCHANGED <<tabVars, closing, op, monaco, typed, saved>>

\* require has loaded Monaco: the instances of all waiting inits are created, the last one stays.
MonacoLoads ==
    /\ ~monaco /\ pendingInit # None
    /\ monaco' = TRUE
    /\ editor' = pendingInit /\ pendingInit' = None
    /\ phase' = IF phase = "initing" THEN "ready" ELSE phase
    /\ UNCHANGED <<tabVars, closing, op, typed, saved>>

\* The user types; onDidChangeModelContent, OnContentChanged, MarkDirty.
Type(text) ==
    /\ phase = "ready" /\ editor.tab = active /\ closing = None
    /\ text \in TextsOf(active) \ {editor.text}
    /\ MayType
    /\ editor' = [editor EXCEPT !.text = text]
    /\ typed' = [typed EXCEPT ![active] = text]
    /\ dirty' = [dirty EXCEPT ![active] = TRUE]
    /\ UNCHANGED <<tabs, left, active, sql, path, closing, op, phase, pendingInit, monaco, saved>>

\* LoadSqlAsync: setValue, whose change event marks the tab, does nothing without an instance.
LoadSql(text) ==
    /\ active \in tabs /\ closing = None
    /\ text \in {active} \X Contents
    /\ MayLoad
    /\ MayType
    /\ sql' = [sql EXCEPT ![active] = text]
    /\ typed' = [typed EXCEPT ![active] = text]
    /\ IF phase = "ready"
       THEN /\ dirty' = [dirty EXCEPT ![active] = TRUE]
            /\ editor' = [editor EXCEPT !.text = text]
       ELSE UNCHANGED <<dirty, editor>>
    /\ UNCHANGED <<tabs, left, active, path, closing, op, phase, pendingInit, monaco, saved>>

\* GetValueAsync and getValue: the empty text while there is no module or no instance.
GetValue == IF phase = "ready" THEN editor.text ELSE Blank

\* SaveEditorAsync resolves the active tab and asks the page.  (Without a module the answer is
\* immediate; the model lets it take time too.)
Flush(o, pc, next) ==
    /\ op[o] = Idle
    /\ active \in tabs
    /\ MayFlush
    /\ op' = [op EXCEPT ![o] = [pc |-> pc, tab |-> active, next |-> next, text |-> GetValue]]
    /\ UNCHANGED <<tabVars, closing, pageVars, typed, saved>>

\* The answer is stored in the tab that was active when the question was asked.
Store(o) == sql' = [sql EXCEPT ![op[o].tab] = op[o].text]

----------------------------------------------------------------------------
(* Opening, switching, running *)

\* AddTab, OpenFileTab, OpenTableData: nothing is flushed.
OpenTab(t, text, fromFile) ==
    /\ t \notin tabs \union {closing} /\ \A o \in Ops : op[o].tab # t /\ op[o].next # t
    /\ MayOpen /\ MayAct
    /\ tabs' = tabs \union {t} /\ left' = left \union (tabs \X {t})
    /\ sql' = [sql EXCEPT ![t] = text]
    /\ typed' = [typed EXCEPT ![t] = text] /\ saved' = [saved EXCEPT ![t] = text]
    /\ dirty' = [dirty EXCEPT ![t] = FALSE] /\ path' = [path EXCEPT ![t] = fromFile]
    /\ Activate(t, tabs \union {t})
    /\ UNCHANGED <<closing, op>>

\* SwitchTabAsync; when the active tab is gone there is nothing to flush, and t is shown at once.
SwitchTab(o, t) ==
    /\ closing = None
    /\ t \in tabs \ {active}
    /\ MaySwitch
    /\ IF active \in tabs THEN Flush(o, "switch", t)
       ELSE Activate(t, tabs) /\ UNCHANGED <<tabs, left, sql, dirty, path, closing, op, typed, saved>>

\* A mutant: the answer goes to the tab that is being shown.
SwitchedWrongTab(o) ==
    /\ op[o].pc = "switch"
    /\ sql' = [sql EXCEPT ![op[o].next] = op[o].text]
    /\ Activate(op[o].next, tabs)
    /\ op' = [op EXCEPT ![o] = Idle]
    /\ UNCHANGED <<tabs, left, dirty, path, closing, typed, saved>>

\* Afterwards the tab is activated, whether or not it still exists.
Switched(o) ==
    /\ op[o].pc = "switch"
    /\ Store(o)
    /\ Activate(op[o].next, tabs)
    /\ op' = [op EXCEPT ![o] = Idle]
    /\ UNCHANGED <<tabs, left, dirty, path, closing, typed, saved>>

\* RunAsync flushes before it resolves what to run; the rest is QueryRun.
Run(o) == closing = None /\ Flush(o, "run", None)

RunFlushed(o) ==
    /\ op[o].pc = "run"
    /\ Store(o)
    /\ op' = [op EXCEPT ![o] = Idle]
    /\ UNCHANGED <<tabs, left, active, dirty, path, closing, pageVars, typed, saved>>

----------------------------------------------------------------------------
(* Saving *)

\* _closingBusy: SaveAndCloseAsync runs, and the buttons of the question are disabled.
ClosingBusy == \E o \in Ops : op[o].pc \in {"save", "write"} /\ op[o].next # None

\* SaveTabAsync for the active tab flushes.
Save(o) ==
    /\ closing = None
    /\ Flush(o, "save", None)

SaveFlushed(o) ==
    /\ op[o].pc = "save"
    /\ Store(o)
    /\ op' = [op EXCEPT ![o].pc = "write"]
    /\ UNCHANGED <<tabs, left, active, dirty, path, closing, pageVars, typed, saved>>

\* SaveAndCloseAsync; the tab is flushed again only if it is the active one.
SaveAndClose(o) ==
    /\ closing # None /\ ~ClosingBusy
    /\ IF closing = active THEN Flush(o, "save", closing)
       ELSE /\ op[o] = Idle
            /\ op' = [op EXCEPT ![o] = [pc |-> "write", tab |-> closing, next |-> closing,
                                        text |-> sql[closing]]]
            /\ UNCHANGED <<tabVars, closing, pageVars, typed, saved>>

\* Tabs.Remove, Tabs.RemoveAll: the list without all but the tabs of T.
Keep(T) == tabs' = T /\ left' = left \cap (T \X T)

\* Tabs.LastOrDefault()?.Id, for the tabs of T.
LastOf(T) ==
    LET last == {t \in T : \A u \in T : <<t, u>> \notin left}
    IN IF last = {} THEN None ELSE CHOOSE t \in last : TRUE

\* CloseTab, with what follows for the tab that was shown.
CloseTab(t) ==
    /\ Keep(tabs \ {t})
    /\ IF active = t /\ t \in tabs THEN Activate(LastOf(tabs \ {t}), tabs \ {t})
       ELSE UNCHANGED <<active, pageVars>>

NoneCloses == UNCHANGED <<tabs, left, active, pageVars>>

\* SaveAndCloseAsync goes on when the save has ended, and closes what is then clean.
SaveEnds(o, isDirty) ==
    /\ op' = [op EXCEPT ![o] = Idle]
    /\ IF op[o].next # None /\ ~isDirty THEN CloseTab(op[o].tab) /\ closing' = None
       ELSE NoneCloses /\ UNCHANGED closing

\* A mutant: the text is taken for saved although the dialog was dismissed.
NotSavedButClean(o) ==
    /\ op[o].pc = "write"
    /\ dirty' = [dirty EXCEPT ![op[o].tab] = FALSE]
    /\ SaveEnds(o, FALSE)
    /\ UNCHANGED <<sql, path, typed, saved>>

\* The file dialog is dismissed (it was shown for a tab without a file, which may have got one
\* since) and SaveAndCloseAsync looks at the mark; or writing throws, and it does not go on.
NotSaved(o) ==
    /\ op[o].pc = "write"
    /\ \E isDirty \in {dirty[op[o].tab], TRUE} : SaveEnds(o, isDirty)
    /\ UNCHANGED <<sql, dirty, path, typed, saved>>

\* The file is written, to the tab's path or to the one chosen.
Written(o) ==
    LET t == op[o].tab IN
    /\ op[o].pc = "write"
    /\ saved' = [saved EXCEPT ![t] = op[o].text]
    /\ path' = [path EXCEPT ![t] = TRUE]
    /\ dirty' = [dirty EXCEPT ![t] = FALSE]
    /\ SaveEnds(o, FALSE)
    /\ UNCHANGED <<sql, typed>>

----------------------------------------------------------------------------
(* Closing *)

\* RequestCloseAsync's question: only for unsaved text.
AskClose(t, text) ==
    IF dirty[t] /\ text # Blank THEN closing' = t /\ NoneCloses ELSE CloseTab(t) /\ UNCHANGED closing

\* RequestCloseAsync for the active tab flushes first.
RequestClose(o) ==
    /\ closing = None
    /\ MayAct
    /\ Flush(o, "close", None)

CloseFlushed(o) ==
    LET t == op[o].tab IN
    /\ op[o].pc = "close"
    /\ Store(o)
    /\ AskClose(t, op[o].text)
    /\ op' = [op EXCEPT ![o] = Idle]
    /\ UNCHANGED <<dirty, path, typed, saved>>

RequestCloseInactive(t) ==
    /\ closing = None /\ t \in tabs \ {active}
    /\ MayAct
    /\ AskClose(t, sql[t])
    /\ UNCHANGED <<sql, dirty, path, op, typed, saved>>

\* CancelClose: the button, or a click beside the dialog, which nothing disables.
CancelClose ==
    /\ closing # None
    /\ closing' = None
    /\ UNCHANGED <<tabVars, op, pageVars, typed, saved>>

DiscardAndClose ==
    /\ closing # None /\ ~ClosingBusy
    /\ CloseTab(closing)
    /\ closing' = None
    /\ UNCHANGED <<sql, dirty, path, op, typed, saved>>

\* A mutant: unsaved work is what has no file.
UnsavedWithoutFile(t) == dirty[t] /\ sql[t] # Blank /\ ~path[t]

\* HasUnsavedWork
HasUnsavedWork(t) == dirty[t] /\ sql[t] # Blank

\* CloseTabs: close others, to the right, all.  Tabs with unsaved work stay, as far as Sql tells.
CloseTabs(S) ==
    LET kept == {t \in tabs : t \notin S \/ HasUnsavedWork(t)} IN
    /\ closing = None
    /\ MayCloseAll /\ MayAct
    /\ Keep(kept)
    /\ IF active \in kept \union {None} THEN UNCHANGED <<active, pageVars>>
       ELSE Activate(LastOf(kept), kept)
    /\ UNCHANGED <<sql, dirty, path, closing, op, typed, saved>>

OtherTabs(t) == tabs \ {t}
RightOf(t) == {u \in tabs : <<t, u>> \in left}

----------------------------------------------------------------------------
Next ==
    \/ Imported \/ MonacoLoads
    \/ \E text \in Texts : Type(text) \/ LoadSql(text)
    \/ \E t \in Tabs : OpenTab(t, Blank, FALSE) /\ closing = None
    \/ \E t \in Tabs, c \in Contents :
          \/ OpenTab(t, <<t, c>>, TRUE) /\ closing = None
          \/ OpenTab(t, <<t, c>>, FALSE)
    \/ \E o \in Ops :
          \/ \E t \in Tabs : SwitchTab(o, t)
          \/ Switched(o) \/ Run(o) \/ RunFlushed(o)
          \/ Save(o) \/ SaveFlushed(o) \/ SaveAndClose(o) \/ NotSaved(o) \/ Written(o)
          \/ RequestClose(o) \/ CloseFlushed(o)
    \/ \E t \in Tabs : RequestCloseInactive(t)
    \/ CancelClose \/ DiscardAndClose
    \/ \E t \in tabs : CloseTabs(OtherTabs(t)) \/ CloseTabs(RightOf(t))
    \/ CloseTabs(tabs)

Fairness == WF_vars(Imported) /\ WF_vars(MonacoLoads)

Spec == Init /\ [][Next]_vars /\ Fairness

----------------------------------------------------------------------------
(* Properties *)

Operation == [pc : {"idle", "switch", "run", "save", "write", "close"},
              tab : Tabs \union {None}, next : Tabs \union {None}, text : Texts]

TypeOK ==
    /\ tabs \subseteq Tabs /\ left \subseteq tabs \X tabs
    /\ \A t, u \in tabs : t # u => (<<t, u>> \in left <=> <<u, t>> \notin left)
    /\ \A t, u, v \in tabs : <<t, u>> \in left /\ <<u, v>> \in left => <<t, v>> \in left
    /\ \A t \in tabs : <<t, t>> \notin left
    /\ active \in Tabs \union {None} /\ closing \in Tabs \union {None}
    /\ sql \in [Tabs -> Texts] /\ typed \in [Tabs -> Texts] /\ saved \in [Tabs -> Texts]
    /\ dirty \in [Tabs -> BOOLEAN] /\ path \in [Tabs -> BOOLEAN]
    /\ op \in [Ops -> Operation]
    /\ phase \in {"none", "importing", "initing", "ready"} /\ monaco \in BOOLEAN
    /\ editor \in Buffer \union {None} /\ pendingInit \in Buffer \union {None}
    /\ phase = "ready" => editor # None

\* The text the user put in an open tab is where the program will look for it: in the page for
\* the tab whose editor is up, in Sql for every other.  No switch, save, run or closing of
\* tabs loses it or puts another tab's text in its place.
TextKept ==
    \A t \in tabs :
        IF t = active /\ phase = "ready"
        THEN editor.tab = t /\ editor.text = typed[t]
        ELSE sql[t] = typed[t]

\* The mark on a tab tells the truth: text without it is what was opened or written to the file.
CleanIsSaved == \A t \in tabs : ~dirty[t] => typed[t] = saved[t]

\* "Save changes before closing?" (en.json): a tab with text that was neither saved nor
\* opened from somewhere disappears only after the question was put.
ClosePrompts ==
    [][\A t \in tabs \ tabs' : closing = t \/ typed[t] \in {Blank, saved'[t]}]_vars

\* While tabs are open the editor of an active one always appears, whatever initialisations
\* and disposals are still on their way.
EditorComes ==
    tabs # {} ~> \/ tabs = {}
                 \/ active \in tabs /\ phase = "ready" /\ editor.tab = active
====
