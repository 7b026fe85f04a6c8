---- MODULE GridEdits ----
(***************************************************************************)
(* The edits a user makes in a result: the state grid.js keeps beside the  *)
(* table it shows, the change set it collects, and PrepareApplyAsync of    *)
(* QueryArea.razor, which turns that set into commands (BuildRowChanges,   *)
(* DmlGenerator.Generate).  What is displayed and what would be sent are   *)
(* two data structures; the user only sees the first.                      *)
(*                                                                         *)
(* Rows reach the page as JSON, so an integer beyond Exact (2^53 in the    *)
(* page) is rounded: Number.  A number and the text that spells it are one *)
(* value to the server, which is all that remains of stringOf.  Every tab  *)
(* shows one table; Result[t] is its content in the order of the query.    *)
(* Running and paging are in QueryRun: a page here arrives for the grid    *)
(* that asked for it.                                                      *)
(***************************************************************************)
EXTENDS Integers, Sequences, FiniteSets, SequencesExt

CONSTANTS
    Tabs,           \* tabs whose results are looked at
    Columns, KeyColumns,
    Result,         \* each tab's table, a sequence of rows
    PageSize,       \* rows of a page
    Typed, Empty,   \* values a user types, and that of a new row's cells
    Exact,          \* integers up to this one survive the page unharmed
    MaxInserts,     \* bound: rows added to one grid
    NoTab, Conflict

KeyOf(row) == [c \in KeyColumns |-> row[c]]

ASSUME GridAssumption ==
    /\ KeyColumns \subseteq Columns /\ KeyColumns # {}
    /\ \A t \in Tabs : Result[t] \in Seq(Range(Result[t]))
    /\ \A t \in Tabs : \A row \in Range(Result[t]) : row \in [Columns -> Range(row)]
    /\ \A t \in Tabs : \A i, j \in DOMAIN Result[t] :
            KeyOf(Result[t][i]) = KeyOf(Result[t][j]) => i = j
    /\ PageSize \in Nat \ {0} /\ MaxInserts \in Nat
    /\ Exact \in Nat /\ Exact % 4 = 0
    /\ NoTab \notin Tabs

VARIABLES
    fetched,        \* rows of each tab's Grid
    editability,    \* whether each tab's Editability says IsEditable
    shown,          \* the tab whose grid is in the page
    editable,       \* options.editable of that grid
    display,        \* the rows of the Tabulator table, by _i
    updates,        \* changed columns by _i
    order,          \* the insertion order of that Map
    inserts,        \* _i of added rows
    deletes,        \* keys of deleted rows; their order does not matter
    originalKeys,   \* keys by _i, as the rows were loaded
    nextInsertId, nextRowId,
    preview,        \* the preview is on the screen
    failed,         \* history: a handler has thrown
    edited          \* history: the cells of the grid that were typed in

tabVars == <<fetched, editability>>
editVars == <<updates, order, inserts, deletes, nextInsertId>>
gridVars == <<shown, editable, display, editVars, originalKeys, nextRowId>>
vars == <<tabVars, gridVars, preview, failed, edited>>

Nothing == [x \in {} |-> x]
With(f, x, v) == [y \in DOMAIN f \union {x} |-> IF y = x THEN v ELSE f[y]]
Without(f, S) == [x \in DOMAIN f \ S |-> f[x]]

\* What remains of a sequence, prefix by prefix, when the members of S are taken out.
Remaining(seq, S) ==
    LET rest[k \in 0..Len(seq)] ==
            IF k = 0 THEN <<>>
            ELSE IF seq[k] \in S THEN rest[k - 1] ELSE Append(rest[k - 1], seq[k])
    IN rest

\* The nearest number the page can hold; a tie goes to the even significand.
Number(v) ==
    IF v \in Nat /\ v > Exact /\ v % 2 = 1
    THEN IF v % 4 = 1 THEN v - 1 ELSE v + 1
    ELSE v

\* keyMap
KeyMap(record) == KeyOf(record)

\* The record made of row i + 1 of a tab's result.
Record(t, i) == [c \in Columns |-> Number(Result[t][i + 1][c])]

LeastOf(a, b) == IF a < b THEN a ELSE b

Init ==
    /\ fetched = [t \in Tabs |-> LeastOf(PageSize, Len(Result[t]))]
    /\ editability = [t \in Tabs |-> FALSE]
    /\ shown = NoTab /\ editable = FALSE
    /\ display = Nothing /\ updates = Nothing /\ order = <<>>
    /\ inserts = {} /\ deletes = {} /\ originalKeys = Nothing
    /\ nextInsertId = -1 /\ nextRowId = 0
    /\ preview = FALSE /\ failed = FALSE /\ edited = {}

----------------------------------------------------------------------------
(* The tab's result *)

\* AnalyzeEditabilityAsync answers.
Analyzed(t) ==
    /\ ~editability[t]
    /\ editability' = [editability EXCEPT ![t] = TRUE]
    /\ UNCHANGED <<fetched, gridVars, preview, failed, edited>>

\* A mutant: the edits of the grid before stay.
RenderKeepsEdits(t) ==
    /\ ~preview
    /\ t # shown \/ editability[t] # editable
    /\ shown' = t /\ editable' = editability[t]
    /\ display' = [i \in 0..(fetched[t] - 1) |-> Record(t, i)]
    /\ originalKeys' = IF editability[t]
                       THEN [i \in 0..(fetched[t] - 1) |-> KeyMap(Record(t, i))] ELSE Nothing
    /\ nextRowId' = fetched[t] /\ edited' = {}
    /\ UNCHANGED <<tabVars, editVars, preview, failed>>

\* renderGrid, for another tab's model or because the grid turned editable: a new state.
Render(t) ==
    /\ ~preview
    /\ t # shown \/ editability[t] # editable
    /\ shown' = t /\ editable' = editability[t]
    /\ display' = [i \in 0..(fetched[t] - 1) |-> Record(t, i)]
    /\ originalKeys' = IF editability[t]
                       THEN [i \in 0..(fetched[t] - 1) |-> KeyMap(Record(t, i))] ELSE Nothing
    /\ updates' = Nothing /\ order' = <<>>
    /\ inserts' = {} /\ deletes' = {}
    /\ nextInsertId' = -1 /\ nextRowId' = fetched[t] /\ edited' = {}
    /\ UNCHANGED <<tabVars, preview, failed>>

\* A page arrives: appendRows.
AppendRows(t) ==
    LET n == LeastOf(fetched[t] + PageSize, Len(Result[t]))
        new == nextRowId..(nextRowId + (n - fetched[t]) - 1)
    IN /\ t = shown /\ n > fetched[t]
       /\ fetched' = [fetched EXCEPT ![t] = n]
       /\ display' = [i \in DOMAIN display \union new |->
                        IF i \in new THEN Record(t, i) ELSE display[i]]
       /\ originalKeys' = IF editable
                          THEN [i \in DOMAIN originalKeys \union new |->
                                    IF i \in new THEN KeyMap(Record(t, i)) ELSE originalKeys[i]]
                          ELSE originalKeys
       /\ nextRowId' = nextRowId + (n - fetched[t])
       /\ UNCHANGED <<editability, shown, editable, editVars, preview, failed, edited>>

\* RunAsync on the tab that is shown clears its grid, and the page with it.
Rerun(t) ==
    /\ t = shown /\ ~preview
    /\ fetched' = [fetched EXCEPT ![t] = LeastOf(PageSize, Len(Result[t]))]
    /\ editability' = [editability EXCEPT ![t] = FALSE]
    /\ shown' = NoTab /\ editable' = FALSE
    /\ display' = Nothing /\ updates' = Nothing /\ order' = <<>>
    /\ inserts' = {} /\ deletes' = {} /\ originalKeys' = Nothing
    /\ nextInsertId' = -1 /\ nextRowId' = 0 /\ edited' = {}
    /\ UNCHANGED <<preview, failed>>

----------------------------------------------------------------------------
(* Editing; the preview covers the grid and its buttons *)

\* A mutant: the change is also recorded for an added row.
EditCellOfAny(id, c, v) ==
    /\ editable /\ ~preview
    /\ id \in DOMAIN display
    /\ display' = [display EXCEPT ![id] = [@ EXCEPT ![c] = v]]
    /\ edited' = edited \union {<<id, c>>}
    /\ updates' = With(updates, id, With(IF id \in DOMAIN updates THEN updates[id] ELSE Nothing, c, v))
    /\ order' = IF id \in DOMAIN updates THEN order ELSE Append(order, id)
    /\ UNCHANGED <<tabVars, shown, editable, inserts, deletes, nextInsertId, originalKeys, nextRowId, preview, failed>>

\* cellEdited: an added row has no updates, its values are read when they are collected.  The
\* value may be the one shown: a number left as it is differs, for the grid, from its text.
EditCell(id, c, v) ==
    /\ editable /\ ~preview
    /\ id \in DOMAIN display
    /\ display' = [display EXCEPT ![id] = [@ EXCEPT ![c] = v]]
    /\ edited' = edited \union {<<id, c>>}
    /\ IF id \in inserts
       THEN UNCHANGED <<updates, order>>
       ELSE /\ updates' = With(updates, id, With(IF id \in DOMAIN updates THEN updates[id] ELSE Nothing, c, v))
            /\ order' = IF id \in DOMAIN updates THEN order ELSE Append(order, id)
    /\ UNCHANGED <<tabVars, shown, editable, inserts, deletes, nextInsertId, originalKeys, nextRowId, preview, failed>>

\* A mutant: the cells of the new row are not filled in.
AddRowUnfilled ==
    /\ editable /\ ~preview
    /\ nextInsertId >= -MaxInserts
    /\ display' = With(display, nextInsertId, Nothing)
    /\ inserts' = inserts \union {nextInsertId}
    /\ nextInsertId' = nextInsertId - 1
    /\ UNCHANGED <<tabVars, shown, editable, updates, order, deletes, originalKeys, nextRowId, preview, failed, edited>>

\* addRow
AddRow ==
    /\ editable /\ ~preview
    /\ nextInsertId >= -MaxInserts
    /\ display' = With(display, nextInsertId, [c \in Columns |-> Empty])
    /\ inserts' = inserts \union {nextInsertId}
    /\ nextInsertId' = nextInsertId - 1
    /\ UNCHANGED <<tabVars, shown, editable, updates, order, deletes, originalKeys, nextRowId, preview, failed, edited>>

\* A mutant: the key is read from the row as it is displayed.
DeleteKeyNow(id) == KeyMap(display[id])

DeleteKey(id) == IF id \in DOMAIN originalKeys THEN originalKeys[id] ELSE KeyMap(display[id])

\* A mutant: the deleted row's update stays.
DeleteSelectedKeepsUpdates(S) ==
    /\ editable /\ ~preview
    /\ inserts' = inserts \ S
    /\ deletes' = deletes \union {DeleteKey(id) : id \in S \ inserts}
    /\ display' = Without(display, S)
    /\ UNCHANGED <<tabVars, shown, editable, updates, order, nextInsertId, originalKeys, nextRowId, preview, failed, edited>>

\* deleteSelected, for the selected rows S.
DeleteSelected(S) ==
    /\ editable /\ ~preview
    /\ inserts' = inserts \ S
    /\ deletes' = deletes \union {DeleteKey(id) : id \in S \ inserts}
    /\ updates' = Without(updates, S)
    /\ order' = Remaining(order, S)[Len(order)]
    /\ display' = Without(display, S)
    /\ UNCHANGED <<tabVars, shown, editable, nextInsertId, originalKeys, nextRowId, preview, failed, edited>>

----------------------------------------------------------------------------
(* The change set and the commands *)

\* getChanges
UpdateOf(id) ==
    [kind |-> "update",
     key |-> IF id \in DOMAIN originalKeys THEN originalKeys[id] ELSE Nothing,
     values |-> updates[id]]
InsertOf(id) == [kind |-> "insert", key |-> Nothing, values |-> display[id]]
DeleteOf(key) == [kind |-> "delete", key |-> key, values |-> Nothing]

\* BuildRowChanges: updates, then inserts, one for each added row, then deletes.
RowChanges ==
    LET added == SetToSeq(inserts)
        gone == SetToSeq(deletes)
    IN [i \in DOMAIN order |-> UpdateOf(order[i])]
           \o [i \in DOMAIN added |-> InsertOf(added[i])]
           \o [i \in DOMAIN gone |-> DeleteOf(gone[i])]

\* What makes PrepareApplyAsync throw.  The page sends a deletion as the key itself, while
\* GridDelete reads a property "key" of it, which is null, and Box refuses null.  RequireKey
\* refuses an update without a key.
Unreadable ==
    \/ deletes # {}
    \/ \E i \in DOMAIN order : UpdateOf(order[i]).key = Nothing

PrepareApply ==
    /\ editable /\ ~preview /\ ~Unreadable
    /\ preview' = (RowChanges # <<>>)
    /\ UNCHANGED <<tabVars, gridVars, failed, edited>>

PrepareThrows ==
    /\ editable /\ ~preview /\ Unreadable
    /\ failed' = TRUE
    /\ UNCHANGED <<tabVars, gridVars, preview, edited>>

\* The preview is closed; applying it is DmlApply.
CancelApply ==
    /\ preview
    /\ preview' = FALSE
    /\ UNCHANGED <<tabVars, gridVars, failed, edited>>

----------------------------------------------------------------------------
Next ==
    \/ \E t \in Tabs : Analyzed(t) \/ Render(t) \/ AppendRows(t) \/ Rerun(t)
    \/ \E id \in DOMAIN display, c \in Columns, v \in Typed : EditCell(id, c, v)
    \/ \E S \in SUBSET DOMAIN display : DeleteSelected(S)
    \/ AddRow \/ PrepareApply \/ PrepareThrows \/ CancelApply

Spec == Init /\ [][Next]_vars

----------------------------------------------------------------------------
(* Properties *)

Loaded == 0..(nextRowId - 1)
Values == Typed \union {Empty} \union
    UNION {{Number(Result[t][i][c]) : i \in DOMAIN Result[t], c \in Columns} : t \in Tabs}
Partial(D, R) == UNION {[S -> R] : S \in SUBSET D}

TypeOK ==
    /\ fetched \in [Tabs -> Nat] /\ editability \in [Tabs -> BOOLEAN]
    /\ shown \in Tabs \union {NoTab} /\ editable \in BOOLEAN
    /\ inserts \subseteq Int /\ nextInsertId \in Int /\ nextRowId \in Nat
    /\ \A id \in DOMAIN display : id \in Int /\ display[id] \in [Columns -> Values]
    /\ \A id \in DOMAIN updates : id \in Int /\ updates[id] \in Partial(Columns, Values)
    /\ order \in Seq(Int)
    /\ preview \in BOOLEAN /\ failed \in BOOLEAN /\ edited \subseteq Int \X Columns

\* The edit state accounts for every difference between the screen and the result: a row that
\* is displayed is the loaded one under its update, a row that is not is among the deletes
\* under the key it was loaded with, and nothing else is in any of the collections.
EditsTrackDisplay ==
    editable =>
        /\ DOMAIN updates \subseteq DOMAIN display \cap Loaded
        /\ DOMAIN display = (DOMAIN display \cap Loaded) \union inserts
        /\ \A id \in DOMAIN display \cap Loaded : \A c \in Columns :
                display[id][c] = IF id \in DOMAIN updates /\ c \in DOMAIN updates[id]
                                 THEN updates[id][c] ELSE Record(shown, id)[c]
        /\ deletes = {KeyMap(Record(shown, id)) : id \in Loaded \ DOMAIN display}

\* The server's table while it executes a command; Conflict once a key would be there twice.
Execute(table, command) ==
    LET hit == {row \in table : KeyOf(row) = command.key}
        changed == {[c \in Columns |-> IF c \in DOMAIN command.values
                                       THEN command.values[c] ELSE row[c]] : row \in hit}
        new == CASE command.kind = "update" -> changed
                 [] command.kind = "insert" -> {command.values}
                 [] command.kind = "delete" -> {}
        kept == IF command.kind = "insert" THEN table ELSE table \ hit
    IN IF table = Conflict \/ \E row \in new, other \in kept : KeyOf(row) = KeyOf(other)
       THEN Conflict ELSE kept \union new

\* The table after each of the commands.
Executed(table, commands) ==
    LET after[k \in 0..Len(commands)] ==
            IF k = 0 THEN table ELSE Execute(after[k - 1], commands[k])
    IN after

\* The rows a user sees, with the rows of later pages; what the page rounded but nobody
\* edited is still the server's.
Intended ==
    {[c \in Columns |-> IF id \in Loaded /\ <<id, c>> \notin edited
                        THEN Result[shown][id + 1][c] ELSE display[id][c]] : id \in DOMAIN display}
    \union {Result[shown][i] : i \in (nextRowId + 1)..Len(Result[shown])}

\* Every row that was changed or deleted has a key the page could hold.
KeysExact ==
    \A id \in Loaded : id \notin DOMAIN display \/ id \in DOMAIN updates =>
        KeyMap(Record(shown, id)) = KeyOf(Result[shown][id + 1])

\* A change set that applies at all turns the table into what is displayed: edited and
\* deleted keys, several edits of one row and rows of later pages included.  It needs keys
\* the page can hold: for others grid.js sends the key of another row.
ChangesFaithful ==
    editable /\ KeysExact =>
        LET table == {Result[shown][i] : i \in DOMAIN Result[shown]}
            final == Executed(table, RowChanges)[Len(RowChanges)]
        IN final # Conflict =>
            /\ final = Intended
            /\ Cardinality(final) = Cardinality(DOMAIN display) + Len(Result[shown]) - nextRowId

\* "Delete selected", then "Preview & apply" (en.json): the preview answers for any edits.
PreviewAnswers == ~failed
====
