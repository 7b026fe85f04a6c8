---- MODULE GridEditsProofs ----
(***************************************************************************)
(* GridEdits, proved for any tables, columns and page sizes: the types of  *)
(* what grid.js keeps beside the table it shows; that it accounts for      *)
(* every difference between the screen and the result, after any sequence  *)
(* of edits; and that the commands made of it turn the server's table into *)
(* what is displayed.  The last is an induction over the commands, by      *)
(* CountingUp.                                                             *)
(***************************************************************************)
EXTENDS GridEdits, SequenceTheorems, FiniteSetTheorems, WellFoundedInduction, TLAPS

----------------------------------------------------------------------------
(* The edits account for the display *)

\* The counters: rows of the result are numbered from 0 on, added rows from -1 down, so that no
\* added row is taken for a loaded one.
Counted ==
    /\ fetched \in [Tabs -> Nat] /\ editability \in [Tabs -> BOOLEAN]
    /\ shown \in Tabs \union {NoTab}
    /\ shown # NoTab => nextRowId = fetched[shown]
    /\ nextRowId \in Nat /\ nextInsertId \in Int /\ nextInsertId < 0
    /\ \A id \in inserts : id \in Int /\ nextInsertId < id /\ id < 0

\* An editable grid shows a tab, has all its columns in every row, and knows the key of every row it
\* has loaded, deleted or not.
Keyed ==
    editable =>
        /\ shown \in Tabs
        /\ \A id \in DOMAIN display : DOMAIN display[id] = Columns
        /\ DOMAIN originalKeys = Loaded
        /\ \A id \in Loaded : originalKeys[id] = KeyMap(Record(shown, id))

IInv == Counted /\ Keyed /\ EditsTrackDisplay

\* A first page, and a page more.
LEMMA Pages ==
  ASSUME NEW t \in Tabs, NEW n \in Nat
  PROVE  LeastOf(PageSize, Len(Result[t])) \in Nat /\ LeastOf(n + PageSize, Len(Result[t])) \in Nat
<1>1. Result[t] \in Seq(Range(Result[t])) /\ PageSize \in Nat
  BY GridAssumption
<1>2. Len(Result[t]) \in Nat /\ n + PageSize \in Nat
  BY <1>1
<1> QED BY <1>1, <1>2 DEF LeastOf

\* The invariant, action by action.
LEMMA InitKeeps == Init => IInv
<1> SUFFICES ASSUME Init PROVE IInv
  OBVIOUS
<1>1. fetched \in [Tabs -> Nat]
  BY Pages DEF Init
<1>2. Counted
  BY <1>1 DEF Init, Counted
<1>3. ~editable
  BY DEF Init
<1> QED BY <1>2, <1>3 DEF IInv, Keyed, EditsTrackDisplay

\* A grid rendered anew shows what was loaded, without an edit.
LEMMA RenderKeeps ==
  ASSUME IInv, NEW t \in Tabs, Render(t)
  PROVE  IInv'
<1>1. /\ shown' = t /\ editable' = editability[t]
      /\ display' = [i \in 0..(fetched[t] - 1) |-> Record(t, i)]
      /\ originalKeys' = IF editability[t]
                         THEN [i \in 0..(fetched[t] - 1) |-> KeyMap(Record(t, i))] ELSE Nothing
      /\ updates' = Nothing /\ inserts' = {} /\ deletes' = {}
      /\ nextInsertId' = -1 /\ nextRowId' = fetched[t]
      /\ UNCHANGED <<fetched, editability>>
  BY DEF Render, tabVars
<1>2. fetched[t] \in Nat /\ t # NoTab
  BY GridAssumption DEF IInv, Counted
<1>3. Counted'
  BY <1>1, <1>2 DEF IInv, Counted
<1>4. Loaded' = DOMAIN display'
  BY <1>1 DEF Loaded
<1>5. Keyed'
  <2>1. \A i \in DOMAIN display' : DOMAIN display'[i] = Columns
    BY <1>1 DEF Record
  <2> QED BY <1>1, <1>4, <2>1 DEF Keyed
<1>6. EditsTrackDisplay'
  <2>1. DOMAIN updates' = {}
    BY <1>1 DEF Nothing
  <2>2. \A i \in DOMAIN display' : display'[i] = Record(shown', i)
    BY <1>1
  <2> QED BY <1>1, <1>4, <2>1, <2>2 DEF EditsTrackDisplay
<1> QED BY <1>3, <1>5, <1>6 DEF IInv

\* A page more numbers its rows after those that were loaded, deleted ones included.
LEMMA AppendKeeps ==
  ASSUME IInv, NEW t \in Tabs, AppendRows(t)
  PROVE  IInv'
<1> DEFINE n == LeastOf(fetched[t] + PageSize, Len(Result[t]))
           new == nextRowId..(nextRowId + (n - fetched[t]) - 1)
<1>1. /\ t = shown /\ n > fetched[t]
      /\ fetched' = [fetched EXCEPT ![t] = n]
      /\ display' = [i \in DOMAIN display \union new |-> IF i \in new THEN Record(t, i) ELSE display[i]]
      /\ originalKeys' = IF editable
                         THEN [i \in DOMAIN originalKeys \union new |->
                                   IF i \in new THEN KeyMap(Record(t, i)) ELSE originalKeys[i]]
                         ELSE originalKeys
      /\ nextRowId' = nextRowId + (n - fetched[t])
      /\ UNCHANGED <<editability, shown, editable, updates, inserts, deletes, nextInsertId>>
  BY DEF AppendRows, editVars
<1>2. fetched[t] \in Nat /\ n \in Nat /\ nextRowId = fetched[t] /\ t # NoTab
  <2>1. fetched[t] \in Nat /\ nextRowId = fetched[t] /\ t # NoTab
    BY <1>1, GridAssumption DEF IInv, Counted
  <2> QED BY <2>1, Pages
<1> HIDE DEF n
<1>3. Counted'
  BY <1>1, <1>2 DEF IInv, Counted
<1>4. /\ Loaded' = Loaded \union new /\ Loaded \intersect new = {}
      /\ \A id \in inserts : id \notin Loaded'
  BY <1>1, <1>2 DEF Loaded, IInv, Counted
<1> HIDE DEF new
<1>5. /\ DOMAIN display' = DOMAIN display \union new
      /\ \A i \in new : display'[i] = Record(shown, i)
      /\ \A i \in DOMAIN display \ new : display'[i] = display[i]
  BY <1>1
<1>6. Keyed'
  <2> SUFFICES ASSUME editable PROVE Keyed'
    BY <1>1 DEF Keyed
  <2>1. \A i \in DOMAIN display' : DOMAIN display'[i] = Columns
    BY <1>5 DEF Record, IInv, Keyed
  <2>2. DOMAIN originalKeys' = Loaded'
    BY <1>1, <1>4 DEF IInv, Keyed
  <2>3. ASSUME NEW i \in Loaded' PROVE originalKeys'[i] = KeyMap(Record(shown', i))
    BY <1>1, <1>4, <2>3 DEF IInv, Keyed
  <2> QED BY <1>1, <2>1, <2>2, <2>3 DEF IInv, Keyed
<1>7. EditsTrackDisplay'
  <2> SUFFICES ASSUME editable PROVE EditsTrackDisplay'
    BY <1>1 DEF EditsTrackDisplay
  <2>1. DOMAIN updates' \subseteq DOMAIN display' \cap Loaded'
    BY <1>1, <1>4, <1>5 DEF IInv, EditsTrackDisplay
  <2>2. DOMAIN display' = (DOMAIN display' \cap Loaded') \union inserts'
    BY <1>1, <1>4, <1>5 DEF IInv, EditsTrackDisplay
  <2>3. ASSUME NEW i \in DOMAIN display' \cap Loaded', NEW c \in Columns
        PROVE  display'[i][c] = IF i \in DOMAIN updates' /\ c \in DOMAIN updates'[i]
                                THEN updates'[i][c] ELSE Record(shown', i)[c]
    BY <1>1, <1>4, <1>5 DEF IInv, EditsTrackDisplay
  <2>4. Loaded' \ DOMAIN display' = Loaded \ DOMAIN display
    BY <1>4, <1>5
  <2>5. deletes' = {KeyMap(Record(shown', i)) : i \in Loaded' \ DOMAIN display'}
    BY <1>1, <2>4 DEF IInv, EditsTrackDisplay
  <2> QED BY <2>1, <2>2, <2>3, <2>5 DEF EditsTrackDisplay
<1> QED BY <1>3, <1>6, <1>7 DEF IInv

\* A run clears the grid.
LEMMA RerunKeeps ==
  ASSUME IInv, NEW t \in Tabs, Rerun(t)
  PROVE  IInv'
<1>1. /\ fetched' = [fetched EXCEPT ![t] = LeastOf(PageSize, Len(Result[t]))]
      /\ editability' = [editability EXCEPT ![t] = FALSE]
      /\ shown' = NoTab /\ editable' = FALSE /\ inserts' = {}
      /\ nextInsertId' = -1 /\ nextRowId' = 0
  BY DEF Rerun
<1>2. LeastOf(PageSize, Len(Result[t])) \in Nat
  BY Pages
<1>3. Counted'
  BY <1>1, <1>2 DEF IInv, Counted
<1> QED BY <1>1, <1>3 DEF IInv, Keyed, EditsTrackDisplay

\* An edited cell is recorded with its row, unless the row was added and is sent as it stands.
LEMMA EditKeeps ==
  ASSUME IInv, NEW id \in DOMAIN display, NEW c \in Columns, NEW v \in Typed, EditCell(id, c, v)
  PROVE  IInv'
<1> DEFINE before == IF id \in DOMAIN updates THEN updates[id] ELSE Nothing
<1>1. /\ editable
      /\ display' = [display EXCEPT ![id] = [@ EXCEPT ![c] = v]]
      /\ id \in inserts => updates' = updates
      /\ id \notin inserts => updates' = With(updates, id, With(before, c, v))
      /\ UNCHANGED <<fetched, editability, shown, editable, inserts, deletes, nextInsertId, originalKeys, nextRowId>>
  BY DEF EditCell, tabVars
<1>2. Counted' /\ Loaded' = Loaded
  BY <1>1 DEF IInv, Counted, Loaded
<1>3. /\ DOMAIN display' = DOMAIN display /\ DOMAIN display[id] = Columns
      /\ display'[id] = [display[id] EXCEPT ![c] = v]
      /\ \A i \in DOMAIN display \ {id} : display'[i] = display[i]
  BY <1>1 DEF IInv, Keyed
<1>4. DOMAIN display'[id] = Columns /\ display'[id][c] = v /\ \A d \in Columns \ {c} : display'[id][d] = display[id][d]
  BY <1>3
<1>5. Keyed'
  BY <1>1, <1>2, <1>3, <1>4 DEF IInv, Keyed
<1>6. \A i \in inserts : i \notin Loaded
  BY DEF IInv, Counted, Loaded
<1>7. CASE id \in inserts
  <2>1. updates' = updates /\ id \notin Loaded
    BY <1>1, <1>6, <1>7
  <2>2. \A i \in DOMAIN display \cap Loaded : display'[i] = display[i]
    BY <1>3, <2>1
  <2>3. EditsTrackDisplay'
    BY <1>1, <1>2, <1>3, <2>1, <2>2 DEF IInv, EditsTrackDisplay
  <2> QED BY <1>2, <1>5, <2>3 DEF IInv
<1>8. CASE id \notin inserts
  <2> DEFINE after == With(before, c, v)
  <2>1. id \in Loaded
    BY <1>1, <1>8 DEF IInv, EditsTrackDisplay
  <2>2. /\ DOMAIN after = DOMAIN before \union {c} /\ after[c] = v
        /\ \A d \in DOMAIN before \ {c} : after[d] = before[d]
    BY DEF With
  <2>3. id \notin DOMAIN updates => DOMAIN before = {}
    BY DEF Nothing
  <2>4. id \in DOMAIN updates => before = updates[id]
    OBVIOUS
  <2> HIDE DEF before, after
  <2>5. updates' = With(updates, id, after)
    BY <1>1, <1>8 DEF before, after
  <2>6. /\ DOMAIN updates' = DOMAIN updates \union {id} /\ updates'[id] = after
        /\ \A i \in DOMAIN updates \ {id} : updates'[i] = updates[i]
    BY <2>5 DEF With
  <2>7. DOMAIN updates' \subseteq DOMAIN display' \cap Loaded'
    BY <1>1, <1>2, <1>3, <2>1, <2>6 DEF IInv, EditsTrackDisplay
  <2>8. ASSUME NEW i \in DOMAIN display' \cap Loaded', NEW d \in Columns
        PROVE  display'[i][d] = IF i \in DOMAIN updates' /\ d \in DOMAIN updates'[i]
                                THEN updates'[i][d] ELSE Record(shown', i)[d]
    <3>0. i \in DOMAIN display \cap Loaded
      BY <1>2, <1>3
    <3>1. display[i][d] = IF i \in DOMAIN updates /\ d \in DOMAIN updates[i]
                          THEN updates[i][d] ELSE Record(shown, i)[d]
      BY <1>1, <3>0 DEF IInv, EditsTrackDisplay
    <3>2. CASE i # id
      BY <1>1, <1>3, <2>6, <3>0, <3>1, <3>2
    <3>3. CASE i = id /\ d = c
      BY <1>4, <2>2, <2>6, <3>3
    <3>4. CASE i = id /\ d # c
      BY <1>1, <1>4, <2>2, <2>3, <2>4, <2>6, <3>1, <3>4
    <3> QED BY <3>2, <3>3, <3>4
  <2>9. DOMAIN display' = (DOMAIN display' \cap Loaded') \union inserts'
    BY <1>1, <1>2, <1>3 DEF IInv, EditsTrackDisplay
  <2>10. deletes' = {KeyMap(Record(shown', i)) : i \in Loaded' \ DOMAIN display'}
    BY <1>1, <1>2, <1>3 DEF IInv, EditsTrackDisplay
  <2>11. EditsTrackDisplay'
    BY <2>7, <2>8, <2>9, <2>10 DEF EditsTrackDisplay
  <2> QED BY <1>2, <1>5, <2>11 DEF IInv
<1> QED BY <1>7, <1>8

\* An added row is an insert and nothing else.
LEMMA AddKeeps ==
  ASSUME IInv, AddRow
  PROVE  IInv'
<1> DEFINE id == nextInsertId
<1>1. /\ editable
      /\ display' = With(display, id, [c \in Columns |-> Empty])
      /\ inserts' = inserts \union {id} /\ nextInsertId' = id - 1
      /\ UNCHANGED <<fetched, editability, shown, editable, updates, deletes, originalKeys, nextRowId>>
  BY DEF AddRow, tabVars
<1>2. Counted' /\ Loaded' = Loaded
  BY <1>1 DEF IInv, Counted, Loaded
<1>3. id \notin Loaded
  BY DEF IInv, Counted, Loaded
<1>4. /\ DOMAIN display' = DOMAIN display \union {id} /\ DOMAIN display'[id] = Columns
      /\ \A i \in DOMAIN display \ {id} : display'[i] = display[i]
  BY <1>1 DEF With
<1> HIDE DEF id
<1>5. Keyed'
  BY <1>1, <1>2, <1>4 DEF IInv, Keyed
<1>6. Loaded' \ DOMAIN display' = Loaded \ DOMAIN display /\ DOMAIN display' \cap Loaded' = DOMAIN display \cap Loaded
  BY <1>2, <1>3, <1>4
<1>7. \A i \in DOMAIN display \cap Loaded : display'[i] = display[i]
  BY <1>3, <1>4
<1>8. DOMAIN display' = (DOMAIN display' \cap Loaded') \union inserts'
  BY <1>1, <1>4, <1>6 DEF IInv, EditsTrackDisplay
<1>9. EditsTrackDisplay'
  BY <1>1, <1>6, <1>7, <1>8 DEF IInv, EditsTrackDisplay
<1> QED BY <1>2, <1>5, <1>9 DEF IInv

\* A deleted row leaves all the collections but one: its key, as it was loaded, joins the deletes.
LEMMA DeleteKeeps ==
  ASSUME IInv, NEW S \in SUBSET DOMAIN display, DeleteSelected(S)
  PROVE  IInv'
<1>1. /\ editable /\ inserts' = inserts \ S
      /\ deletes' = deletes \union {DeleteKey(id) : id \in S \ inserts}
      /\ updates' = Without(updates, S) /\ display' = Without(display, S)
      /\ UNCHANGED <<fetched, editability, shown, editable, nextInsertId, originalKeys, nextRowId>>
  BY DEF DeleteSelected, tabVars
<1>2. Counted' /\ Loaded' = Loaded
  BY <1>1 DEF IInv, Counted, Loaded
<1>3. \A i \in inserts : i \notin Loaded
  BY DEF IInv, Counted, Loaded
<1>4. /\ DOMAIN display' = DOMAIN display \ S /\ \A i \in DOMAIN display \ S : display'[i] = display[i]
      /\ DOMAIN updates' = DOMAIN updates \ S /\ \A i \in DOMAIN updates \ S : updates'[i] = updates[i]
  BY <1>1 DEF Without
<1>5. Keyed'
  BY <1>1, <1>2, <1>4 DEF IInv, Keyed
<1>6. S \ inserts = S \cap Loaded
  BY <1>1, <1>3 DEF IInv, EditsTrackDisplay
<1>7. \A i \in S \cap Loaded : DeleteKey(i) = KeyMap(Record(shown, i))
  BY <1>1 DEF IInv, Keyed, DeleteKey
<1>8. deletes' = {KeyMap(Record(shown', i)) : i \in Loaded' \ DOMAIN display'}
  <2>1. Loaded' \ DOMAIN display' = (Loaded \ DOMAIN display) \union (S \cap Loaded)
    BY <1>2, <1>4
  <2>2. deletes = {KeyMap(Record(shown, i)) : i \in Loaded \ DOMAIN display}
    BY <1>1 DEF IInv, EditsTrackDisplay
  <2>3. {DeleteKey(i) : i \in S \ inserts} = {KeyMap(Record(shown, i)) : i \in S \cap Loaded}
    BY <1>6, <1>7
  <2> HIDE DEF DeleteKey, KeyMap, Record
  <2> QED BY <1>1, <2>1, <2>2, <2>3
<1>9. DOMAIN display' = (DOMAIN display' \cap Loaded') \union inserts'
  BY <1>1, <1>2, <1>4 DEF IInv, EditsTrackDisplay
<1>10. EditsTrackDisplay'
  BY <1>1, <1>2, <1>4, <1>8, <1>9 DEF IInv, EditsTrackDisplay
<1> QED BY <1>2, <1>5, <1>10 DEF IInv

\* The whole next-state relation.
LEMMA Invariance == IInv /\ [Next]_vars => IInv'
<1> SUFFICES ASSUME IInv, [Next]_vars PROVE IInv'
  OBVIOUS
\* The preview, its failure and its end leave the grid alone; so does the verdict on editability.
<1>1. ASSUME UNCHANGED <<fetched, gridVars>>, editability' \in [Tabs -> BOOLEAN] PROVE IInv'
  <2>1. UNCHANGED <<fetched, shown, editable, display, updates, inserts, deletes, nextInsertId, originalKeys, nextRowId>>
    BY <1>1 DEF gridVars, editVars
  <2> QED BY <1>1, <2>1 DEF IInv, Counted, Keyed, EditsTrackDisplay, Loaded
<1>2. ASSUME NEW t \in Tabs, Analyzed(t) PROVE IInv'
  BY <1>1, <1>2 DEF Analyzed, IInv, Counted
<1>3. CASE PrepareApply \/ PrepareThrows \/ CancelApply \/ UNCHANGED vars
  BY <1>1, <1>3 DEF PrepareApply, PrepareThrows, CancelApply, vars, tabVars, IInv, Counted
<1> QED BY <1>2, <1>3, RenderKeeps, AppendKeeps, RerunKeeps, EditKeeps, AddKeeps, DeleteKeeps DEF Next

\* The edit state of grid.js: after any sequence of edits, added and deleted rows, pages and
\* renderings, updates, inserts and deletes account for every difference between what is displayed
\* and what was loaded, deleted rows under the key they were loaded with.
THEOREM EditsAreAccountedFor == Spec => []EditsTrackDisplay
<1>1. Init => IInv
  BY InitKeeps
<1>2. IInv /\ [Next]_vars => IInv'
  BY Invariance
<1>3. IInv => EditsTrackDisplay
  BY DEF IInv
<1> QED BY <1>1, <1>2, <1>3, PTL DEF Spec

----------------------------------------------------------------------------
(* Counting, and the recursive functions *)

(* Counting up: a set that contains lo, and with each number below hi the next, contains hi.  It *)
(* takes the place of induction over a formula.                                                  *)
LEMMA CountingUp ==
  ASSUME NEW T, NEW lo \in Nat, NEW hi \in Nat, lo <= hi, lo \in T,
         \A k \in lo..(hi - 1) : k \in T => k + 1 \in T
  PROVE  hi \in T
<1> DEFINE Missing == {n \in lo..hi : n \notin T}
           R == {ss \in Nat \X Nat : ss[1] < ss[2]}
<1> SUFFICES ASSUME hi \notin T PROVE FALSE
  OBVIOUS
<1>1. IsWellFoundedOn(R, Nat)
  BY NatLessThanWellFounded DEF OpToRel
<1>2. Missing \subseteq Nat /\ Missing # {}
  OBVIOUS
<1>3. \A x, y \in Nat : y < x => <<y, x>> \in R
  OBVIOUS
<1> HIDE DEF R
<1>4. PICK n \in Missing : \A m \in Missing : ~(<<m, n>> \in R)
  <2> HIDE DEF Missing
  <2> QED BY <1>1, <1>2, WFMin
<1>5. n \in lo..hi /\ n \notin T /\ n # lo
  OBVIOUS
<1>6. n - 1 \in lo..(hi - 1) /\ n - 1 \notin Missing
  <2>1. n \in Nat /\ n - 1 \in Nat /\ n - 1 < n /\ n - 1 \in lo..(hi - 1)
    BY <1>5
  <2>2. <<n - 1, n>> \in R
    BY <1>3, <2>1
  <2> HIDE DEF Missing
  <2> QED BY <1>4, <2>1, <2>2
<1>7. n - 1 \in T
  BY <1>5, <1>6
<1> QED BY <1>5, <1>6, <1>7

\* The recursive functions are what their definitions say.
LEMMA RemainingIs ==
  ASSUME NEW seq, Len(seq) \in Nat, NEW S
  PROVE  /\ Remaining(seq, S)[0] = <<>>
         /\ \A k \in 1..Len(seq) :
              Remaining(seq, S)[k] = IF seq[k] \in S THEN Remaining(seq, S)[k - 1]
                                     ELSE Append(Remaining(seq, S)[k - 1], seq[k])
<1> DEFINE Value(f, k) == IF k = 0 THEN <<>>
                          ELSE IF seq[k] \in S THEN f[k - 1] ELSE Append(f[k - 1], seq[k])
           Good == {n \in Nat : \E f : f = [k \in 0..n |-> Value(f, k)]}
<1>1. 0 \in Good
  <2>1. [k \in 0..0 |-> <<>>] = [k \in 0..0 |-> Value([j \in 0..0 |-> <<>>], k)]
    OBVIOUS
  <2> QED BY <2>1
<1>2. ASSUME NEW n \in 0..(Len(seq) - 1), n \in Good
      PROVE  n + 1 \in Good
  <2> DEFINE Is(f) == f = [k \in 0..n |-> Value(f, k)]
  <2>1. PICK f : Is(f)
    BY <1>2
  <2> DEFINE g == [k \in 0..(n + 1) |-> IF k <= n THEN f[k] ELSE Value(f, k)]
  <2>2. \A k \in 0..n : g[k] = f[k]
    OBVIOUS
  <2>3. \A k \in 0..(n + 1) : Value(g, k) = Value(f, k)
    <3>1. \A k \in 0..(n + 1) : k = 0 \/ k - 1 \in 0..n
      OBVIOUS
    <3> HIDE DEF g, Is
    <3> QED BY <2>2, <3>1
  <2> HIDE DEF Value
  <2>4. \A k \in 0..n : f[k] = Value(f, k)
    BY <2>1
  <2> HIDE DEF Is
  <2>5. g = [k \in 0..(n + 1) |-> Value(f, k)]
    BY <2>4
  <2> HIDE DEF g
  <2>6. g = [k \in 0..(n + 1) |-> Value(g, k)]
    BY <2>3, <2>5
  <2> QED BY <2>6
<1>3. Len(seq) \in Good
  <2> HIDE DEF Good
  <2> QED BY <1>1, <1>2, CountingUp
<1>4. \E f : f = [k \in 0..Len(seq) |-> Value(f, k)]
  BY <1>3
<1>5. Remaining(seq, S) = CHOOSE f : f = [k \in 0..Len(seq) |-> Value(f, k)]
  BY DEF Remaining
<1> DEFINE r == Remaining(seq, S)
<1> HIDE DEF r
<1>6. r = [k \in 0..Len(seq) |-> Value(r, k)]
  <2> HIDE DEF Value
  <2> QED BY <1>4, <1>5 DEF r
<1>7. \A k \in 0..Len(seq) : r[k] = Value(r, k)
  <2> HIDE DEF Value
  <2> QED BY <1>6
<1>8. r[0] = <<>> /\ \A k \in 1..Len(seq) :
        r[k] = IF seq[k] \in S THEN r[k - 1] ELSE Append(r[k - 1], seq[k])
  BY <1>7
<1> QED BY <1>8 DEF r

----------------------------------------------------------------------------
(* Types *)

\* The grid never loads beyond the result.
Sized == \A t \in Tabs : fetched[t] <= Len(Result[t])

TInv == TypeOK /\ Sized /\ IInv

\* A record has values the page can hold.
LEMMA RecordType ==
  ASSUME NEW t \in Tabs, NEW i \in Nat, i < Len(Result[t])
  PROVE  Record(t, i) \in [Columns -> Values]
<1>1. Result[t] \in Seq(Range(Result[t]))
  BY GridAssumption
<1>2. i + 1 \in DOMAIN Result[t]
  BY <1>1
<1>3. \A c \in Columns : Number(Result[t][i + 1][c]) \in Values
  <2> HIDE DEF Number
  <2> SUFFICES ASSUME NEW c \in Columns PROVE Number(Result[t][i + 1][c]) \in Values
    OBVIOUS
  <2>1. Number(Result[t][i + 1][c]) \in {Number(Result[t][j][d]) : j \in DOMAIN Result[t], d \in Columns}
    BY <1>2
  <2> QED BY <2>1 DEF Values
<1> HIDE DEF Number, Values
<1> QED BY <1>3 DEF Record

\* A page ends within the result.
LEMMA PagesWithin ==
  ASSUME NEW t \in Tabs, NEW n \in Nat
  PROVE  LeastOf(PageSize, Len(Result[t])) <= Len(Result[t])
         /\ LeastOf(n + PageSize, Len(Result[t])) <= Len(Result[t])
<1>1. Result[t] \in Seq(Range(Result[t])) /\ PageSize \in Nat
  BY GridAssumption
<1>2. Len(Result[t]) \in Nat /\ n + PageSize \in Nat
  BY <1>1
<1> QED BY <1>1, <1>2 DEF LeastOf

\* One column more in a partial row.
LEMMA PartialWith ==
  ASSUME NEW D, NEW R, NEW f \in Partial(D, R), NEW c \in D, NEW v \in R
  PROVE  With(f, c, v) \in Partial(D, R)
<1>1. PICK S \in SUBSET D : f \in [S -> R]
  BY DEF Partial
<1>2. With(f, c, v) \in [S \union {c} -> R]
  BY <1>1 DEF With
<1>3. S \union {c} \in SUBSET D
  OBVIOUS
<1> QED BY <1>2, <1>3 DEF Partial

\* A row without changes.
LEMMA PartialNothing == ASSUME NEW D, NEW R PROVE Nothing \in Partial(D, R)
<1>1. Nothing \in [{} -> R] /\ {} \in SUBSET D
  BY DEF Nothing
<1> QED BY <1>1 DEF Partial

\* What remains of a sequence is a sequence of the members that were not taken out.
LEMMA RemainingType ==
  ASSUME NEW seq \in Seq(Int), NEW S
  PROVE  LET r == Remaining(seq, S)[Len(seq)]
         IN  /\ r \in Seq(Int)
             /\ {r[i] : i \in DOMAIN r} = {seq[i] : i \in DOMAIN seq} \ S
             /\ (\A i, j \in DOMAIN seq : seq[i] = seq[j] => i = j)
                  => \A i, j \in DOMAIN r : r[i] = r[j] => i = j
<1> DEFINE r == Remaining(seq, S)
           Once(s) == \A i, j \in DOMAIN s : s[i] = s[j] => i = j
           Holds(s, k) == /\ s \in Seq(Int)
                          /\ {s[i] : i \in DOMAIN s} = {seq[i] : i \in 1..k} \ S
                          /\ Once(seq) => Once(s)
           Good == {k \in Nat : Holds(r[k], k)}
<1>1. Len(seq) \in Nat
  OBVIOUS
<1>2. /\ r[0] = <<>>
      /\ \A k \in 1..Len(seq) : r[k] = IF seq[k] \in S THEN r[k - 1] ELSE Append(r[k - 1], seq[k])
  BY <1>1, RemainingIs
<1> HIDE DEF r
<1>3. 0 \in Good
  <2>1. <<>> \in Seq(Int) /\ DOMAIN <<>> = {} /\ 1..0 = {}
    OBVIOUS
  <2>2. Holds(<<>>, 0)
    BY <2>1
  <2> HIDE DEF Holds
  <2> QED BY <1>2, <2>2
<1>4. ASSUME NEW k \in 0..(Len(seq) - 1), k \in Good
      PROVE  k + 1 \in Good
  <2> DEFINE x == seq[k + 1]
  <2>0. Holds(r[k], k)
    <3> HIDE DEF Holds
    <3> QED BY <1>4
  <2>1. k \in Nat /\ k + 1 \in Nat /\ k + 1 \in 1..Len(seq) /\ k + 1 - 1 = k
    BY <1>4
  <2>2. r[k + 1] = IF x \in S THEN r[k] ELSE Append(r[k], x)
    BY <1>2, <2>1
  <2>3. {seq[i] : i \in 1..(k + 1)} = {seq[i] : i \in 1..k} \union {x}
    <3>1. 1..(k + 1) = 1..k \union {k + 1}
      BY <2>1
    <3>2. \A A : {seq[i] : i \in A \union {k + 1}} = {seq[i] : i \in A} \union {seq[k + 1]}
      OBVIOUS
    <3> QED BY <3>1, <3>2
  <2>4. x \in Int
    BY <2>1
  <2>5. Once(seq) => \A i \in 1..k : seq[i] # x
    BY <2>1
  <2> HIDE DEF x
  <2> PICK s : s = r[k]
    OBVIOUS
  <2>6. Holds(s, k)
    <3> HIDE DEF Holds
    <3> QED BY <2>0
  <2>7. CASE x \in S
    <3>1. {seq[i] : i \in 1..(k + 1)} \ S = {seq[i] : i \in 1..k} \ S
      BY <2>3, <2>7
    <3>2. Holds(s, k + 1)
      BY <2>6, <3>1
    <3> HIDE DEF Holds
    <3> QED BY <2>1, <2>2, <2>7, <3>2
  <2>8. CASE x \notin S
    <3> DEFINE u == Append(s, x)
    <3>1. /\ u \in Seq(Int) /\ DOMAIN u = DOMAIN s \union {Len(s) + 1} /\ u[Len(s) + 1] = x
          /\ \A i \in DOMAIN s : u[i] = s[i]
          /\ Len(s) + 1 \notin DOMAIN s
      <4>1. s \in Seq(Int)
        BY <2>6
      <4>2. Len(s) \in Nat /\ DOMAIN s = 1..Len(s)
        BY <4>1
      <4>3. /\ u \in Seq(Int) /\ DOMAIN u = 1..(Len(s) + 1) /\ u[Len(s) + 1] = x
            /\ \A i \in 1..Len(s) : u[i] = s[i]
        <5>1. /\ u \in Seq(Int) /\ Len(u) = Len(s) + 1 /\ u[Len(s) + 1] = x
              /\ \A i \in 1..Len(s) : u[i] = s[i]
          BY <2>4, <4>1, AppendProperties
        <5> HIDE DEF u
        <5> QED BY <5>1
      <4>4. \A n \in Nat : 1..(n + 1) = 1..n \union {n + 1} /\ n + 1 \notin 1..n
        OBVIOUS
      <4> HIDE DEF u
      <4> QED BY <4>2, <4>3, <4>4, Zenon
    <3> HIDE DEF u
    <3>2. {u[i] : i \in DOMAIN u} = {s[i] : i \in DOMAIN s} \union {x}
      BY <3>1
    <3>3. {u[i] : i \in DOMAIN u} = {seq[i] : i \in 1..(k + 1)} \ S
      BY <2>3, <2>6, <2>8, <3>2
    <3>4. Once(seq) => Once(u)
      <4> SUFFICES ASSUME Once(seq) PROVE Once(u)
        OBVIOUS
      <4>1. \A i \in DOMAIN s : s[i] # x
        <5> SUFFICES ASSUME NEW i \in DOMAIN s, s[i] = x PROVE FALSE
          OBVIOUS
        <5>1. x \in {seq[j] : j \in 1..k}
          BY <2>6
        <5> QED BY <2>5, <5>1
      <4>2. Once(s)
        BY <2>6
      <4> QED BY <3>1, <4>1, <4>2
    <3>5. r[k + 1] = u
      BY <2>2, <2>8 DEF u
    <3>6. Holds(u, k + 1)
      BY <3>1, <3>3, <3>4
    <3> HIDE DEF Holds
    <3> QED BY <2>1, <3>5, <3>6
  <2> QED BY <2>7, <2>8
<1>5. Len(seq) \in Good
  <2> HIDE DEF Good
  <2> QED BY <1>1, <1>3, <1>4, CountingUp
<1>6. Holds(r[Len(seq)], Len(seq)) /\ DOMAIN seq = 1..Len(seq)
  BY <1>5
<1> QED BY <1>6 DEF r

\* The types, action by action.
TypesHold == TypeOK /\ Sized

LEMMA TypesInit == Init => TypesHold
<1> SUFFICES ASSUME Init PROVE TypesHold
  OBVIOUS
<1>1. fetched \in [Tabs -> Nat] /\ \A t \in Tabs : fetched[t] <= Len(Result[t])
  BY Pages, PagesWithin DEF Init
<1>2. /\ editability \in [Tabs -> BOOLEAN] /\ shown = NoTab /\ editable = FALSE
      /\ inserts = {} /\ nextInsertId = -1 /\ nextRowId = 0
      /\ DOMAIN display = {} /\ DOMAIN updates = {} /\ order = <<>>
      /\ preview = FALSE /\ failed = FALSE /\ edited = {}
  BY DEF Init, Nothing
<1>3. order \in Seq(Int)
  BY <1>2
<1>4. /\ shown \in Tabs \union {NoTab} /\ inserts \subseteq Int /\ nextInsertId \in Int /\ nextRowId \in Nat
      /\ edited \subseteq Int \X Columns
  BY <1>2
<1>5. /\ \A id \in DOMAIN display : id \in Int /\ display[id] \in [Columns -> Values]
      /\ \A id \in DOMAIN updates : id \in Int /\ updates[id] \in Partial(Columns, Values)
  BY <1>2
<1>6. editable \in BOOLEAN /\ preview \in BOOLEAN /\ failed \in BOOLEAN
  BY <1>2
<1> QED BY <1>1, <1>2, <1>3, <1>4, <1>5, <1>6 DEF TypesHold, TypeOK, Sized

LEMMA TypesRender ==
  ASSUME TInv, NEW t \in Tabs, Render(t)
  PROVE  TypesHold'
<1>1. /\ shown' = t /\ editable' = editability[t]
      /\ display' = [i \in 0..(fetched[t] - 1) |-> Record(t, i)]
      /\ updates' = Nothing /\ order' = <<>> /\ inserts' = {}
      /\ nextInsertId' = -1 /\ nextRowId' = fetched[t] /\ edited' = {}
      /\ UNCHANGED <<fetched, editability, preview, failed>>
  BY DEF Render, tabVars
<1>2. fetched[t] \in Nat /\ fetched[t] <= Len(Result[t]) /\ editability[t] \in BOOLEAN
  BY DEF TInv, TypeOK, Sized
<1>3. \A i \in DOMAIN display' : i \in Int /\ display'[i] \in [Columns -> Values]
  <2> SUFFICES ASSUME NEW i \in 0..(fetched[t] - 1) PROVE Record(t, i) \in [Columns -> Values]
    BY <1>1, <1>2
  <2>1. i \in Nat /\ i < Len(Result[t])
    BY <1>2, GridAssumption
  <2> QED BY <2>1, RecordType
<1>4. DOMAIN updates' = {} /\ order' \in Seq(Int)
  BY <1>1 DEF Nothing
<1>5. Values' = Values
  BY DEF Values
<1> QED BY <1>1, <1>2, <1>3, <1>4, <1>5 DEF TInv, TypesHold, TypeOK, Sized

LEMMA TypesAppend ==
  ASSUME TInv, NEW t \in Tabs, AppendRows(t)
  PROVE  TypesHold'
<1> DEFINE n == LeastOf(fetched[t] + PageSize, Len(Result[t]))
           new == nextRowId..(nextRowId + (n - fetched[t]) - 1)
<1>1. /\ t = shown /\ n > fetched[t]
      /\ fetched' = [fetched EXCEPT ![t] = n]
      /\ display' = [i \in DOMAIN display \union new |-> IF i \in new THEN Record(t, i) ELSE display[i]]
      /\ nextRowId' = nextRowId + (n - fetched[t])
      /\ UNCHANGED <<editability, shown, editable, updates, order, inserts, nextInsertId, preview, failed, edited>>
  BY DEF AppendRows, editVars
<1>2. fetched[t] \in Nat /\ n \in Nat /\ n <= Len(Result[t]) /\ nextRowId = fetched[t]
  <2>1. fetched[t] \in Nat /\ nextRowId = fetched[t]
    BY <1>1, GridAssumption DEF TInv, IInv, Counted
  <2> QED BY <2>1, Pages, PagesWithin
<1> HIDE DEF n
<1>3. \A i \in new : i \in Nat /\ Record(t, i) \in [Columns -> Values]
  <2> SUFFICES ASSUME NEW i \in new PROVE i \in Nat /\ Record(t, i) \in [Columns -> Values]
    OBVIOUS
  <2>1. i \in Nat /\ i < Len(Result[t])
    BY <1>2, GridAssumption
  <2> QED BY <2>1, RecordType
<1> HIDE DEF new
<1>4. \A i \in DOMAIN display' : i \in Int /\ display'[i] \in [Columns -> Values]
  BY <1>1, <1>3 DEF TInv, TypeOK
<1>5. /\ fetched' \in [Tabs -> Nat] /\ \A u \in Tabs : fetched'[u] <= Len(Result[u])
      /\ nextRowId' \in Nat
  BY <1>1, <1>2 DEF TInv, TypeOK, Sized
<1>6. Values' = Values
  BY DEF Values
<1> QED BY <1>1, <1>4, <1>5, <1>6 DEF TInv, TypesHold, TypeOK, Sized

LEMMA TypesRerun ==
  ASSUME TInv, NEW t \in Tabs, Rerun(t)
  PROVE  TypesHold'
<1>1. /\ fetched' = [fetched EXCEPT ![t] = LeastOf(PageSize, Len(Result[t]))]
      /\ editability' = [editability EXCEPT ![t] = FALSE]
      /\ shown' = NoTab /\ editable' = FALSE
      /\ display' = Nothing /\ updates' = Nothing /\ order' = <<>> /\ inserts' = {}
      /\ nextInsertId' = -1 /\ nextRowId' = 0 /\ edited' = {}
      /\ UNCHANGED <<preview, failed>>
  BY DEF Rerun
<1>2. DOMAIN display' = {} /\ DOMAIN updates' = {} /\ order' \in Seq(Int)
  BY <1>1 DEF Nothing
<1>3. fetched' \in [Tabs -> Nat] /\ \A u \in Tabs : fetched'[u] <= Len(Result[u])
  BY <1>1, Pages, PagesWithin DEF TInv, TypeOK, Sized
<1>4. editability' \in [Tabs -> BOOLEAN]
  BY <1>1 DEF TInv, TypeOK
<1>5. /\ shown' \in Tabs \union {NoTab} /\ inserts' \subseteq Int
      /\ nextInsertId' \in Int /\ nextRowId' \in Nat /\ edited' \subseteq Int \X Columns
  BY <1>1
<1>6. editable' \in BOOLEAN /\ preview' \in BOOLEAN /\ failed' \in BOOLEAN
  BY <1>1 DEF TInv, TypeOK
<1> QED BY <1>2, <1>3, <1>4, <1>5, <1>6 DEF TypesHold, TypeOK, Sized

LEMMA TypesEdit ==
  ASSUME TInv, NEW id \in DOMAIN display, NEW c \in Columns, NEW v \in Typed, EditCell(id, c, v)
  PROVE  TypesHold'
<1> DEFINE before == IF id \in DOMAIN updates THEN updates[id] ELSE Nothing
<1>1. /\ display' = [display EXCEPT ![id] = [@ EXCEPT ![c] = v]]
      /\ edited' = edited \union {<<id, c>>}
      /\ id \in inserts => updates' = updates /\ order' = order
      /\ id \notin inserts => updates' = With(updates, id, With(before, c, v))
      /\ id \notin inserts => order' = IF id \in DOMAIN updates THEN order ELSE Append(order, id)
      /\ UNCHANGED <<fetched, editability, shown, editable, inserts, nextInsertId, nextRowId, preview, failed>>
  BY DEF EditCell, tabVars
<1>2. id \in Int /\ display[id] \in [Columns -> Values] /\ v \in Values
  BY DEF TInv, TypeOK, Values
<1>3. Values' = Values
  BY DEF Values
<1>4. \A i \in DOMAIN display' : i \in Int /\ display'[i] \in [Columns -> Values]
  BY <1>1, <1>2 DEF TInv, TypeOK
<1>5. With(before, c, v) \in Partial(Columns, Values)
  <2>1. before \in Partial(Columns, Values)
    BY PartialNothing DEF TInv, TypeOK
  <2> QED BY <1>2, <2>1, PartialWith
<1> HIDE DEF before
<1>6. \A i \in DOMAIN updates' : i \in Int /\ updates'[i] \in Partial(Columns, Values)
  <2> DEFINE after == With(before, c, v)
  <2>0. after \in Partial(Columns, Values)
    BY <1>5
  <2> HIDE DEF after
  <2>1. updates' = updates \/ updates' = With(updates, id, after)
    BY <1>1 DEF after
  <2>2. updates' = With(updates, id, after) =>
          /\ DOMAIN updates' = DOMAIN updates \union {id} /\ updates'[id] = after
          /\ \A i \in DOMAIN updates \ {id} : updates'[i] = updates[i]
    BY DEF With
  <2> QED BY <1>2, <2>0, <2>1, <2>2 DEF TInv, TypeOK
<1>7. order' \in Seq(Int)
  <2>1. order \in Seq(Int)
    BY DEF TInv, TypeOK
  <2>2. Append(order, id) \in Seq(Int)
    BY <1>2, <2>1
  <2>3. order' = order \/ order' = Append(order, id)
    BY <1>1
  <2> QED BY <2>1, <2>2, <2>3
<1>8. edited' \subseteq Int \X Columns
  BY <1>1, <1>2 DEF TInv, TypeOK
<1>9. Partial(Columns, Values)' = Partial(Columns, Values)
  BY <1>3 DEF Partial
<1> QED BY <1>1, <1>3, <1>4, <1>6, <1>7, <1>8, <1>9 DEF TInv, TypesHold, TypeOK, Sized

LEMMA TypesAdd ==
  ASSUME TInv, AddRow
  PROVE  TypesHold'
<1>1. /\ display' = With(display, nextInsertId, [c \in Columns |-> Empty])
      /\ inserts' = inserts \union {nextInsertId} /\ nextInsertId' = nextInsertId - 1
      /\ UNCHANGED <<fetched, editability, shown, editable, updates, order, nextRowId, preview, failed, edited>>
  BY DEF AddRow, tabVars
<1>2. nextInsertId \in Int /\ [c \in Columns |-> Empty] \in [Columns -> Values]
  BY DEF TInv, TypeOK, Values
<1>3. \A i \in DOMAIN display' : i \in Int /\ display'[i] \in [Columns -> Values]
  BY <1>1, <1>2 DEF TInv, TypeOK, With
<1>4. Values' = Values /\ Partial(Columns, Values)' = Partial(Columns, Values)
  BY DEF Values, Partial
<1>5. inserts' \subseteq Int /\ nextInsertId' \in Int
  BY <1>1, <1>2 DEF TInv, TypeOK
<1> QED BY <1>1, <1>3, <1>4, <1>5 DEF TInv, TypesHold, TypeOK, Sized

LEMMA TypesDelete ==
  ASSUME TInv, NEW S \in SUBSET DOMAIN display, DeleteSelected(S)
  PROVE  TypesHold'
<1>1. /\ inserts' = inserts \ S
      /\ updates' = Without(updates, S) /\ display' = Without(display, S)
      /\ order' = Remaining(order, S)[Len(order)]
      /\ UNCHANGED <<fetched, editability, shown, editable, nextInsertId, nextRowId, preview, failed, edited>>
  BY DEF DeleteSelected, tabVars
<1>2. order' \in Seq(Int)
  BY <1>1, RemainingType DEF TInv, TypeOK
<1>3. /\ \A i \in DOMAIN display' : i \in Int /\ display'[i] \in [Columns -> Values]
      /\ \A i \in DOMAIN updates' : i \in Int /\ updates'[i] \in Partial(Columns, Values)
  BY <1>1 DEF TInv, TypeOK, Without
<1>4. Values' = Values /\ Partial(Columns, Values)' = Partial(Columns, Values)
  BY DEF Values, Partial
<1> QED BY <1>1, <1>2, <1>3, <1>4 DEF TInv, TypesHold, TypeOK, Sized

LEMMA TypesKept == TInv /\ [Next]_vars => TInv'
<1> SUFFICES ASSUME TInv, [Next]_vars PROVE TInv'
  OBVIOUS
<1>1. ASSUME UNCHANGED <<fetched, gridVars, edited>>, editability' \in [Tabs -> BOOLEAN],
             preview' \in BOOLEAN, failed' \in BOOLEAN
      PROVE  TypesHold'
  <2>1. UNCHANGED <<fetched, shown, editable, display, updates, order, inserts, nextInsertId, nextRowId, edited>>
    BY <1>1 DEF gridVars, editVars
  <2>2. /\ \A id \in DOMAIN display' : id \in Int /\ display'[id] \in [Columns -> Values]
        /\ \A id \in DOMAIN updates' : id \in Int /\ updates'[id] \in Partial(Columns, Values)
    BY <2>1 DEF TInv, TypeOK
  <2>3. Values' = Values /\ Partial(Columns, Values)' = Partial(Columns, Values)
    BY DEF Values, Partial
  <2>4. /\ fetched' \in [Tabs -> Nat] /\ Sized'
        /\ shown' \in Tabs \union {NoTab} /\ editable' \in BOOLEAN
        /\ inserts' \subseteq Int /\ nextInsertId' \in Int /\ nextRowId' \in Nat
        /\ order' \in Seq(Int) /\ edited' \subseteq Int \X Columns
    <3>1. /\ fetched \in [Tabs -> Nat] /\ Sized
          /\ shown \in Tabs \union {NoTab} /\ editable \in BOOLEAN
          /\ inserts \subseteq Int /\ nextInsertId \in Int /\ nextRowId \in Nat
          /\ order \in Seq(Int) /\ edited \subseteq Int \X Columns
      BY DEF TInv, TypeOK
    <3> QED BY <2>1, <3>1 DEF Sized
  <2>5. TypeOK'
    BY <1>1, <2>2, <2>3, <2>4 DEF TypeOK
  <2> QED BY <2>4, <2>5 DEF TypesHold
<1>2. ASSUME NEW t \in Tabs, Analyzed(t) PROVE TypesHold'
  <2>1. /\ UNCHANGED <<fetched, gridVars, edited>> /\ editability' = [editability EXCEPT ![t] = TRUE]
        /\ preview' = preview /\ failed' = failed
    BY <1>2 DEF Analyzed
  <2>2. editability' \in [Tabs -> BOOLEAN] /\ preview' \in BOOLEAN /\ failed' \in BOOLEAN
    BY <2>1 DEF TInv, TypeOK
  <2> QED BY <1>1, <2>1, <2>2
<1>3. ASSUME PrepareApply \/ PrepareThrows \/ CancelApply \/ UNCHANGED vars PROVE TypesHold'
  <2>1. UNCHANGED <<fetched, gridVars, edited, editability>>
    BY <1>3 DEF PrepareApply, PrepareThrows, CancelApply, vars, tabVars
  <2>2. preview' \in BOOLEAN /\ failed' \in BOOLEAN
    <3>1. preview \in BOOLEAN /\ failed \in BOOLEAN
      BY DEF TInv, TypeOK
    <3>2. preview' = (RowChanges # <<>>) \/ preview' = FALSE \/ preview' = preview
      BY <1>3 DEF PrepareApply, PrepareThrows, CancelApply, vars
    <3>3. failed' = TRUE \/ failed' = failed
      BY <1>3 DEF PrepareApply, PrepareThrows, CancelApply, vars
    <3> QED BY <3>1, <3>2, <3>3
  <2>3. editability' \in [Tabs -> BOOLEAN]
    BY <2>1 DEF TInv, TypeOK
  <2> QED BY <1>1, <2>1, <2>2, <2>3
<1>4. TypesHold'
  <2>1. CASE \E t \in Tabs : Analyzed(t) \/ Render(t) \/ AppendRows(t) \/ Rerun(t)
    BY <1>2, <2>1, TypesRender, TypesAppend, TypesRerun
  <2>2. CASE \E id \in DOMAIN display, c \in Columns, v \in Typed : EditCell(id, c, v)
    BY <2>2, TypesEdit
  <2>3. CASE \E S \in SUBSET DOMAIN display : DeleteSelected(S)
    BY <2>3, TypesDelete
  <2>4. CASE AddRow
    BY <2>4, TypesAdd
  <2> QED BY <1>3, <2>1, <2>2, <2>3, <2>4 DEF Next
<1>5. IInv'
  BY Invariance DEF TInv
<1> QED
  <2>1. TInv <=> TypesHold /\ IInv
    BY DEF TInv, TypesHold
  <2>2. TInv' <=> TypesHold' /\ IInv'
    BY DEF TInv, TypesHold
  <2> QED BY <1>4, <1>5, <2>2

\* Whatever is edited, added and deleted, the grid's collections are well typed, and no grid loads
\* beyond its result.
THEOREM TypeCorrect == Spec => []TypeOK
<1>1. Init => TInv
  BY InitKeeps, TypesInit DEF TInv, TypesHold
<1>2. TInv => TypeOK
  BY DEF TInv
<1> QED BY <1>1, <1>2, TypesKept, PTL DEF Spec

----------------------------------------------------------------------------
(* The edit state as the commands are made of it *)

\* order has every changed row once.
Ordered ==
    /\ \A i, j \in DOMAIN order : order[i] = order[j] => i = j
    /\ {order[i] : i \in DOMAIN order} = DOMAIN updates

\* The cells that were typed in are those that the updates of a displayed row name.
Traced ==
    /\ \A cell \in edited : cell[1] < nextRowId
    /\ editable => \A id \in DOMAIN display \cap Loaded, c \in Columns :
            <<id, c>> \in edited <=> id \in DOMAIN updates /\ c \in DOMAIN updates[id]

\* Added rows are numbered from -1 down to the bound.
Bounded ==
    /\ nextInsertId >= -MaxInserts - 1
    /\ inserts \subseteq -MaxInserts..-1

SInv == Ordered /\ Traced /\ Bounded

LEMMA StateInit == Init => SInv
<1> SUFFICES ASSUME Init PROVE SInv
  OBVIOUS
<1>1. /\ inserts = {} /\ nextInsertId = -1 /\ nextRowId = 0 /\ editable = FALSE
      /\ DOMAIN updates = {} /\ order = <<>> /\ edited = {}
  BY DEF Init, Nothing
<1>2. DOMAIN order = {}
  BY <1>1
<1>3. Ordered
  BY <1>1, <1>2 DEF Ordered
<1>4. Bounded
  BY <1>1, GridAssumption DEF Bounded
<1> QED BY <1>1, <1>3, <1>4 DEF SInv, Traced

LEMMA StateCleared ==
  ASSUME updates' = Nothing, order' = <<>>, inserts' = {}, nextInsertId' = -1, edited' = {}
  PROVE  SInv'
<1>1. DOMAIN updates' = {} /\ DOMAIN order' = {}
  BY DEF Nothing
<1>2. Ordered'
  BY <1>1 DEF Ordered
<1>3. Bounded'
  BY GridAssumption DEF Bounded
<1>4. Traced'
  BY <1>1 DEF Traced
<1> QED BY <1>2, <1>3, <1>4 DEF SInv

LEMMA StateAppend ==
  ASSUME TInv, SInv, NEW t \in Tabs, AppendRows(t)
  PROVE  SInv'
<1> DEFINE n == LeastOf(fetched[t] + PageSize, Len(Result[t]))
           new == nextRowId..(nextRowId + (n - fetched[t]) - 1)
<1>1. /\ t = shown /\ n > fetched[t]
      /\ DOMAIN display' = DOMAIN display \union new
      /\ nextRowId' = nextRowId + (n - fetched[t])
      /\ UNCHANGED <<editable, updates, order, inserts, nextInsertId, edited>>
  BY DEF AppendRows, editVars
<1>2. fetched[t] \in Nat /\ n \in Nat /\ nextRowId \in Nat
  <2>1. fetched[t] \in Nat /\ nextRowId \in Nat
    BY DEF TInv, TypeOK
  <2> QED BY <2>1, Pages
<1> HIDE DEF n
<1>3. nextRowId' > nextRowId /\ nextRowId' \in Nat /\ Loaded' = Loaded \union new
      /\ \A i \in new : i >= nextRowId /\ i \in Int
  BY <1>1, <1>2 DEF Loaded
<1> HIDE DEF new
<1>4. \A cell \in edited' : cell[1] < nextRowId'
  <2> SUFFICES ASSUME NEW cell \in edited PROVE cell[1] < nextRowId'
    BY <1>1
  <2>1. cell[1] < nextRowId /\ cell[1] \in Int
    BY DEF SInv, Traced, TInv, TypeOK
  <2> QED BY <1>2, <1>3, <2>1
<1>5. ASSUME editable, NEW id \in DOMAIN display' \cap Loaded', NEW c \in Columns
      PROVE  <<id, c>> \in edited <=> id \in DOMAIN updates /\ c \in DOMAIN updates[id]
  <2>1. CASE id \in DOMAIN display \cap Loaded
    BY <1>5, <2>1 DEF SInv, Traced
  <2>2. CASE id \notin DOMAIN display \cap Loaded
    <3>1. DOMAIN updates \subseteq DOMAIN display \cap Loaded
      BY <1>5 DEF TInv, IInv, EditsTrackDisplay
    <3>2. id \in new
      <4>1. Loaded \cap new = {}
        BY <1>2, <1>3 DEF Loaded
      <4>2. DOMAIN display \subseteq Loaded \union inserts /\ inserts \cap Loaded' = {}
        <5>1. DOMAIN display \subseteq Loaded \union inserts
          BY <1>5 DEF TInv, IInv, EditsTrackDisplay
        <5>2. inserts \cap Loaded' = {}
          BY <1>2, <1>3 DEF Loaded, TInv, IInv, Counted
        <5> QED BY <5>1, <5>2
      <4> QED BY <1>1, <1>3, <2>2, <4>2
    <3>3. <<id, c>> \notin edited
      <4> SUFFICES ASSUME <<id, c>> \in edited PROVE FALSE
        OBVIOUS
      <4>1. <<id, c>>[1] < nextRowId
        BY DEF SInv, Traced
      <4> QED BY <1>2, <1>3, <3>2, <4>1
    <3> QED BY <2>2, <3>1, <3>3
  <2> QED BY <2>1, <2>2
<1>6. Traced'
  BY <1>1, <1>4, <1>5 DEF Traced
<1> QED BY <1>1, <1>6 DEF SInv, Ordered, Bounded

LEMMA StateEdit ==
  ASSUME TInv, SInv, NEW id \in DOMAIN display, NEW c \in Columns, NEW v \in Typed, EditCell(id, c, v)
  PROVE  SInv'
<1> DEFINE before == IF id \in DOMAIN updates THEN updates[id] ELSE Nothing
           after == With(before, c, v)
<1>1. /\ editable /\ DOMAIN display' = DOMAIN display
      /\ edited' = edited \union {<<id, c>>}
      /\ id \in inserts => updates' = updates /\ order' = order
      /\ id \notin inserts => updates' = With(updates, id, after)
      /\ id \notin inserts => order' = IF id \in DOMAIN updates THEN order ELSE Append(order, id)
      /\ UNCHANGED <<editable, inserts, nextInsertId, nextRowId>>
  BY DEF EditCell
<1>2. /\ id \in Int /\ nextRowId \in Nat /\ order \in Seq(Int)
      /\ id \in inserts => id < 0
      /\ id \in Loaded \union inserts /\ inserts \cap Loaded = {}
  <2>1. id \in Int /\ nextRowId \in Nat /\ order \in Seq(Int)
    BY DEF TInv, TypeOK
  <2>2. \A i \in inserts : i \in Int /\ i < 0
    BY DEF TInv, IInv, Counted
  <2>3. id \in Loaded \union inserts
    BY <1>1 DEF TInv, IInv, EditsTrackDisplay
  <2>4. inserts \cap Loaded = {}
    BY <2>1, <2>2 DEF Loaded
  <2> QED BY <2>1, <2>2, <2>3, <2>4
<1>3. DOMAIN after = DOMAIN before \union {c}
  BY DEF With
<1>4. /\ id \in DOMAIN updates => before = updates[id]
      /\ id \notin DOMAIN updates => DOMAIN before = {}
  BY DEF Nothing
<1> HIDE DEF before, after
<1>5. \A cell \in edited' : cell[1] < nextRowId'
  <2>1. id < nextRowId
    BY <1>2 DEF Loaded
  <2>2. \A cell \in edited : cell[1] < nextRowId
    BY DEF SInv, Traced
  <2>3. <<id, c>>[1] = id
    OBVIOUS
  <2> QED BY <1>1, <2>1, <2>2, <2>3
<1>6. Bounded'
  BY <1>1 DEF SInv, Bounded
<1>7. Loaded' = Loaded
  BY <1>1 DEF Loaded
<1>8. CASE id \in inserts
  <2>1. \A i \in Loaded, d \in Columns : <<i, d>> \in edited' <=> <<i, d>> \in edited
    BY <1>1, <1>2, <1>8
  <2>2. Traced'
    BY <1>1, <1>5, <1>7, <1>8, <2>1 DEF SInv, Traced
  <2> QED BY <1>1, <1>6, <1>8, <2>2 DEF SInv, Ordered
<1>9. CASE id \notin inserts
  <2>1. /\ DOMAIN updates' = DOMAIN updates \union {id} /\ updates'[id] = after
        /\ \A i \in DOMAIN updates \ {id} : updates'[i] = updates[i]
    BY <1>1, <1>9 DEF With
  <2>2. id \in DOMAIN display \cap Loaded
    BY <1>2, <1>9
  <2>3. ASSUME NEW i \in DOMAIN display' \cap Loaded', NEW d \in Columns
        PROVE  <<i, d>> \in edited' <=> i \in DOMAIN updates' /\ d \in DOMAIN updates'[i]
    <3>1. i \in DOMAIN display \cap Loaded
      BY <1>1, <1>7
    <3>2. <<i, d>> \in edited <=> i \in DOMAIN updates /\ d \in DOMAIN updates[i]
      BY <1>1, <3>1 DEF SInv, Traced
    <3>3. CASE i # id
      BY <1>1, <2>1, <3>2, <3>3
    <3>4. CASE i = id
      <4>1. <<id, d>> \in edited' <=> <<id, d>> \in edited \/ d = c
        BY <1>1
      <4>2. d \in DOMAIN updates'[id] <=> d \in DOMAIN before \/ d = c
        BY <1>3, <2>1
      <4>3. <<id, d>> \in edited <=> d \in DOMAIN before
        BY <1>4, <3>2, <3>4
      <4> QED BY <2>1, <3>4, <4>1, <4>2, <4>3
    <3> QED BY <3>3, <3>4
  <2>4. Traced'
    BY <1>5, <2>3 DEF Traced
  <2>5. Ordered'
    <3>0. /\ \A i, j \in DOMAIN order : order[i] = order[j] => i = j
          /\ {order[i] : i \in DOMAIN order} = DOMAIN updates
      BY DEF SInv, Ordered
    <3>1. CASE id \in DOMAIN updates
      <4>1. order' = order /\ DOMAIN updates' = DOMAIN updates
        BY <1>1, <1>9, <2>1, <3>1
      <4> QED BY <4>1, <3>0 DEF Ordered
    <3>2. CASE id \notin DOMAIN updates
      <4>1. order' = Append(order, id)
        BY <1>1, <1>9, <3>2
      <4>2. /\ DOMAIN order' = DOMAIN order \union {Len(order) + 1} /\ order'[Len(order) + 1] = id
            /\ \A i \in DOMAIN order : order'[i] = order[i]
            /\ Len(order) + 1 \notin DOMAIN order
        BY <1>2, <4>1
      <4>3. \A i \in DOMAIN order : order[i] # id
        BY <3>0, <3>2
      <4>4. {order'[i] : i \in DOMAIN order'} = {order[i] : i \in DOMAIN order} \union {id}
        BY <4>2
      <4>5. \A i, j \in DOMAIN order' : order'[i] = order'[j] => i = j
        BY <3>0, <4>2, <4>3
      <4> QED BY <2>1, <3>0, <4>4, <4>5 DEF Ordered
    <3> QED BY <3>1, <3>2
  <2> QED BY <1>6, <2>4, <2>5 DEF SInv
<1> QED BY <1>8, <1>9

LEMMA StateAdd ==
  ASSUME TInv, SInv, AddRow
  PROVE  SInv'
<1>1. /\ editable /\ nextInsertId >= -MaxInserts
      /\ display' = With(display, nextInsertId, [c \in Columns |-> Empty])
      /\ inserts' = inserts \union {nextInsertId} /\ nextInsertId' = nextInsertId - 1
      /\ UNCHANGED <<editable, updates, order, nextRowId, edited>>
  BY DEF AddRow
<1>2. nextInsertId \in Int /\ nextInsertId < 0 /\ MaxInserts \in Nat
  BY GridAssumption DEF TInv, IInv, Counted
<1>3. Bounded'
  BY <1>1, <1>2 DEF SInv, Bounded
<1>4. Loaded' = Loaded /\ nextInsertId \notin Loaded
  BY <1>1, <1>2 DEF Loaded
<1>5. DOMAIN display' \cap Loaded' = DOMAIN display \cap Loaded
  BY <1>1, <1>4 DEF With
<1>6. Traced'
  BY <1>1, <1>5 DEF SInv, Traced
<1> QED BY <1>1, <1>3, <1>6 DEF SInv, Ordered

LEMMA StateDelete ==
  ASSUME TInv, SInv, NEW S \in SUBSET DOMAIN display, DeleteSelected(S)
  PROVE  SInv'
<1>1. /\ editable /\ inserts' = inserts \ S
      /\ updates' = Without(updates, S) /\ display' = Without(display, S)
      /\ order' = Remaining(order, S)[Len(order)]
      /\ UNCHANGED <<editable, nextInsertId, nextRowId, edited>>
  BY DEF DeleteSelected
<1>2. /\ DOMAIN display' = DOMAIN display \ S
      /\ DOMAIN updates' = DOMAIN updates \ S /\ \A i \in DOMAIN updates \ S : updates'[i] = updates[i]
  BY <1>1 DEF Without
<1>3. Ordered'
  <2>1. order \in Seq(Int) /\ (\A i, j \in DOMAIN order : order[i] = order[j] => i = j)
        /\ {order[i] : i \in DOMAIN order} = DOMAIN updates
    BY DEF TInv, TypeOK, SInv, Ordered
  <2> DEFINE r == Remaining(order, S)[Len(order)]
  <2>2. /\ {r[i] : i \in DOMAIN r} = {order[i] : i \in DOMAIN order} \ S
        /\ \A i, j \in DOMAIN r : r[i] = r[j] => i = j
    BY <2>1, RemainingType
  <2>3. order' = r
    BY <1>1
  <2> HIDE DEF r
  <2>4. /\ {order'[i] : i \in DOMAIN order'} = DOMAIN updates \ S
        /\ \A i, j \in DOMAIN order' : order'[i] = order'[j] => i = j
    BY <2>1, <2>2, <2>3
  <2> QED BY <1>2, <2>4 DEF Ordered
<1>4. Bounded'
  BY <1>1 DEF SInv, Bounded
<1>5. Loaded' = Loaded
  BY <1>1 DEF Loaded
<1>6. Traced'
  BY <1>1, <1>2, <1>5 DEF SInv, Traced
<1> QED BY <1>3, <1>4, <1>6 DEF SInv

LEMMA StateKept == TInv /\ SInv /\ [Next]_vars => SInv'
<1> SUFFICES ASSUME TInv, SInv, [Next]_vars PROVE SInv'
  OBVIOUS
<1>1. ASSUME UNCHANGED <<gridVars, edited>> PROVE SInv'
  <2>1. UNCHANGED <<editable, display, updates, order, inserts, nextInsertId, nextRowId, edited>>
    BY <1>1 DEF gridVars, editVars
  <2> QED BY <2>1 DEF SInv, Ordered, Traced, Bounded, Loaded
<1>2. ASSUME PrepareApply \/ PrepareThrows \/ CancelApply \/ UNCHANGED vars \/ \E t \in Tabs : Analyzed(t)
      PROVE  SInv'
  BY <1>1, <1>2 DEF PrepareApply, PrepareThrows, CancelApply, Analyzed, vars
<1>3. ASSUME NEW t \in Tabs, Render(t) \/ Rerun(t) PROVE SInv'
  BY <1>3, StateCleared DEF Render, Rerun
<1>4. CASE \E t \in Tabs : Analyzed(t) \/ Render(t) \/ AppendRows(t) \/ Rerun(t)
  BY <1>2, <1>3, <1>4, StateAppend
<1>5. CASE \E id \in DOMAIN display, c \in Columns, v \in Typed : EditCell(id, c, v)
  BY <1>5, StateEdit
<1>6. CASE \E S \in SUBSET DOMAIN display : DeleteSelected(S)
  BY <1>6, StateDelete
<1> QED BY <1>2, <1>4, <1>5, <1>6, StateAdd DEF Next

----------------------------------------------------------------------------
(* What the commands do to a table *)

\* Executed is what its definition says.
LEMMA ExecutedIs ==
  ASSUME NEW table, NEW commands, Len(commands) \in Nat
  PROVE  /\ Executed(table, commands)[0] = table
         /\ \A k \in 1..Len(commands) :
              Executed(table, commands)[k] = Execute(Executed(table, commands)[k - 1], commands[k])
<1> DEFINE Value(f, k) == IF k = 0 THEN table ELSE Execute(f[k - 1], commands[k])
           Good == {n \in Nat : \E f : f = [k \in 0..n |-> Value(f, k)]}
<1>1. 0 \in Good
  <2>1. [k \in 0..0 |-> table] = [k \in 0..0 |-> Value([j \in 0..0 |-> table], k)]
    OBVIOUS
  <2> QED BY <2>1
<1>2. ASSUME NEW n \in 0..(Len(commands) - 1), n \in Good
      PROVE  n + 1 \in Good
  <2> DEFINE Is(f) == f = [k \in 0..n |-> Value(f, k)]
  <2>1. PICK f : Is(f)
    BY <1>2
  <2> DEFINE g == [k \in 0..(n + 1) |-> IF k <= n THEN f[k] ELSE Value(f, k)]
  <2>2. \A k \in 0..n : g[k] = f[k]
    OBVIOUS
  <2>3. \A k \in 0..(n + 1) : Value(g, k) = Value(f, k)
    <3>1. \A k \in 0..(n + 1) : k = 0 \/ k - 1 \in 0..n
      OBVIOUS
    <3> HIDE DEF g, Is
    <3> QED BY <2>2, <3>1
  <2> HIDE DEF Value
  <2>4. \A k \in 0..n : f[k] = Value(f, k)
    BY <2>1
  <2> HIDE DEF Is
  <2>5. g = [k \in 0..(n + 1) |-> Value(f, k)]
    BY <2>4
  <2> HIDE DEF g
  <2>6. g = [k \in 0..(n + 1) |-> Value(g, k)]
    BY <2>3, <2>5
  <2> QED BY <2>6
<1>3. Len(commands) \in Good
  <2> HIDE DEF Good
  <2> QED BY <1>1, <1>2, CountingUp
<1>4. \E f : f = [k \in 0..Len(commands) |-> Value(f, k)]
  BY <1>3
<1>5. Executed(table, commands) = CHOOSE f : f = [k \in 0..Len(commands) |-> Value(f, k)]
  BY DEF Executed
<1> DEFINE r == Executed(table, commands)
<1> HIDE DEF r
<1>6. r = [k \in 0..Len(commands) |-> Value(r, k)]
  <2> HIDE DEF Value
  <2> QED BY <1>4, <1>5 DEF r
<1>7. \A k \in 0..Len(commands) : r[k] = Value(r, k)
  <2> HIDE DEF Value
  <2> QED BY <1>6
<1>8. r[0] = table /\ \A k \in 1..Len(commands) : r[k] = Execute(r[k - 1], commands[k])
  BY <1>7
<1> QED BY <1>8 DEF r

\* A finite set written as a sequence has every member once.
LEMMA Listed ==
  ASSUME NEW S, IsFiniteSet(S)
  PROVE  LET s == SetToSeq(S)
         IN  /\ Cardinality(S) \in Nat /\ s \in [1..Cardinality(S) -> S]
             /\ \A i, j \in DOMAIN s : s[i] = s[j] => i = j
             /\ \A x \in S : \E i \in DOMAIN s : s[i] = x
<1> DEFINE n == Cardinality(S)
           s == SetToSeq(S)
<1>1. n \in Nat /\ ExistsBijection(1..n, S)
  BY FS_CardinalityType
<1>2. \E f \in [1..n -> S] : IsInjective(f)
  BY <1>1 DEF ExistsBijection, Bijection, Injection, IsInjective
<1>3. s \in [1..n -> S] /\ IsInjective(s)
  BY <1>2 DEF SetToSeq
<1> HIDE DEF s, n
<1>4. \A i, j \in DOMAIN s : s[i] = s[j] => i = j
  BY <1>3 DEF IsInjective
<1>5. s \in Injection(1..n, S)
  BY <1>3 DEF Injection, IsInjective
<1>6. IsFiniteSet(1..n) /\ Cardinality(1..n) = n
  BY <1>1, FS_Interval
<1>7. s \in Surjection(1..n, S)
  BY <1>5, <1>6, FS_Injection DEF n
<1>8. \A x \in S : \E i \in DOMAIN s : s[i] = x
  BY <1>3, <1>7 DEF Surjection
<1> QED BY <1>1, <1>3, <1>4, <1>8 DEF s, n

\* A table as a family of rows, no two with the same key.
TableOf(f) == {f[i] : i \in DOMAIN f}
KeysApart(f) == \A i, j \in DOMAIN f : KeyOf(f[i]) = KeyOf(f[j]) => i = j

Change(row, values) == [c \in Columns |-> IF c \in DOMAIN values THEN values[c] ELSE row[c]]

\* An update by the key of one row changes that row.
LEMMA ExecuteUpdate ==
  ASSUME NEW f, KeysApart(f), NEW id \in DOMAIN f, NEW values,
         NEW command, command = [kind |-> "update", key |-> KeyOf(f[id]), values |-> values],
         Execute(TableOf(f), command) # Conflict
  PROVE  LET g == [i \in DOMAIN f |-> IF i = id THEN Change(f[id], values) ELSE f[i]]
         IN  Execute(TableOf(f), command) = TableOf(g) /\ KeysApart(g)
<1> DEFINE g == [i \in DOMAIN f |-> IF i = id THEN Change(f[id], values) ELSE f[i]]
           hit == {row \in TableOf(f) : KeyOf(row) = command.key}
           changed == {Change(row, command.values) : row \in hit}
           kept == TableOf(f) \ hit
<1>1. hit = {f[id]}
  BY DEF TableOf, KeysApart
<1>2. changed = {g[id]}
  <2> HIDE DEF hit
  <2> QED BY <1>1
<1>3. /\ kept = {f[i] : i \in DOMAIN f \ {id}}
      /\ \A i \in DOMAIN f \ {id} : f[i] # f[id]
  <2> HIDE DEF hit
  <2>1. \A i \in DOMAIN f \ {id} : f[i] # f[id]
    BY DEF KeysApart
  <2> QED BY <1>1, <2>1 DEF TableOf
<1>4. Execute(TableOf(f), command) =
        IF TableOf(f) = Conflict \/ \E row \in changed, other \in kept : KeyOf(row) = KeyOf(other)
        THEN Conflict ELSE kept \union changed
  BY DEF Execute, Change
<1> HIDE DEF hit, changed, kept
<1>5. /\ \A other \in kept : KeyOf(g[id]) # KeyOf(other)
      /\ Execute(TableOf(f), command) = kept \union {g[id]}
  <2> HIDE DEF g, KeyOf
  <2> QED BY <1>2, <1>4
<1>6. DOMAIN g = DOMAIN f /\ \A i \in DOMAIN f \ {id} : g[i] = f[i]
  OBVIOUS
<1> HIDE DEF g
<1>7. kept \union {g[id]} = TableOf(g)
  BY <1>3, <1>6 DEF TableOf
<1>8. KeysApart(g)
  <2> SUFFICES ASSUME NEW i \in DOMAIN g, NEW j \in DOMAIN g, KeyOf(g[i]) = KeyOf(g[j]) PROVE i = j
    BY DEF KeysApart
  <2> HIDE DEF KeyOf
  <2>1. CASE i # id /\ j # id
    BY <1>6, <2>1 DEF KeysApart
  <2>2. CASE i = id /\ j # id
    BY <1>3, <1>5, <1>6, <2>2
  <2>3. CASE i # id /\ j = id
    BY <1>3, <1>5, <1>6, <2>3
  <2> QED BY <2>1, <2>2, <2>3
<1> QED BY <1>5, <1>7, <1>8 DEF g

\* An insert adds its row.
LEMMA ExecuteInsert ==
  ASSUME NEW f, KeysApart(f), NEW id, id \notin DOMAIN f, NEW row,
         NEW command, command = [kind |-> "insert", key |-> Nothing, values |-> row],
         Execute(TableOf(f), command) # Conflict
  PROVE  LET g == [i \in DOMAIN f \union {id} |-> IF i = id THEN row ELSE f[i]]
         IN  Execute(TableOf(f), command) = TableOf(g) /\ KeysApart(g)
<1> DEFINE g == [i \in DOMAIN f \union {id} |-> IF i = id THEN row ELSE f[i]]
<1>1. Execute(TableOf(f), command) =
        IF TableOf(f) = Conflict \/ \E r \in {row}, other \in TableOf(f) : KeyOf(r) = KeyOf(other)
        THEN Conflict ELSE TableOf(f) \union {row}
  BY DEF Execute
<1>2. /\ \A other \in TableOf(f) : KeyOf(row) # KeyOf(other)
      /\ Execute(TableOf(f), command) = TableOf(f) \union {row}
  BY <1>1
<1>3. DOMAIN g = DOMAIN f \union {id} /\ g[id] = row /\ \A i \in DOMAIN f : g[i] = f[i]
  OBVIOUS
<1> HIDE DEF g
<1>4. TableOf(f) \union {row} = TableOf(g)
  BY <1>3 DEF TableOf
<1>5. KeysApart(g)
  <2> SUFFICES ASSUME NEW i \in DOMAIN g, NEW j \in DOMAIN g, KeyOf(g[i]) = KeyOf(g[j]) PROVE i = j
    BY DEF KeysApart
  <2>1. \A k \in DOMAIN f : f[k] \in TableOf(f)
    BY DEF TableOf
  <2> HIDE DEF KeyOf
  <2> QED BY <1>2, <1>3, <2>1 DEF KeysApart
<1> QED BY <1>2, <1>4, <1>5 DEF g

\* A delete by the key of one row removes that row.
LEMMA ExecuteDelete ==
  ASSUME NEW f, KeysApart(f), NEW id \in DOMAIN f,
         NEW command, command = [kind |-> "delete", key |-> KeyOf(f[id]), values |-> Nothing],
         Execute(TableOf(f), command) # Conflict
  PROVE  LET g == [i \in DOMAIN f \ {id} |-> f[i]]
         IN  Execute(TableOf(f), command) = TableOf(g) /\ KeysApart(g)
<1> DEFINE g == [i \in DOMAIN f \ {id} |-> f[i]]
           hit == {row \in TableOf(f) : KeyOf(row) = command.key}
<1>1. hit = {f[id]}
  BY DEF TableOf, KeysApart
<1>2. Execute(TableOf(f), command) =
        IF TableOf(f) = Conflict \/ \E r \in {}, other \in TableOf(f) \ hit : KeyOf(r) = KeyOf(other)
        THEN Conflict ELSE (TableOf(f) \ hit) \union {}
  BY DEF Execute
<1> HIDE DEF hit
<1>3. Execute(TableOf(f), command) = TableOf(f) \ {f[id]}
  BY <1>1, <1>2
<1>4. \A i \in DOMAIN f \ {id} : f[i] # f[id]
  BY DEF KeysApart
<1>5. TableOf(f) \ {f[id]} = TableOf(g)
  BY <1>4 DEF TableOf
<1>6. KeysApart(g)
  BY DEF KeysApart
<1> QED BY <1>3, <1>5, <1>6

----------------------------------------------------------------------------
(* The commands, and the tables between them *)

\* A grid with edits, and what each of its loaded rows was and is to become.
Edited == TInv /\ SInv /\ editable /\ KeysExact

Rows == 0..(Len(Result[shown]) - 1)
Original(id) == Result[shown][id + 1]
Final(id) == IF id \in DOMAIN updates THEN Change(Original(id), updates[id]) ELSE Original(id)

LEMMA Facts ==
  ASSUME Edited
  PROVE  /\ shown \in Tabs /\ Len(Result[shown]) \in Nat /\ DOMAIN Result[shown] = 1..Len(Result[shown])
         /\ nextRowId \in Nat /\ nextRowId <= Len(Result[shown]) /\ Loaded \subseteq Rows
         /\ inserts \cap Rows = {} /\ IsFiniteSet(inserts) /\ IsFiniteSet(deletes)
         /\ DOMAIN updates \subseteq DOMAIN display \cap Loaded
         /\ \A i, j \in Rows : KeyOf(Original(i)) = KeyOf(Original(j)) => i = j
<1>1. shown \in Tabs
  BY DEF Edited, TInv, IInv, Keyed
<1>2. Result[shown] \in Seq(Range(Result[shown]))
  BY <1>1, GridAssumption
<1>3. Len(Result[shown]) \in Nat /\ DOMAIN Result[shown] = 1..Len(Result[shown])
  BY <1>2
<1>4. nextRowId \in Nat /\ nextRowId <= Len(Result[shown])
  <2>1. shown # NoTab
    BY <1>1, GridAssumption
  <2> QED BY <1>1, <2>1 DEF Edited, TInv, IInv, Counted, Sized
<1>5. Loaded \subseteq Rows
  BY <1>3, <1>4 DEF Loaded, Rows
<1>6. inserts \cap Rows = {}
  BY <1>3 DEF Rows, Edited, TInv, IInv, Counted
<1>7. IsFiniteSet(inserts)
  <2>1. IsFiniteSet(-MaxInserts..-1)
    <3>1. -MaxInserts \in Int /\ -1 \in Int
      BY GridAssumption
    <3> QED BY <3>1, FS_Interval
  <2> QED BY <2>1, FS_Subset DEF Edited, SInv, Bounded
<1>8. IsFiniteSet(deletes)
  <2> DEFINE D == Loaded \ DOMAIN display
             f == [id \in D |-> KeyMap(Record(shown, id))]
  <2>1. IsFiniteSet(Loaded)
    BY <1>4, FS_Interval DEF Loaded
  <2>2. IsFiniteSet(D)
    BY <2>1, FS_Difference
  <2>3. deletes = {KeyMap(Record(shown, id)) : id \in D}
    BY DEF Edited, TInv, IInv, EditsTrackDisplay
  <2> HIDE DEF D
  <2>4. f \in Surjection(D, deletes)
    <3> HIDE DEF KeyMap, Record
    <3> QED BY <2>3 DEF Surjection
  <2> QED BY <2>2, <2>4, FS_Surjection
<1>9. DOMAIN updates \subseteq DOMAIN display \cap Loaded
  BY DEF Edited, TInv, IInv, EditsTrackDisplay
<1>10. ASSUME NEW i \in Rows, NEW j \in Rows, KeyOf(Original(i)) = KeyOf(Original(j)) PROVE i = j
  <2>1. i + 1 \in DOMAIN Result[shown] /\ j + 1 \in DOMAIN Result[shown] /\ i \in Int /\ j \in Int
    BY <1>3 DEF Rows
  <2>2. i + 1 = j + 1
    BY <1>1, <1>10, <2>1, GridAssumption DEF Original
  <2> QED BY <2>1, <2>2
<1> QED BY <1>1, <1>3, <1>4, <1>5, <1>6, <1>7, <1>8, <1>9, <1>10

\* Two sequences put together.
LEMMA Joined ==
  ASSUME NEW V, NEW X \in Seq(V), NEW Y \in Seq(V)
  PROVE  /\ X \o Y \in Seq(V) /\ Len(X \o Y) = Len(X) + Len(Y)
         /\ \A i \in 1..Len(X) : (X \o Y)[i] = X[i]
         /\ \A i \in 1..Len(Y) : (X \o Y)[Len(X) + i] = Y[i]
<1>1. X \o Y \in Seq(V) /\ Len(X \o Y) = Len(X) + Len(Y)
  OBVIOUS
<1>2. \A i \in 1..Len(X) : (X \o Y)[i] = X[i]
  OBVIOUS
<1>3. ASSUME NEW i \in 1..Len(Y) PROVE (X \o Y)[Len(X) + i] = Y[i]
  <2>1. Len(X) \in Nat /\ Len(Y) \in Nat
    OBVIOUS
  <2>2. Len(X) + i \in 1..(Len(X) + Len(Y)) /\ ~(Len(X) + i <= Len(X)) /\ Len(X) + i - Len(X) = i
    BY <2>1
  <2> QED BY <2>1, <2>2
<1> QED BY <1>1, <1>2, <1>3

\* Three sequences put together.
LEMMA Together ==
  ASSUME NEW V, NEW a \in Nat, NEW b \in Nat, NEW c \in Nat,
         NEW A \in [1..a -> V], NEW B \in [1..b -> V], NEW C \in [1..c -> V]
  PROVE  /\ Len(A \o B \o C) = a + b + c
         /\ \A i \in 1..a : (A \o B \o C)[i] = A[i]
         /\ \A i \in 1..b : (A \o B \o C)[a + i] = B[i]
         /\ \A i \in 1..c : (A \o B \o C)[a + b + i] = C[i]
<1>1. A \in Seq(V) /\ B \in Seq(V) /\ C \in Seq(V) /\ Len(A) = a /\ Len(B) = b /\ Len(C) = c
  OBVIOUS
<1>2. PICK D : D = A \o B
  OBVIOUS
<1>3. /\ D \in Seq(V) /\ Len(D) = a + b
      /\ \A i \in 1..a : D[i] = A[i]
      /\ \A i \in 1..b : D[a + i] = B[i]
  <2>1. D \in Seq(V) /\ Len(D) = Len(A) + Len(B)
    BY <1>1, <1>2, Joined
  <2>2. \A i \in 1..Len(A) : D[i] = A[i]
    BY <1>1, <1>2, Joined
  <2>3. \A i \in 1..Len(B) : D[Len(A) + i] = B[i]
    <3>1. \A i \in 1..Len(B) : (A \o B)[Len(A) + i] = B[i]
      BY <1>1, Joined
    <3> QED BY <1>2, <3>1
  <2> QED BY <1>1, <2>1, <2>2, <2>3
<1>4. PICK E : E = D \o C
  OBVIOUS
<1>5. /\ Len(E) = a + b + c
      /\ \A i \in 1..(a + b) : E[i] = D[i]
      /\ \A i \in 1..c : E[a + b + i] = C[i]
  <2>1. Len(E) = Len(D) + Len(C)
    BY <1>1, <1>3, <1>4, Joined
  <2>2. \A i \in 1..Len(D) : E[i] = D[i]
    BY <1>1, <1>3, <1>4, Joined
  <2>3. \A i \in 1..Len(C) : E[Len(D) + i] = C[i]
    BY <1>1, <1>3, <1>4, Joined
  <2> QED BY <1>1, <1>3, <2>1, <2>2, <2>3
<1>6. (\A i \in 1..a : i \in 1..(a + b)) /\ (\A i \in 1..b : a + i \in 1..(a + b))
  OBVIOUS
<1>7. /\ Len(E) = a + b + c
      /\ \A i \in 1..a : E[i] = A[i]
      /\ \A i \in 1..b : E[a + i] = B[i]
      /\ \A i \in 1..c : E[a + b + i] = C[i]
  BY <1>3, <1>5, <1>6
<1> QED BY <1>2, <1>4, <1>7

\* RowChanges has a command for each changed, added and deleted row.
LEMMA CommandList ==
  ASSUME Edited
  PROVE  LET m == Len(order)  p == Cardinality(inserts)  q == Cardinality(deletes)
         IN  /\ m \in Nat /\ p \in Nat /\ q \in Nat /\ Len(RowChanges) = m + p + q
             /\ \A i \in 1..m : RowChanges[i] = UpdateOf(order[i])
             /\ \A i \in 1..p : RowChanges[m + i] = InsertOf(SetToSeq(inserts)[i])
             /\ \A i \in 1..q : RowChanges[m + p + i] = DeleteOf(SetToSeq(deletes)[i])
<1> DEFINE m == Len(order)  p == Cardinality(inserts)  q == Cardinality(deletes)
           added == SetToSeq(inserts)
           gone == SetToSeq(deletes)
           A == [i \in DOMAIN order |-> UpdateOf(order[i])]
           B == [i \in DOMAIN added |-> InsertOf(added[i])]
           C == [i \in DOMAIN gone |-> DeleteOf(gone[i])]
<1>1. m \in Nat /\ DOMAIN order = 1..m
  BY DEF Edited, TInv, TypeOK
<1>2. p \in Nat /\ DOMAIN added = 1..p
  BY Facts, Listed
<1>3. q \in Nat /\ DOMAIN gone = 1..q
  BY Facts, Listed
<1>4. RowChanges = A \o B \o C
  BY DEF RowChanges
<1> HIDE DEF m, p, q, added, gone
<1>5. A = [i \in 1..m |-> A[i]] /\ B = [i \in 1..p |-> B[i]] /\ C = [i \in 1..q |-> C[i]]
  BY <1>1, <1>2, <1>3
<1>6. /\ \A i \in 1..m : A[i] = UpdateOf(order[i])
      /\ \A i \in 1..p : B[i] = InsertOf(added[i])
      /\ \A i \in 1..q : C[i] = DeleteOf(gone[i])
  BY <1>1, <1>2, <1>3
<1> HIDE DEF A, B, C
<1>7. /\ Len(RowChanges) = m + p + q
      /\ \A i \in 1..m : RowChanges[i] = A[i]
      /\ \A i \in 1..p : RowChanges[m + i] = B[i]
      /\ \A i \in 1..q : RowChanges[m + p + i] = C[i]
  <2> DEFINE V == {A[i] : i \in 1..m} \union {B[i] : i \in 1..p} \union {C[i] : i \in 1..q}
  <2>1. A \in [1..m -> V] /\ B \in [1..p -> V] /\ C \in [1..q -> V]
    BY <1>5
  <2> HIDE DEF V
  <2>2. Len(A \o B \o C) = m + p + q
    BY <1>1, <1>2, <1>3, <2>1, Together, SMTT(60)
  <2>3. \A i \in 1..m : (A \o B \o C)[i] = A[i]
    BY <1>1, <1>2, <1>3, <2>1, Together, SMTT(60)
  <2>4. \A i \in 1..p : (A \o B \o C)[m + i] = B[i]
    BY <1>1, <1>2, <1>3, <2>1, Together, SMTT(60)
  <2>5. \A i \in 1..q : (A \o B \o C)[m + p + i] = C[i]
    BY <1>1, <1>2, <1>3, <2>1, Together, SMTT(60)
  <2> QED BY <1>4, <2>2, <2>3, <2>4, <2>5
<1> QED BY <1>1, <1>2, <1>3, <1>6, <1>7 DEF m, p, q, added, gone

\* The table after k commands.
Table == {Result[shown][i] : i \in DOMAIN Result[shown]}
After(k) == Executed(Table, RowChanges)[k]

\* The table as a family of rows: when k updates are executed, ...
Updated(k) == [id \in Rows |-> IF \E i \in 1..k : order[i] = id THEN Final(id) ELSE Original(id)]

\* ... when all of them are, and k added rows are inserted, ...
Inserted(k) ==
    [id \in Rows \union {SetToSeq(inserts)[i] : i \in 1..k} |->
        IF id \in inserts THEN display[id] ELSE Final(id)]

\* ... and when the first k keys are deleted too.
Gone(k) == {id \in Loaded \ DOMAIN display :
                \E i \in 1..k : SetToSeq(deletes)[i] = KeyMap(Record(shown, id))}
Deleted(k) ==
    [id \in (Rows \union inserts) \ Gone(k) |-> IF id \in inserts THEN display[id] ELSE Final(id)]

\* A table is the family's, unless two keys have met.
Shows(table, f) == table # Conflict => table = TableOf(f) /\ KeysApart(f)

\* A command after a conflict changes nothing.
LEMMA AfterIs ==
  ASSUME Edited
  PROVE  /\ After(0) = Table
         /\ \A k \in 1..Len(RowChanges) : After(k) = Execute(After(k - 1), RowChanges[k])
         /\ \A k \in 1..Len(RowChanges) : After(k) # Conflict => After(k - 1) # Conflict
<1>1. Len(RowChanges) \in Nat
  BY CommandList
<1>2. /\ After(0) = Table
      /\ \A k \in 1..Len(RowChanges) : After(k) = Execute(After(k - 1), RowChanges[k])
  BY <1>1, ExecutedIs DEF After
<1>3. \A command : Execute(Conflict, command) = Conflict
  BY DEF Execute
<1> HIDE DEF After, Execute, RowChanges
<1>4. \A k \in 1..Len(RowChanges) : After(k) # Conflict => After(k - 1) # Conflict
  BY <1>2, <1>3
<1> QED BY <1>2, <1>4

\* Before the first command the table is that of the loaded and later rows.
LEMMA FirstUpdate == ASSUME Edited PROVE Shows(After(0), Updated(0))
<1>1. After(0) = Table /\ DOMAIN Result[shown] = 1..Len(Result[shown]) /\ Len(Result[shown]) \in Nat
  BY AfterIs, Facts
<1>2. /\ DOMAIN Updated(0) = Rows /\ \A id \in Rows : Updated(0)[id] = Original(id)
  BY DEF Updated
<1>3. TableOf(Updated(0)) = {Original(id) : id \in Rows}
  BY <1>2 DEF TableOf
<1>4. {Original(id) : id \in Rows} = Table
  <2>1. \A id \in Rows : id + 1 \in 1..Len(Result[shown])
    BY <1>1 DEF Rows
  <2>2. \A i \in 1..Len(Result[shown]) : i - 1 \in Rows /\ Original(i - 1) = Result[shown][i]
    BY <1>1 DEF Rows, Original
  <2> QED BY <1>1, <2>1, <2>2 DEF Table, Original
<1>5. KeysApart(Updated(0))
  BY <1>2, Facts DEF KeysApart
<1> QED BY <1>1, <1>3, <1>4, <1>5 DEF Shows

\* An update changes the row it was typed into and no other.
LEMMA NextUpdate ==
  ASSUME Edited, NEW k \in 0..(Len(order) - 1), Shows(After(k), Updated(k))
  PROVE  Shows(After(k + 1), Updated(k + 1))
<1> SUFFICES ASSUME After(k + 1) # Conflict
             PROVE  After(k + 1) = TableOf(Updated(k + 1)) /\ KeysApart(Updated(k + 1))
  BY DEF Shows
<1> DEFINE id == order[k + 1]
           f == Updated(k)
<1>1. Len(order) \in Nat /\ DOMAIN order = 1..Len(order) /\ k \in Nat /\ k + 1 \in 1..Len(order)
  BY DEF Edited, TInv, TypeOK
<1>2. k + 1 \in 1..Len(RowChanges) /\ RowChanges[k + 1] = UpdateOf(id)
  BY <1>1, CommandList
<1>3. After(k + 1) = Execute(After(k), UpdateOf(id)) /\ After(k) # Conflict
  BY <1>1, <1>2, AfterIs
<1>4. After(k) = TableOf(f) /\ KeysApart(f)
  BY <1>3 DEF Shows
<1>5. id \in DOMAIN updates /\ id \in Loaded /\ id \in Rows
  <2>1. id \in {order[i] : i \in DOMAIN order}
    BY <1>1
  <2> QED BY <2>1, Facts DEF Edited, SInv, Ordered
<1>6. \A i \in 1..k : order[i] # id
  BY <1>1 DEF Edited, SInv, Ordered
<1>7. id \in DOMAIN f /\ f[id] = Original(id)
  BY <1>5, <1>6 DEF Updated
<1>8. originalKeys[id] = KeyOf(Original(id)) /\ id \in DOMAIN originalKeys
  <2>1. id \in DOMAIN originalKeys /\ originalKeys[id] = KeyMap(Record(shown, id))
    BY <1>5 DEF Edited, TInv, IInv, Keyed
  <2>2. KeyMap(Record(shown, id)) = KeyOf(Result[shown][id + 1])
    BY <1>5 DEF Edited, KeysExact
  <2> QED BY <2>1, <2>2 DEF Original
<1>9. UpdateOf(id) = [kind |-> "update", key |-> KeyOf(f[id]), values |-> updates[id]]
  <2> HIDE DEF f, id
  <2> QED BY <1>7, <1>8 DEF UpdateOf
<1> DEFINE g == [i \in DOMAIN f |-> IF i = id THEN Change(f[id], updates[id]) ELSE f[i]]
<1>10. After(k + 1) = TableOf(g) /\ KeysApart(g)
  <2> HIDE DEF f, id, After
  <2> QED BY <1>3, <1>4, <1>7, <1>9, ExecuteUpdate
<1>11. Final(id) = Change(f[id], updates[id])
  BY <1>5, <1>7 DEF Final
<1>12. Updated(k + 1) = g
  <2>1. \A i \in 1..(k + 1) : i \in 1..k \/ i = k + 1
    BY <1>1
  <2>2. 1..k \subseteq 1..(k + 1) /\ k + 1 \in 1..(k + 1)
    BY <1>1
  <2>3. \A i : (\E j \in 1..(k + 1) : order[j] = i) <=> (\E j \in 1..k : order[j] = i) \/ i = id
    BY <2>1, <2>2
  <2>4. DOMAIN f = Rows
    BY DEF Updated
  <2>5. \A i \in Rows : Updated(k + 1)[i] = g[i]
    <3> SUFFICES ASSUME NEW i \in Rows PROVE Updated(k + 1)[i] = g[i]
      OBVIOUS
    <3>1. CASE i = id
      BY <1>11, <2>3, <2>4, <3>1 DEF Updated
    <3>2. CASE i # id
      BY <2>3, <2>4, <3>2 DEF Updated
    <3> QED BY <3>1, <3>2
  <2>6. Updated(k + 1) = [i \in Rows |-> Updated(k + 1)[i]]
    BY DEF Updated
  <2>7. g = [i \in Rows |-> g[i]]
    BY <2>4
  <2> HIDE DEF f, g
  <2> QED BY <2>5, <2>6, <2>7
<1> QED BY <1>10, <1>12

\* After the updates every row is the final one.
LEMMA AllUpdated == ASSUME Edited PROVE Shows(After(Len(order)), Updated(Len(order)))
<1> DEFINE Good == {k \in Nat : Shows(After(k), Updated(k))}
<1>1. Len(order) \in Nat /\ 0 \in Good
  BY FirstUpdate DEF Edited, TInv, TypeOK
<1>2. ASSUME NEW k \in 0..(Len(order) - 1), k \in Good PROVE k + 1 \in Good
  <2> HIDE DEF Shows, After, Updated
  <2> QED BY <1>1, <1>2, NextUpdate
<1> HIDE DEF Good
<1>3. Len(order) \in Good
  BY <1>1, <1>2, CountingUp
<1> QED BY <1>3 DEF Good

\* From the updates to the inserts ...
LEMMA FirstInsert == ASSUME Edited PROVE Updated(Len(order)) = Inserted(0)
<1>1. \A id : (\E i \in 1..Len(order) : order[i] = id) <=> id \in DOMAIN updates
  <2>1. DOMAIN order = 1..Len(order) /\ {order[i] : i \in DOMAIN order} = DOMAIN updates
    BY DEF Edited, TInv, TypeOK, SInv, Ordered
  <2> QED BY <2>1
<1>2. \A id \in Rows : id \notin inserts
  BY Facts
<1>3. Rows \union {SetToSeq(inserts)[i] : i \in 1..0} = Rows
  OBVIOUS
<1>4. \A id \in Rows : Updated(Len(order))[id] = Final(id)
  BY <1>1 DEF Updated, Final
<1>5. Updated(Len(order)) = [id \in Rows |-> Final(id)]
  <2>1. Updated(Len(order)) = [id \in Rows |-> Updated(Len(order))[id]]
    BY DEF Updated
  <2> HIDE DEF Updated, Final
  <2> QED BY <1>4, <2>1
<1>6. Inserted(0) = [id \in Rows |-> Final(id)]
  BY <1>2, <1>3 DEF Inserted
<1> QED BY <1>5, <1>6

\* ... each of which adds the row that is displayed.
LEMMA NextInsert ==
  ASSUME Edited, NEW k \in 0..(Cardinality(inserts) - 1), Shows(After(Len(order) + k), Inserted(k))
  PROVE  Shows(After(Len(order) + k + 1), Inserted(k + 1))
<1> DEFINE n == Len(order) + k
           id == SetToSeq(inserts)[k + 1]
           f == Inserted(k)
<1> SUFFICES ASSUME After(n + 1) # Conflict
             PROVE  After(n + 1) = TableOf(Inserted(k + 1)) /\ KeysApart(Inserted(k + 1))
  BY DEF Shows
<1>1. /\ Len(order) \in Nat /\ Cardinality(inserts) \in Nat /\ Cardinality(deletes) \in Nat
      /\ k \in Nat /\ k + 1 \in 1..Cardinality(inserts)
  BY CommandList
<1>2. /\ SetToSeq(inserts) \in [1..Cardinality(inserts) -> inserts]
      /\ \A i, j \in DOMAIN SetToSeq(inserts) :
            SetToSeq(inserts)[i] = SetToSeq(inserts)[j] => i = j
  BY Facts, Listed
<1>3. n + 1 \in 1..Len(RowChanges) /\ RowChanges[n + 1] = InsertOf(id)
  <2>1. Len(order) + (k + 1) = n + 1
    BY <1>1
  <2>2. RowChanges[Len(order) + (k + 1)] = InsertOf(id)
    BY <1>1, CommandList
  <2>3. Len(RowChanges) = Len(order) + Cardinality(inserts) + Cardinality(deletes)
    BY CommandList
  <2> QED BY <1>1, <2>1, <2>2, <2>3
<1>4. After(n + 1) = Execute(After(n), InsertOf(id)) /\ After(n) # Conflict
  <2>1. n \in Nat /\ n + 1 - 1 = n
    BY <1>1
  <2> HIDE DEF n, After
  <2> QED BY <1>3, <2>1, AfterIs
<1>5. After(n) = TableOf(f) /\ KeysApart(f)
  BY <1>4 DEF Shows
<1>6. id \in inserts /\ id \notin Rows
  BY <1>1, <1>2, Facts
<1>7. \A i \in 1..k : SetToSeq(inserts)[i] # id
  BY <1>1, <1>2
<1>8. id \notin DOMAIN f
  BY <1>6, <1>7 DEF Inserted
<1>9. InsertOf(id) = [kind |-> "insert", key |-> Nothing, values |-> display[id]]
  BY DEF InsertOf
<1> DEFINE g == [i \in DOMAIN f \union {id} |-> IF i = id THEN display[id] ELSE f[i]]
<1>10. After(n + 1) = TableOf(g) /\ KeysApart(g)
  <2> HIDE DEF f, id, n, After
  <2> QED BY <1>4, <1>5, <1>8, <1>9, ExecuteInsert
<1>11. Inserted(k + 1) = g
  <2> DEFINE D == Rows \union {SetToSeq(inserts)[i] : i \in 1..k}
             E == Rows \union {SetToSeq(inserts)[i] : i \in 1..(k + 1)}
  <2>1. E = D \union {id}
    <3>1. 1..(k + 1) = 1..k \union {k + 1}
      BY <1>1
    <3> QED BY <3>1
  <2>2. f = [i \in D |-> IF i \in inserts THEN display[i] ELSE Final(i)]
    BY DEF Inserted
  <2>3. Inserted(k + 1) = [i \in E |-> IF i \in inserts THEN display[i] ELSE Final(i)]
    BY DEF Inserted
  <2> HIDE DEF D, E, f, id
  <2>4. DOMAIN f = D
    BY <2>2
  <2>5. \A i \in E : (IF i \in inserts THEN display[i] ELSE Final(i)) = IF i = id THEN display[id] ELSE f[i]
    BY <1>6, <2>1, <2>2
  <2> QED BY <2>1, <2>3, <2>4, <2>5
<1> QED BY <1>10, <1>11

\* After the inserts the added rows are there.
LEMMA AllInserted ==
  ASSUME Edited
  PROVE  Shows(After(Len(order) + Cardinality(inserts)), Inserted(Cardinality(inserts)))
<1> DEFINE Good == {k \in Nat : Shows(After(Len(order) + k), Inserted(k))}
<1>1. Len(order) \in Nat /\ Cardinality(inserts) \in Nat
  BY CommandList
<1>2. 0 \in Good
  <2>1. Len(order) + 0 = Len(order)
    BY <1>1
  <2> HIDE DEF Shows, After, Updated, Inserted
  <2> QED BY <2>1, AllUpdated, FirstInsert
<1>3. ASSUME NEW k \in 0..(Cardinality(inserts) - 1), k \in Good PROVE k + 1 \in Good
  <2>1. Len(order) + (k + 1) = Len(order) + k + 1 /\ k + 1 \in Nat
    BY <1>1
  <2> HIDE DEF Shows, After, Inserted
  <2> QED BY <1>1, <1>3, <2>1, NextInsert
<1> HIDE DEF Good
<1>4. Cardinality(inserts) \in Good
  BY <1>1, <1>2, <1>3, CountingUp
<1> QED BY <1>4 DEF Good

\* From the inserts to the deletes ...
LEMMA FirstDelete == ASSUME Edited PROVE Inserted(Cardinality(inserts)) = Deleted(0)
<1>1. {SetToSeq(inserts)[i] : i \in 1..Cardinality(inserts)} = inserts
  <2> DEFINE s == SetToSeq(inserts)
  <2>1. /\ s \in [1..Cardinality(inserts) -> inserts]
        /\ \A x \in inserts : \E i \in DOMAIN s : s[i] = x
    BY Facts, Listed
  <2> HIDE DEF s
  <2>2. {s[i] : i \in 1..Cardinality(inserts)} = inserts
    BY <2>1
  <2> QED BY <2>2 DEF s
<1>2. Gone(0) = {}
  BY DEF Gone
<1> QED BY <1>1, <1>2 DEF Inserted, Deleted

\* ... each of which takes out the row that was loaded with its key.
LEMMA NextDelete ==
  ASSUME Edited, NEW k \in 0..(Cardinality(deletes) - 1),
         Shows(After(Len(order) + Cardinality(inserts) + k), Deleted(k))
  PROVE  Shows(After(Len(order) + Cardinality(inserts) + k + 1), Deleted(k + 1))
<1> DEFINE n == Len(order) + Cardinality(inserts) + k
           s == SetToSeq(deletes)
           key == s[k + 1]
           f == Deleted(k)
<1> SUFFICES ASSUME After(n + 1) # Conflict
             PROVE  After(n + 1) = TableOf(Deleted(k + 1)) /\ KeysApart(Deleted(k + 1))
  BY DEF Shows
<1>1. /\ Len(order) \in Nat /\ Cardinality(inserts) \in Nat /\ Cardinality(deletes) \in Nat
      /\ k \in Nat /\ k + 1 \in 1..Cardinality(deletes)
  BY CommandList
<1>2. s \in [1..Cardinality(deletes) -> deletes] /\ \A i, j \in DOMAIN s : s[i] = s[j] => i = j
  BY Facts, Listed
<1>3. n + 1 \in 1..Len(RowChanges) /\ RowChanges[n + 1] = DeleteOf(key)
  <2>1. Len(order) + Cardinality(inserts) + (k + 1) = n + 1
    BY <1>1
  <2>2. RowChanges[Len(order) + Cardinality(inserts) + (k + 1)] = DeleteOf(key)
    BY <1>1, CommandList
  <2>3. Len(RowChanges) = Len(order) + Cardinality(inserts) + Cardinality(deletes)
    BY CommandList
  <2> QED BY <1>1, <2>1, <2>2, <2>3
<1>4. After(n + 1) = Execute(After(n), DeleteOf(key)) /\ After(n) # Conflict
  <2>1. n \in Nat /\ n + 1 - 1 = n
    BY <1>1
  <2> HIDE DEF n, key, After
  <2> QED BY <1>3, <2>1, AfterIs
<1>5. After(n) = TableOf(f) /\ KeysApart(f)
  BY <1>4 DEF Shows
<1>6. key \in deletes
  BY <1>1, <1>2
<1>7. PICK id \in Loaded \ DOMAIN display : key = KeyMap(Record(shown, id))
  BY <1>6 DEF Edited, TInv, IInv, EditsTrackDisplay
<1>8. \A i \in Loaded \ DOMAIN display : KeyMap(Record(shown, i)) = KeyOf(Original(i))
  BY DEF Edited, KeysExact, Original
<1>9. \A i \in Loaded \ DOMAIN display : key = KeyMap(Record(shown, i)) <=> i = id
  <2> SUFFICES ASSUME NEW i \in Loaded \ DOMAIN display, key = KeyMap(Record(shown, i)) PROVE i = id
    BY <1>7
  <2>1. KeyOf(Original(i)) = KeyOf(Original(id))
    BY <1>7, <1>8
  <2> QED BY <2>1, Facts
<1>10. id \in Rows /\ id \notin inserts /\ id \notin DOMAIN updates
  BY Facts
<1>11. id \notin Gone(k)
  <2>1. \A i \in 1..k : s[i] # key
    BY <1>1, <1>2
  <2> QED BY <1>7, <2>1 DEF Gone
<1>12. Gone(k + 1) = Gone(k) \union {id}
  <2>1. 1..(k + 1) = 1..k \union {k + 1}
    BY <1>1
  <2> HIDE DEF KeyMap, Record
  <2>2. \A i \in Loaded \ DOMAIN display :
          (\E j \in 1..(k + 1) : s[j] = KeyMap(Record(shown, i)))
            <=> (\E j \in 1..k : s[j] = KeyMap(Record(shown, i))) \/ i = id
    BY <1>9, <2>1
  <2> QED BY <2>2 DEF Gone
<1>13. id \in DOMAIN f /\ f[id] = Original(id)
  BY <1>10, <1>11 DEF Deleted, Final
<1>14. DeleteOf(key) = [kind |-> "delete", key |-> KeyOf(f[id]), values |-> Nothing]
  <2> HIDE DEF f, key
  <2> QED BY <1>7, <1>8, <1>13 DEF DeleteOf
<1> DEFINE g == [i \in DOMAIN f \ {id} |-> f[i]]
<1>15. After(n + 1) = TableOf(g) /\ KeysApart(g)
  <2> HIDE DEF f, key, n, After
  <2> QED BY <1>4, <1>5, <1>13, <1>14, ExecuteDelete
<1>16. Deleted(k + 1) = g
  BY <1>12 DEF Deleted
<1> QED BY <1>15, <1>16

\* After the last command.
LEMMA AllDeleted == ASSUME Edited PROVE Shows(After(Len(RowChanges)), Deleted(Cardinality(deletes)))
<1> DEFINE n == Len(order) + Cardinality(inserts)
           Good == {k \in Nat : Shows(After(n + k), Deleted(k))}
<1>1. Len(order) \in Nat /\ Cardinality(inserts) \in Nat /\ Cardinality(deletes) \in Nat
      /\ Len(RowChanges) = n + Cardinality(deletes)
  BY CommandList
<1>2. 0 \in Good
  <2>1. n + 0 = n
    BY <1>1
  <2> HIDE DEF Shows, After, Inserted, Deleted
  <2> QED BY <2>1, AllInserted, FirstDelete
<1>3. ASSUME NEW k \in 0..(Cardinality(deletes) - 1), k \in Good PROVE k + 1 \in Good
  <2>1. n + (k + 1) = n + k + 1 /\ k + 1 \in Nat
    BY <1>1
  <2> HIDE DEF Shows, After, Deleted
  <2> QED BY <1>1, <1>3, <2>1, NextDelete
<1> HIDE DEF Good
<1>4. Cardinality(deletes) \in Good
  BY <1>1, <1>2, <1>3, CountingUp
<1> QED BY <1>1, <1>4 DEF Good

----------------------------------------------------------------------------
(* What the commands make of the table *)

\* The rows at the end are the rows that are intended.
LEMMA FinalRows ==
  ASSUME Edited
  PROVE  LET f == Deleted(Cardinality(deletes))
         IN  /\ DOMAIN f = DOMAIN display \union nextRowId..(Len(Result[shown]) - 1)
             /\ TableOf(f) = Intended
<1> DEFINE f == Deleted(Cardinality(deletes))
           later == nextRowId..(Len(Result[shown]) - 1)
           Seen(id) == [c \in Columns |-> IF id \in Loaded /\ <<id, c>> \notin edited
                                          THEN Result[shown][id + 1][c] ELSE display[id][c]]
<1>0. /\ shown \in Tabs /\ Len(Result[shown]) \in Nat /\ DOMAIN Result[shown] = 1..Len(Result[shown])
      /\ nextRowId \in Nat /\ nextRowId <= Len(Result[shown]) /\ Loaded \subseteq Rows
      /\ inserts \cap Rows = {} /\ DOMAIN updates \subseteq DOMAIN display \cap Loaded
  BY Facts
<1>1. Gone(Cardinality(deletes)) = Loaded \ DOMAIN display
  <2> DEFINE s == SetToSeq(deletes)
  <2>1. /\ s \in [1..Cardinality(deletes) -> deletes]
        /\ \A x \in deletes : \E i \in DOMAIN s : s[i] = x
    BY Facts, Listed
  <2>2. ASSUME NEW id \in Loaded \ DOMAIN display
        PROVE  \E i \in 1..Cardinality(deletes) : s[i] = KeyMap(Record(shown, id))
    <3> HIDE DEF KeyMap, Record, s
    <3>1. KeyMap(Record(shown, id)) \in deletes
      BY DEF Edited, TInv, IInv, EditsTrackDisplay
    <3> QED BY <2>1, <3>1
  <2> QED BY <2>2 DEF Gone
<1>2. DOMAIN display = (DOMAIN display \cap Loaded) \union inserts
  BY DEF Edited, TInv, IInv, EditsTrackDisplay
<1>3. Rows = Loaded \union later /\ Loaded \cap later = {} /\ later \cap inserts = {}
  <2>1. Rows = Loaded \union later /\ Loaded \cap later = {}
    BY <1>0 DEF Rows, Loaded
  <2> QED BY <1>0, <2>1
<1> HIDE DEF later
<1>4. DOMAIN f = DOMAIN display \union later
  <2>1. DOMAIN f = (Rows \union inserts) \ (Loaded \ DOMAIN display)
    BY <1>1 DEF Deleted
  <2>2. later \cap DOMAIN display = {}
    BY <1>2, <1>3
  <2> QED BY <1>0, <1>2, <1>3, <2>1, <2>2
<1>5. \A id \in DOMAIN f : f[id] = IF id \in inserts THEN display[id] ELSE Final(id)
  BY DEF Deleted
<1> HIDE DEF f
<1>6. ASSUME NEW id \in DOMAIN display \cap Loaded PROVE f[id] = Seen(id)
  <2>1. id \notin inserts /\ id \in Rows
    BY <1>0
  <2>2. Original(id) = [c \in Columns |-> Original(id)[c]]
    <3>1. id + 1 \in DOMAIN Result[shown]
      BY <1>0, <2>1 DEF Rows
    <3>2. Original(id) \in Range(Result[shown])
      BY <3>1 DEF Original, Range
    <3>3. Original(id) \in [Columns -> Range(Original(id))]
      BY <1>0, <3>2, GridAssumption
    <3> QED BY <3>3
  <2>3. ASSUME NEW c \in Columns
        PROVE  /\ id \in DOMAIN updates /\ c \in DOMAIN updates[id]
                    => <<id, c>> \in edited /\ display[id][c] = updates[id][c]
               /\ ~(id \in DOMAIN updates /\ c \in DOMAIN updates[id]) => <<id, c>> \notin edited
    <3>1. <<id, c>> \in edited <=> id \in DOMAIN updates /\ c \in DOMAIN updates[id]
      BY DEF Edited, SInv, Traced
    <3>2. id \in DOMAIN updates /\ c \in DOMAIN updates[id] => display[id][c] = updates[id][c]
      BY DEF Edited, TInv, IInv, EditsTrackDisplay
    <3> QED BY <3>1, <3>2
  <2>4. Seen(id) = [c \in Columns |-> IF <<id, c>> \notin edited THEN Original(id)[c] ELSE display[id][c]]
    BY DEF Original
  <2> HIDE DEF Seen
  <2>5. CASE id \in DOMAIN updates
    <3>1. Final(id) = [c \in Columns |-> IF c \in DOMAIN updates[id] THEN updates[id][c] ELSE Original(id)[c]]
      BY <2>5 DEF Final, Change
    <3>2. Seen(id) = Final(id)
      BY <2>3, <2>4, <2>5, <3>1
    <3> QED BY <1>4, <1>5, <2>1, <3>2
  <2>6. CASE id \notin DOMAIN updates
    <3>1. Final(id) = Original(id)
      BY <2>6 DEF Final
    <3>2. Seen(id) = [c \in Columns |-> Original(id)[c]]
      BY <2>3, <2>4, <2>6
    <3> QED BY <1>4, <1>5, <2>1, <2>2, <3>1, <3>2
  <2> QED BY <2>5, <2>6
<1>7. ASSUME NEW id \in inserts PROVE f[id] = Seen(id)
  <2>1. id \notin Loaded /\ id \in DOMAIN display
    BY <1>0, <1>2
  <2>2. display[id] = [c \in Columns |-> display[id][c]]
    BY <2>1 DEF Edited, TInv, TypeOK
  <2>3. f[id] = display[id]
    BY <1>4, <1>5, <2>1
  <2>4. Seen(id) = [c \in Columns |-> display[id][c]]
    BY <2>1
  <2> HIDE DEF Seen
  <2> QED BY <2>2, <2>3, <2>4
<1>8. ASSUME NEW id \in later PROVE f[id] = Original(id)
  <2>1. id \notin inserts /\ id \notin DOMAIN updates
    BY <1>0, <1>3
  <2> QED BY <1>4, <1>5, <2>1 DEF Final
<1>9. {Original(id) : id \in later} = {Result[shown][i] : i \in (nextRowId + 1)..Len(Result[shown])}
  <2>1. \A id \in later : id + 1 \in (nextRowId + 1)..Len(Result[shown])
    BY <1>0 DEF later
  <2>2. \A i \in (nextRowId + 1)..Len(Result[shown]) : i - 1 \in later /\ i - 1 + 1 = i
    BY <1>0 DEF later
  <2>3. \A i \in (nextRowId + 1)..Len(Result[shown]) : Result[shown][i] = Original(i - 1)
    BY <2>2 DEF Original
  <2> QED BY <2>1, <2>2, <2>3 DEF Original
<1>10. TableOf(f) = {Seen(id) : id \in DOMAIN display} \union {Original(id) : id \in later}
  <2>1. \A id \in DOMAIN display : f[id] = Seen(id)
    BY <1>2, <1>6, <1>7
  <2> HIDE DEF Seen
  <2> QED BY <1>4, <1>8, <2>1 DEF TableOf
<1>11. Intended = {Seen(id) : id \in DOMAIN display}
                    \union {Result[shown][i] : i \in (nextRowId + 1)..Len(Result[shown])}
  BY DEF Intended
<1>12. TableOf(f) = Intended
  <2> HIDE DEF Seen
  <2> QED BY <1>9, <1>10, <1>11
<1> QED BY <1>4, <1>12 DEF f, later

\* No row is lost among the others: a family whose keys are apart has a row for each of its members.
LEMMA RowsCounted ==
  ASSUME NEW f, KeysApart(f), IsFiniteSet(DOMAIN f)
  PROVE  Cardinality(TableOf(f)) = Cardinality(DOMAIN f)
<1> DEFINE b == [i \in DOMAIN f |-> f[i]]
<1>1. \A i, j \in DOMAIN f : f[i] = f[j] => i = j
  BY DEF KeysApart
<1>2. b \in [DOMAIN f -> TableOf(f)]
  BY DEF TableOf
<1>3. b \in Injection(DOMAIN f, TableOf(f))
  BY <1>1, <1>2 DEF Injection, IsInjective
<1>4. b \in Surjection(DOMAIN f, TableOf(f))
  BY <1>2 DEF Surjection, TableOf
<1>5. ExistsBijection(DOMAIN f, TableOf(f))
  <2> HIDE DEF b
  <2> QED BY <1>3, <1>4 DEF ExistsBijection, Bijection
<1> QED BY <1>5, FS_Bijection

LEMMA Counts ==
  ASSUME Edited
  PROVE  /\ IsFiniteSet(DOMAIN display \union nextRowId..(Len(Result[shown]) - 1))
         /\ Cardinality(DOMAIN display \union nextRowId..(Len(Result[shown]) - 1))
              = Cardinality(DOMAIN display) + Len(Result[shown]) - nextRowId
<1> DEFINE later == nextRowId..(Len(Result[shown]) - 1)
           D == DOMAIN display
<1>1. /\ Len(Result[shown]) \in Nat /\ nextRowId \in Nat /\ nextRowId <= Len(Result[shown])
      /\ IsFiniteSet(inserts) /\ inserts \cap Rows = {}
  BY Facts
<1>2. D \subseteq Loaded \union inserts
  BY DEF Edited, TInv, IInv, EditsTrackDisplay
<1>3. IsFiniteSet(D)
  <2>1. IsFiniteSet(Loaded)
    BY <1>1, FS_Interval DEF Loaded
  <2>2. IsFiniteSet(Loaded \union inserts)
    BY <1>1, <2>1, FS_Union
  <2> HIDE DEF D
  <2> QED BY <1>2, <2>2, FS_Subset
<1>4. IsFiniteSet(later) /\ Cardinality(later) = Len(Result[shown]) - nextRowId
  <2>1. nextRowId \in Int /\ Len(Result[shown]) - 1 \in Int
    BY <1>1
  <2>2. IsFiniteSet(later) /\ Cardinality(later) = IF nextRowId > Len(Result[shown]) - 1 THEN 0
                                                   ELSE (Len(Result[shown]) - 1) - nextRowId + 1
    BY <2>1, FS_Interval
  <2> QED BY <1>1, <2>2
<1>5. D \cap later = {}
  <2>1. Loaded \cap later = {} /\ later \subseteq Rows
    BY <1>1 DEF Loaded, Rows
  <2> HIDE DEF D, later
  <2> QED BY <1>1, <1>2, <2>1
<1> HIDE DEF D, later
<1>6. IsFiniteSet(D \union later) /\ Cardinality(D \union later)
        = Cardinality(D) + Cardinality(later) - Cardinality(D \cap later)
  BY <1>3, <1>4, FS_Union
<1>7. Cardinality(D \cap later) = 0
  BY <1>5, FS_EmptySet
<1>8. Cardinality(D) \in Nat
  BY <1>3, FS_CardinalityType
<1>9. Cardinality(D \union later) = Cardinality(D) + Len(Result[shown]) - nextRowId
  BY <1>1, <1>4, <1>6, <1>7, <1>8
<1> QED BY <1>6, <1>9 DEF D, later

LEMMA Faithful == ASSUME TInv, SInv PROVE ChangesFaithful
<1> DEFINE final == Executed(Table, RowChanges)[Len(RowChanges)]
           f == Deleted(Cardinality(deletes))
<1> SUFFICES ASSUME editable, KeysExact, final # Conflict
             PROVE  /\ final = Intended
                    /\ Cardinality(final) = Cardinality(DOMAIN display) + Len(Result[shown]) - nextRowId
  BY DEF ChangesFaithful, Table
<1>1. Edited
  BY DEF Edited
<1>2. final = TableOf(f) /\ KeysApart(f)
  BY <1>1, AllDeleted DEF Shows, After
<1>3. final = Intended /\ DOMAIN f = DOMAIN display \union nextRowId..(Len(Result[shown]) - 1)
  BY <1>1, <1>2, FinalRows
<1> HIDE DEF f, final
<1>4. Cardinality(final) = Cardinality(DOMAIN f)
  BY <1>1, <1>2, <1>3, Counts, RowsCounted
<1> QED BY <1>1, <1>3, <1>4, Counts

\* getChanges, BuildRowChanges and DmlGenerator: for any table, any rows and any sequence of edits,
\* additions, deletions and pages, the commands, if they apply at all, turn the table into what is
\* displayed, with the rows of later pages and without losing a row, as long as the page can hold the
\* keys of the rows that were changed or deleted.
THEOREM CommandsAreFaithful == Spec => []ChangesFaithful
<1>1. Init => TInv /\ SInv
  BY InitKeeps, TypesInit, StateInit DEF TInv, TypesHold
<1>2. TInv /\ SInv /\ [Next]_vars => (TInv /\ SInv)'
  BY TypesKept, StateKept
<1>3. TInv /\ SInv => ChangesFaithful
  BY Faithful
<1> QED BY <1>1, <1>2, <1>3, PTL DEF Spec
====
