---- MODULE DmlReportProofs ----
(***************************************************************************)
(* What the user of DmlApply is told, and what is in the database then,    *)
(* for any numbers of connections, batches, applies and commands: if       *)
(* nothing else uses a connection during an apply, a success means that    *)
(* the whole batch is there and a failure before COMMIT that none of it    *)
(* is, even if tabs are switched or bound to other connections under a     *)
(* preview.  A batch may then be sent over two connections, but over       *)
(* neither of them twice or in part.                                       *)
(***************************************************************************)
EXTENDS DmlApplyProofs

\* Batch b has been committed over c.
Stored(c, b) == b \in In(durable[c])

----------------------------------------------------------------------------
(* What a commit does to a log *)

LEMMA AbsentIs ==
  ASSUME NEW c \in Conns, NEW b \in Batches
  PROVE  Absent(c, b) <=> ~Stored(c, b)
BY DEF Absent, Stored, In

\* The positions of a log that a whole batch has been added to.
LEMMA Joined ==
  ASSUME TInv, NEW c \in Conns, NEW m \in Batches, durable'[c] = durable[c] \o Work(m, Size)
  PROVE  /\ Len(durable[c]) \in Nat /\ Size \in Nat
         /\ DOMAIN durable[c] = 1..Len(durable[c])
         /\ DOMAIN durable'[c] = 1..(Len(durable[c]) + Size)
         /\ \A i \in 1..Len(durable[c]) : durable'[c][i] = durable[c][i]
         /\ \A k \in 1..Size : /\ durable'[c][Len(durable[c]) + k] = <<m, k>>
                               /\ durable'[c][Len(durable[c]) + k][1] = m
                               /\ durable'[c][Len(durable[c]) + k][2] = k
<1>1. durable[c] \in Seq(Changes) /\ Size \in Nat
  BY Shape, DmlAssumption
<1>2. Work(m, Size) \in Seq(Changes)
  BY WholeIsWork
<1>3. Len(Work(m, Size)) = Size /\ \A k \in 1..Size : Work(m, Size)[k] = <<m, k>>
  BY <1>1 DEF Work
<1> DEFINE s == durable[c]
           t == Work(m, Size)
           L == Len(durable[c])
<1> HIDE DEF s, t, L
<1>4. s \in Seq(Changes) /\ t \in Seq(Changes) /\ L = Len(s) /\ Len(t) = Size
  BY <1>1, <1>2, <1>3 DEF s, t, L
<1>5. /\ L \in Nat /\ DOMAIN s = 1..L /\ DOMAIN (s \o t) = 1..(L + Size)
      /\ \A i \in 1..(L + Size) : (s \o t)[i] = IF i <= L THEN s[i] ELSE t[i - L]
  <2>1. /\ Len(s) \in Nat /\ DOMAIN s = 1..Len(s) /\ DOMAIN (s \o t) = 1..(Len(s) + Len(t))
        /\ \A i \in 1..(Len(s) + Len(t)) : (s \o t)[i] = IF i <= Len(s) THEN s[i] ELSE t[i - Len(s)]
    <3>1. Len(s) \in Nat /\ DOMAIN s = 1..Len(s) /\ s \o t \in Seq(Changes)
      BY <1>4
    <3>2. /\ Len(s \o t) = Len(s) + Len(t)
          /\ \A i \in 1..(Len(s) + Len(t)) : (s \o t)[i] = IF i <= Len(s) THEN s[i] ELSE t[i - Len(s)]
      BY <1>4, ConcatProperties
    <3>3. DOMAIN (s \o t) = 1..Len(s \o t)
      BY <3>1
    <3> QED BY <3>1, <3>2, <3>3
  <2> QED BY <1>4, <2>1
<1>6. \A i \in 1..L : (s \o t)[i] = s[i]
  BY <1>1, <1>5
<1>7. ASSUME NEW k \in 1..Size PROVE (s \o t)[L + k] = t[k]
  <2>1. L + k \in 1..(L + Size) /\ ~(L + k <= L) /\ (L + k) - L = k
    BY <1>1, <1>5
  <2> QED BY <1>5, <2>1
<1>8. ASSUME NEW k \in 1..Size
      PROVE  (s \o t)[L + k] = <<m, k>> /\ (s \o t)[L + k][1] = m /\ (s \o t)[L + k][2] = k
  <2>1. (s \o t)[L + k] = <<m, k>>
    BY <1>3, <1>7 DEF t
  <2>2. <<m, k>>[1] = m /\ <<m, k>>[2] = k
    OBVIOUS
  <2> QED BY <2>1, <2>2, Zenon
<1> QED BY <1>1, <1>5, <1>6, <1>8 DEF s, t, L

\* It has the batch whole if it had nothing of it, and of every other batch what it had.
LEMMA WholeAdded ==
  ASSUME TInv, NEW c \in Conns, NEW m \in Batches, durable'[c] = durable[c] \o Work(m, Size), ~Stored(c, m)
  PROVE  /\ Stored(c, m)' /\ Complete(c, m)'
         /\ \A b \in Batches \ {m} : /\ Stored(c, b)' <=> Stored(c, b)
                                     /\ Complete(c, b) => Complete(c, b)'
<1> DEFINE L == Len(durable[c])
<1>1. /\ L \in Nat /\ Size \in Nat /\ Size # 0
      /\ DOMAIN durable[c] = 1..L /\ DOMAIN durable'[c] = 1..(L + Size)
      /\ \A i \in 1..L : durable'[c][i] = durable[c][i]
      /\ \A k \in 1..Size : /\ durable'[c][L + k] = <<m, k>>
                            /\ durable'[c][L + k][1] = m /\ durable'[c][L + k][2] = k
  BY Joined, DmlAssumption
<1> HIDE DEF L
<1>2. \A i \in 1..L : i \in 1..(L + Size)
  BY <1>1
<1>3. ASSUME NEW k \in 1..Size PROVE L + k \in 1..(L + Size)
  BY <1>1
<1>4. ASSUME NEW i \in 1..(L + Size) PROVE i \in 1..L \/ \E k \in 1..Size : i = L + k
  <2>1. CASE i <= L
    BY <1>1, <2>1
  <2>2. CASE i > L
    <3>1. i - L \in 1..Size /\ i = L + (i - L)
      BY <1>1, <2>2
    <3> QED BY <3>1
  <2> QED BY <1>1, <2>1, <2>2
<1>5. \A i \in 1..L : durable[c][i][1] # m
  BY <1>1 DEF Stored, In
<1>6. \A i \in 1..(L + Size) : durable'[c][i][1] = m => \E k \in 1..Size : i = L + k
  BY <1>1, <1>4, <1>5
<1>7. ASSUME NEW i \in 1..(L + Size), durable'[c][i][1] # m PROVE i \in 1..L
  <2>1. ASSUME NEW k \in 1..Size, i = L + k PROVE FALSE
    BY <1>1, <1>7, <2>1
  <2> QED BY <1>4, <2>1
<1>8. Stored(c, m)'
  <2>1. 1 \in 1..Size
    BY <1>1
  <2>2. L + 1 \in DOMAIN durable'[c] /\ durable'[c][L + 1][1] = m
    BY <1>1, <1>3, <2>1
  <2> QED BY <2>2 DEF Stored, In
<1>9. Complete(c, m)'
  <2>1. \A k \in 1..Size : \E i \in DOMAIN durable'[c] : durable'[c][i] = <<m, k>>
    BY <1>1, <1>3
  <2>2. ASSUME NEW i \in DOMAIN durable'[c], NEW j \in DOMAIN durable'[c],
               durable'[c][i][1] = m, durable'[c][j][1] = m, i < j
        PROVE  durable'[c][i][2] < durable'[c][j][2]
    <3>1. PICK k \in 1..Size : i = L + k
      BY <1>1, <1>6, <2>2
    <3>2. PICK l \in 1..Size : j = L + l
      BY <1>1, <1>6, <2>2
    <3>3. durable'[c][i][2] = k /\ durable'[c][j][2] = l
      BY <1>1, <3>1, <3>2
    <3>4. k < l
      BY <1>1, <2>2, <3>1, <3>2
    <3> QED BY <3>3, <3>4
  <2> QED BY <2>1, <2>2 DEF Complete
<1>10. ASSUME NEW b \in Batches \ {m}
       PROVE  (Stored(c, b)' <=> Stored(c, b)) /\ (Complete(c, b) => Complete(c, b)')
  <2>1. \A i \in DOMAIN durable'[c] : durable'[c][i][1] = b => i \in DOMAIN durable[c] /\ durable'[c][i] = durable[c][i]
    BY <1>1, <1>7
  <2>2. \A i \in DOMAIN durable[c] : i \in DOMAIN durable'[c] /\ durable'[c][i] = durable[c][i]
    BY <1>1, <1>2
  <2>3. Stored(c, b)' <=> Stored(c, b)
    BY <2>1, <2>2 DEF Stored, In
  <2>4. ASSUME Complete(c, b) PROVE Complete(c, b)'
    <3>1. \A k \in 1..Size : \E i \in DOMAIN durable'[c] : durable'[c][i] = <<b, k>>
      BY <2>2, <2>4 DEF Complete
    <3>2. ASSUME NEW i \in DOMAIN durable'[c], NEW j \in DOMAIN durable'[c],
                 durable'[c][i][1] = b, durable'[c][j][1] = b, i < j
          PROVE  durable'[c][i][2] < durable'[c][j][2]
      BY <2>1, <2>4, <3>2 DEF Complete
    <3> QED BY <3>1, <3>2 DEF Complete
  <2> QED BY <2>3, <2>4
<1> QED BY <1>8, <1>9, <1>10

----------------------------------------------------------------------------
(* What an apply has done, by what it says *)

\* An apply whose COMMIT has been sent says so and makes no other call but ROLLBACK, and what is
\* rolled back has failed.
Honest(x) ==
    /\ x.pc = "sent" /\ x.step = LastStep => x.asked
    /\ x.pc = "sent" /\ x.asked => x.step = LastStep
    /\ x.asked => x.pc \in {"sent", "undo", "undoing", "done"}
    /\ x.pc \in {"undo", "undoing"} => x.error # "none"

\* How an apply is left by a call that ends it or fails.
LEMMA EndedState ==
  ASSUME TInv, NEW a \in Applies, NEW e \in {"none", "query", "other"}, Ended(a, e)
  PROVE  apply'[a].pc = "done" /\ apply'[a].error = e /\ apply'[a].asked = apply[a].asked
<1>1. /\ apply[a] \in Call
      /\ apply' = [apply EXCEPT ![a] = [apply[a] EXCEPT !.pc = "done", !.error = e, !.step = 0]]
  BY Shape DEF Ended
<1>2. apply'[a] = [apply[a] EXCEPT !.pc = "done", !.error = e, !.step = 0]
  BY <1>1, Shape
<1>3. apply'[a].pc = "done" /\ apply'[a].error = e
  BY <1>1, <1>2 DEF Call
<1>4. apply'[a].asked = apply[a].asked
  BY <1>1, <1>2 DEF Call
<1> QED BY <1>3, <1>4

LEMMA FailedState ==
  ASSUME TInv, NEW a \in Applies, NEW e \in {"query", "other"}, Fails(a, e)
  PROVE  /\ apply'[a].pc = IF apply[a].step = 0 THEN "done" ELSE "undo"
         /\ apply'[a].error = e /\ apply'[a].asked = apply[a].asked
<1>1. CASE apply[a].step = 0
  BY <1>1, EndedState DEF Fails
<1>2. CASE apply[a].step # 0
  <2>1. apply[a] \in Call /\ apply' = [apply EXCEPT ![a] = [apply[a] EXCEPT !.pc = "undo", !.error = e]]
    BY <1>2, Shape DEF Fails
  <2>2. apply'[a] = [apply[a] EXCEPT !.pc = "undo", !.error = e]
    BY <2>1, Shape
  <2>3. apply'[a].pc = "undo" /\ apply'[a].error = e
    BY <2>1, <2>2 DEF Call
  <2>4. apply'[a].asked = apply[a].asked
    BY <2>1, <2>2 DEF Call
  <2> QED BY <1>2, <2>3, <2>4
<1> QED BY <1>1, <1>2

\* A call keeps an apply honest, what was sent stays sent, and only a COMMIT that was executed is
\* reported as a success.
LEMMA Reports ==
  ASSUME TInv, AInv, NEW a \in Applies, CallStep(a), Honest(apply[a])
  PROVE  /\ Honest(apply'[a])
         /\ apply[a].asked => apply'[a].asked
         /\ apply'[a].pc = "done" /\ apply'[a].error = "none" => Commits(a)
<1> DEFINE c == apply[a].conn
           b == apply[a].batch
           k == apply[a].step
<1>0. /\ apply \in [Applies -> Call] /\ apply[a] \in Call /\ Size \in Nat
      /\ k \in 0..LastStep /\ LastStep = Size + 1 /\ LastStep # 0
      /\ c \in Conns /\ durable \in [Conns -> Seq(Changes)]
  BY StepsBusy, Shape, DmlAssumption DEF LastStep
<1> HIDE DEF c, b, k
<1>1. CASE Send(a)
  <2>1. /\ apply[a].pc = "ready"
        /\ apply' = [apply EXCEPT ![a] = [apply[a] EXCEPT !.pc = "sent", !.asked = apply[a].step = LastStep]]
    BY <1>0, <1>1 DEF Send
  <2>2. apply'[a] = [apply[a] EXCEPT !.pc = "sent", !.asked = apply[a].step = LastStep]
    BY <1>0, <2>1
  <2>3. /\ apply'[a].pc = "sent" /\ apply'[a].step = apply[a].step
        /\ apply'[a].asked <=> apply[a].step = LastStep
    BY <1>0, <2>2 DEF Call
  <2> QED BY <2>1, <2>3 DEF Honest
<1>2. CASE Refused(a)
  <2>1. apply[a].pc = "ready" /\ Fails(a, "other")
    BY <1>2 DEF Refused
  <2>2. /\ apply'[a].pc \in {"done", "undo"} /\ apply'[a].error = "other"
        /\ apply'[a].asked = apply[a].asked
    BY <2>1, FailedState
  <2> QED BY <2>1, <2>2 DEF Honest
<1>3. CASE Succeeds(a)
  <2>1. /\ apply[a].pc = "sent" /\ session[c].alive
        /\ durable' = [durable EXCEPT ![c] = Executed(session[c], durable[c], b, k).d]
        /\ IF k = LastStep THEN Ended(a, "none")
           ELSE apply' = [apply EXCEPT ![a].pc = "ready", ![a].step = @ + 1]
    BY <1>3 DEF Succeeds, Healthy, c, b, k
  <2>2. CASE k = LastStep
    <3>1. apply'[a].pc = "done" /\ apply'[a].error = "none" /\ apply'[a].asked = apply[a].asked
      BY <2>1, <2>2, EndedState
    <3>2. Executed(session[c], durable[c], b, k).d = durable[c] \o Work(b, Size)
      BY <2>1, <2>2, CommandCommits DEF c, b, k
    <3>3. pending' = None
      BY <2>1, <2>2 DEF Ended
    <3>4. durable' = [durable EXCEPT ![c] = durable[c] \o Work(b, Size)]
      BY <2>1, <3>2
    <3>5. Commits(a)
      BY <2>1, <2>2, <3>1, <3>3, <3>4 DEF Commits, c, b, k
    <3> QED BY <2>1, <3>1, <3>5 DEF Honest
  <2>3. CASE k # LastStep
    <3>1. apply'[a] = [apply[a] EXCEPT !.pc = "ready", !.step = k + 1]
      BY <1>0, <2>1, <2>3 DEF k
    <3>2. apply'[a].pc = "ready" /\ apply'[a].step = k + 1 /\ apply'[a].asked = apply[a].asked
      BY <1>0, <3>1 DEF Call
    <3>3. ~apply[a].asked
      BY <2>1, <2>3 DEF Honest, k
    <3> QED BY <3>2, <3>3 DEF Honest
  <2> QED BY <2>2, <2>3
<1>4. CASE Errs(a) \/ Lost(a)
  <2>1. apply[a].pc = "sent" /\ \E e \in {"query", "other"} : Fails(a, e)
    <3>1. CASE Errs(a)
      BY <3>1 DEF Errs
    <3>2. CASE Lost(a)
      BY <3>2 DEF Lost
    <3> QED BY <1>4, <3>1, <3>2
  <2>2. /\ apply'[a].pc = (IF apply[a].step = 0 THEN "done" ELSE "undo")
        /\ apply'[a].error \in {"query", "other"} /\ apply'[a].asked = apply[a].asked
    BY <2>1, FailedState
  <2> QED BY <2>1, <2>2 DEF Honest
<1>5. CASE SendRollback(a)
  <2>1. apply[a].pc = "undo" /\ apply' = [apply EXCEPT ![a] = [apply[a] EXCEPT !.pc = "undoing"]]
    BY <1>0, <1>5 DEF SendRollback
  <2>2. apply'[a] = [apply[a] EXCEPT !.pc = "undoing"]
    BY <1>0, <2>1
  <2>3. /\ apply'[a].pc = "undoing" /\ apply'[a].error = apply[a].error
        /\ apply'[a].asked = apply[a].asked
    BY <1>0, <2>2 DEF Call
  <2> QED BY <2>1, <2>3 DEF Honest
<1>6. CASE RollbackRefused(a) \/ RolledBack(a) \/ RollbackLost(a)
  <2>1. apply[a].pc \in {"undo", "undoing"} /\ Ended(a, apply[a].error)
    BY <1>6 DEF RollbackRefused, RolledBack, RollbackLost
  <2>2. apply[a].error \in {"none", "query", "other"}
    BY <1>0 DEF Call
  <2>3. /\ apply'[a].pc = "done" /\ apply'[a].error = apply[a].error
        /\ apply'[a].asked = apply[a].asked
    BY <2>1, <2>2, EndedState
  <2> QED BY <2>1, <2>3 DEF Honest
<1> QED BY <1>1, <1>2, <1>3, <1>4, <1>5, <1>6 DEF CallStep

----------------------------------------------------------------------------
(* The invariant: no connection commits a batch twice *)

\* What was ever confirmed had been previewed.
Known ==
    \A a \in Applies : apply[a].pc # "idle" =>
        apply[a].conn \in Conns /\ apply[a].batch \in Batches /\ origin[apply[a].batch] # None

\* A batch that is in a database is not sent to it again: its apply is on its way out, and its
\* preview closes with it unless the connection is gone for good.
OncePerConnection ==
    /\ preparing # None => /\ pending = None
                           /\ \A a \in Applies : Busy(a) => apply[a].batch # preparing
                           /\ \A c \in Conns : ~Stored(c, preparing)
    /\ pending # None => \A c \in Conns : Stored(c, pending) =>
          \/ session[c].state = "disposed"
          \/ \E a \in Applies : Busy(a) /\ apply[a].batch = pending /\ apply[a].conn = c
    /\ \A a \in Applies : Busy(a) /\ Stored(apply[a].conn, apply[a].batch) =>
          /\ apply[a].pc \in {"undo", "undoing"}
          /\ apply[a].error = "other" => session[apply[a].conn].state = "disposed"

\* What the applies say is true of the databases, and what is in them comes from a COMMIT.
Told ==
    /\ \A a \in Applies : /\ Honest(apply[a])
                          /\ apply[a].pc = "done" /\ apply[a].error = "none"
                               => Stored(apply[a].conn, apply[a].batch)
    /\ \A c \in Conns, b \in Batches : Stored(c, b) =>
          Complete(c, b) /\ \E a \in Applies : apply[a].batch = b /\ apply[a].asked

LInv == Known /\ OncePerConnection /\ Told

LEMMA LogInit == Init => LInv
<1> SUFFICES ASSUME Init PROVE LInv
  OBVIOUS
<1>1. /\ preparing = None /\ pending = None
      /\ \A a \in Applies : /\ apply[a].pc = "idle" /\ ~Busy(a) /\ Honest(apply[a])
  BY DEF Init, Busy, Honest
<1>2. \A c \in Conns : \A b : ~Stored(c, b)
  BY NothingIn DEF Init, Stored
<1> QED BY <1>1, <1>2 DEF LInv, Known, OncePerConnection, Told

\* A step that leaves the databases leaves what is in them.
LEMMA SameLog ==
  ASSUME UNCHANGED durable
  PROVE  /\ \A c, b : Stored(c, b)' <=> Stored(c, b)
         /\ \A c, b : Complete(c, b)' <=> Complete(c, b)
BY DEF Stored, Complete

\* Only a preview gives a batch its origin, and none loses it.
LEMMA KnownKept ==
  ASSUME TInv, TInv', Traced, Known, [Next]_vars
  PROVE  Known'
<1>0. None \notin Batches /\ origin \in [Batches -> Conns \union {None}]
  BY Shape
<1>1. ASSUME NEW b \in Batches, Prepare(b) PROVE Known'
  <2>1. apply' = apply /\ Loaded # None /\ origin' = [origin EXCEPT ![b] = Loaded]
    BY <1>1 DEF Prepare
  <2>2. \A m \in Batches : origin[m] # None => origin'[m] # None
    BY <1>0, <2>1
  <2> QED BY <2>1, <2>2 DEF Known
<1>2. ASSUME Prepared \/ CancelApply PROVE Known'
  BY <1>2 DEF Prepared, CancelApply, Known
<1>3. CASE TabStep
  BY <1>3, TabEffect DEF Known
<1>4. ASSUME NEW a \in Applies, Confirm(a) PROVE Known'
  <2>1. PICK x \in Call : /\ apply' = [apply EXCEPT ![a] = x] /\ x.conn = Bound /\ x.batch = pending
    BY <1>4, ConfirmEffect
  <2>2. Bound \in Conns /\ pending \in Batches /\ origin' = origin
    BY <1>4, ConfirmEffect
  <2>3. apply'[a] = x /\ \A e \in Applies \ {a} : apply'[e] = apply[e]
    BY <2>1, Shape
  <2>4. origin[pending] # None
    BY <1>0, <2>2 DEF Traced
  <2>5. ASSUME NEW e \in Applies, apply'[e].pc # "idle"
        PROVE  apply'[e].conn \in Conns /\ apply'[e].batch \in Batches /\ origin[apply'[e].batch] # None
    <3>1. CASE e = a
      BY <2>1, <2>2, <2>3, <2>4, <3>1
    <3>2. CASE e # a
      BY <2>3, <2>5, <3>2 DEF Known
    <3> QED BY <3>1, <3>2
  <2> QED BY <2>2, <2>5 DEF Known
<1>5. ASSUME NEW a \in Applies, CallStep(a) PROVE Known'
  <2>1. PICK x \in Call, s \in Session, d \in Seq(Changes) : Becomes(a, x, s, d)
    BY <1>5, Effect
  <2>2. /\ apply'[a].conn = apply[a].conn /\ apply'[a].batch = apply[a].batch
        /\ \A e \in Applies \ {a} : apply'[e] = apply[e]
        /\ origin' = origin
    BY <2>1, Shape DEF Becomes
  <2>3. apply[a].pc # "idle"
    BY <1>5, StepsBusy DEF Busy
  <2>4. ASSUME NEW e \in Applies, apply'[e].pc # "idle"
        PROVE  apply'[e].conn \in Conns /\ apply'[e].batch \in Batches /\ origin[apply'[e].batch] # None
    BY <2>2, <2>3, <2>4 DEF Known
  <2> QED BY <2>2, <2>4 DEF Known
<1>6. ASSUME (\E c \in Conns : ConnStep(c)) \/ UNCHANGED vars PROVE Known'
  <2>1. UNCHANGED <<origin, apply>>
    BY <1>6, ConnEffect DEF vars, uiVars
  <2> QED BY <2>1 DEF Known
<1> QED BY <1>1, <1>2, <1>3, <1>4, <1>5, <1>6, Steps DEF UiStep, TabStep

\* What a commit adds to what the databases have: b is the batch of the apply, c its connection.
LEMMA CommitStores ==
  ASSUME TInv, NEW a \in Applies, Busy(a), Commits(a), NEW c, c = apply[a].conn, NEW b, b = apply[a].batch,
         b \notin In(durable[c])
  PROVE  /\ b \in In(durable'[c]) /\ Complete(c, b)'
         /\ \A e \in Conns, m \in Batches : (e # c \/ m # b) =>
               /\ m \in In(durable'[e]) <=> m \in In(durable[e])
               /\ Complete(e, m) => Complete(e, m)'
<1>1. c \in Conns /\ b \in Batches /\ durable \in [Conns -> Seq(Changes)]
  BY Shape
<1>2. /\ durable'[c] = durable[c] \o Work(b, Size)
      /\ \A e \in Conns \ {c} : durable'[e] = durable[e]
  BY <1>1 DEF Commits
<1>3. /\ Stored(c, b)' /\ Complete(c, b)'
      /\ \A m \in Batches \ {b} : /\ Stored(c, m)' <=> Stored(c, m)
                                  /\ Complete(c, m) => Complete(c, m)'
  BY <1>1, <1>2, WholeAdded DEF Stored
<1>4. ASSUME NEW e \in Conns \ {c}, NEW m \in Batches
      PROVE  (Stored(e, m)' <=> Stored(e, m)) /\ (Complete(e, m) => Complete(e, m)')
  BY <1>2 DEF Stored, Complete
<1> QED BY <1>3, <1>4 DEF Stored

\* The steps that leave the databases and the applies as they are.
LEMMA ToldFrame ==
  ASSUME Told, UNCHANGED <<apply, durable>>
  PROVE  Told'
BY SameLog DEF Told, Honest

\* The preview: a new batch is in no database and no apply has it.
LEMMA LogUi ==
  ASSUME TInv, LInv, UiStep
  PROVE  OncePerConnection' /\ Told'
<1>0. UNCHANGED <<apply, session, durable>>
  BY DEF UiStep, SwitchTab, Load, Bind, Prepare, Prepared, CancelApply
<1>1. Told'
  BY <1>0, ToldFrame DEF LInv
<1>3. ASSUME NEW b \in Batches, Prepare(b) PROVE OncePerConnection'
  <2>1. pending' = None /\ preparing' = b /\ origin[b] = None
    BY <1>3 DEF Prepare, Previewing
  <2>2. \A a \in Applies : Busy(a) => apply[a].batch # b
    BY <2>1 DEF LInv, Known, Busy
  <2>3. ASSUME NEW c \in Conns, Stored(c, b) PROVE FALSE
    <3>1. PICK a \in Applies : apply[a].batch = b /\ apply[a].asked
      BY <2>3 DEF LInv, Told
    <3>2. apply[a].pc # "idle"
      BY <3>1 DEF LInv, Told, Honest
    <3> QED BY <2>1, <3>1, <3>2 DEF LInv, Known
  <2> QED BY <1>0, <2>1, <2>2, <2>3 DEF LInv, OncePerConnection, Busy, Stored
<1>4. CASE Prepared
  <2>1. preparing # None /\ pending' = preparing /\ preparing' = None
    BY <1>4 DEF Prepared
  <2> QED BY <1>0, <1>1, <2>1 DEF LInv, OncePerConnection, Busy, Stored
<1>5. CASE CancelApply
  <2>1. pending' = None /\ preparing' = preparing
    BY <1>5 DEF CancelApply
  <2> QED BY <1>0, <1>1, <2>1 DEF LInv, OncePerConnection, Busy, Stored
<1>6. CASE TabStep
  <2>1. pending' = pending /\ preparing' = preparing
    BY <1>6, TabEffect
  <2> QED BY <1>0, <1>1, <2>1 DEF LInv, OncePerConnection, Busy, Stored
<1> QED BY <1>1, <1>3, <1>4, <1>5, <1>6 DEF UiStep, TabStep

\* A confirmation: where the batch already is, the connection is disposed and cannot be chosen.
LEMMA LogConfirm ==
  ASSUME Undisturbed, TInv, AInv, LInv, NEW a \in Applies, Confirm(a)
  PROVE  OncePerConnection' /\ Told'
<1>1. ~applying /\ session[Bound].state # "disposed" /\ pending # None /\ apply[a].pc = "idle"
  BY Quiet DEF Confirm, Connected
<1>2. \A e \in Applies : ~Busy(e)
  BY <1>1 DEF AInv
<1>3. Bound \in Conns /\ UNCHANGED <<preparing, pending, session, durable>>
  BY ConfirmEffect
<1>4. ~Stored(Bound, pending) /\ preparing = None
  BY <1>1, <1>2, <1>3 DEF LInv, OncePerConnection
<1>5. PICK x \in Call : /\ x = [apply[a] EXCEPT !.pc = "ready", !.conn = Bound, !.batch = pending]
                        /\ apply' = [apply EXCEPT ![a] = x] /\ x.pc = "ready" /\ x.conn = Bound /\ x.batch = pending
  BY ConfirmEffect
<1>6. apply'[a] = x /\ \A e \in Applies \ {a} : apply'[e] = apply[e]
  BY <1>5, Shape
<1>7. \A e \in Applies : Busy(e)' => e = a
  BY <1>2, <1>6 DEF Busy
<1>8. \A c \in Conns : pending # None /\ Stored(c, pending) => session[c].state = "disposed"
  BY <1>2 DEF LInv, OncePerConnection
<1>9. OncePerConnection'
  <2>1. \A e \in Applies : Busy(e)' => apply'[e].conn = Bound /\ apply'[e].batch = pending
    BY <1>5, <1>6, <1>7
  <2>2. \A e \in Applies : Busy(e)' => apply'[e].batch \notin In(durable[apply'[e].conn])
    BY <1>4, <2>1 DEF Stored
  <2> QED BY <1>3, <1>4, <1>8, <2>2 DEF OncePerConnection, Stored
<1>10. ~x.asked
  <2>1. ~apply[a].asked
    BY <1>1 DEF LInv, Told, Honest
  <2>2. apply[a] \in Call
    BY Shape
  <2> QED BY <1>5, <2>1, <2>2 DEF Call
<1>11. ASSUME NEW e \in Applies
       PROVE  /\ Honest(apply'[e])
              /\ apply'[e].pc = "done" /\ apply'[e].error = "none" => apply'[e].batch \in In(durable[apply'[e].conn])
  <2>1. CASE e = a
    BY <1>5, <1>6, <1>10, <2>1 DEF Honest
  <2>2. CASE e # a
    BY <1>6, <2>2 DEF LInv, Told, Stored
  <2> QED BY <2>1, <2>2
<1>12. ASSUME NEW c \in Conns, NEW b \in Batches, b \in In(durable[c])
       PROVE  Complete(c, b) /\ \E e \in Applies : apply'[e].batch = b /\ apply'[e].asked
  <2>1. Complete(c, b)
    BY <1>12 DEF LInv, Told, Stored
  <2>2. PICK e \in Applies : apply[e].batch = b /\ apply[e].asked
    BY <1>12 DEF LInv, Told, Stored
  <2>3. e # a
    BY <1>1, <2>2 DEF LInv, Told, Honest
  <2>4. apply'[e].batch = b /\ apply'[e].asked
    BY <1>6, <2>2, <2>3
  <2> QED BY <2>1, <2>4
<1>13. Told'
  <2>1. ASSUME NEW c \in Conns, NEW b \in Batches, b \in In(durable'[c])
        PROVE  Complete(c, b)' /\ \E e \in Applies : apply'[e].batch = b /\ apply'[e].asked
    BY <1>3, <1>12, <2>1 DEF Complete
  <2>2. \A e \in Applies : apply'[e].pc = "done" /\ apply'[e].error = "none"
                              => apply'[e].batch \in In(durable'[apply'[e].conn])
    BY <1>3, <1>11
  <2>3. \A e \in Applies : Honest(apply[e])'
    BY <1>11 DEF Honest
  <2> QED BY <2>1, <2>2, <2>3 DEF Told, Stored
<1> QED BY <1>9, <1>13

\* Others' use of a connection: it stays disposed.
LEMMA LogConn ==
  ASSUME TInv, LInv, [Next]_vars, UNCHANGED <<preparing, pending, apply, durable>>
  PROVE  OncePerConnection' /\ Told'
<1>1. \A c \in Conns : session[c].state = "disposed" => session'[c].state = "disposed"
  BY StaysDisposed
<1>2. \A a \in Applies : Busy(a) => apply[a].conn \in Conns
  BY Shape
<1>3. Told'
  BY ToldFrame DEF LInv
<1> QED BY <1>1, <1>2, <1>3 DEF LInv, OncePerConnection, Busy, Stored

\* A call of ApplyAsync: a commit finds nothing of its batch in the database, and what has been
\* committed is not sent there again.
LEMMA LogCall ==
  ASSUME Undisturbed, TInv, TInv', AInv, LInv, [Next]_vars, NEW a \in Applies, CallStep(a)
  PROVE  OncePerConnection' /\ Told'
<1>0. PICK c \in Conns, b \in Batches : c = apply[a].conn /\ b = apply[a].batch /\ Busy(a)
  BY StepsBusy, Shape
<1>1. PICK x \in Call, s \in Session, d \in Seq(Changes) : Becomes(a, x, s, d)
  BY Effect
<1>2. /\ apply'[a] = x /\ x.conn = c /\ x.batch = b
      /\ \A e \in Applies \ {a} : apply'[e] = apply[e] /\ ~Busy(e)
      /\ pending' \in {pending, None} /\ preparing' = preparing
  BY <1>0, <1>1, Shape DEF Becomes, AInv
<1>3. \A e \in Applies : Busy(e)' => e = a
  BY <1>2 DEF Busy
<1>4. \A e \in Conns : session[e].state = "disposed" => session'[e].state = "disposed"
  BY StaysDisposed
<1>5. /\ pending \in Batches \union {None} /\ None \notin Batches
      /\ preparing # None => preparing \in Batches
  BY Shape
<1>6. Honest(apply[a]) /\ Honest(apply'[a]) /\ (apply[a].asked => apply'[a].asked)
      /\ (apply'[a].pc = "done" /\ apply'[a].error = "none" => Commits(a))
  BY Reports DEF LInv, Told
<1>7. b \in In(durable[c]) => /\ apply[a].pc \in {"undo", "undoing"}
                              /\ apply[a].error = "other" => session[c].state = "disposed"
  BY <1>0 DEF LInv, OncePerConnection, Stored
<1>8. Commits(a) => b \notin In(durable[c])
  BY <1>7 DEF Commits
\* The databases after the step.
<1>9. ASSUME NEW e \in Conns, NEW m \in Batches
      PROVE  /\ m \in In(durable[e]) => m \in In(durable'[e])
             /\ m \in In(durable'[e]) => m \in In(durable[e]) \/ (e = c /\ m = b /\ Commits(a))
             /\ m \in In(durable'[e]) => Complete(e, m)'
  <2>1. m \in In(durable[e]) => Complete(e, m)
    BY DEF LInv, Told, Stored
  <2>2. CASE Commits(a)
    <3>1. b \in In(durable'[c]) /\ Complete(c, b)'
      BY <1>0, <1>8, <2>2, CommitStores
    <3>2. ASSUME e # c \/ m # b
          PROVE  /\ m \in In(durable'[e]) <=> m \in In(durable[e])
                 /\ Complete(e, m) => Complete(e, m)'
      BY <1>0, <1>8, <2>2, <3>2, CommitStores
    <3>3. CASE e = c /\ m = b
      BY <2>2, <3>1, <3>3
    <3>4. CASE e # c \/ m # b
      BY <2>1, <3>2, <3>4
    <3> QED BY <3>3, <3>4
  <2>3. CASE ~Commits(a)
    <3>1. UNCHANGED durable
      BY <2>3, Outcome
    <3> QED BY <2>1, <3>1, SameLog
  <2> QED BY <2>2, <2>3
\* The preview.
<1>10. preparing' # None => /\ pending' = None
                            /\ \A e \in Applies : Busy(e)' => apply'[e].batch # preparing'
                            /\ \A e \in Conns : preparing' \notin In(durable'[e])
  <2> SUFFICES ASSUME preparing # None
               PROVE  /\ pending' = None
                      /\ \A e \in Applies : Busy(e)' => apply'[e].batch # preparing
                      /\ \A e \in Conns : preparing \notin In(durable'[e])
    BY <1>2
  <2>1. /\ pending = None /\ preparing # b
        /\ \A e \in Conns : preparing \notin In(durable[e])
    BY <1>0 DEF LInv, OncePerConnection, Stored
  <2> QED BY <1>2, <1>3, <1>5, <1>9, <2>1
\* Its batch is where it is for good, or its apply is still on its way out.
<1>11. ASSUME pending' # None, NEW e \in Conns, pending' \in In(durable'[e]), session'[e].state # "disposed"
       PROVE  Busy(a)' /\ apply'[a].batch = pending' /\ apply'[a].conn = e
  <2>1. pending' = pending /\ pending \in Batches /\ session[e].state # "disposed"
    BY <1>2, <1>4, <1>5, <1>11
  <2>2. pending = b /\ e = c
    <3>1. CASE pending \in In(durable[e])
      <4>1. PICK f \in Applies : Busy(f) /\ apply[f].batch = pending /\ apply[f].conn = e
        BY <1>11, <2>1, <3>1 DEF LInv, OncePerConnection, Stored
      <4> QED BY <1>0, <1>2, <4>1
    <3>2. CASE pending \notin In(durable[e])
      BY <1>9, <1>11, <2>1, <3>2
    <3> QED BY <3>1, <3>2
  <2>3. apply'[a].pc # "done"
    <3>1. SUFFICES ASSUME apply'[a].pc = "done" PROVE FALSE
      OBVIOUS
    <3>2. ~Commits(a)
      BY <1>11, <3>1 DEF Commits
    <3>3. b \in In(durable[c])
      BY <1>0, <1>9, <1>11, <2>1, <2>2, <3>2
    <3>4. apply[a].pc \in {"undo", "undoing"} /\ apply[a].error # "other"
      BY <1>7, <2>1, <2>2, <3>3
    <3> QED BY <1>11, <3>1, <3>2, <3>4, Outcome
  <2>4. Busy(a)'
    BY <2>3, GoesOn DEF Busy
  <2> QED BY <1>2, <2>1, <2>2, <2>4
\* An apply whose batch is there has only its ROLLBACK left.
<1>12. ASSUME NEW e \in Applies, Busy(e)', apply'[e].batch \in In(durable'[apply'[e].conn])
       PROVE  /\ apply'[e].pc \in {"undo", "undoing"}
              /\ apply'[e].error = "other" => session'[apply'[e].conn].state = "disposed"
  <2>1. e = a /\ apply'[e].conn = c /\ apply'[e].batch = b /\ b \in In(durable'[c])
    BY <1>2, <1>3, <1>12
  <2>2. apply'[a].pc # "done"
    BY <1>12, <2>1 DEF Busy
  <2>3. CASE Commits(a)
    BY <1>0, <1>4, <2>1, <2>2, <2>3 DEF Commits
  <2>4. CASE ~Commits(a)
    <3>1. apply[a].pc \in {"undo", "undoing"} /\ (apply[a].error = "other" => session[c].state = "disposed")
      BY <1>0, <1>7, <1>9, <2>1, <2>4
    <3> QED BY <1>0, <1>4, <2>1, <2>2, <2>4, <3>1, Outcome
  <2> QED BY <2>3, <2>4
<1>13. OncePerConnection'
  <2>1. pending' # None => \A e \in Conns : pending' \in In(durable'[e]) =>
           \/ session'[e].state = "disposed"
           \/ \E f \in Applies : Busy(f)' /\ apply'[f].batch = pending' /\ apply'[f].conn = e
    BY <1>11
  <2> QED BY <1>10, <1>12, <2>1 DEF OncePerConnection, Stored
<1>14. ASSUME NEW e \in Applies, apply'[e].pc = "done", apply'[e].error = "none"
       PROVE  apply'[e].batch \in In(durable'[apply'[e].conn])
  <2>1. CASE e = a
    BY <1>0, <1>2, <1>6, <1>8, <1>14, <2>1, CommitStores
  <2>2. CASE e # a
    <3>1. apply[e].conn \in Conns /\ apply[e].batch \in Batches /\ apply'[e] = apply[e]
      BY <1>2, <1>14, <2>2 DEF LInv, Known
    <3>2. apply[e].batch \in In(durable[apply[e].conn])
      BY <1>14, <3>1 DEF LInv, Told, Stored
    <3> QED BY <1>9, <3>1, <3>2
  <2> QED BY <2>1, <2>2
<1>15. ASSUME NEW e \in Conns, NEW m \in Batches, m \in In(durable'[e])
       PROVE  Complete(e, m)' /\ \E f \in Applies : apply'[f].batch = m /\ apply'[f].asked
  <2>1. Complete(e, m)'
    BY <1>9, <1>15
  <2>2. CASE m \in In(durable[e])
    <3>1. PICK f \in Applies : apply[f].batch = m /\ apply[f].asked
      BY <2>2 DEF LInv, Told, Stored
    <3>2. apply'[f].batch = m /\ apply'[f].asked
      BY <1>0, <1>2, <1>6, <3>1
    <3> QED BY <2>1, <3>2
  <2>3. CASE m \notin In(durable[e])
    <3>1. m = b /\ Commits(a)
      BY <1>9, <1>15, <2>3
    <3>2. apply[a].asked
      BY <1>6, <3>1 DEF Commits, Honest
    <3> QED BY <1>2, <1>6, <2>1, <3>1, <3>2
  <2> QED BY <2>2, <2>3
<1>16. Told'
  <2>1. \A e \in Applies : Honest(apply[e])'
    <3> TAKE e \in Applies
    <3>1. CASE e = a
      BY <1>6, <3>1 DEF Honest
    <3>2. CASE e # a
      BY <1>2, <3>2 DEF LInv, Told, Honest
    <3> QED BY <3>1, <3>2
  <2> QED BY <1>14, <1>15, <2>1 DEF Told, Stored
<1> QED BY <1>13, <1>16

\* LInv is inductive on top of the types and of what an apply believes of its session.
LEMMA LogKept ==
  ASSUME Undisturbed, TInv, TInv', Traced, AInv, LInv, [Next]_vars
  PROVE  LInv'
<1>1. Known'
  BY KnownKept DEF LInv
<1>2. ASSUME NEW c \in Conns, ConnStep(c) PROVE OncePerConnection' /\ Told'
  <2>1. UNCHANGED <<preparing, pending, apply, durable>>
    BY <1>2, ConnEffect
  <2> QED BY <2>1, LogConn
<1>3. CASE UNCHANGED vars
  <2>1. UNCHANGED <<preparing, pending, apply, durable>>
    BY <1>3 DEF vars, uiVars
  <2> QED BY <1>1, <2>1, LogConn DEF LInv
<1> QED BY <1>1, <1>2, <1>3, LogUi, LogConfirm, LogCall, Steps DEF LInv

LEMMA LogHolds ==
  ASSUME Undisturbed
  PROVE  Spec => [](TInv /\ LInv)
<1>1. Init => TInv /\ Traced /\ AInv /\ LInv
  BY TypeInit, TracedInit, AtomicInit, LogInit
<1>2. TInv /\ Traced /\ AInv /\ LInv /\ [Next]_vars => (TInv /\ Traced /\ AInv /\ LInv)'
  BY Typed, TracedKept, AtomicKept, LogKept
<1> QED BY <1>1, <1>2, PTL DEF Spec

----------------------------------------------------------------------------

\* DmlApplier.ApplyAsync: if nothing else uses a connection during an apply, what has been committed over
\* it has every batch whole, in order and once, or not at all, whatever call fails, whatever session
\* ends, and even if tabs are switched or bound to other connections under a preview.
THEOREM EachDatabaseIsWhole ==
  ASSUME Undisturbed
  PROVE  Spec => []Atomic
<1>1. TInv /\ LInv => Atomic
  BY AbsentIs DEF LInv, Told, Atomic
<1> QED BY <1>1, LogHolds, PTL

\* ConfirmApplyAsync: an apply that ends without an error has brought its whole batch into the database.
THEOREM SuccessIsDurable ==
  ASSUME Undisturbed
  PROVE  Spec => []AppliedIsDurable
<1>1. TInv /\ LInv => AppliedIsDurable
  BY DEF LInv, Told, Known, AppliedIsDurable
<1> QED BY <1>1, LogHolds, PTL

\* ConfirmApplyAsync: when every apply of a batch has ended with an error before COMMIT was sent,
\* nothing of the batch is in any database.
THEOREM FailureIsUndone ==
  ASSUME Undisturbed
  PROVE  Spec => []FailedIsUndone
<1>1. TInv /\ LInv => FailedIsUndone
  BY AbsentIs DEF LInv, Told, FailedIsUndone
<1> QED BY <1>1, LogHolds, PTL
====
