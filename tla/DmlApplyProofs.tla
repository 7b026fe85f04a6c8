---- MODULE DmlApplyProofs ----
(***************************************************************************)
(* DmlApply, proved for any numbers of connections, batches, confirmations *)
(* and commands: the session a batch is written in is always at the step   *)
(* its apply believes, so a commit carries a whole batch, and a batch is   *)
(* never committed twice.                                                  *)
(***************************************************************************)
EXTENDS DmlApply, SequenceTheorems, TLAPS

\* The batches that appear in a sequence of changes.
In(s) == {s[i][1] : i \in DOMAIN s}

\* The next call of an apply, or its answer.
CallStep(a) ==
    \/ Send(a) \/ Refused(a) \/ Succeeds(a) \/ Errs(a) \/ Lost(a)
    \/ SendRollback(a) \/ RollbackRefused(a) \/ RolledBack(a) \/ RollbackLost(a)

\* What others do to connection c.
ConnStep(c) == ReadStarts(c) \/ ReadEnds(c) \/ Drop(c) \/ Disconnect(c)

\* What the user and the preview do.
UiStep ==
    \/ \E t \in Tabs : SwitchTab(t)
    \/ Load
    \/ \E t \in Tabs, c \in Conns \union {None} : Bind(t, c)
    \/ \E b \in Batches : Prepare(b)
    \/ Prepared
    \/ CancelApply

\* The steps that leave the preview as it is.
TabStep ==
    \/ \E t \in Tabs : SwitchTab(t)
    \/ Load
    \/ \E t \in Tabs, c \in Conns \union {None} : Bind(t, c)

\* The next-state relation, by who moves.
LEMMA Steps ==
  ASSUME Next
  PROVE  \/ UiStep
         \/ \E a \in Applies : Confirm(a) \/ CallStep(a)
         \/ \E c \in Conns : ConnStep(c)
BY DEF Next, UiStep, CallStep, ConnStep

\* A suspended handler has captured real things.
Captured == \A a \in Applies : Busy(a) => apply[a].conn \in Conns /\ apply[a].batch \in Batches

TInv == TypeOK /\ Captured

----------------------------------------------------------------------------
(* Types *)

LEMMA NothingIn == In(<<>>) = {}
BY DEF In

\* What concatenation, and one more change, bring in.
LEMMA JoinedIn ==
  ASSUME NEW s \in Seq(Changes), NEW t \in Seq(Changes)
  PROVE  s \o t \in Seq(Changes) /\ In(s \o t) = In(s) \union In(t)
<1>1. s \o t \in Seq(Changes)
  OBVIOUS
<1>2. /\ Len(s) \in Nat /\ Len(t) \in Nat /\ DOMAIN s = 1..Len(s) /\ DOMAIN t = 1..Len(t)
      /\ DOMAIN (s \o t) = 1..(Len(s) + Len(t))
      /\ \A i \in 1..(Len(s) + Len(t)) : (s \o t)[i] = IF i <= Len(s) THEN s[i] ELSE t[i - Len(s)]
  OBVIOUS
<1>3. ASSUME NEW i \in 1..(Len(s) + Len(t))
      PROVE  (s \o t)[i][1] \in In(s) \union In(t)
  <2>1. CASE i <= Len(s)
    <3>1. i \in DOMAIN s /\ (s \o t)[i] = s[i]
      BY <1>2, <2>1
    <3> QED BY <3>1 DEF In
  <2>2. CASE ~(i <= Len(s))
    <3>1. i - Len(s) \in DOMAIN t /\ (s \o t)[i] = t[i - Len(s)]
      BY <1>2, <2>2
    <3> QED BY <3>1 DEF In
  <2> QED BY <2>1, <2>2
<1>4. ASSUME NEW i \in DOMAIN s PROVE s[i][1] \in In(s \o t)
  <2>1. i \in DOMAIN (s \o t) /\ (s \o t)[i] = s[i]
    BY <1>2
  <2> QED BY <2>1 DEF In
<1>5. ASSUME NEW i \in DOMAIN t PROVE t[i][1] \in In(s \o t)
  <2>1. i + Len(s) \in DOMAIN (s \o t) /\ (s \o t)[i + Len(s)] = t[i]
    BY <1>2
  <2> QED BY <2>1 DEF In
<1>6. In(s \o t) \subseteq In(s) \union In(t)
  BY <1>2, <1>3 DEF In
<1>7. In(s) \subseteq In(s \o t) /\ In(t) \subseteq In(s \o t)
  BY <1>4, <1>5 DEF In
<1> QED BY <1>1, <1>6, <1>7

LEMMA AppendedIn ==
  ASSUME NEW s \in Seq(Changes), NEW e \in Changes
  PROVE  Append(s, e) \in Seq(Changes) /\ In(Append(s, e)) \subseteq In(s) \union {e[1]}
<1>1. Append(s, e) \in Seq(Changes)
  OBVIOUS
<1>2. /\ Len(s) \in Nat /\ DOMAIN s = 1..Len(s) /\ DOMAIN Append(s, e) = 1..(Len(s) + 1)
      /\ \A i \in 1..(Len(s) + 1) : Append(s, e)[i] = IF i <= Len(s) THEN s[i] ELSE e
  OBVIOUS
<1>3. ASSUME NEW i \in 1..(Len(s) + 1) PROVE Append(s, e)[i][1] \in In(s) \union {e[1]}
  <2>1. CASE i <= Len(s)
    <3>1. i \in DOMAIN s /\ Append(s, e)[i] = s[i]
      BY <1>2, <2>1
    <3> QED BY <3>1 DEF In
  <2>2. CASE ~(i <= Len(s))
    BY <1>2, <2>2
  <2> QED BY <2>1, <2>2
<1> QED BY <1>1, <1>2, <1>3 DEF In

\* What the server's execution of a command leaves.
LEMMA ExecutedTypes ==
  ASSUME NEW s \in Session, NEW d \in Seq(Changes), NEW b \in Batches, NEW k \in 0..LastStep
  PROVE  /\ Executed(s, d, b, k).s \in Session
         /\ Executed(s, d, b, k).d \in Seq(Changes)
         /\ In(Executed(s, d, b, k).s.work) \subseteq In(s.work) \union {b}
         /\ In(Executed(s, d, b, k).d) \subseteq In(d) \union In(s.work) \union {b}
<1>1. s.work \in Seq(Changes) /\ <<>> \in Seq(Changes)
  BY DEF Session
<1>2. d \o s.work \in Seq(Changes) /\ In(d \o s.work) = In(d) \union In(s.work)
  BY <1>1, JoinedIn
<1>3. CASE k = 0
  <2>1. /\ Executed(s, d, b, k).s = [s EXCEPT !.inTx = TRUE, !.work = <<>>]
        /\ Executed(s, d, b, k).d = d \o s.work
    BY <1>3 DEF Executed
  <2>2. [s EXCEPT !.inTx = TRUE, !.work = <<>>] \in Session /\ [s EXCEPT !.inTx = TRUE, !.work = <<>>].work = <<>>
    BY <1>1 DEF Session
  <2> QED BY <1>2, <2>1, <2>2, NothingIn
<1>4. CASE k = LastStep /\ k # 0
  <2>1. /\ Executed(s, d, b, k).s = [s EXCEPT !.inTx = FALSE, !.work = <<>>]
        /\ Executed(s, d, b, k).d = d \o s.work
    BY <1>4 DEF Executed
  <2>2. [s EXCEPT !.inTx = FALSE, !.work = <<>>] \in Session /\ [s EXCEPT !.inTx = FALSE, !.work = <<>>].work = <<>>
    BY <1>1 DEF Session
  <2> QED BY <1>2, <2>1, <2>2, NothingIn
<1>5. CASE k # 0 /\ k # LastStep
  <2>1. <<b, k>> \in Changes
    BY <1>5, DmlAssumption DEF LastStep, Changes
  <2>2. CASE s.inTx
    <3>1. /\ Executed(s, d, b, k).s = [s EXCEPT !.work = Append(@, <<b, k>>)]
          /\ Executed(s, d, b, k).d = d
      BY <1>5, <2>2 DEF Executed
    <3>2. Append(s.work, <<b, k>>) \in Seq(Changes) /\ In(Append(s.work, <<b, k>>)) \subseteq In(s.work) \union {b}
      BY <1>1, <2>1, AppendedIn
    <3>3. /\ [s EXCEPT !.work = Append(@, <<b, k>>)] \in Session
          /\ [s EXCEPT !.work = Append(@, <<b, k>>)].work = Append(s.work, <<b, k>>)
      BY <3>2 DEF Session
    <3> QED BY <3>1, <3>2, <3>3
  <2>3. CASE ~s.inTx
    <3>1. /\ Executed(s, d, b, k).s = s
          /\ Executed(s, d, b, k).d = Append(d, <<b, k>>)
      BY <1>5, <2>3 DEF Executed
    <3>2. Append(d, <<b, k>>) \in Seq(Changes) /\ In(Append(d, <<b, k>>)) \subseteq In(d) \union {b}
      BY <2>1, AppendedIn
    <3> QED BY <3>1, <3>2
  <2> QED BY <2>2, <2>3
<1> QED BY <1>3, <1>4, <1>5

\* A session that ends is closed, idle and without work.
LEMMA DeadTypes ==
  ASSUME NEW s \in Session
  PROVE  /\ Dead(s) \in Session /\ Dead(s).work = <<>> /\ ~Dead(s).alive /\ ~Dead(s).inTx /\ Dead(s).user = None
         /\ Dead(s).state = IF s.state = "disposed" THEN "disposed" ELSE "closed"
<1>1. <<>> \in Seq(Changes)
  OBVIOUS
<1>2. Dead(s) = [s EXCEPT !.alive = FALSE, !.user = None, !.inTx = FALSE, !.work = <<>>,
                           !.state = IF s.state = "disposed" THEN s.state ELSE "closed"]
  BY DEF Dead
<1>3. CASE s.state = "disposed"
  BY <1>1, <1>2, <1>3 DEF Session
<1>4. CASE s.state # "disposed"
  BY <1>1, <1>2, <1>4 DEF Session
<1> QED BY <1>3, <1>4

LEMMA TypeInit == Init => TInv
<1> SUFFICES ASSUME Init PROVE TInv
  OBVIOUS
<1>1. <<>> \in Seq(Changes) /\ 0 \in 0..LastStep
  BY DmlAssumption DEF LastStep
<1>2. apply \in [Applies -> Call] /\ \A a \in Applies : ~Busy(a)
  BY <1>1 DEF Init, Call, Busy
<1>3. session \in [Conns -> Session] /\ durable \in [Conns -> Seq(Changes)]
  BY <1>1 DEF Init, Session, NewSession
<1>4. active \in Tabs /\ tab \in [Tabs -> Tab] /\ preparing = None
  BY DEF Init, Tab
<1> QED BY <1>2, <1>3, <1>4 DEF Init, TInv, TypeOK, Captured

\* What every proof below starts from.
LEMMA Shape ==
  ASSUME TInv
  PROVE  /\ apply \in [Applies -> Call] /\ session \in [Conns -> Session] /\ durable \in [Conns -> Seq(Changes)]
         /\ origin \in [Batches -> Conns \union {None}]
         /\ active \in Tabs /\ tab \in [Tabs -> Tab]
         /\ Bound \in Conns \union {None} /\ Loaded \in Conns \union {None}
         /\ preparing \in Batches \union {None} /\ pending \in Batches \union {None}
         /\ \A a \in Applies : /\ Busy(a) => apply[a].conn \in Conns /\ apply[a].batch \in Batches
                               /\ apply[a].step \in 0..LastStep
         /\ None \notin Conns /\ None \notin Batches /\ None \notin Applies
         /\ Reader \notin Applies /\ Reader # None
BY DmlAssumption DEF TInv, TypeOK, Captured, Call, Bound, Loaded, Tab

\* How an apply goes on: x is its state, s its session and d the committed changes after it.
Becomes(a, x, s, d) ==
    LET c == apply[a].conn
        b == apply[a].batch
    IN  /\ x.conn = c /\ x.batch = b
        /\ apply' = [apply EXCEPT ![a] = x]
        /\ session' = [session EXCEPT ![c] = s]
        /\ durable' = [durable EXCEPT ![c] = d]
        /\ In(s.work) \subseteq In(session[c].work) \union {b}
        /\ In(d) \subseteq In(durable[c]) \union In(session[c].work) \union {b}
        /\ pending' \in {pending, None} /\ applying' \in {applying, FALSE}
        /\ UNCHANGED <<active, tab, preparing, origin>>

\* How an apply ends, and how it fails: on its way out, or with its ROLLBACK to come.
LEMMA Ends ==
  ASSUME TInv, NEW a \in Applies, NEW e \in {"none", "query", "other"}, Ended(a, e)
  PROVE  \E x \in Call :
            /\ apply' = [apply EXCEPT ![a] = x]
            /\ x.conn = apply[a].conn /\ x.batch = apply[a].batch /\ x.pc = "done" /\ x.error = e
            /\ applying' = FALSE /\ pending' = IF e = "other" THEN pending ELSE None
            /\ UNCHANGED <<active, tab, preparing, origin>>
<1> DEFINE x == [apply[a] EXCEPT !.pc = "done", !.error = e, !.step = 0]
<1>1. apply' = [apply EXCEPT ![a] = x]
  BY Shape DEF Ended
<1>2. x \in Call /\ x.conn = apply[a].conn /\ x.batch = apply[a].batch /\ x.pc = "done" /\ x.error = e
  <2>1. apply[a] \in Call /\ 0 \in 0..LastStep
    BY Shape, DmlAssumption DEF LastStep
  <2> QED BY <2>1 DEF Call
<1>3. applying' = FALSE /\ (pending' = IF e = "other" THEN pending ELSE None) /\ UNCHANGED <<active, tab, preparing, origin>>
  BY DEF Ended
<1> QED BY <1>1, <1>2, <1>3

LEMMA FailsOrUndoes ==
  ASSUME TInv, NEW a \in Applies, NEW e \in {"query", "other"}, Fails(a, e)
  PROVE  \E x \in Call :
            /\ apply' = [apply EXCEPT ![a] = x]
            /\ x.conn = apply[a].conn /\ x.batch = apply[a].batch /\ x.error = e
            /\ \/ apply[a].step = 0 /\ x.pc = "done" /\ applying' = FALSE
                  /\ pending' = IF e = "other" THEN pending ELSE None
               \/ apply[a].step # 0 /\ x.pc = "undo" /\ UNCHANGED <<applying, pending>>
            /\ UNCHANGED <<active, tab, preparing, origin>>
<1>1. CASE apply[a].step = 0
  <2>1. Ended(a, e)
    BY <1>1 DEF Fails
  <2>2. PICK x \in Call :
            /\ apply' = [apply EXCEPT ![a] = x]
            /\ x.conn = apply[a].conn /\ x.batch = apply[a].batch /\ x.pc = "done" /\ x.error = e
            /\ applying' = FALSE /\ pending' = IF e = "other" THEN pending ELSE None
            /\ UNCHANGED <<active, tab, preparing, origin>>
    <3>1. e \in {"none", "query", "other"}
      OBVIOUS
    <3> QED BY <2>1, <3>1, Ends
  <2> WITNESS x \in Call
  <2> QED BY <1>1, <2>2
<1>2. CASE apply[a].step # 0
  <2> DEFINE x == [apply[a] EXCEPT !.pc = "undo", !.error = e]
  <2>1. apply' = [apply EXCEPT ![a] = x]
    BY <1>2, Shape DEF Fails
  <2>2. x \in Call /\ x.conn = apply[a].conn /\ x.batch = apply[a].batch /\ x.pc = "undo" /\ x.error = e
    <3>1. apply[a] \in Call
      BY Shape
    <3> QED BY <3>1 DEF Call
  <2>3. UNCHANGED <<applying, pending, active, tab, preparing, origin>>
    BY <1>2 DEF Fails, uiVars
  <2> QED BY <1>2, <2>1, <2>2, <2>3
<1> QED BY <1>1, <1>2

\* The session a command is sent on.
Using(s, user) == IF s.state = "closed" THEN [NewSession EXCEPT !.user = user] ELSE [s EXCEPT !.user = user]

\* A command is sent on the session as it is, or on a new one.
LEMMA Sent ==
  ASSUME TInv, NEW c \in Conns, NEW u \in Applies \union {Reader}, Accepts(c, u)
  PROVE  /\ session' = [session EXCEPT ![c] = Using(session[c], u)]
         /\ Using(session[c], u) \in Session
         /\ In(Using(session[c], u).work) \subseteq In(session[c].work)
         /\ session[c].user = None /\ session[c].state # "disposed"
<1>1. session[c] \in Session /\ <<>> \in Seq(Changes)
  BY Shape
<1>2. session' = [session EXCEPT ![c] = Using(session[c], u)] /\ session[c].user = None /\ session[c].state # "disposed"
  BY Shape DEF Accepts, Using
<1>3. CASE session[c].state = "closed"
  <2>1. Using(session[c], u) = [state |-> "open", alive |-> TRUE, user |-> u, inTx |-> FALSE, work |-> <<>>]
    BY <1>3 DEF Using, NewSession
  <2>2. Using(session[c], u) \in Session /\ Using(session[c], u).work = <<>>
    BY <1>1, <2>1 DEF Session
  <2> QED BY <1>2, <2>2, NothingIn
<1>4. CASE session[c].state # "closed"
  <2>1. Using(session[c], u) = [session[c] EXCEPT !.user = u]
    BY <1>4 DEF Using
  <2>2. Using(session[c], u) \in Session /\ Using(session[c], u).work = session[c].work
    BY <1>1, <2>1 DEF Session
  <2> QED BY <1>2, <2>2
<1> QED BY <1>3, <1>4

\* Only an apply in flight makes calls.
LEMMA StepsBusy ==
  ASSUME NEW a \in Applies, CallStep(a)
  PROVE  Busy(a)
BY DEF CallStep, Busy, Send, Refused, Succeeds, Errs, Lost, SendRollback, RollbackRefused, RolledBack, RollbackLost

\* Every call goes on as Becomes says.
LEMMA Effect ==
  ASSUME TInv, NEW a \in Applies, CallStep(a)
  PROVE  \E x \in Call, s \in Session, d \in Seq(Changes) : Becomes(a, x, s, d)
<1> DEFINE c == apply[a].conn
           b == apply[a].batch
<1>0. Busy(a)
  BY StepsBusy
<1>c. /\ c \in Conns /\ b \in Batches /\ apply[a].step \in 0..LastStep /\ apply[a] \in Call
      /\ session[c] \in Session /\ durable[c] \in Seq(Changes)
      /\ session = [session EXCEPT ![c] = session[c]] /\ durable = [durable EXCEPT ![c] = durable[c]]
  BY <1>0, Shape
<1> HIDE DEF c, b
<1>n. <<>> \in Seq(Changes) /\ In(<<>>) = {}
  BY NothingIn
<1>e. ASSUME NEW e \in {"none", "query", "other"}, Ended(a, e), NEW s \in Session, NEW d \in Seq(Changes),
             session' = [session EXCEPT ![c] = s], durable' = [durable EXCEPT ![c] = d],
             In(s.work) \subseteq In(session[c].work) \union {b},
             In(d) \subseteq In(durable[c]) \union In(session[c].work) \union {b}
      PROVE  \E x \in Call : Becomes(a, x, s, d)
  BY <1>e, Ends DEF Becomes, c, b
<1>f. ASSUME NEW e \in {"query", "other"}, Fails(a, e), NEW s \in Session, NEW d \in Seq(Changes),
             session' = [session EXCEPT ![c] = s], durable' = [durable EXCEPT ![c] = d],
             In(s.work) \subseteq In(session[c].work) \union {b},
             In(d) \subseteq In(durable[c]) \union In(session[c].work) \union {b}
      PROVE  \E x \in Call : Becomes(a, x, s, d)
  BY <1>f, FailsOrUndoes DEF Becomes, c, b
<1>1. CASE Send(a)
  <2> DEFINE x == [apply[a] EXCEPT !.pc = "sent", !.asked = apply[a].step = LastStep]
  <2>1. /\ apply' = [apply EXCEPT ![a] = x] /\ Accepts(c, a) /\ UNCHANGED <<active, tab, preparing, pending, origin, applying, durable>>
    BY <1>1, Shape DEF Send, uiVars, c
  <2>2. x \in Call /\ x.conn = c /\ x.batch = b
    BY <1>c DEF Call, c, b
  <2> QED BY <1>c, <2>1, <2>2, Sent DEF Becomes, c, b
<1>2. CASE Refused(a)
  <2>1. Fails(a, "other") /\ UNCHANGED <<session, durable>>
    BY <1>2 DEF Refused
  <2> QED BY <1>c, <1>f, <2>1
<1>3. CASE Succeeds(a)
  <2> DEFINE after == Executed(session[c], durable[c], b, apply[a].step)
             s == [after.s EXCEPT !.user = None]
  <2>1. /\ session' = [session EXCEPT ![c] = s] /\ durable' = [durable EXCEPT ![c] = after.d]
        /\ \/ Ended(a, "none")
           \/ /\ apply' = [apply EXCEPT ![a].pc = "ready", ![a].step = @ + 1]
              /\ apply[a].step # LastStep /\ UNCHANGED <<uiVars, applying>>
    BY <1>3 DEF Succeeds, c, b
  <2>2. /\ after.s \in Session /\ after.d \in Seq(Changes)
        /\ In(after.s.work) \subseteq In(session[c].work) \union {b}
        /\ In(after.d) \subseteq In(durable[c]) \union In(session[c].work) \union {b}
    BY <1>c, ExecutedTypes
  <2> HIDE DEF after
  <2>3. s \in Session /\ s.work = after.s.work
    BY <2>2 DEF Session
  <2> HIDE DEF s
  <2>4. CASE Ended(a, "none")
    BY <1>e, <2>1, <2>2, <2>3, <2>4
  <2>5. CASE /\ apply' = [apply EXCEPT ![a].pc = "ready", ![a].step = @ + 1]
             /\ apply[a].step # LastStep /\ UNCHANGED <<uiVars, applying>>
    <3> DEFINE x == [apply[a] EXCEPT !.pc = "ready", !.step = @ + 1]
    <3>1. apply' = [apply EXCEPT ![a] = x]
      BY <2>5, Shape
    <3>2. apply[a].step + 1 \in 0..LastStep
      BY <1>c, <2>5, DmlAssumption DEF LastStep
    <3>3. x \in Call /\ x.conn = c /\ x.batch = b
      BY <1>c, <3>2 DEF Call, c, b
    <3> HIDE DEF x
    <3> QED BY <2>1, <2>2, <2>3, <2>5, <3>1, <3>3 DEF Becomes, c, b, uiVars
  <2> QED BY <2>1, <2>4, <2>5
<1>4. CASE Errs(a)
  <2>1. /\ Fails(a, "query") /\ UNCHANGED durable
        /\ \/ session' = [session EXCEPT ![c].user = None]
           \/ session' = [session EXCEPT ![c].user = None, ![c].inTx = FALSE, ![c].work = <<>>]
    BY <1>4 DEF Errs, c
  <2>2. PICK s \in Session : session' = [session EXCEPT ![c] = s] /\ In(s.work) \subseteq In(session[c].work)
    <3> DEFINE s1 == [session[c] EXCEPT !.user = None]
               s2 == [session[c] EXCEPT !.user = None, !.inTx = FALSE, !.work = <<>>]
    <3>1. s1 \in Session /\ s1.work = session[c].work /\ s2 \in Session /\ s2.work = <<>>
      BY <1>c, <1>n DEF Session
    <3>2. session' = [session EXCEPT ![c] = s1] \/ session' = [session EXCEPT ![c] = s2]
      BY <1>c, <2>1, Shape
    <3> HIDE DEF s1, s2
    <3> QED BY <1>n, <3>1, <3>2
  <2> QED BY <1>c, <1>f, <2>1, <2>2
<1>5. CASE Lost(a)
  <2> DEFINE after == Executed(session[c], durable[c], b, apply[a].step)
             e == IF session[c].state = "disposed" THEN "other" ELSE "query"
  <2>1. /\ Fails(a, e) /\ session' = [session EXCEPT ![c] = Dead(session[c])]
        /\ UNCHANGED durable \/ durable' = [durable EXCEPT ![c] = after.d]
    BY <1>c, <1>5, Shape DEF Lost, c, b
  <2>2. /\ after.d \in Seq(Changes)
        /\ In(after.d) \subseteq In(durable[c]) \union In(session[c].work) \union {b}
    BY <1>c, ExecutedTypes
  <2>3. Dead(session[c]) \in Session /\ In(Dead(session[c]).work) = {}
    BY <1>c, <1>n, DeadTypes
  <2>4. e \in {"query", "other"}
    OBVIOUS
  <2> HIDE DEF after, e
  <2>5. CASE UNCHANGED durable
    BY <1>c, <1>f, <2>1, <2>3, <2>4, <2>5
  <2>6. CASE durable' = [durable EXCEPT ![c] = after.d]
    BY <1>f, <2>1, <2>2, <2>3, <2>4, <2>6
  <2> QED BY <2>1, <2>5, <2>6
<1>6. CASE SendRollback(a)
  <2> DEFINE x == [apply[a] EXCEPT !.pc = "undoing"]
  <2>1. apply' = [apply EXCEPT ![a] = x] /\ Accepts(c, a) /\ UNCHANGED <<active, tab, preparing, pending, origin, applying, durable>>
    BY <1>6, Shape DEF SendRollback, uiVars, c
  <2>2. x \in Call /\ x.conn = c /\ x.batch = b
    BY <1>c DEF Call, c, b
  <2> QED BY <1>c, <2>1, <2>2, Sent DEF Becomes, c, b
<1>7. CASE RollbackRefused(a)
  <2>1. Ended(a, apply[a].error) /\ UNCHANGED <<session, durable>> /\ apply[a].error \in {"none", "query", "other"}
    BY <1>c, <1>7 DEF RollbackRefused, Call
  <2> QED BY <1>c, <1>e, <2>1
<1>8. CASE RolledBack(a)
  <2> DEFINE s == [session[c] EXCEPT !.user = None, !.inTx = FALSE, !.work = <<>>]
  <2>1. /\ Ended(a, apply[a].error) /\ UNCHANGED durable
        /\ session' = [session EXCEPT ![c].user = None, ![c].inTx = FALSE, ![c].work = <<>>]
    BY <1>8 DEF RolledBack, c
  <2>3. session' = [session EXCEPT ![c] = s]
    BY <1>c, <2>1, Shape
  <2>4. apply[a].error \in {"none", "query", "other"}
    BY <1>c DEF Call
  <2>2. s \in Session /\ In(s.work) = {}
    BY <1>c, <1>n DEF Session
  <2> HIDE DEF s
  <2> QED BY <1>c, <1>e, <2>1, <2>2, <2>3, <2>4
<1>9. CASE RollbackLost(a)
  <2>1. /\ Ended(a, apply[a].error) /\ session' = [session EXCEPT ![c] = Dead(session[c])] /\ UNCHANGED durable
        /\ apply[a].error \in {"none", "query", "other"}
    BY <1>c, <1>9, Shape DEF RollbackLost, Call, c
  <2>2. Dead(session[c]) \in Session /\ In(Dead(session[c]).work) = {}
    BY <1>c, <1>n, DeadTypes
  <2> QED BY <1>c, <1>e, <2>1, <2>2
<1> QED BY <1>1, <1>2, <1>3, <1>4, <1>5, <1>6, <1>7, <1>8, <1>9 DEF CallStep

\* What the others leave of a session.
LEMMA ConnEffect ==
  ASSUME TInv, NEW c \in Conns, ConnStep(c)
  PROVE  /\ \E s \in Session : session' = [session EXCEPT ![c] = s] /\ In(s.work) \subseteq In(session[c].work)
         /\ Bound' \in {Bound, None} /\ tab' \in [Tabs -> Tab]
         /\ UNCHANGED <<active, preparing, pending, origin, applying, apply, durable>>
<1>0. session \in [Conns -> Session] /\ session[c] \in Session /\ <<>> \in Seq(Changes) /\ In(<<>>) = {}
  BY Shape, NothingIn
<1>1. /\ Bound' \in {Bound, None} /\ tab' \in [Tabs -> Tab]
      /\ UNCHANGED <<active, preparing, pending, origin, applying, apply, durable>>
  <2>1. UNCHANGED <<active, preparing, pending, origin, applying, apply, durable>>
    BY DEF ConnStep, ReadStarts, ReadEnds, Drop, Disconnect, uiVars
  <2>2. tab' = tab \/ tab' = [t \in Tabs |-> IF tab[t].conn = c THEN [tab[t] EXCEPT !.conn = None] ELSE tab[t]]
    BY DEF ConnStep, ReadStarts, ReadEnds, Drop, Disconnect, uiVars
  <2>3. \A t \in Tabs : tab[t] \in Tab /\ [tab[t] EXCEPT !.conn = None] \in Tab
                        /\ [tab[t] EXCEPT !.conn = None].conn = None
    BY Shape DEF Tab
  <2>4. tab' \in [Tabs -> Tab] /\ \A t \in Tabs : tab'[t].conn \in {tab[t].conn, None}
    BY <2>2, <2>3, Shape
  <2> QED BY <2>1, <2>4, Shape DEF Bound
<1>2. CASE ReadStarts(c)
  <2>1. Accepts(c, Reader)
    BY <1>2 DEF ReadStarts
  <2> QED BY <1>1, <2>1, Sent
<1>3. CASE ReadEnds(c)
  <2> DEFINE s1 == [session[c] EXCEPT !.user = None]
             s2 == Dead(session[c])
  <2>1. session' = [session EXCEPT ![c] = s1] \/ session' = [session EXCEPT ![c] = s2]
    BY <1>0, <1>3 DEF ReadEnds
  <2>2. s1 \in Session /\ s1.work = session[c].work
    BY <1>0 DEF Session
  <2>3. s2 \in Session /\ In(s2.work) = {}
    BY <1>0, DeadTypes
  <2> HIDE DEF s1, s2
  <2> QED BY <1>1, <2>1, <2>2, <2>3
<1>4. CASE Drop(c)
  <2> DEFINE s == [Dead(session[c]) EXCEPT !.state = session[c].state]
  <2>1. session' = [session EXCEPT ![c] = s]
    BY <1>0, <1>4 DEF Drop
  <2>2. s \in Session /\ s.work = <<>>
    <3>1. Dead(session[c]) \in Session /\ Dead(session[c]).work = <<>>
      BY <1>0, DeadTypes
    <3>2. session[c].state \in {"open", "closed", "disposed"}
      BY <1>0 DEF Session
    <3> HIDE DEF Dead
    <3> QED BY <3>1, <3>2 DEF Session
  <2> HIDE DEF s
  <2> QED BY <1>0, <1>1, <2>1, <2>2
<1>5. CASE Disconnect(c)
  <2> DEFINE s1 == [session[c] EXCEPT !.state = "disposed"]
  <2>1. session' = [session EXCEPT ![c] = Dead(s1)] \/ session' = [session EXCEPT ![c] = s1]
    BY <1>0, <1>5 DEF Disconnect
  <2>2. s1 \in Session /\ s1.work = session[c].work
    BY <1>0 DEF Session
  <2> HIDE DEF s1
  <2>3. Dead(s1) \in Session /\ In(Dead(s1).work) = {}
    BY <1>0, <2>2, DeadTypes
  <2> QED BY <1>1, <2>1, <2>2, <2>3
<1> QED BY <1>2, <1>3, <1>4, <1>5 DEF ConnStep

\* A confirmation.
LEMMA ConfirmEffect ==
  ASSUME TInv, NEW a \in Applies, Confirm(a)
  PROVE  /\ \E x \in Call : /\ x = [apply[a] EXCEPT !.pc = "ready", !.conn = Bound, !.batch = pending]
                            /\ apply' = [apply EXCEPT ![a] = x]
                            /\ x.pc = "ready" /\ x.conn = Bound /\ x.batch = pending /\ x.step = apply[a].step
         /\ Bound \in Conns /\ session[Bound].state # "disposed" /\ pending \in Batches /\ applying' = TRUE
         /\ Bound' = Bound
         /\ UNCHANGED <<active, tab, preparing, pending, origin, session, durable>>
<1> DEFINE x == [apply[a] EXCEPT !.pc = "ready", !.conn = Bound, !.batch = pending]
<1>1. /\ Bound \in Conns /\ session[Bound].state # "disposed"
      /\ pending \in Batches /\ apply[a] \in Call /\ apply \in [Applies -> Call]
  BY Shape DEF Confirm, Connected
<1>2. x \in Call /\ x.pc = "ready" /\ x.conn = Bound /\ x.batch = pending /\ x.step = apply[a].step
  BY <1>1 DEF Call
<1>3. apply' = [apply EXCEPT ![a] = x]
  BY <1>1 DEF Confirm
<1>4. applying' = TRUE /\ UNCHANGED <<active, tab, preparing, pending, origin, session, durable>>
  BY DEF Confirm, uiVars
<1>5. Bound' = Bound
  BY <1>4 DEF Bound
<1> QED BY <1>1, <1>2, <1>3, <1>4, <1>5

\* Type correctness is inductive by itself.
LEMMA Typed == TInv /\ [Next]_vars => TInv'
<1> SUFFICES ASSUME TInv, [Next]_vars PROVE TInv'
  OBVIOUS
<1>1. CASE UiStep
  <2>1. /\ active' \in Tabs /\ tab' \in [Tabs -> Tab] /\ preparing' \in Batches \union {None}
        /\ pending' \in Batches \union {None} /\ origin' \in [Batches -> Conns \union {None}]
    <3>1. CASE \E t \in Tabs : SwitchTab(t)
      BY <3>1, Shape DEF SwitchTab
    <3>2. CASE Load
      <4>1. PICK l \in {Bound, None} : tab' = [tab EXCEPT ![active] = [tab[active] EXCEPT !.loaded = l]]
        BY <3>2, Shape DEF Load
      <4>2. [tab[active] EXCEPT !.loaded = l] \in Tab
        BY Shape DEF Tab
      <4> QED BY <3>2, <4>1, <4>2, Shape DEF Load
    <3>3. ASSUME NEW t \in Tabs, NEW c \in Conns \union {None}, Bind(t, c)
          PROVE  /\ active' \in Tabs /\ tab' \in [Tabs -> Tab] /\ preparing' \in Batches \union {None}
                 /\ pending' \in Batches \union {None} /\ origin' \in [Batches -> Conns \union {None}]
      <4>1. tab' = [tab EXCEPT ![t] = [tab[t] EXCEPT !.conn = c]]
        BY <3>3, Shape DEF Bind
      <4>2. [tab[t] EXCEPT !.conn = c] \in Tab
        BY Shape DEF Tab
      <4> QED BY <3>3, <4>1, <4>2, Shape DEF Bind
    <3>4. CASE \E b \in Batches : Prepare(b)
      BY <3>4, Shape DEF Prepare
    <3>5. CASE Prepared
      BY <3>5, Shape DEF Prepared
    <3>6. CASE CancelApply
      BY <3>6, Shape DEF CancelApply
    <3> QED BY <1>1, <3>1, <3>2, <3>3, <3>4, <3>5, <3>6 DEF UiStep
  <2>2. UNCHANGED <<applying, apply, session, durable>>
    BY <1>1 DEF UiStep, SwitchTab, Load, Bind, Prepare, Prepared, CancelApply
  <2> QED BY <2>1, <2>2 DEF TInv, TypeOK, Captured, Busy
<1>2. ASSUME NEW a \in Applies, Confirm(a) PROVE TInv'
  <2>1. PICK x \in Call : apply' = [apply EXCEPT ![a] = x] /\ x.conn \in Conns /\ x.batch \in Batches
    BY <1>2, ConfirmEffect
  <2>2. applying' = TRUE /\ UNCHANGED <<active, tab, preparing, pending, origin, session, durable>>
    BY <1>2, ConfirmEffect
  <2> QED BY <2>1, <2>2 DEF TInv, TypeOK, Captured, Busy
<1>3. ASSUME NEW a \in Applies, CallStep(a) PROVE TInv'
  <2>1. PICK x \in Call, s \in Session, d \in Seq(Changes) : Becomes(a, x, s, d)
    BY <1>3, Effect
  <2>2. Busy(a)
    BY <1>3, StepsBusy
  <2>3. /\ apply' = [apply EXCEPT ![a] = x] /\ x.conn = apply[a].conn /\ x.batch = apply[a].batch
        /\ session' = [session EXCEPT ![apply[a].conn] = s] /\ durable' = [durable EXCEPT ![apply[a].conn] = d]
        /\ pending' \in {pending, None} /\ applying' \in {applying, FALSE} /\ UNCHANGED <<active, tab, preparing, origin>>
    BY <2>1 DEF Becomes
  <2>4. TypeOK'
    BY <2>3 DEF TInv, TypeOK
  <2>5. Captured'
    BY <2>2, <2>3 DEF TInv, TypeOK, Captured, Busy
  <2> QED BY <2>4, <2>5 DEF TInv
<1>4. ASSUME NEW c \in Conns, ConnStep(c) PROVE TInv'
  <2>1. /\ \E s \in Session : session' = [session EXCEPT ![c] = s]
        /\ tab' \in [Tabs -> Tab]
        /\ UNCHANGED <<active, preparing, pending, origin, applying, apply, durable>>
    BY <1>4, ConnEffect
  <2> QED BY <2>1 DEF TInv, TypeOK, Captured, Busy
<1>5. CASE UNCHANGED vars
  BY <1>5 DEF TInv, TypeOK, Captured, Busy, vars, uiVars
<1> QED BY <1>1, <1>2, <1>3, <1>4, <1>5, Steps

\* Every reachable state is well typed, whatever overlaps happen.
THEOREM TypeCorrect == Spec => []TypeOK
<1>1. TInv => TypeOK
  BY DEF TInv
<1> QED BY <1>1, TypeInit, Typed, PTL DEF Spec

----------------------------------------------------------------------------
(* Changes go to the connection their rows were read from *)

\* Under a preview the active tab, and the connection it is bound to, stay as they are, but for
\* being unbound.
Steady == "switch while previewing" \notin Allowed /\ "rebind while previewing" \notin Allowed

\* Rows are not previewed in a tab that has been bound to another connection than theirs.
OwnRows == "edit after rebinding" \notin Allowed

\* Wherever a batch is, it is on its way to the connection its rows were read from.
RInv ==
    /\ preparing # None => Bound \in {None, origin[preparing]}
    /\ pending # None => Bound \in {None, origin[pending]}
    /\ \A a \in Applies : Busy(a) => origin[apply[a].batch] = apply[a].conn
    /\ \A c \in Conns : \A b \in In(session[c].work) \union In(durable[c]) : origin[b] = c

\* What a step of a tab leaves.
LEMMA TabEffect ==
  ASSUME TInv, TabStep
  PROVE  /\ UNCHANGED <<preparing, pending, origin, applying, apply, session, durable>>
         /\ Steady /\ Previewing => Bound' \in {Bound, None}
<1>1. UNCHANGED <<preparing, pending, origin, applying, apply, session, durable>>
  BY DEF TabStep, SwitchTab, Load, Bind
<1>2. ASSUME Steady, Previewing, NEW t \in Tabs, SwitchTab(t) PROVE FALSE
  BY <1>2, Zenon DEF SwitchTab, MaySwitch, May, Steady
<1>3. CASE Load
  <2>1. PICK l : tab' = [tab EXCEPT ![active] = [tab[active] EXCEPT !.loaded = l]]
    BY <1>3, Shape DEF Load
  <2>2. active' = active /\ tab'[active] = [tab[active] EXCEPT !.loaded = l]
    BY <1>3, <2>1, Shape DEF Load
  <2>3. [tab[active] EXCEPT !.loaded = l].conn = tab[active].conn
    BY Shape DEF Tab
  <2> QED BY <1>1, <2>2, <2>3 DEF Bound
<1>4. ASSUME Steady, Previewing, NEW t \in Tabs, NEW c \in Conns \union {None}, Bind(t, c)
      PROVE  Bound' \in {Bound, None}
  <2>1. active' = active /\ MayBind(t, c) /\ tab' = [tab EXCEPT ![t] = [tab[t] EXCEPT !.conn = c]]
    BY <1>4, Shape DEF Bind
  <2>2. t # active \/ c = None
    BY <1>4, <2>1, Zenon DEF MayBind, May, Steady
  <2>3. CASE t # active
    BY <2>1, <2>3, Shape DEF Bound
  <2>4. CASE t = active /\ c = None
    <3>1. tab'[active] = [tab[active] EXCEPT !.conn = None]
      BY <2>1, <2>4, Shape
    <3>2. [tab[active] EXCEPT !.conn = None].conn = None
      BY Shape DEF Tab
    <3> QED BY <2>1, <3>1, <3>2 DEF Bound
  <2> QED BY <2>2, <2>3, <2>4
<1> QED BY <1>1, <1>2, <1>3, <1>4 DEF TabStep

\* Changes name batches.
LEMMA BatchesIn ==
  ASSUME NEW s \in Seq(Changes)
  PROVE  In(s) \subseteq Batches
<1> SUFFICES ASSUME NEW i \in DOMAIN s PROVE s[i][1] \in Batches
  BY DEF In
<1>1. s[i] \in Changes
  OBVIOUS
<1> QED BY <1>1 DEF Changes

LEMMA LogsIn ==
  ASSUME TInv
  PROVE  \A c \in Conns : In(session[c].work) \union In(durable[c]) \subseteq Batches
<1> SUFFICES ASSUME NEW c \in Conns PROVE In(session[c].work) \union In(durable[c]) \subseteq Batches
  OBVIOUS
<1>1. session[c].work \in Seq(Changes) /\ durable[c] \in Seq(Changes)
  BY Shape DEF Session
<1> QED BY <1>1, BatchesIn

LEMMA RightInit == Init => RInv
<1> SUFFICES ASSUME Init PROVE RInv
  OBVIOUS
<1>1. preparing = None /\ pending = None /\ \A a \in Applies : ~Busy(a)
  BY DEF Init, Busy
<1>2. \A c \in Conns : session[c].work = <<>> /\ durable[c] = <<>>
  BY DEF Init, NewSession
<1> QED BY <1>1, <1>2, NothingIn DEF RInv

\* No step sends a batch elsewhere; a switch of tabs, or another connection, under the preview would.
LEMMA RightKept ==
  ASSUME Steady, OwnRows, TInv, TInv', RInv, [Next]_vars
  PROVE  RInv'
<1>0. \A c \in Conns : In(session[c].work) \union In(durable[c]) \subseteq Batches
  BY LogsIn
<1>1. ASSUME NEW b \in Batches, Prepare(b) PROVE RInv'
  <2>1. /\ preparing = None /\ pending = None /\ origin[b] = None /\ Loaded # None /\ MayPrepare
        /\ preparing' = b /\ origin' = [origin EXCEPT ![b] = Loaded]
        /\ UNCHANGED <<active, tab, pending, apply, session, durable>>
    BY <1>1 DEF Prepare, Previewing
  <2>2. origin'[b] = Loaded /\ \A e \in Batches \ {b} : origin'[e] = origin[e]
    BY <2>1, Shape
  <2>3. ASSUME NEW a \in Applies, Busy(a) PROVE origin'[apply[a].batch] = apply[a].conn
    <3>1. apply[a].batch \in Batches /\ origin[apply[a].batch] = apply[a].conn /\ apply[a].conn # None
      BY <2>3, Shape DEF RInv
    <3> QED BY <2>1, <2>2, <3>1
  <2>4. ASSUME NEW c \in Conns, NEW e \in In(session[c].work) \union In(durable[c]) PROVE origin'[e] = c
    <3>1. e \in Batches /\ origin[e] = c /\ c # None
      BY <1>0, Shape DEF RInv
    <3> QED BY <2>1, <2>2, <3>1
  <2>5. Bound \in {None, Loaded}
    BY <2>1, Zenon DEF MayPrepare, May, OwnRows
  <2>6. Bound' = Bound
    BY <2>1 DEF Bound
  <2> QED BY <2>1, <2>2, <2>3, <2>4, <2>5, <2>6 DEF RInv, Busy
<1>2. CASE Prepared
  <2>1. /\ preparing # None /\ pending' = preparing /\ preparing' = None /\ Bound' = Bound
        /\ UNCHANGED <<origin, apply, session, durable>>
    BY <1>2 DEF Prepared, Bound
  <2> QED BY <2>1 DEF RInv, Busy
<1>3. CASE CancelApply
  BY <1>3 DEF CancelApply, RInv, Busy, Bound
<1>4. CASE TabStep
  <2>1. UNCHANGED <<preparing, pending, origin, apply, session, durable>>
    BY <1>4, TabEffect
  <2>2. Previewing => Bound' \in {Bound, None}
    BY <1>4, TabEffect
  <2> QED BY <2>1, <2>2 DEF RInv, Busy, Previewing
<1>5. ASSUME NEW a \in Applies, Confirm(a) PROVE RInv'
  <2>1. PICK x \in Call : apply' = [apply EXCEPT ![a] = x] /\ x.conn = Bound /\ x.batch = pending
    BY <1>5, ConfirmEffect
  <2>2. /\ pending # None /\ Bound \in Conns /\ Bound' = Bound
        /\ UNCHANGED <<active, tab, preparing, pending, origin, session, durable>>
    BY <1>5, ConfirmEffect DEF Confirm
  <2>3. ASSUME NEW e \in Applies, Busy(e)' PROVE origin[apply'[e].batch] = apply'[e].conn
    <3>1. CASE e = a
      BY <2>1, <2>2, <3>1, Shape DEF RInv
    <3>2. CASE e # a
      BY <2>1, <2>3, <3>2, Shape DEF RInv, Busy
    <3> QED BY <3>1, <3>2
  <2> QED BY <2>2, <2>3 DEF RInv
<1>6. ASSUME NEW a \in Applies, CallStep(a) PROVE RInv'
  <2> DEFINE c == apply[a].conn
             b == apply[a].batch
  <2>1. PICK x \in Call, s \in Session, d \in Seq(Changes) : Becomes(a, x, s, d)
    BY <1>6, Effect
  <2>2. c \in Conns /\ origin[b] = c
    BY <1>6, StepsBusy, Shape DEF RInv
  <2>3. /\ \A e \in Applies \ {a} : apply'[e] = apply[e]
        /\ apply'[a].conn = c /\ apply'[a].batch = b
        /\ \A e \in Conns \ {c} : session'[e] = session[e] /\ durable'[e] = durable[e]
        /\ session'[c] = s /\ durable'[c] = d
        /\ pending' \in {pending, None} /\ Bound' = Bound /\ UNCHANGED <<active, tab, preparing, origin>>
    BY <2>1, <2>2, Shape DEF Becomes, Bound
  <2>4. In(s.work) \union In(d) \subseteq In(session[c].work) \union In(durable[c]) \union {b}
    BY <2>1 DEF Becomes
  <2> HIDE DEF c, b
  <2>5. ASSUME NEW e \in Applies, Busy(e)' PROVE origin[apply'[e].batch] = apply'[e].conn
    <3>1. CASE e = a
      BY <2>2, <2>3, <3>1
    <3>2. CASE e # a
      BY <2>3, <2>5, <3>2 DEF RInv, Busy
    <3> QED BY <3>1, <3>2
  <2>6. ASSUME NEW e \in Conns, NEW m \in In(session'[e].work) \union In(durable'[e]) PROVE origin[m] = e
    <3>1. CASE e = c
      BY <2>2, <2>3, <2>4, <3>1 DEF RInv
    <3>2. CASE e # c
      BY <2>3, <3>2 DEF RInv
    <3> QED BY <3>1, <3>2
  <2> QED BY <2>3, <2>5, <2>6 DEF RInv
<1>7. ASSUME NEW c \in Conns, ConnStep(c) PROVE RInv'
  <2>1. PICK s \in Session : session' = [session EXCEPT ![c] = s] /\ In(s.work) \subseteq In(session[c].work)
    BY <1>7, ConnEffect
  <2>2. Bound' \in {Bound, None} /\ UNCHANGED <<preparing, pending, origin, apply, durable>>
    BY <1>7, ConnEffect
  <2>3. session'[c] = s /\ \A e \in Conns \ {c} : session'[e] = session[e]
    BY <2>1, Shape
  <2>4. ASSUME NEW e \in Conns, NEW m \in In(session'[e].work) \union In(durable'[e]) PROVE origin[m] = e
    <3>1. CASE e = c
      BY <2>1, <2>2, <2>3, <3>1 DEF RInv
    <3>2. CASE e # c
      BY <2>2, <2>3, <3>2 DEF RInv
    <3> QED BY <3>1, <3>2
  <2> QED BY <2>2, <2>4 DEF RInv, Busy
<1>8. CASE UNCHANGED vars
  BY <1>8 DEF RInv, Busy, Bound, vars, uiVars
<1> QED BY <1>1, <1>2, <1>3, <1>4, <1>5, <1>6, <1>7, <1>8, Steps DEF UiStep, TabStep

\* ConfirmApplyAsync takes the connection the active tab is bound to when it is called: as long as no
\* tab is switched or bound to another connection under a preview, and no rows are edited in a tab that
\* has been bound to another connection than theirs, changes reach only the connection their rows were
\* read from, whatever else uses or closes it meanwhile.
THEOREM ChangesReachTheirOwnConnection ==
  ASSUME Steady, OwnRows
  PROVE  Spec => []RightConnection
<1>1. Init => TInv /\ RInv
  BY TypeInit, RightInit
<1>2. TInv /\ RInv /\ [Next]_vars => (TInv /\ RInv)'
  BY Typed, RightKept
<1>3. RInv => RightConnection
  BY DEF RInv, RightConnection, In
<1> QED BY <1>1, <1>2, <1>3, PTL DEF Spec

----------------------------------------------------------------------------
(* Undisturbed, an apply is atomic *)

\* Nothing else uses the connection, and the preview is confirmed once.
Undisturbed == "read while applying" \notin Allowed /\ "confirm twice" \notin Allowed

\* The first n commands of batch b.
Work(b, n) == [k \in 1..n |-> <<b, k>>]

\* A session: work is kept only in a transaction, a transaction only while the session lives.
Sound(s) ==
    /\ ~s.alive => ~s.inTx
    /\ ~s.inTx => s.work = <<>>
    /\ s.state = "closed" => ~s.alive
    /\ s.state = "disposed" /\ s.user = None => ~s.alive

\* Apply x believes its session s is at the step where it is, or the session is dead and will say so.
Fit(x, s) ==
    /\ x.pc \in {"ready", "sent"} /\ s.alive =>
          IF x.step = 0 THEN ~s.inTx ELSE s.inTx /\ s.work = Work(x.batch, x.step - 1)
    /\ x.pc \in {"ready", "sent"} /\ x.step # 0 => s.state # "closed"

Calling(x) == x.pc \in {"sent", "undoing"}

\* At most one apply is in flight, its session fits it, and a transaction, like the use of a
\* connection, is its own.
AInv ==
    /\ \A a, e \in Applies : Busy(a) /\ Busy(e) => a = e
    /\ \A a \in Applies : /\ Busy(a) => applying /\ Fit(apply[a], session[apply[a].conn])
                          /\ Calling(apply[a]) => session[apply[a].conn].user = a
                          /\ apply[a].pc = "idle" => apply[a].step = 0
    /\ \A c \in Conns : /\ Sound(session[c])
                        /\ session[c].inTx => ApplyingOn(c)
                        /\ session[c].user = Reader => ~ApplyingOn(c)
                        /\ session[c].user \in Applies => /\ Calling(apply[session[c].user])
                                                          /\ apply[session[c].user].conn = c

LEMMA AtomicInit == Init => AInv
<1> SUFFICES ASSUME Init PROVE AInv
  OBVIOUS
<1>1. \A a \in Applies : apply[a].pc = "idle" /\ apply[a].step = 0
  BY DEF Init
<1>2. \A c \in Conns : /\ session[c].state = "open" /\ session[c].alive /\ session[c].user = None
                       /\ ~session[c].inTx /\ session[c].work = <<>>
  BY DEF Init, NewSession
<1> QED BY <1>1, <1>2, DmlAssumption DEF AInv, Busy, Calling, Sound

LEMMA WorkStarts == \A b : Work(b, 0) = <<>>
BY DEF Work

\* Command k follows the first k - 1.
LEMMA WorkGrows ==
  ASSUME NEW b \in Batches, NEW k \in 1..Size
  PROVE  Append(Work(b, k - 1), <<b, k>>) = Work(b, k)
<1>1. k \in Nat /\ k - 1 \in Nat
  BY DmlAssumption
<1>2. Work(b, k - 1) \in Seq({b} \X Nat) /\ Len(Work(b, k - 1)) = k - 1
  BY <1>1 DEF Work
<1>3. Work(b, k) \in Seq({b} \X Nat) /\ Len(Work(b, k)) = k
  BY <1>1 DEF Work
<1>4. <<b, k>> \in {b} \X Nat
  BY <1>1
<1>5. /\ Append(Work(b, k - 1), <<b, k>>) \in Seq({b} \X Nat)
      /\ Len(Append(Work(b, k - 1), <<b, k>>)) = k
  BY <1>1, <1>2, <1>4
<1>6. ASSUME NEW i \in 1..k PROVE Append(Work(b, k - 1), <<b, k>>)[i] = Work(b, k)[i]
  <2>1. Work(b, k)[i] = <<b, i>>
    BY <1>1 DEF Work
  <2>2. CASE i = k
    BY <1>1, <1>2, <1>4, <2>1, <2>2
  <2>3. CASE i # k
    <3>1. i \in 1..(k - 1)
      BY <1>1, <2>3
    <3>2. Work(b, k - 1)[i] = <<b, i>>
      BY <3>1 DEF Work
    <3> QED BY <1>1, <1>2, <1>4, <2>1, <3>1, <3>2
  <2> QED BY <2>2, <2>3
<1> QED BY <1>3, <1>5, <1>6, SeqEqual

\* The only apply in flight, and the only user of its connection.
LEMMA Alone ==
  ASSUME TInv, AInv, NEW a \in Applies, Busy(a)
  PROVE  /\ \A e \in Applies \ {a} : ~Busy(e)
         /\ session[apply[a].conn].user = IF Calling(apply[a]) THEN a ELSE None
         /\ \A c \in Conns \ {apply[a].conn} : ~ApplyingOn(c) /\ session[c].user \notin Applies
<1>1. \A e \in Applies \ {a} : ~Busy(e)
  BY DEF AInv
<1>2. \A e \in Applies : Calling(apply[e]) => Busy(e)
  BY DEF Calling, Busy
<1>3. \A c \in Conns \ {apply[a].conn} : ~ApplyingOn(c) /\ session[c].user \notin Applies
  BY <1>1, <1>2 DEF AInv, ApplyingOn
<1>4. session[apply[a].conn].user = IF Calling(apply[a]) THEN a ELSE None
  <2>1. apply[a].conn \in Conns /\ session[apply[a].conn].user \in Applies \union {Reader, None}
    BY Shape DEF Session
  <2>2. session[apply[a].conn].user # Reader
    BY <2>1 DEF AInv, ApplyingOn
  <2>3. session[apply[a].conn].user \in Applies =>
           Calling(apply[session[apply[a].conn].user]) /\ session[apply[a].conn].user = a
    BY <1>1, <1>2, <2>1 DEF AInv
  <2>4. Calling(apply[a]) => session[apply[a].conn].user = a
    BY DEF AInv
  <2> QED BY <2>1, <2>2, <2>3, <2>4
<1> QED BY <1>1, <1>3, <1>4

\* An apply that goes on, or ends with no transaction left.
LEMMA AtomicCall ==
  ASSUME TInv, AInv, NEW a \in Applies, Busy(a), NEW x \in Call, NEW s \in Session,
         apply' = [apply EXCEPT ![a] = x], session' = [session EXCEPT ![apply[a].conn] = s],
         x.conn = apply[a].conn, Sound(s),
         \/ /\ x.pc \in {"ready", "sent", "undo", "undoing"} /\ Fit(x, s)
            /\ s.user = IF Calling(x) THEN a ELSE None
            /\ applying' = applying
         \/ x.pc = "done" /\ ~s.inTx /\ s.user = None
  PROVE  AInv'
<1> DEFINE c == apply[a].conn
<1>1. /\ \A e \in Applies \ {a} : apply'[e] = apply[e] /\ ~Busy(e) /\ ~Busy(e)' /\ ~Calling(apply'[e])
      /\ apply'[a] = x /\ x.conn = c /\ c \in Conns
      /\ \A e \in Conns \ {c} : session'[e] = session[e] /\ ~ApplyingOn(e) /\ session[e].user \notin Applies
      /\ session'[c] = s
      /\ a # None /\ a # Reader /\ applying /\ None # Reader /\ None \notin Applies
  <2>1. applying
    BY DEF AInv
  <2>2. \A e \in Applies \ {a} : apply'[e] = apply[e] /\ ~Busy(e)
    BY Alone, Shape
  <2>3. \A e \in Applies \ {a} : ~Busy(e)' /\ ~Calling(apply'[e])
    BY <2>2 DEF Busy, Calling
  <2> QED BY <2>1, <2>2, <2>3, Alone, Shape
<1> HIDE DEF c
<1>2. Busy(a)' <=> x.pc \in {"ready", "sent", "undo", "undoing"}
  BY <1>1 DEF Busy, Call
<1>3. \A e \in Conns \ {c} : ~ApplyingOn(e)'
  BY <1>1 DEF ApplyingOn
<1>4. \A e \in Conns : e = c => (ApplyingOn(e)' <=> Busy(a)')
  BY <1>1 DEF ApplyingOn
<1>5. ASSUME NEW e \in Applies
      PROVE  /\ Busy(e)' => applying' /\ Fit(apply'[e], session'[apply'[e].conn])
             /\ Calling(apply'[e]) => session'[apply'[e].conn].user = e
             /\ apply'[e].pc = "idle" => apply'[e].step = 0
  <2>1. CASE e = a
    BY <1>1, <1>2, <2>1 DEF Calling
  <2>2. CASE e # a
    BY <1>1, <2>2 DEF AInv
  <2> QED BY <2>1, <2>2
<1>6. ASSUME NEW e \in Conns
      PROVE  /\ Sound(session'[e])
             /\ session'[e].inTx => ApplyingOn(e)'
             /\ session'[e].user = Reader => ~ApplyingOn(e)'
             /\ session'[e].user \in Applies => /\ Calling(apply'[session'[e].user])
                                                /\ apply'[session'[e].user].conn = e
  <2>1. CASE e = c
    <3>1. s.user = (IF Calling(x) THEN a ELSE None) /\ (s.inTx => Busy(a)')
      BY <1>2 DEF Calling
    <3>2. session'[e] = s /\ s.user # Reader /\ (s.inTx => ApplyingOn(e)')
      BY <1>1, <1>4, <2>1, <3>1
    <3>3. s.user \in Applies => s.user = a /\ Calling(x)
      BY <1>1, <3>1
    <3> HIDE DEF Calling
    <3> QED BY <1>1, <2>1, <3>2, <3>3
  <2>2. CASE e # c
    BY <1>1, <1>3, <2>2 DEF AInv
  <2> QED BY <2>1, <2>2
<1>7. \A d, e \in Applies : Busy(d)' /\ Busy(e)' => d = e
  BY <1>1
<1> QED BY <1>5, <1>6, <1>7 DEF AInv

\* Each call keeps apply and session in step.
LEMMA AtomicCallStep ==
  ASSUME TInv, AInv, NEW a \in Applies, CallStep(a)
  PROVE  AInv'
<1> DEFINE c == apply[a].conn
           b == apply[a].batch
           k == apply[a].step
<1>0. /\ Busy(a) /\ c \in Conns /\ b \in Batches /\ k \in 0..LastStep /\ apply[a] \in Call
      /\ apply \in [Applies -> Call] /\ session \in [Conns -> Session]
      /\ session[c] \in Session /\ session = [session EXCEPT ![c] = session[c]]
  BY StepsBusy, Shape
<1>1. Sound(session[c]) /\ Fit(apply[a], session[c]) /\ session[c].user = IF Calling(apply[a]) THEN a ELSE None
  BY <1>0, Alone DEF AInv
<1>d. /\ Dead(session[c]) \in Session /\ Sound(Dead(session[c])) /\ ~Dead(session[c]).inTx
      /\ Dead(session[c]).user = None
  BY <1>0, DeadTypes DEF Sound
<1> HIDE DEF c, b, k
<1>e. ASSUME NEW e \in {"none", "query", "other"}, Ended(a, e), NEW s \in Session,
             session' = [session EXCEPT ![c] = s], Sound(s), ~s.inTx, s.user = None
      PROVE  AInv'
  <2>1. PICK x \in Call : apply' = [apply EXCEPT ![a] = x] /\ x.conn = c /\ x.pc = "done"
    BY <1>e, Ends DEF c
  <2> QED BY <1>0, <1>e, <2>1, AtomicCall DEF c
<1>f. ASSUME NEW e \in {"query", "other"}, Fails(a, e), NEW s \in Session,
             session' = [session EXCEPT ![c] = s], Sound(s), k = 0 => ~s.inTx, s.user = None
      PROVE  AInv'
  <2>1. PICK x \in Call : /\ apply' = [apply EXCEPT ![a] = x] /\ x.conn = c
                          /\ (k = 0 /\ x.pc = "done") \/ (x.pc = "undo" /\ applying' = applying)
    <3>1. PICK x \in Call :
            /\ apply' = [apply EXCEPT ![a] = x]
            /\ x.conn = apply[a].conn /\ x.batch = apply[a].batch /\ x.error = e
            /\ \/ apply[a].step = 0 /\ x.pc = "done" /\ applying' = FALSE
                  /\ pending' = IF e = "other" THEN pending ELSE None
               \/ apply[a].step # 0 /\ x.pc = "undo" /\ UNCHANGED <<applying, pending>>
            /\ UNCHANGED <<active, tab, preparing, origin>>
      BY <1>f, FailsOrUndoes
    <3> WITNESS x \in Call
    <3> QED BY <3>1 DEF c, k
  <2>2. CASE k = 0 /\ x.pc = "done"
    BY <1>0, <1>f, <2>1, <2>2, AtomicCall DEF c
  <2>3. CASE x.pc = "undo" /\ applying' = applying
    <3>1. Fit(x, s) /\ ~Calling(x)
      BY <2>3 DEF Fit, Calling
    <3> QED BY <1>0, <1>f, <2>1, <2>3, <3>1, AtomicCall DEF c
  <2> QED BY <2>1, <2>2, <2>3
<1>u. ASSUME Accepts(c, a) PROVE Sound(Using(session[c], a)) /\ Using(session[c], a).user = a
  <2>1. CASE session[c].state = "closed"
    <3>1. Using(session[c], a) = [state |-> "open", alive |-> TRUE, user |-> a, inTx |-> FALSE, work |-> <<>>]
      BY <2>1 DEF Using, NewSession
    <3> QED BY <3>1 DEF Sound
  <2>2. CASE session[c].state # "closed"
    <3>1. Using(session[c], a) = [session[c] EXCEPT !.user = a]
      BY <2>2 DEF Using
    <3>2. session[c].state # "disposed"
      BY <1>u DEF Accepts
    <3> QED BY <1>0, <1>1, <3>1, <3>2 DEF Sound, Session
  <2> QED BY <2>1, <2>2
<1>2. CASE Send(a)
  <2> DEFINE x == [apply[a] EXCEPT !.pc = "sent", !.asked = apply[a].step = LastStep]
  <2>1. /\ apply' = [apply EXCEPT ![a] = x] /\ Accepts(c, a) /\ applying' = applying /\ apply[a].pc = "ready"
    BY <1>0, <1>2 DEF Send, c
  <2>2. x \in Call /\ x.conn = c /\ x.batch = b /\ x.step = k /\ x.pc = "sent"
    BY <1>0 DEF Call, c, b, k
  <2> HIDE DEF x
  <2> DEFINE s == Using(session[c], a)
  <2>3. s \in Session /\ session' = [session EXCEPT ![c] = s]
    BY <1>0, <2>1, Sent
  <2>4. Fit(x, s)
    <3>1. CASE session[c].state = "closed"
      <4>1. k = 0
        BY <1>1, <2>1, <3>1 DEF Fit, k
      <4>2. s = [state |-> "open", alive |-> TRUE, user |-> a, inTx |-> FALSE, work |-> <<>>]
        BY <3>1 DEF Using, NewSession
      <4> HIDE DEF s
      <4> QED BY <2>2, <4>1, <4>2 DEF Fit
    <3>2. CASE session[c].state # "closed"
      <4>1. s = [session[c] EXCEPT !.user = a]
        BY <3>2 DEF Using
      <4> HIDE DEF s
      <4>2. s.alive = session[c].alive /\ s.inTx = session[c].inTx /\ s.work = session[c].work /\ s.state = session[c].state
        BY <1>0, <4>1 DEF Session
      <4> QED BY <1>1, <2>1, <2>2, <3>2, <4>2 DEF Fit, b, k
    <3> QED BY <3>1, <3>2
  <2>5. Sound(s) /\ s.user = a
    BY <1>u, <2>1
  <2> HIDE DEF s
  <2>6. Calling(x)
    BY <2>2 DEF Calling
  <2> QED BY <1>0, <2>1, <2>2, <2>3, <2>4, <2>5, <2>6, AtomicCall DEF c
<1>3. CASE Refused(a)
  <2>1. Fails(a, "other") /\ session' = session /\ apply[a].pc = "ready"
    BY <1>3 DEF Refused
  <2>2. (k = 0 => ~session[c].inTx) /\ session[c].user = None
    BY <1>1, <2>1 DEF Fit, Sound, Calling, k
  <2> QED BY <1>0, <1>1, <1>f, <2>1, <2>2
<1>4. CASE Succeeds(a)
  <2> DEFINE s0 == session[c]
             after == Executed(session[c], durable[c], b, k)
             s == [after.s EXCEPT !.user = None]
  <2>1. /\ apply[a].pc = "sent" /\ Healthy(c) /\ session' = [session EXCEPT ![c] = s]
        /\ IF k = LastStep THEN Ended(a, "none")
           ELSE /\ apply' = [apply EXCEPT ![a].pc = "ready", ![a].step = @ + 1]
                /\ applying' = applying
    BY <1>4 DEF Succeeds, c, b, k
  <2>2. s0.alive /\ s0.state = "open" /\ (k = 0 => ~s0.inTx) /\ (k # 0 => s0.inTx /\ s0.work = Work(b, k - 1))
    BY <1>1, <2>1 DEF Fit, Healthy, k, b
  <2>3. CASE k = LastStep
    <3>1. after.s = [s0 EXCEPT !.inTx = FALSE, !.work = <<>>]
      BY <2>3, DmlAssumption DEF Executed, LastStep
    <3>2. s = [[s0 EXCEPT !.inTx = FALSE, !.work = <<>>] EXCEPT !.user = None]
      BY <3>1
    <3> HIDE DEF s, after
    <3>4. <<>> \in Seq(Changes) /\ s0 \in Session
      BY <1>0
    <3>5. s \in Session /\ ~s.inTx /\ s.user = None /\ s.work = <<>> /\ s.state = "open"
      BY <2>2, <3>2, <3>4 DEF Session
    <3>3. s \in Session /\ Sound(s) /\ ~s.inTx /\ s.user = None
      BY <3>5 DEF Sound
    <3> QED BY <1>e, <2>1, <2>3, <3>3
  <2>4. CASE k # LastStep
    <3> DEFINE x == [apply[a] EXCEPT !.pc = "ready", !.step = @ + 1]
    <3>1. apply' = [apply EXCEPT ![a] = x]
      BY <1>0, <2>1, <2>4
    <3>2. x \in Call /\ x.conn = c /\ x.batch = b /\ x.step = k + 1 /\ x.pc = "ready"
      <4>1. k + 1 \in 0..LastStep
        BY <1>0, <2>4, DmlAssumption DEF LastStep
      <4> QED BY <1>0, <4>1 DEF Call, c, b, k
    <3> HIDE DEF x
    <3>3. s \in Session /\ s.alive /\ s.state = "open" /\ s.inTx /\ s.work = Work(b, k) /\ s.user = None
      <4>1. CASE k = 0
        <5>1. after.s = [s0 EXCEPT !.inTx = TRUE, !.work = <<>>]
          BY <4>1 DEF Executed
        <5>2. s = [[s0 EXCEPT !.inTx = TRUE, !.work = <<>>] EXCEPT !.user = None]
          BY <5>1
        <5> HIDE DEF s, after
        <5>3. <<>> \in Seq(Changes) /\ s0 \in Session
          BY <1>0
        <5>4. s \in Session /\ s.alive /\ s.state = "open" /\ s.inTx /\ s.work = <<>> /\ s.user = None
          BY <2>2, <5>2, <5>3 DEF Session
        <5> QED BY <4>1, <5>4, WorkStarts
      <4>2. CASE k # 0
        <5>1. k \in 1..Size /\ k # LastStep
          BY <1>0, <2>4, <4>2, DmlAssumption DEF LastStep
        <5>2. after.s = [s0 EXCEPT !.work = Append(s0.work, <<b, k>>)]
          BY <2>2, <4>2, <5>1 DEF Executed
        <5>3. Append(s0.work, <<b, k>>) = Work(b, k)
          BY <1>0, <2>2, <4>2, <5>1, WorkGrows
        <5>4. after.s \in Session
          <6>1. session[c] \in Session /\ durable[c] \in Seq(Changes)
            BY <1>0, Shape
          <6> QED BY <1>0, <6>1, ExecutedTypes
        <5>5. after.s.work = Work(b, k) /\ after.s.alive /\ after.s.state = "open" /\ after.s.inTx
          BY <1>0, <2>2, <4>2, <5>2, <5>3 DEF Session
        <5> HIDE DEF after
        <5> QED BY <5>4, <5>5 DEF Session
      <4> QED BY <4>1, <4>2
    <3> HIDE DEF s
    <3>4. k + 1 # 0 /\ (k + 1) - 1 = k
      BY <1>0, DmlAssumption DEF LastStep
    <3>5. Sound(s) /\ Fit(x, s) /\ ~Calling(x)
      BY <3>2, <3>3, <3>4 DEF Sound, Fit, Calling
    <3> QED BY <1>0, <2>1, <2>4, <3>1, <3>2, <3>3, <3>5, AtomicCall DEF c
  <2> QED BY <2>3, <2>4
<1>5. CASE Errs(a)
  <2> DEFINE s1 == [session[c] EXCEPT !.user = None]
             s2 == [session[c] EXCEPT !.user = None, !.inTx = FALSE, !.work = <<>>]
  <2>1. /\ Fails(a, "query") /\ Healthy(c) /\ apply[a].pc = "sent"
        /\ \/ session' = [session EXCEPT ![c].user = None]
           \/ session' = [session EXCEPT ![c].user = None, ![c].inTx = FALSE, ![c].work = <<>>]
    BY <1>5 DEF Errs, c, k
  <2>2. session' = [session EXCEPT ![c] = s1] \/ session' = [session EXCEPT ![c] = s2]
    BY <1>0, <2>1
  <2>3. s1 \in Session /\ s2 \in Session /\ s1.user = None /\ s2.user = None
    BY <1>0, EmptySeq DEF Session
  <2>4. Sound(s1) /\ Sound(s2)
    BY <1>0, <1>1, <2>1 DEF Sound, Session, Healthy
  <2>5. (k = 0 => ~s1.inTx) /\ ~s2.inTx
    BY <1>0, <1>1, <2>1, EmptySeq DEF Fit, Healthy, Session, k
  <2> HIDE DEF s1, s2
  <2> QED BY <1>f, <2>1, <2>2, <2>3, <2>4, <2>5
<1>6. CASE Lost(a)
  <2> DEFINE e == IF session[c].state = "disposed" THEN "other" ELSE "query"
  <2>1. Fails(a, e) /\ session' = [session EXCEPT ![c] = Dead(session[c])] /\ e \in {"query", "other"}
    BY <1>0, <1>6 DEF Lost, c
  <2> HIDE DEF e
  <2> QED BY <1>d, <1>f, <2>1
<1>7. CASE SendRollback(a)
  <2> DEFINE x == [apply[a] EXCEPT !.pc = "undoing"]
             s == Using(session[c], a)
  <2>1. apply' = [apply EXCEPT ![a] = x] /\ Accepts(c, a) /\ applying' = applying
    BY <1>0, <1>7 DEF SendRollback, c
  <2>2. x \in Call /\ x.conn = c /\ x.pc = "undoing"
    BY <1>0 DEF Call, c
  <2>3. s \in Session /\ session' = [session EXCEPT ![c] = s]
    BY <1>0, <2>1, Sent
  <2>4. Sound(s) /\ s.user = a
    BY <1>u, <2>1
  <2> HIDE DEF x, s
  <2>5. Fit(x, s) /\ Calling(x)
    BY <2>2 DEF Fit, Calling
  <2> QED BY <1>0, <2>1, <2>2, <2>3, <2>4, <2>5, AtomicCall DEF c
<1>8. CASE RollbackRefused(a)
  <2>1. Ended(a, apply[a].error) /\ session' = session /\ Refuses(c) /\ apply[a].pc = "undo"
    BY <1>8 DEF RollbackRefused, c
  <2>2. apply[a].error \in {"none", "query", "other"}
    BY <1>0 DEF Call
  <2>3. session[c].user = None /\ ~session[c].inTx
    BY <1>1, <2>1 DEF Refuses, Calling, Sound
  <2> QED BY <1>0, <1>1, <1>e, <2>1, <2>2, <2>3
<1>9. CASE RolledBack(a)
  <2> DEFINE s == [session[c] EXCEPT !.user = None, !.inTx = FALSE, !.work = <<>>]
  <2>1. /\ Ended(a, apply[a].error) /\ Healthy(c)
        /\ session' = [session EXCEPT ![c].user = None, ![c].inTx = FALSE, ![c].work = <<>>]
    BY <1>9 DEF RolledBack, c
  <2>2. session' = [session EXCEPT ![c] = s]
    BY <1>0, <2>1
  <2>3. apply[a].error \in {"none", "query", "other"}
    BY <1>0 DEF Call
  <2>4. s \in Session /\ Sound(s) /\ ~s.inTx /\ s.user = None
    BY <1>0, <2>1, EmptySeq DEF Session, Sound, Healthy
  <2> HIDE DEF s
  <2> QED BY <1>e, <2>1, <2>2, <2>3, <2>4
<1>10. CASE RollbackLost(a)
  <2>1. Ended(a, apply[a].error) /\ session' = [session EXCEPT ![c] = Dead(session[c])]
    BY <1>0, <1>10 DEF RollbackLost, c
  <2>2. apply[a].error \in {"none", "query", "other"}
    BY <1>0 DEF Call
  <2> QED BY <1>d, <1>e, <2>1, <2>2
<1> QED BY <1>2, <1>3, <1>4, <1>5, <1>6, <1>7, <1>8, <1>9, <1>10 DEF CallStep

\* Without these overlaps the guards mean what the buttons suggest.
LEMMA Quiet ==
  ASSUME Undisturbed
  PROVE  /\ MayConfirm => ~applying /\ session[Bound].user # Reader
         /\ \A c \in Conns : MayRead(c) => ~ApplyingOn(c)
BY Zenon DEF MayConfirm, MayRead, May, Undisturbed

\* A confirmation finds no transaction open and nobody on the connection.
LEMMA AtomicConfirm ==
  ASSUME Undisturbed, TInv, AInv, NEW a \in Applies, Confirm(a)
  PROVE  AInv'
<1>1. /\ apply[a].pc = "idle" /\ ~applying /\ session[Bound].user # Reader
  BY Quiet DEF Confirm
<1>2. PICK x \in Call : /\ apply' = [apply EXCEPT ![a] = x] /\ x.pc = "ready" /\ x.conn = Bound
                        /\ x.step = apply[a].step
  BY ConfirmEffect
<1>3. Bound \in Conns /\ applying' = TRUE /\ session' = session
  BY ConfirmEffect
<1>4. \A e \in Applies : ~Busy(e) /\ ~Calling(apply[e])
  BY <1>1 DEF AInv, Calling, Busy
<1>5. apply'[a] = x /\ \A e \in Applies \ {a} : apply'[e] = apply[e]
  BY <1>2, Shape
<1>6. \A c \in Conns : ~session[c].inTx /\ session[c].user \notin Applies
  BY <1>4 DEF AInv, ApplyingOn
<1>7. \A e \in Applies : Busy(e)' => e = a
  BY <1>4, <1>5 DEF Busy
<1>8. Fit(x, session[Bound]) /\ ~Calling(x) /\ x.pc # "idle"
  BY <1>1, <1>2, <1>3, <1>6 DEF Fit, AInv, Calling
<1>9. \A c \in Conns : ApplyingOn(c)' => c = Bound
  BY <1>2, <1>5, <1>7 DEF ApplyingOn
<1>10. ASSUME NEW e \in Applies
       PROVE  /\ Busy(e)' => applying' /\ Fit(apply'[e], session'[apply'[e].conn])
              /\ Calling(apply'[e]) => session'[apply'[e].conn].user = e
              /\ apply'[e].pc = "idle" => apply'[e].step = 0
  <2>1. CASE e = a
    BY <1>2, <1>3, <1>5, <1>8, <2>1
  <2>2. CASE e # a
    BY <1>3, <1>4, <1>5, <1>7, <2>2 DEF AInv
  <2> QED BY <2>1, <2>2
<1>11. ASSUME NEW c \in Conns
       PROVE  /\ Sound(session'[c])
              /\ session'[c].inTx => ApplyingOn(c)'
              /\ session'[c].user = Reader => ~ApplyingOn(c)'
              /\ session'[c].user \notin Applies
  BY <1>1, <1>3, <1>6, <1>9 DEF AInv
<1> QED BY <1>7, <1>10, <1>11 DEF AInv

\* What others do to a connection in an apply is at most to end its session.
LEMMA AtomicConn ==
  ASSUME Undisturbed, TInv, AInv, NEW c \in Conns, ConnStep(c)
  PROVE  AInv'
<1>0. /\ session \in [Conns -> Session] /\ session[c] \in Session /\ Sound(session[c])
      /\ UNCHANGED <<applying, apply>>
      /\ Reader \notin Applies /\ None \notin Applies /\ Reader # None
  BY Shape, ConnEffect DEF AInv
\* A session that changes hands only while no apply is on it, and else stays at its step.
<1>k. ASSUME NEW s \in Session, session' = [session EXCEPT ![c] = s], Sound(s), s.inTx => session[c].inTx,
             \/ ~ApplyingOn(c) /\ s.user \in {None, Reader}
             \/ /\ s.user = session[c].user /\ (s.alive => session[c].alive)
                /\ s.alive => s.inTx = session[c].inTx /\ s.work = session[c].work
                /\ s.state \in {session[c].state, "disposed"}
      PROVE  AInv'
  <2>1. session'[c] = s /\ \A e \in Conns \ {c} : session'[e] = session[e]
    BY <1>0, <1>k
  <2>2. ASSUME NEW e \in Applies, Busy(e) PROVE Fit(apply[e], session'[apply[e].conn])
    <3>1. Fit(apply[e], session[apply[e].conn]) /\ apply[e].conn \in Conns
      BY <2>2, Shape DEF AInv
    <3>2. CASE apply[e].conn # c
      BY <2>1, <3>1, <3>2
    <3>3. CASE apply[e].conn = c
      <4>1. ApplyingOn(c)
        BY <2>2, <3>3 DEF ApplyingOn
      <4> QED BY <1>k, <2>1, <3>1, <3>3, <4>1 DEF Fit
    <3> QED BY <3>2, <3>3
  <2>3. ASSUME NEW e \in Applies, Calling(apply[e]) PROVE session'[apply[e].conn].user = e
    <3>1. Busy(e) /\ session[apply[e].conn].user = e
      BY <2>3 DEF AInv, Busy, Calling
    <3>2. apply[e].conn \in Conns
      BY <3>1, Shape
    <3>3. apply[e].conn = c => ApplyingOn(c)
      BY <3>1 DEF ApplyingOn
    <3> QED BY <1>k, <2>1, <3>1, <3>2, <3>3
  <2>4. ASSUME NEW e \in Conns
        PROVE  /\ Sound(session'[e])
               /\ session'[e].inTx => ApplyingOn(e)
               /\ session'[e].user = Reader => ~ApplyingOn(e)
               /\ session'[e].user \in Applies => /\ Calling(apply[session'[e].user])
                                                  /\ apply[session'[e].user].conn = e
    <3>1. CASE e # c
      BY <2>1, <3>1 DEF AInv
    <3>2. CASE e = c
      BY <1>0, <1>k, <2>1, <3>2 DEF AInv
    <3> QED BY <3>1, <3>2
  <2>5. \A e \in Applies : Busy(e)' = Busy(e)
    BY <1>0 DEF Busy
  <2>6. \A e \in Conns : ApplyingOn(e)' = ApplyingOn(e)
    BY <1>0 DEF ApplyingOn, Busy
  <2> QED BY <1>0, <2>2, <2>3, <2>4, <2>5, <2>6 DEF AInv
<1>1. CASE ReadStarts(c)
  <2> DEFINE s == Using(session[c], Reader)
  <2>1. Accepts(c, Reader) /\ ~ApplyingOn(c)
    BY <1>1, Quiet DEF ReadStarts
  <2>2. s \in Session /\ session' = [session EXCEPT ![c] = s] /\ session[c].state # "disposed"
    BY <2>1, Sent
  <2>3. Sound(s) /\ s.user = Reader /\ (s.inTx => session[c].inTx)
    <3>1. CASE session[c].state = "closed"
      <4>1. s = [state |-> "open", alive |-> TRUE, user |-> Reader, inTx |-> FALSE, work |-> <<>>]
        BY <3>1 DEF Using, NewSession
      <4> HIDE DEF s
      <4> QED BY <4>1 DEF Sound
    <3>2. CASE session[c].state # "closed"
      <4>1. s = [session[c] EXCEPT !.user = Reader]
        BY <3>2 DEF Using
      <4> HIDE DEF s
      <4> QED BY <1>0, <2>2, <3>2, <4>1 DEF Sound, Session
    <3> QED BY <3>1, <3>2
  <2> HIDE DEF s
  <2> QED BY <1>k, <2>1, <2>2, <2>3
<1>2. CASE ReadEnds(c)
  <2> DEFINE s1 == [session[c] EXCEPT !.user = None]
             s2 == Dead(session[c])
  <2>1. \/ session' = [session EXCEPT ![c] = s1] /\ session[c].state = "open"
        \/ session' = [session EXCEPT ![c] = s2]
    BY <1>0, <1>2 DEF ReadEnds, Healthy
  <2>2. ~ApplyingOn(c)
    BY <1>2 DEF ReadEnds, AInv
  <2>3. s1 \in Session /\ s1.user = None /\ (s1.inTx => session[c].inTx) /\ (session[c].state = "open" => Sound(s1))
    BY <1>0 DEF Session, Sound
  <2>4. s2 \in Session /\ s2.user = None /\ ~s2.inTx /\ Sound(s2)
    BY <1>0, DeadTypes DEF Sound
  <2> HIDE DEF s1, s2
  <2> QED BY <1>k, <2>1, <2>2, <2>3, <2>4
<1>3. CASE Drop(c)
  <2> DEFINE s == [Dead(session[c]) EXCEPT !.state = session[c].state]
  <2>1. session' = [session EXCEPT ![c] = s] /\ session[c].user = None
    BY <1>0, <1>3 DEF Drop
  <2>2. /\ s \in Session /\ s.work = <<>> /\ ~s.alive /\ ~s.inTx /\ s.user = None
        /\ s.state = session[c].state
    <3>1. /\ Dead(session[c]) \in Session /\ Dead(session[c]).work = <<>> /\ ~Dead(session[c]).alive
          /\ ~Dead(session[c]).inTx /\ Dead(session[c]).user = None
      BY <1>0, DeadTypes
    <3>2. session[c].state \in {"open", "closed", "disposed"}
      BY <1>0 DEF Session
    <3> HIDE DEF Dead
    <3> QED BY <3>1, <3>2 DEF Session
  <2> HIDE DEF s
  <2>3. Sound(s)
    BY <2>2 DEF Sound
  <2> QED BY <1>k, <2>1, <2>2, <2>3
<1>4. CASE Disconnect(c)
  <2> DEFINE s1 == [session[c] EXCEPT !.state = "disposed"]
             s2 == Dead(s1)
  <2>1. \/ session' = [session EXCEPT ![c] = s2] /\ s1.user = None
        \/ session' = [session EXCEPT ![c] = s1] /\ s1.user # None
    BY <1>0, <1>4 DEF Disconnect
  <2>2. /\ s1 \in Session /\ s1.user = session[c].user /\ s1.alive = session[c].alive
        /\ s1.inTx = session[c].inTx /\ s1.work = session[c].work /\ s1.state = "disposed"
    BY <1>0 DEF Session
  <2> HIDE DEF s1
  <2>3. /\ s2 \in Session /\ s2.user = None /\ ~s2.alive /\ ~s2.inTx /\ s2.work = <<>>
        /\ s2.state = "disposed"
    BY <2>2, DeadTypes
  <2> HIDE DEF s2
  <2>4. Sound(s2) /\ (s1.user # None => Sound(s1))
    BY <1>0, <2>2, <2>3 DEF Sound
  <2>5. CASE session' = [session EXCEPT ![c] = s2] /\ s1.user = None
    BY <1>k, <2>2, <2>3, <2>4, <2>5
  <2>6. CASE session' = [session EXCEPT ![c] = s1] /\ s1.user # None
    BY <1>k, <2>2, <2>4, <2>6
  <2> QED BY <2>1, <2>5, <2>6
<1> QED BY <1>1, <1>2, <1>3, <1>4 DEF ConnStep

LEMMA AtomicFrame ==
  ASSUME AInv, UNCHANGED <<applying, apply, session>>
  PROVE  AInv'
BY DEF AInv, Busy, Calling, ApplyingOn

\* AInv is inductive on top of the types.
LEMMA AtomicKept ==
  ASSUME Undisturbed, TInv, AInv, [Next]_vars
  PROVE  AInv'
<1>1. CASE UiStep
  BY <1>1, AtomicFrame DEF UiStep, SwitchTab, Load, Bind, Prepare, Prepared, CancelApply
<1>2. CASE UNCHANGED vars
  BY <1>2, AtomicFrame DEF vars
<1> QED BY <1>1, <1>2, Steps, AtomicConfirm, AtomicCallStep, AtomicConn

\* DmlApplier.ApplyAsync: if nothing else uses the connection meanwhile, no transaction, and none of
\* the locks it holds, outlives the apply that opened it, whatever fails on the way.
THEOREM NoTransactionLeftBehind ==
  ASSUME Undisturbed
  PROVE  Spec => []CleanSession
<1>1. Init => TInv /\ AInv
  BY TypeInit, AtomicInit
<1>2. TInv /\ AInv /\ [Next]_vars => (TInv /\ AInv)'
  BY Typed, AtomicKept
<1>3. AInv => CleanSession
  BY DEF AInv, CleanSession
<1> QED BY <1>1, <1>2, <1>3, PTL DEF Spec

----------------------------------------------------------------------------
(* Applying implements the store of whole batches *)

\* Batch b has reached a database.
Committed(b) == \E c \in Conns : b \in In(durable[c])

\* A batch that has been previewed has its origin.
Traced ==
    /\ preparing # None => origin[preparing] # None
    /\ pending # None => origin[pending] # None
    /\ \A a \in Applies : Busy(a) => origin[apply[a].batch] # None
    /\ \A c \in Conns : \A b \in In(session[c].work) \union In(durable[c]) : origin[b] # None

LEMMA TracedInit == Init => Traced
<1> SUFFICES ASSUME Init PROVE Traced
  OBVIOUS
<1>1. preparing = None /\ pending = None /\ \A a \in Applies : ~Busy(a)
  BY DEF Init, Busy
<1>2. \A c \in Conns : session[c].work = <<>> /\ durable[c] = <<>>
  BY DEF Init, NewSession
<1> QED BY <1>1, <1>2, NothingIn DEF Traced

\* No step takes a batch's origin from it.
LEMMA TracedKept ==
  ASSUME TInv, TInv', Traced, [Next]_vars
  PROVE  Traced'
<1>0. \A c \in Conns : In(session[c].work) \union In(durable[c]) \subseteq Batches
  BY LogsIn
<1>1. ASSUME NEW b \in Batches, Prepare(b) PROVE Traced'
  <2>1. /\ preparing = None /\ pending = None /\ Loaded # None /\ preparing' = b
        /\ origin' = [origin EXCEPT ![b] = Loaded]
        /\ UNCHANGED <<pending, apply, session, durable>>
    BY <1>1 DEF Prepare, Previewing
  <2>2. \A e \in Batches : origin[e] # None \/ e = b => origin'[e] # None
    BY <2>1, Shape
  <2>3. \A a \in Applies : Busy(a) => apply[a].batch \in Batches
    BY Shape
  <2> QED BY <1>0, <2>1, <2>2, <2>3 DEF Traced, Busy
<1>2. CASE Prepared
  BY <1>2 DEF Prepared, Traced, Busy
<1>3. CASE CancelApply
  BY <1>3 DEF CancelApply, Traced, Busy
<1>4. CASE TabStep
  BY <1>4, TabEffect DEF Traced, Busy
<1>5. ASSUME NEW a \in Applies, Confirm(a) PROVE Traced'
  <2>1. PICK x \in Call : apply' = [apply EXCEPT ![a] = x] /\ x.batch = pending
    BY <1>5, ConfirmEffect
  <2>2. pending \in Batches /\ UNCHANGED <<preparing, pending, origin, session, durable>>
    BY <1>5, ConfirmEffect
  <2>3. apply'[a] = x /\ \A e \in Applies \ {a} : apply'[e] = apply[e]
    BY <2>1, Shape
  <2>4. origin[pending] # None
    BY <2>2, Shape DEF Traced
  <2>5. ASSUME NEW e \in Applies, Busy(e)' PROVE origin[apply'[e].batch] # None
    BY <2>1, <2>3, <2>4, <2>5 DEF Traced, Busy
  <2> QED BY <2>2, <2>5 DEF Traced
<1>6. ASSUME NEW a \in Applies, CallStep(a) PROVE Traced'
  <2>1. PICK x \in Call, s \in Session, d \in Seq(Changes) : Becomes(a, x, s, d)
    BY <1>6, Effect
  <2>2. apply[a].conn \in Conns /\ origin[apply[a].batch] # None
    BY <1>6, StepsBusy, Shape DEF Traced
  <2>3. /\ \A e \in Applies \ {a} : apply'[e] = apply[e]
        /\ apply'[a].batch = apply[a].batch
        /\ \A e \in Conns \ {apply[a].conn} : session'[e] = session[e] /\ durable'[e] = durable[e]
        /\ session'[apply[a].conn] = s /\ durable'[apply[a].conn] = d
        /\ pending' \in {pending, None} /\ UNCHANGED <<preparing, origin>>
    BY <2>1, <2>2, Shape DEF Becomes
  <2>4. In(s.work) \union In(d) \subseteq
           In(session[apply[a].conn].work) \union In(durable[apply[a].conn]) \union {apply[a].batch}
    BY <2>1 DEF Becomes
  <2>5. ASSUME NEW e \in Applies, Busy(e)' PROVE origin[apply'[e].batch] # None
    BY <2>2, <2>3, <2>5 DEF Traced, Busy
  <2>6. ASSUME NEW e \in Conns, NEW m \in In(session'[e].work) \union In(durable'[e]) PROVE origin[m] # None
    <3>1. CASE e = apply[a].conn
      BY <2>2, <2>3, <2>4, <3>1 DEF Traced
    <3>2. CASE e # apply[a].conn
      BY <2>3, <3>2 DEF Traced
    <3> QED BY <3>1, <3>2
  <2> QED BY <2>3, <2>5, <2>6 DEF Traced
<1>7. ASSUME NEW c \in Conns, ConnStep(c) PROVE Traced'
  <2>1. PICK s \in Session : session' = [session EXCEPT ![c] = s] /\ In(s.work) \subseteq In(session[c].work)
    BY <1>7, ConnEffect
  <2>2. UNCHANGED <<preparing, pending, origin, apply, durable>>
    BY <1>7, ConnEffect
  <2>3. \A e \in Conns : In(session'[e].work) \subseteq In(session[e].work)
    BY <2>1, Shape
  <2> QED BY <2>2, <2>3 DEF Traced, Busy
<1>8. CASE UNCHANGED vars
  BY <1>8 DEF Traced, Busy, vars, uiVars
<1> QED BY <1>1, <1>2, <1>3, <1>4, <1>5, <1>6, <1>7, <1>8, Steps DEF UiStep, TabStep

\* A batch that has been committed is never sent again: its apply is on its way out, and its preview
\* closes with it unless the connection is gone for good.
BInv ==
    /\ preparing # None => /\ pending = None /\ ~Committed(preparing)
                           /\ \A a \in Applies : Busy(a) => apply[a].batch # preparing
    /\ pending # None /\ Committed(pending) =>
          \/ ~Connected
          \/ \E a \in Applies : Busy(a) /\ apply[a].batch = pending
    /\ \A a \in Applies : pending # None /\ Busy(a) /\ apply[a].batch = pending => Bound \in {None, apply[a].conn}
    /\ \A a \in Applies : Busy(a) /\ Committed(apply[a].batch) =>
          /\ apply[a].pc \in {"undo", "undoing"}
          /\ apply[a].error = "other" => session[apply[a].conn].state = "disposed"

LEMMA OnceInit == Init => BInv
<1> SUFFICES ASSUME Init PROVE BInv
  OBVIOUS
<1>1. preparing = None /\ pending = None /\ \A a \in Applies : ~Busy(a)
  BY DEF Init, Busy
<1> QED BY <1>1 DEF BInv

\* The abstract store's batch is what Size commands leave in a transaction.
LEMMA WholeIsWork ==
  ASSUME NEW b \in Batches
  PROVE  Store!Whole(b) = Work(b, Size) /\ Work(b, Size) \in Seq(Changes) /\ In(Work(b, Size)) \subseteq {b}
<1>1. Store!Whole(b) = Work(b, Size)
  BY DEF Store!Whole, Work
<1>2. Size \in Nat /\ \A k \in 1..Size : <<b, k>> \in Changes
  BY DmlAssumption DEF Changes
<1>3. Work(b, Size) \in Seq(Changes)
  BY <1>2 DEF Work
<1>4. In(Work(b, Size)) \subseteq {b}
  BY DEF In, Work
<1> QED BY <1>1, <1>3, <1>4

\* A step that commits: COMMIT has been executed, for a batch that is in the transaction whole.
Commits(a) ==
    /\ durable' = [durable EXCEPT ![apply[a].conn] = @ \o Work(apply[a].batch, Size)]
    /\ apply[a].pc = "sent" /\ apply[a].step = LastStep
    /\ \/ apply'[a].pc = "done" /\ pending' = None
       \/ apply'[a].pc = "undo" /\ (apply'[a].error = "other" => session[apply[a].conn].state = "disposed")

\* What the next command commits: nothing, but for COMMIT, which commits the whole batch.
LEMMA CommandCommits ==
  ASSUME TInv, AInv, NEW a \in Applies, apply[a].pc = "sent", session[apply[a].conn].alive
  PROVE  LET c == apply[a].conn
             b == apply[a].batch
             k == apply[a].step
         IN  Executed(session[c], durable[c], b, k).d
                = IF k = LastStep THEN durable[c] \o Work(b, Size) ELSE durable[c]
<1> DEFINE c == apply[a].conn
           b == apply[a].batch
           k == apply[a].step
           after == Executed(session[c], durable[c], b, k)
<1>0. /\ Busy(a) /\ c \in Conns /\ b \in Batches /\ k \in 0..LastStep /\ apply[a] \in Call
      /\ apply \in [Applies -> Call] /\ session[c] \in Session /\ durable \in [Conns -> Seq(Changes)]
  BY Shape DEF Busy
<1>1. Sound(session[c]) /\ Fit(apply[a], session[c])
  BY <1>0 DEF AInv
<1>d. after.d = IF k = LastStep THEN durable[c] \o Work(b, Size) ELSE durable[c]
  <2>1. CASE k = 0
    <3>1. session[c].work = <<>> /\ k # LastStep
      BY <1>1, <2>1, DmlAssumption DEF Fit, Sound, LastStep
    <3>2. after.d = durable[c] \o session[c].work
      <4>1. after = Executed(session[c], durable[c], b, k)
        OBVIOUS
      <4> HIDE DEF after, c, b, k
      <4>2. after = [s |-> [session[c] EXCEPT !.inTx = TRUE, !.work = <<>>], d |-> durable[c] \o session[c].work]
        BY <2>1, <4>1, Zenon DEF Executed
      <4> QED BY <4>2
    <3> QED BY <1>0, <3>1, <3>2, ConcatEmptySeq
  <2>2. CASE k = LastStep
    <3>1. k # 0 /\ k - 1 = Size
      BY <2>2, DmlAssumption DEF LastStep
    <3>2. after.d = durable[c] \o session[c].work
      <4>1. after = Executed(session[c], durable[c], b, k)
        OBVIOUS
      <4> HIDE DEF after, c, b, k
      <4>2. after = [s |-> [session[c] EXCEPT !.inTx = FALSE, !.work = <<>>], d |-> durable[c] \o session[c].work]
        BY <2>2, <3>1, <4>1, Zenon DEF Executed
      <4> QED BY <4>2
    <3>3. session[c].work = Work(b, k - 1)
      BY <1>1, <3>1 DEF Fit
    <3> QED BY <2>2, <3>1, <3>2, <3>3
  <2>3. CASE k # 0 /\ k # LastStep
    BY <1>1, <2>3 DEF Executed, Fit
  <2> QED BY <2>1, <2>2, <2>3
<1> QED BY <1>d DEF after

\* A call commits a whole batch or nothing, and says how the apply goes on.
LEMMA Outcome ==
  ASSUME TInv, TInv', AInv, NEW a \in Applies, CallStep(a)
  PROVE  \/ Commits(a)
         \/ UNCHANGED durable /\ apply[a].pc \in {"ready", "sent"}
         \/ /\ UNCHANGED durable /\ apply'[a].pc = "undoing" /\ apply'[a].error = apply[a].error
            /\ apply[a].pc \in {"undo", "undoing"} /\ session[apply[a].conn].state # "disposed"
         \/ /\ UNCHANGED durable /\ apply'[a].pc = "done"
            /\ pending' = IF apply[a].error = "other" THEN pending ELSE None
<1> DEFINE c == apply[a].conn
           b == apply[a].batch
           k == apply[a].step
           after == Executed(session[c], durable[c], b, k)
<1>0. /\ Busy(a) /\ c \in Conns /\ b \in Batches /\ k \in 0..LastStep /\ apply[a] \in Call
      /\ apply \in [Applies -> Call] /\ session[c] \in Session /\ durable \in [Conns -> Seq(Changes)]
  BY StepsBusy, Shape
<1>d. ASSUME apply[a].pc = "sent", session[c].alive
      PROVE  after.d = IF k = LastStep THEN durable[c] \o Work(b, Size) ELSE durable[c]
  BY <1>d, CommandCommits
<1> HIDE DEF after
<1>e. ASSUME NEW e \in {"none", "query", "other"}, Ended(a, e)
      PROVE  apply'[a].pc = "done" /\ pending' = IF e = "other" THEN pending ELSE None
  <2>1. PICK x \in Call :
            /\ apply' = [apply EXCEPT ![a] = x]
            /\ x.conn = apply[a].conn /\ x.batch = apply[a].batch /\ x.pc = "done" /\ x.error = e
            /\ applying' = FALSE /\ pending' = IF e = "other" THEN pending ELSE None
            /\ UNCHANGED <<active, tab, preparing, origin>>
    BY <1>e, Ends
  <2>2. apply'[a] = x
    BY <1>0, <2>1
  <2> QED BY <2>1, <2>2
<1>2. CASE Send(a) \/ Refused(a) \/ Errs(a)
  BY <1>2 DEF Send, Refused, Errs
<1>3. CASE Succeeds(a)
  <2>1. /\ apply[a].pc = "sent" /\ session[c].alive /\ durable' = [durable EXCEPT ![c] = after.d]
        /\ k = LastStep => Ended(a, "none")
    BY <1>3 DEF Succeeds, Healthy, after
  <2>2. CASE k = LastStep
    <3>1. durable' = [durable EXCEPT ![c] = @ \o Work(b, Size)]
      BY <1>0, <1>d, <2>1, <2>2
    <3>2. apply'[a].pc = "done" /\ pending' = None
      BY <1>e, <2>1, <2>2
    <3> QED BY <2>1, <2>2, <3>1, <3>2 DEF Commits
  <2>3. CASE k # LastStep
    <3>1. durable' = durable
      BY <1>0, <1>d, <2>1, <2>3
    <3> QED BY <2>1, <3>1
  <2> QED BY <2>2, <2>3
<1>4. CASE Lost(a)
  <2> DEFINE e == IF session[c].state = "disposed" THEN "other" ELSE "query"
  <2>1. /\ apply[a].pc = "sent" /\ Fails(a, e)
        /\ UNCHANGED durable \/ (session[c].alive /\ durable' = [durable EXCEPT ![c] = after.d])
    BY <1>4 DEF Lost, after
  <2>2. CASE session[c].alive /\ k = LastStep /\ durable' = [durable EXCEPT ![c] = after.d]
    <3>1. durable' = [durable EXCEPT ![c] = @ \o Work(b, Size)]
      BY <1>0, <1>d, <2>1, <2>2
    <3>2. k # 0
      BY <2>2, DmlAssumption DEF LastStep
    <3>3. apply' = [apply EXCEPT ![a] = [apply[a] EXCEPT !.pc = "undo", !.error = e]]
      BY <1>0, <2>1, <3>2 DEF Fails
    <3>4. apply'[a].pc = "undo" /\ apply'[a].error = e
      BY <1>0, <3>3 DEF Call
    <3> QED BY <2>1, <2>2, <3>1, <3>4 DEF Commits
  <2>3. CASE ~(session[c].alive /\ k = LastStep /\ durable' = [durable EXCEPT ![c] = after.d])
    <3>1. durable' = durable
      BY <1>0, <1>d, <2>1, <2>3
    <3> QED BY <2>1, <3>1
  <2> QED BY <2>2, <2>3
<1>5. CASE SendRollback(a)
  <2>1. /\ apply[a].pc = "undo" /\ apply' = [apply EXCEPT ![a].pc = "undoing"] /\ UNCHANGED durable
        /\ session[c].state # "disposed"
    BY <1>5 DEF SendRollback, Accepts
  <2>2. apply'[a].pc = "undoing" /\ apply'[a].error = apply[a].error
    BY <1>0, <2>1 DEF Call
  <2> QED BY <2>1, <2>2
<1>6. CASE RollbackRefused(a) \/ RolledBack(a) \/ RollbackLost(a)
  <2>1. Ended(a, apply[a].error) /\ UNCHANGED durable
    BY <1>6 DEF RollbackRefused, RolledBack, RollbackLost
  <2>2. apply[a].error \in {"none", "query", "other"}
    BY <1>0 DEF Call
  <2> QED BY <1>e, <2>1, <2>2
<1> QED BY <1>2, <1>3, <1>4, <1>5, <1>6 DEF CallStep

\* A disposed connection stays so.
LEMMA StaysDisposed ==
  ASSUME TInv, [Next]_vars, NEW c \in Conns, session[c].state = "disposed"
  PROVE  session'[c].state = "disposed"
<1>0. session \in [Conns -> Session] /\ session[c] \in Session
  BY Shape
<1>1. CASE UNCHANGED session
  BY <1>1
<1>2. ASSUME NEW a \in Applies, CallStep(a) PROVE session'[c].state = "disposed"
  <2> DEFINE e == apply[a].conn
  <2>1. e \in Conns /\ session[e] \in Session
    BY <1>2, StepsBusy, Shape
  <2>2. CASE e # c
    <3>1. PICK s \in Session : session' = [session EXCEPT ![e] = s]
      BY <1>2, Effect DEF Becomes
    <3> QED BY <1>0, <2>2, <3>1
  <2>3. CASE e = c
    <3>1. UNCHANGED session \/ session' = [session EXCEPT ![c] = Dead(session[c])]
      BY <1>0, <1>2, <2>3 DEF CallStep, Send, Refused, Succeeds, Errs, Lost, SendRollback, RollbackRefused, RolledBack,
         RollbackLost, Accepts, Healthy
    <3> QED BY <1>0, <3>1, DeadTypes
  <2> QED BY <2>2, <2>3
<1>3. ASSUME NEW e \in Conns, ConnStep(e) PROVE session'[c].state = "disposed"
  <2>1. CASE e # c
    <3>1. PICK s \in Session : session' = [session EXCEPT ![e] = s]
      BY <1>3, ConnEffect
    <3> QED BY <1>0, <2>1, <3>1
  <2>2. CASE e = c
    <3>1. CASE ReadStarts(c) \/ Disconnect(c)
      BY <3>1 DEF ReadStarts, Disconnect, Accepts
    <3>2. CASE ReadEnds(c)
      <4>1. session' = [session EXCEPT ![c] = Dead(session[c])]
        BY <1>0, <3>2 DEF ReadEnds, Healthy
      <4> QED BY <1>0, <4>1, DeadTypes
    <3>3. CASE Drop(c)
      <4>1. session' = [session EXCEPT ![c] = [Dead(session[c]) EXCEPT !.state = session[c].state]]
        BY <1>0, <3>3 DEF Drop
      <4>2. Dead(session[c]) \in Session
        BY <1>0, DeadTypes
      <4> HIDE DEF Dead
      <4> QED BY <1>0, <4>1, <4>2 DEF Session
    <3> QED BY <1>3, <2>2, <3>1, <3>2, <3>3 DEF ConnStep
  <2> QED BY <2>1, <2>2
<1>4. ASSUME NEW a \in Applies, Confirm(a) PROVE UNCHANGED session
  BY <1>4 DEF Confirm
<1>5. UiStep \/ UNCHANGED vars => UNCHANGED session
  BY DEF UiStep, SwitchTab, Load, Bind, Prepare, Prepared, CancelApply, vars
<1> QED BY <1>1, <1>2, <1>3, <1>4, <1>5, Steps

\* Under a preview that is steady the tab is not connected again.
LEMMA StaysUnconnected ==
  ASSUME TInv, [Next]_vars, Bound' \in {Bound, None}, ~Connected
  PROVE  ~Connected'
<1>1. Bound # None => Bound \in Conns /\ (session[Bound].state = "disposed" => session'[Bound].state = "disposed")
  BY Shape, StaysDisposed
<1> QED BY <1>1 DEF Connected

\* What a commit adds to what is committed.
LEMMA CommitsOne ==
  ASSUME TInv, NEW a \in Applies, Busy(a), Commits(a)
  PROVE  \A b \in Batches : Committed(b)' => Committed(b) \/ b = apply[a].batch
<1> DEFINE c == apply[a].conn
           m == apply[a].batch
<1>1. c \in Conns /\ m \in Batches /\ durable \in [Conns -> Seq(Changes)] /\ durable[c] \in Seq(Changes)
  BY Shape
<1>2. /\ durable'[c] = durable[c] \o Work(m, Size)
      /\ \A e \in Conns \ {c} : durable'[e] = durable[e]
  BY <1>1 DEF Commits
<1>3. In(durable[c] \o Work(m, Size)) \subseteq In(durable[c]) \union {m}
  BY <1>1, JoinedIn, WholeIsWork
<1> HIDE DEF c, m
<1> SUFFICES ASSUME NEW b \in Batches, NEW e \in Conns, b \in In(durable'[e]), b # m
             PROVE  b \in In(durable[e])
  BY DEF Committed, m
<1>4. CASE e = c
  BY <1>2, <1>3, <1>4
<1>5. CASE e # c
  BY <1>2, <1>5
<1> QED BY <1>4, <1>5

\* An apply never starts again.
LEMMA GoesOn ==
  ASSUME TInv, NEW a \in Applies, CallStep(a)
  PROVE  apply'[a].pc # "idle"
<1>1. apply \in [Applies -> Call] /\ apply[a] \in Call
  BY Shape
<1>2. (\E e : Ended(a, e)) => apply'[a].pc # "idle"
  BY <1>1 DEF Ended, Call
<1>3. (\E e : Fails(a, e)) => apply'[a].pc # "idle"
  BY <1>1, <1>2 DEF Fails, Call
<1>4. Send(a) \/ SendRollback(a) => apply'[a].pc # "idle"
  BY <1>1 DEF Send, SendRollback, Call
<1>5. Succeeds(a) => apply'[a].pc # "idle"
  BY <1>1, <1>2 DEF Succeeds, Call
<1>6. Refused(a) \/ Errs(a) \/ Lost(a) => apply'[a].pc # "idle"
  BY <1>3, Zenon DEF Refused, Errs, Lost
<1>7. RollbackRefused(a) \/ RolledBack(a) \/ RollbackLost(a) => apply'[a].pc # "idle"
  BY <1>2, Zenon DEF RollbackRefused, RolledBack, RollbackLost
<1> QED BY <1>4, <1>5, <1>6, <1>7 DEF CallStep

\* No step brings a committed batch back into an apply that could commit it.
LEMMA OnceKept ==
  ASSUME Undisturbed, Steady, TInv, TInv', Traced, AInv, BInv, [Next]_vars
  PROVE  BInv'
<1>c. UNCHANGED durable => \A b : Committed(b)' = Committed(b)
  BY DEF Committed
<1>1. ASSUME NEW b \in Batches, Prepare(b) PROVE BInv'
  <2>1. /\ pending = None /\ origin[b] = None /\ preparing' = b
        /\ UNCHANGED <<pending, apply, session, durable>>
    BY <1>1 DEF Prepare, Previewing
  <2>2. ~Committed(b) /\ \A a \in Applies : Busy(a) => apply[a].batch # b
    BY <2>1 DEF Traced, Committed
  <2> QED BY <1>c, <2>1, <2>2 DEF BInv, Busy
<1>2. CASE Prepared
  <2>1. /\ preparing # None /\ pending' = preparing /\ preparing' = None
        /\ UNCHANGED <<apply, session, durable>>
    BY <1>2 DEF Prepared
  <2> QED BY <1>c, <2>1 DEF BInv, Busy
<1>3. CASE CancelApply
  <2>1. pending' = None /\ UNCHANGED <<preparing, apply, session, durable>>
    BY <1>3 DEF CancelApply
  <2> QED BY <1>c, <2>1 DEF BInv, Busy
<1>4. CASE TabStep
  <2>1. UNCHANGED <<preparing, pending, apply, session, durable>>
    BY <1>4, TabEffect
  <2>2. Previewing => Bound' \in {Bound, None}
    BY <1>4, TabEffect
  <2>3. \A b : Committed(b)' = Committed(b)
    BY <1>c, <2>1
  <2>4. Previewing /\ ~Connected => ~Connected'
    BY <2>2, StaysUnconnected
  <2> QED BY <2>1, <2>2, <2>3, <2>4 DEF BInv, Busy, Previewing
<1>5. ASSUME NEW a \in Applies, Confirm(a) PROVE BInv'
  <2>1. ~applying /\ Connected /\ pending # None
    BY <1>5, Quiet DEF Confirm
  <2>2. \A e \in Applies : ~Busy(e)
    BY <2>1 DEF AInv
  <2>3. ~Committed(pending) /\ preparing = None
    BY <2>1, <2>2 DEF BInv
  <2>4. PICK x \in Call : apply' = [apply EXCEPT ![a] = x] /\ x.batch = pending /\ x.conn = Bound
    BY <1>5, ConfirmEffect
  <2>5. Bound' = Bound /\ UNCHANGED <<active, tab, preparing, pending, session, durable>>
    BY <1>5, ConfirmEffect
  <2>6. apply'[a] = x /\ \A e \in Applies \ {a} : apply'[e] = apply[e]
    BY <2>4, Shape
  <2>7. \A e \in Applies : Busy(e)' => e = a
    BY <2>2, <2>6 DEF Busy
  <2>8. \A e \in Applies : Busy(e)' => ~Committed(apply'[e].batch)
    BY <2>3, <2>4, <2>6, <2>7
  <2>9. \A b : Committed(b)' = Committed(b)
    BY <1>c, <2>5
  <2>10. ~Committed(pending)' /\ \A e \in Applies : Busy(e)' => ~Committed(apply[e].batch)'
    BY <2>3, <2>5, <2>8 DEF Committed
  <2>11. \A e \in Applies : Busy(e)' => Bound \in {None, apply'[e].conn}
    BY <2>4, <2>6, <2>7
  <2> QED BY <2>3, <2>5, <2>10, <2>11 DEF BInv
<1>6. ASSUME NEW c \in Conns, ConnStep(c) PROVE BInv'
  <2>1. Bound' \in {Bound, None} /\ UNCHANGED <<preparing, pending, apply, durable>>
    BY <1>6, ConnEffect
  <2>2. \A e \in Conns : session[e].state = "disposed" => session'[e].state = "disposed"
    BY StaysDisposed
  <2>3. \A a \in Applies : Busy(a) => apply[a].conn \in Conns
    BY Shape
  <2>4. \A b : Committed(b)' = Committed(b)
    BY <1>c, <2>1
  <2>5. ~Connected => ~Connected'
    BY <2>1, StaysUnconnected
  <2> QED BY <2>1, <2>2, <2>3, <2>4, <2>5 DEF BInv, Busy
<1>7. ASSUME NEW a \in Applies, CallStep(a) PROVE BInv'
  <2>0. Busy(a) /\ apply[a].conn \in Conns /\ apply[a].batch \in Batches
    BY <1>7, StepsBusy, Shape
  <2>1. PICK x \in Call, s \in Session, d \in Seq(Changes) : Becomes(a, x, s, d)
    BY <1>7, Effect
  <2>2. /\ apply'[a] = x /\ x.conn = apply[a].conn /\ x.batch = apply[a].batch
        /\ \A e \in Applies \ {a} : apply'[e] = apply[e] /\ ~Busy(e)
        /\ pending' \in {pending, None} /\ Bound' = Bound /\ UNCHANGED <<active, tab, preparing>>
    BY <2>0, <2>1, Shape DEF Becomes, AInv, Bound
  <2>3. \A e \in Applies : Busy(e)' => e = a /\ Busy(a)
    BY <2>0, <2>2 DEF Busy
  <2>4. \A e \in Conns : session[e].state = "disposed" => session'[e].state = "disposed"
    BY StaysDisposed
  <2>5. /\ pending \in Batches \union {None} /\ None \notin Batches
        /\ preparing \in Batches \union {None}
    BY Shape
  \* What the step commits, and how it leaves the apply.
  <2>6. \A b \in Batches : Committed(b)' => Committed(b) \/ (b = apply[a].batch /\ Commits(a))
    <3>1. Commits(a) \/ UNCHANGED durable
      BY <1>7, Outcome
    <3> QED BY <1>c, <2>0, <3>1, CommitsOne
  <2>7. Committed(apply[a].batch) => /\ apply[a].pc \in {"undo", "undoing"}
                                     /\ apply[a].error = "other" => session[apply[a].conn].state = "disposed"
    BY <2>0 DEF BInv
  <2>8. \A p \in Batches : (\E e \in Conns : p \in In(durable'[e])) => Committed(p) \/ (p = apply[a].batch /\ Commits(a))
    BY <2>6 DEF Committed
  <2>9. preparing # None => /\ pending' = None /\ ~Committed(preparing)'
                            /\ \A e \in Applies : Busy(e)' => apply'[e].batch # preparing
    <3> SUFFICES ASSUME preparing # None
                 PROVE  /\ pending' = None /\ ~Committed(preparing)'
                        /\ \A e \in Applies : Busy(e)' => apply'[e].batch # preparing
      OBVIOUS
    <3>1. pending = None /\ ~Committed(preparing) /\ preparing # apply[a].batch
      BY <2>0 DEF BInv
    <3>2. ~\E e \in Conns : preparing \in In(durable'[e])
      BY <2>5, <2>8, <3>1
    <3>3. ~Committed(preparing)'
      BY <2>2, <3>2 DEF Committed
    <3> QED BY <2>2, <2>3, <3>1, <3>3
  \* The preview of a committed batch closes, or its connection is gone for good.
  <2>10. ASSUME pending' # None, Committed(pending)', apply'[a].pc = "done"
         PROVE  ~Connected'
    <3>1. pending' = pending /\ pending \in Batches
      BY <2>2, <2>5, <2>10
    <3>2. \E e \in Conns : pending \in In(durable'[e])
      BY <2>10, <3>1 DEF Committed
    <3>3. ~Commits(a)
      BY <2>10, <3>1 DEF Commits
    <3>4. Committed(pending)
      BY <2>8, <3>1, <3>2, <3>3
    <3>5. CASE ~Connected
      BY <2>2, <3>5, StaysUnconnected
    <3>6. CASE Connected
      <4>1. apply[a].batch = pending
        BY <2>2, <2>5, <3>1, <3>4, <3>6 DEF BInv
      <4>2. apply[a].conn = Bound /\ session[Bound].state # "disposed"
        BY <2>0, <2>5, <3>1, <3>6, <4>1 DEF BInv, Connected
      <4>3. apply[a].pc \in {"undo", "undoing"} /\ apply[a].error # "other"
        BY <2>7, <3>4, <4>1, <4>2
      <4>4. pending' = None
        BY <1>7, <2>10, <3>3, <4>3, Outcome
      <4> QED BY <2>10, <4>4
    <3> QED BY <3>5, <3>6
  \* An apply whose batch has been committed has only its ROLLBACK left.
  <2>11. ASSUME Busy(a)', \E e \in Conns : apply[a].batch \in In(durable'[e])
         PROVE  /\ apply'[a].pc \in {"undo", "undoing"}
                /\ apply'[a].error = "other" => session[apply[a].conn].state = "disposed"
    <3>1. CASE Commits(a)
      BY <2>11, <3>1 DEF Commits, Busy
    <3>2. CASE ~Commits(a)
      <4>1. Committed(apply[a].batch)
        BY <2>0, <2>8, <2>11, <3>2
      <4>2. apply[a].pc \in {"undo", "undoing"}
        BY <2>7, <4>1
      <4>3. apply'[a].pc # "done"
        BY <2>11 DEF Busy
      <4> QED BY <1>7, <2>7, <3>2, <4>1, <4>2, <4>3, Outcome
    <3> QED BY <3>1, <3>2
  <2>12. preparing' # None => /\ pending' = None /\ ~Committed(preparing)'
                              /\ \A e \in Applies : Busy(e)' => apply'[e].batch # preparing'
    BY <2>2, <2>9
  <2>13. pending' # None /\ Committed(pending)'
         => ~Connected' \/ \E e \in Applies : Busy(e)' /\ apply'[e].batch = pending'
    <3> SUFFICES ASSUME pending' # None, Committed(pending)', Connected'
                 PROVE  Busy(a)' /\ apply'[a].batch = pending
      BY <2>2
    <3>1. pending' = pending /\ pending \in Batches
      BY <2>2, <2>5
    <3>2. Busy(a)'
      BY <1>7, <2>10, GoesOn DEF Busy
    <3>3. \E e \in Conns : pending \in In(durable'[e])
      BY <3>1 DEF Committed
    <3>4. Committed(pending) => pending = apply[a].batch
      BY <2>2, <2>5, <3>1, StaysUnconnected DEF BInv
    <3> QED BY <2>2, <2>8, <3>1, <3>2, <3>3, <3>4
  <2>14. ASSUME NEW e \in Applies, Busy(e)', Committed(apply[e].batch)'
         PROVE  /\ apply'[e].pc \in {"undo", "undoing"}
                /\ apply'[e].error = "other" => session'[apply'[e].conn].state = "disposed"
    <3>1. e = a
      BY <2>3, <2>14
    <3>2. \E f \in Conns : apply[a].batch \in In(durable'[f])
      BY <2>2, <2>14, <3>1 DEF Committed
    <3> QED BY <2>0, <2>2, <2>4, <2>11, <2>14, <3>1, <3>2
  <2>15. ASSUME NEW e \in Applies, pending' # None, Busy(e)', apply'[e].batch = pending'
         PROVE  Bound' \in {None, apply'[e].conn}
    <3>1. e = a /\ pending' = pending /\ pending # None
      BY <2>2, <2>3, <2>15
    <3> QED BY <2>0, <2>2, <2>15, <3>1 DEF BInv
  <2> QED BY <2>12, <2>13, <2>14, <2>15 DEF BInv
<1>8. CASE UNCHANGED vars
  <2>1. UNCHANGED <<active, tab, preparing, pending, apply, session, durable>>
    BY <1>8 DEF vars, uiVars
  <2>2. \A b : Committed(b)' = Committed(b)
    BY <1>c, <2>1
  <2>3. Bound' = Bound /\ Connected' = Connected
    BY <2>1 DEF Bound, Connected
  <2> QED BY <2>1, <2>2, <2>3 DEF BInv, Busy
<1>9. CASE UiStep
  BY <1>1, <1>2, <1>3, <1>4, <1>9 DEF UiStep, TabStep
<1> QED BY <1>5, <1>6, <1>7, <1>8, <1>9, Steps

\* Every step is a step of the abstract store, or none of it.
LEMMA StoreStep ==
  ASSUME TInv, TInv', AInv, BInv, [Next]_vars
  PROVE  [Store!Next]_durable
<1>1. ASSUME NEW a \in Applies, CallStep(a) PROVE [Store!Next]_durable
  <2> DEFINE c == apply[a].conn
             b == apply[a].batch
  <2>1. Commits(a) \/ UNCHANGED durable
    BY <1>1, Outcome
  <2>2. CASE Commits(a)
    <3>1. Busy(a) /\ c \in Conns /\ b \in Batches
      BY <1>1, StepsBusy, Shape
    <3>2. ~Committed(b)
      BY <2>2, <3>1 DEF BInv, Commits
    <3>3. ~Store!Applied(b)
      BY <3>2 DEF Committed, In, Store!Applied
    <3>4. durable' = [durable EXCEPT ![c] = @ \o Store!Whole(b)]
      BY <2>2, <3>1, WholeIsWork DEF Commits
    <3>5. Store!Commit(c, b)
      BY <3>3, <3>4 DEF Store!Commit
    <3> HIDE DEF c, b
    <3> QED BY <3>1, <3>5 DEF Store!Next
  <2> QED BY <2>1, <2>2
<1>2. ASSUME NEW a \in Applies, Confirm(a) PROVE UNCHANGED durable
  BY <1>2 DEF Confirm
<1>3. ASSUME NEW c \in Conns, ConnStep(c) PROVE UNCHANGED durable
  BY <1>3, ConnEffect
<1>4. UiStep \/ UNCHANGED vars => UNCHANGED durable
  BY DEF UiStep, SwitchTab, Load, Bind, Prepare, Prepared, CancelApply, vars
<1> QED BY <1>1, <1>2, <1>3, <1>4, Steps

\* DmlApplier.ApplyAsync and ConfirmApplyAsync: if nothing else uses the connection during an apply and
\* the previewed tab stays active and is not bound to another connection, then whatever fails, what is
\* committed is whole batches, each once over all connections: the applies implement the store of whole
\* batches.
THEOREM ApplyingIsAtomic ==
  ASSUME Undisturbed, Steady
  PROVE  Spec => ImplementsBatchStore
<1> DEFINE IInv == TInv /\ Traced /\ AInv /\ BInv
<1>1. Init => IInv
  BY TypeInit, TracedInit, AtomicInit, OnceInit
<1>2. IInv /\ [Next]_vars => IInv'
  BY Typed, TracedKept, AtomicKept, OnceKept
<1>3. Init => Store!Init
  BY DEF Init, Store!Init
<1>4. IInv /\ IInv' /\ [Next]_vars => [Store!Next]_durable
  BY StoreStep
<1> HIDE DEF IInv
<1> QED BY <1>1, <1>2, <1>3, <1>4, PTL DEF Spec, ImplementsBatchStore, Store!Spec
====
