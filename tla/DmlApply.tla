---- MODULE DmlApply ----
(***************************************************************************)
(* Applying edited rows: PrepareApplyAsync, ConfirmApplyAsync and          *)
(* CancelApply of QueryArea.razor, DmlApplier.ApplyAsync, and              *)
(* MySqlQueryExecutor.ExecuteAsync on the one MySqlConnection that every   *)
(* DatabaseConnection shares between edits and metadata readers.           *)
(*                                                                         *)
(* START TRANSACTION, the commands, COMMIT and ROLLBACK are separate       *)
(* calls.  Between two of them the dispatcher may run anything, so the     *)
(* connection may by then be in another's use, closed, or reopened with a  *)
(* new session.  External: the session (START TRANSACTION commits an open  *)
(* transaction; a session that ends rolls back) and the driver (a          *)
(* connection in use refuses a second command; one whose link is found     *)
(* broken becomes closed).                                                 *)
(*                                                                         *)
(* A tab is bound to a connection, and can be bound to another while it    *)
(* shows a result: the rows and their edits stay, and where they go is     *)
(* decided when they are confirmed.                                        *)
(***************************************************************************)
EXTENDS Naturals, Sequences

CONSTANTS
    Tabs,       \* query tabs
    Conns,      \* bound: the connections opened; a new one to the same server is another
    Batches,    \* bound: the previews that produce commands
    Applies,    \* bound: invocations of ConfirmApplyAsync
    Size,       \* commands in a batch
    None,       \* null
    Reader,     \* any metadata read on a shared connection
    Allowed     \* the overlaps that happen

Overlaps == {"read while applying",     \* the tree, a completion or a run reads the schema
             "confirm twice",           \* a second click before the button is disabled
             "switch while previewing", \* the command palette opens a table meanwhile
             "rebind while previewing", \* a connection being opened takes the active tab
             "edit after rebinding"}    \* rows of one connection, previewed on another

ASSUME DmlAssumption ==
    /\ None \notin Tabs \union Conns \union Batches \union Applies
    /\ Reader \notin Applies \union {None}
    /\ Size \in Nat \ {0}
    /\ Allowed \subseteq Overlaps

VARIABLES
    active,     \* the active tab
    tab,        \* each tab: ConnectionId, and the connection its editable rows were read from
    preparing,  \* the batch PrepareApplyAsync asks the grid for, or None
    pending,    \* _pendingCommands: a batch or None
    origin,     \* history: the connection the rows of a batch were read from
    applying,   \* _applying
    apply,      \* each ConfirmApplyAsync
    session,    \* each shared connection: the driver's State, the server's session
    durable     \* each server's committed changes, in order

uiVars == <<active, tab, preparing, pending, origin>>
vars == <<uiVars, applying, apply, session, durable>>

NewSession == [state |-> "open", alive |-> TRUE, user |-> None, inTx |-> FALSE, work |-> <<>>]

LastStep == Size + 1        \* step 0 is START TRANSACTION, k command k, this one COMMIT

Busy(a) == apply[a].pc \notin {"idle", "done"}
ApplyingOn(c) == \E a \in Applies : Busy(a) /\ apply[a].conn = c

May(o, overlapping) == overlapping => o \in Allowed

\* The active tab's connection, and the one its editable rows were read from.
Bound == tab[active].conn
Loaded == tab[active].loaded

\* ConnectionOf(tab) is not null.
Connected == Bound # None /\ session[Bound].state # "disposed"

Previewing == preparing # None \/ pending # None

MaySwitch == May("switch while previewing", Previewing)
MayBind(t, c) == May("rebind while previewing", Previewing /\ t = active /\ c # None)
MayPrepare == May("edit after rebinding", Bound \notin {None, Loaded})
MayRead(c) == May("read while applying", ApplyingOn(c))
MayConfirm == /\ May("confirm twice", applying)
              /\ May("read while applying", session[Bound].user = Reader)

Init ==
    /\ active \in Tabs
    /\ tab \in [Tabs -> [conn : Conns \union {None}, loaded : {None}]]
    /\ preparing = None /\ pending = None
    /\ origin = [b \in Batches |-> None]
    /\ applying = FALSE
    /\ apply = [a \in Applies |-> [pc |-> "idle", conn |-> None, batch |-> None, step |-> 0,
                                   error |-> "none", asked |-> FALSE]]
    /\ session = [c \in Conns |-> NewSession]
    /\ durable = [c \in Conns |-> <<>>]

----------------------------------------------------------------------------
(* The tabs *)

\* Another tab becomes the active one.
SwitchTab(t) ==
    /\ t # active
    /\ MaySwitch
    /\ active' = t
    /\ UNCHANGED <<tab, preparing, pending, origin, applying, apply, session, durable>>

\* RunAsync on the active tab shows rows of its connection, or none that can be edited.
Load ==
    /\ Connected
    /\ \E l \in {Bound, None} : tab' = [tab EXCEPT ![active].loaded = l]
    /\ UNCHANGED <<active, preparing, pending, origin, applying, apply, session, durable>>

\* SetConnectionAsync, or ConnectAsync for a tab without one: the tab's connection changes,
\* what the tab shows does not.
Bind(t, c) ==
    /\ c # tab[t].conn
    /\ c # None => session[c].state # "disposed"
    /\ MayBind(t, c)
    /\ tab' = [tab EXCEPT ![t].conn = c]
    /\ UNCHANGED <<active, preparing, pending, origin, applying, apply, session, durable>>

----------------------------------------------------------------------------
(* The preview *)

\* PrepareApplyAsync takes the active tab's editable table and asks the grid for its changes.
Prepare(b) ==
    /\ ~Previewing
    /\ origin[b] = None
    /\ Loaded # None
    /\ MayPrepare
    /\ preparing' = b
    /\ origin' = [origin EXCEPT ![b] = Loaded]
    /\ UNCHANGED <<active, tab, pending, applying, apply, session, durable>>

\* The changes arrive and become the previewed commands.
Prepared ==
    /\ preparing # None
    /\ pending' = preparing
    /\ preparing' = None
    /\ UNCHANGED <<active, tab, origin, applying, apply, session, durable>>

\* A click beside the preview closes it, even while its commands are being applied.
CancelApply ==
    /\ pending # None
    /\ pending' = None
    /\ UNCHANGED <<active, tab, preparing, origin, applying, apply, session, durable>>

----------------------------------------------------------------------------
(* The shared connection *)

\* ExecuteAsync throws before anything is sent: the connection is disposed, is in use, or
\* is closed and cannot be opened.
Refuses(c) ==
    session[c].state \in {"disposed", "closed"} \/ session[c].user # None

\* ExecuteAsync sends a command, on a new session when the connection is closed.
Accepts(c, user) ==
    /\ session[c].state # "disposed" /\ session[c].user = None
    /\ session' = [session EXCEPT ![c] = IF @.state = "closed"
                                         THEN [NewSession EXCEPT !.user = user]
                                         ELSE [@ EXCEPT !.user = user]]

\* A session that ends: what it had not committed is rolled back.
Dead(s) == [s EXCEPT !.alive = FALSE, !.user = None, !.inTx = FALSE, !.work = <<>>,
                     !.state = IF @ = "disposed" THEN @ ELSE "closed"]

Healthy(c) == session[c].alive /\ session[c].state = "open"

\* The server executes step k of a batch: the session and the committed changes after it.
Executed(s, d, b, k) ==
    IF k = 0 THEN [s |-> [s EXCEPT !.inTx = TRUE, !.work = <<>>], d |-> d \o s.work]
    ELSE IF k = LastStep THEN [s |-> [s EXCEPT !.inTx = FALSE, !.work = <<>>], d |-> d \o s.work]
    ELSE IF s.inTx THEN [s |-> [s EXCEPT !.work = Append(@, <<b, k>>)], d |-> d]
    ELSE [s |-> s, d |-> Append(d, <<b, k>>)]

----------------------------------------------------------------------------
(* ConfirmApplyAsync and DmlApplier.ApplyAsync *)

\* A mutant: the commands run without START TRANSACTION.
ConfirmWithoutStart(a) ==
    /\ apply[a].pc = "idle"
    /\ pending # None /\ Connected
    /\ MayConfirm
    /\ applying' = TRUE
    /\ apply' = [apply EXCEPT ![a].pc = "ready", ![a].conn = Bound, ![a].batch = pending,
                              ![a].step = 1]
    /\ UNCHANGED <<uiVars, session, durable>>

\* A mutant: the commands go to the connection selected in the tree.
ConfirmElsewhere(a) ==
    /\ apply[a].pc = "idle"
    /\ pending # None /\ Connected
    /\ MayConfirm
    /\ applying' = TRUE
    /\ \E c \in Conns :
          apply' = [apply EXCEPT ![a].pc = "ready", ![a].conn = c, ![a].batch = pending]
    /\ UNCHANGED <<uiVars, session, durable>>

\* The previewed commands are applied on the connection the active tab is bound to now.
Confirm(a) ==
    /\ apply[a].pc = "idle"
    /\ pending # None /\ Connected
    /\ MayConfirm
    /\ applying' = TRUE
    /\ apply' = [apply EXCEPT ![a].pc = "ready", ![a].conn = Bound, ![a].batch = pending]
    /\ UNCHANGED <<uiVars, session, durable>>

\* ConfirmApplyAsync returns: the preview is closed, unless what escapes ApplyAsync is
\* not a QueryExecutionException ("other"), which nobody catches.
Ended(a, error) ==
    /\ apply' = [apply EXCEPT ![a].pc = "done", ![a].error = error, ![a].step = 0]
    /\ applying' = FALSE
    /\ pending' = IF error = "other" THEN pending ELSE None
    /\ UNCHANGED <<active, tab, preparing, origin>>

\* A mutant: the catch block rethrows without a ROLLBACK.
FailsWithoutRollback(a, error) == Ended(a, error)

\* An exception: inside the try block ROLLBACK comes next, START TRANSACTION is before it.
Fails(a, error) ==
    IF apply[a].step = 0 THEN Ended(a, error)
    ELSE /\ apply' = [apply EXCEPT ![a].pc = "undo", ![a].error = error]
         /\ UNCHANGED <<uiVars, applying>>

\* The next call of ApplyAsync reaches the server.
Send(a) ==
    /\ apply[a].pc = "ready"
    /\ Accepts(apply[a].conn, a)
    /\ apply' = [apply EXCEPT ![a].pc = "sent", ![a].asked = apply[a].step = LastStep]
    /\ UNCHANGED <<uiVars, applying, durable>>

\* It does not: the connection refuses it.
Refused(a) ==
    /\ apply[a].pc = "ready"
    /\ Refuses(apply[a].conn)
    /\ Fails(a, "other")
    /\ UNCHANGED <<session, durable>>

\* A mutant: one command too many.
SucceedsPastEnd(a) ==
    LET c == apply[a].conn
        after == Executed(session[c], durable[c], apply[a].batch, apply[a].step)
    IN  /\ apply[a].pc = "sent" /\ Healthy(c)
        /\ session' = [session EXCEPT ![c] = [after.s EXCEPT !.user = None]]
        /\ durable' = [durable EXCEPT ![c] = after.d]
        /\ IF apply[a].step > LastStep THEN Ended(a, "none")
           ELSE /\ apply' = [apply EXCEPT ![a].pc = "ready", ![a].step = @ + 1]
                /\ UNCHANGED <<uiVars, applying>>

\* The server executes the command; COMMIT is the last.
Succeeds(a) ==
    LET c == apply[a].conn
        after == Executed(session[c], durable[c], apply[a].batch, apply[a].step)
    IN  /\ apply[a].pc = "sent" /\ Healthy(c)
        /\ session' = [session EXCEPT ![c] = [after.s EXCEPT !.user = None]]
        /\ durable' = [durable EXCEPT ![c] = after.d]
        /\ IF apply[a].step = LastStep THEN Ended(a, "none")
           ELSE /\ apply' = [apply EXCEPT ![a].pc = "ready", ![a].step = @ + 1]
                /\ UNCHANGED <<uiVars, applying>>

\* The server rejects a command, START TRANSACTION or COMMIT: the statement has no effect,
\* or (a deadlock) the whole transaction is rolled back.
Errs(a) ==
    LET c == apply[a].conn
    IN  /\ apply[a].pc = "sent" /\ Healthy(c)
        /\ \/ session' = [session EXCEPT ![c].user = None]
           \/ session' = [session EXCEPT ![c].user = None, ![c].inTx = FALSE, ![c].work = <<>>]
        /\ Fails(a, "query")
        /\ UNCHANGED durable

\* The link breaks, or the connection has been disposed, under a command, which the
\* server may have executed.
Lost(a) ==
    LET c == apply[a].conn
        after == Executed(session[c], durable[c], apply[a].batch, apply[a].step)
    IN  /\ apply[a].pc = "sent"
        /\ \/ UNCHANGED durable
           \/ session[c].alive /\ durable' = [durable EXCEPT ![c] = after.d]
        /\ session' = [session EXCEPT ![c] = Dead(@)]
        /\ Fails(a, IF session[c].state = "disposed" THEN "other" ELSE "query")

\* The catch block: ROLLBACK, whose own failure is swallowed.
SendRollback(a) ==
    /\ apply[a].pc = "undo"
    /\ Accepts(apply[a].conn, a)
    /\ apply' = [apply EXCEPT ![a].pc = "undoing"]
    /\ UNCHANGED <<uiVars, applying, durable>>

RollbackRefused(a) ==
    /\ apply[a].pc = "undo"
    /\ Refuses(apply[a].conn)
    /\ Ended(a, apply[a].error)
    /\ UNCHANGED <<session, durable>>

\* A mutant: the catch block does not rethrow.
RolledBackSilently(a) ==
    LET c == apply[a].conn
    IN  /\ apply[a].pc = "undoing" /\ Healthy(c)
        /\ session' = [session EXCEPT ![c].user = None, ![c].inTx = FALSE, ![c].work = <<>>]
        /\ Ended(a, "none")
        /\ UNCHANGED durable

RolledBack(a) ==
    LET c == apply[a].conn
    IN  /\ apply[a].pc = "undoing" /\ Healthy(c)
        /\ session' = [session EXCEPT ![c].user = None, ![c].inTx = FALSE, ![c].work = <<>>]
        /\ Ended(a, apply[a].error)
        /\ UNCHANGED durable

RollbackLost(a) ==
    /\ apply[a].pc = "undoing"
    /\ session' = [session EXCEPT ![apply[a].conn] = Dead(@)]
    /\ Ended(a, apply[a].error)
    /\ UNCHANGED durable

----------------------------------------------------------------------------
(* What else happens to the connection *)

\* A metadata reader (the tree, completion, editability) uses the connection.
ReadStarts(c) ==
    /\ MayRead(c)
    /\ Accepts(c, Reader)
    /\ UNCHANGED <<uiVars, applying, apply, durable>>

ReadEnds(c) ==
    /\ session[c].user = Reader
    /\ \/ Healthy(c) /\ session' = [session EXCEPT ![c].user = None]
       \/ session' = [session EXCEPT ![c] = Dead(@)]
    /\ UNCHANGED <<uiVars, applying, apply, durable>>

\* The server ends an idle session (wait_timeout, KILL, a restart): the driver will not
\* know before the next command.
Drop(c) ==
    /\ session[c].alive /\ session[c].user = None
    /\ session' = [session EXCEPT ![c] = [Dead(@) EXCEPT !.state = session[c].state]]
    /\ UNCHANGED <<uiVars, applying, apply, durable>>

\* DisconnectAsync disposes the connection, whatever uses it, and unbinds its tabs, which
\* keep what they show.
Disconnect(c) ==
    /\ session[c].state # "disposed"
    /\ session' = [session EXCEPT ![c] =
                     LET s == [@ EXCEPT !.state = "disposed"]
                     IN  IF s.user = None THEN Dead(s) ELSE s]
    /\ tab' = [t \in Tabs |-> IF tab[t].conn = c THEN [tab[t] EXCEPT !.conn = None] ELSE tab[t]]
    /\ UNCHANGED <<active, preparing, pending, origin, applying, apply, durable>>

----------------------------------------------------------------------------

Next ==
    \/ \E t \in Tabs : SwitchTab(t)
    \/ Load
    \/ \E t \in Tabs, c \in Conns \union {None} : Bind(t, c)
    \/ \E b \in Batches : Prepare(b)
    \/ Prepared
    \/ CancelApply
    \/ \E a \in Applies :
          \/ Confirm(a)
          \/ Send(a)
          \/ Refused(a)
          \/ Succeeds(a)
          \/ Errs(a)
          \/ Lost(a)
          \/ SendRollback(a)
          \/ RollbackRefused(a)
          \/ RolledBack(a)
          \/ RollbackLost(a)
    \/ \E c \in Conns :
          \/ ReadStarts(c)
          \/ ReadEnds(c)
          \/ Drop(c)
          \/ Disconnect(c)

Spec == Init /\ [][Next]_vars

----------------------------------------------------------------------------

Changes == Batches \X (1..Size)
Tab == [conn : Conns \union {None}, loaded : Conns \union {None}]
Call == [pc : {"idle", "ready", "sent", "undo", "undoing", "done"},
         conn : Conns \union {None}, batch : Batches \union {None}, step : 0..LastStep,
         error : {"none", "query", "other"}, asked : BOOLEAN]
Session == [state : {"open", "closed", "disposed"}, alive : BOOLEAN,
            user : Applies \union {Reader, None}, inTx : BOOLEAN, work : Seq(Changes)]

TypeOK ==
    /\ active \in Tabs
    /\ tab \in [Tabs -> Tab]
    /\ preparing \in Batches \union {None}
    /\ pending \in Batches \union {None}
    /\ origin \in [Batches -> Conns \union {None}]
    /\ applying \in BOOLEAN
    /\ apply \in [Applies -> Call]
    /\ session \in [Conns -> Session]
    /\ durable \in [Conns -> Seq(Changes)]

\* Nothing of batch b is in the database of c; or the whole of it: every command, once, in order.
Absent(c, b) == \A i \in DOMAIN durable[c] : durable[c][i][1] # b

Complete(c, b) ==
    /\ \A k \in 1..Size : \E i \in DOMAIN durable[c] : durable[c][i] = <<b, k>>
    /\ \A i, j \in DOMAIN durable[c] :
          durable[c][i][1] = b /\ durable[c][j][1] = b /\ i < j => durable[c][i][2] < durable[c][j][2]

\* Every batch reaches a database whole, in order and once, or not at all.
Atomic == \A c \in Conns, b \in Batches : Absent(c, b) \/ Complete(c, b)

\* An apply that ends without an error has committed its batch.
AppliedIsDurable ==
    \A a \in Applies : apply[a].pc = "done" /\ apply[a].error = "none"
        => Complete(apply[a].conn, apply[a].batch)

\* A batch whose applies all ended with an error before COMMIT was sent has left nothing.
\* (After COMMIT has been sent, an error says nothing either way.)
FailedIsUndone ==
    \A b \in Batches :
        (\A a \in Applies : apply[a].batch = b =>
            apply[a].pc = "done" /\ apply[a].error # "none" /\ ~apply[a].asked)
        => \A c \in Conns : Absent(c, b)

\* Changes reach only the connection whose rows they were made in.
RightConnection ==
    \A c \in Conns : \A i \in DOMAIN durable[c] : origin[durable[c][i][1]] = c

\* No transaction, and none of the locks it holds, outlives the apply that opened it.
CleanSession == \A c \in Conns : session[c].inTx => ApplyingOn(c)

Store == INSTANCE BatchStore

\* Applying is atomic: it implements the store of whole batches.
ImplementsBatchStore == Store!Spec
====
