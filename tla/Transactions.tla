---------------------------- MODULE Transactions ----------------------------
(***************************************************************************)
(* The manual-commit mode of one connection (odbc_transactions.cc): the    *)
(* statements that share it, the session and the transaction they run in,  *)
(* and SQLEndTran.  The calls of different statements interleave at every  *)
(* request to the server, as their worker threads do.  A call is a list of *)
(* requests (BEGIN TRANSACTION, a dry run, the query itself); each is      *)
(* constructed, sent, served and answered, and may be rejected or lost.    *)
(*                                                                         *)
(* The server's sessions are external: they are modelled by what the       *)
(* driver relies on.  A failed query leaves its transaction as it was.     *)
(***************************************************************************)
EXTENDS Naturals

CONSTANTS
  Stmt,           \* the statement handles of the connection
  Session,        \* the sessions the server can create
  NewSession,     \* a request that asks for a session
  NoSession,
  Work,           \* the changes that the queries of the application make
  Dsns,           \* the data sources: [sessions, ignore : BOOLEAN]
  ReExecute,      \* TRUE: a statement prepared for one transaction is executed
                  \* in another one
  ParallelFirst   \* TRUE: statements run in parallel before there is a session

ASSUME TransactionsAssumption ==
  /\ NewSession \notin Session
  /\ NoSession \notin Session \cup {NewSession}
  /\ Dsns \subseteq [sessions : BOOLEAN, ignore : BOOLEAN]
  /\ ReExecute \in BOOLEAN
  /\ ParallelFirst \in BOOLEAN

VARIABLES
  conn,     \* the ConnectionHandle
  stmt,     \* [Stmt -> record], the state of each StatementHandle
  call,     \* [Stmt -> record], the call in progress on each statement
  server,   \* [Session -> record], the sessions and their transactions
  durable,  \* the work committed, in a transaction or on its own
  ran,      \* all the work the server has done
  since,    \* the work done in manual-commit mode since SQLEndTran last succeeded
  kept,     \* the work for which SQLEndTran has reported a COMMIT
  undone    \* the work for which SQLEndTran has reported a ROLLBACK

history == <<kept, undone>>
vars == <<conn, stmt, call, server, durable, ran, since, kept, undone>>

IdleCall == [op |-> "none", step |-> "none", phase |-> "idle",
             to |-> NoSession, got |-> NoSession]

\* query: there is no text; it was prepared or executed since the last end of
\* a transaction or change of mode ("now"); or before.
NewStmt == [state |-> "NotPrepared", prepared |-> FALSE, query |-> "none"]

Init ==
  /\ \E d \in Dsns :
       conn = [connected |-> TRUE, dsn |-> d, autocommit |-> TRUE,
               active |-> FALSE, session |-> NoSession]
  /\ stmt = [t \in Stmt |-> NewStmt]
  /\ call = [t \in Stmt |-> IdleCall]
  /\ server =
       [s \in Session |-> [life |-> "unused", open |-> FALSE, pending |-> {}]]
  /\ durable = {}
  /\ ran = {}
  /\ since = {}
  /\ kept = {}
  /\ undone = {}

\* BeginTransactionIfNeeded begins a transaction in this mode only.
Manual == ~conn.autocommit /\ ~conn.dsn.ignore

Idle(t) == call[t].phase = "idle"
AllIdle == \A t \in Stmt : Idle(t)

-----------------------------------------------------------------------------
(* Calls of a statement.                                                   *)

FirstStep(op) == IF op = "execute" THEN "work" ELSE "begin"

\* With bound parameters SQLExecDirect prepares the query first.
NextSteps(op, step) ==
  CASE op # "execDirect" /\ step = "begin" -> {"dry"}
    [] op = "execDirect" /\ step = "begin" -> {"dry", "work"}
    [] op = "execDirect" /\ step = "dry"   -> {"work"}
    [] OTHER                               -> {"done"}

\* BEGIN TRANSACTION is sent if the tests of BeginTransactionIfNeeded say so.
FirstPhase(step) == IF step = "begin" THEN "test" ELSE "construct"

GoTo(t, step) ==
  call' = [call EXCEPT ![t].step = step, ![t].phase = FirstPhase(step),
                       ![t].to = NoSession, ![t].got = NoSession]

MayStart(t) ==
  /\ conn.connected
  /\ Idle(t)
  /\ ~ParallelFirst /\ conn.session = NoSession => AllIdle

Start(t, op) ==
  /\ MayStart(t)
  /\ call' = [call EXCEPT ![t] = [IdleCall EXCEPT !.op = op,
                !.step = FirstStep(op), !.phase = FirstPhase(FirstStep(op))]]
  /\ UNCHANGED <<conn, server, durable, ran, since, history>>

SQLPrepare(t) == Start(t, "prepare") /\ UNCHANGED stmt

\* SQLExecute begins no transaction: it relies on SQLPrepare.
SQLExecute(t) ==
  /\ stmt[t].state \in {"Prepared", "ExecutedWithoutRs"}
  /\ ReExecute \/ stmt[t].query = "now"
  /\ Start(t, "execute")
  /\ stmt' = [stmt EXCEPT ![t].state = "StillExecuting"]

SQLExecDirect(t) ==
  /\ stmt[t].state # "ExecutedWithRs"
  /\ Start(t, "execDirect")
  /\ stmt' = [stmt EXCEPT ![t].state = "StillExecuting",
                ![t].query = "before"]

CloseCursorOf(x) ==
  [x EXCEPT !.state = IF x.prepared THEN "Prepared" ELSE "NotPrepared"]

SQLCloseCursor(t) ==
  /\ Idle(t)
  /\ stmt[t].state = "ExecutedWithRs"
  /\ stmt' = [stmt EXCEPT ![t] = CloseCursorOf(stmt[t])]
  /\ UNCHANGED <<conn, call, server, durable, ran, since, history>>

\* The two tests of BeginTransactionIfNeeded.
BeginTest(t) ==
  /\ call[t].phase = "test"
  /\ IF conn.active \/ ~Manual
     THEN \E next \in NextSteps(call[t].op, "begin") : GoTo(t, next)
     ELSE call' = [call EXCEPT ![t].phase = "construct"]
  /\ UNCHANGED <<conn, stmt, server, durable, ran, since, history>>

\* Faulty variant: the session that the connection has is not used.
TargetForgetful == IF conn.dsn.sessions THEN NewSession ELSE NoSession

\* Where a request is sent: to the session of the connection, if it has one.
Target ==
  CASE conn.session # NoSession -> conn.session
    [] conn.session = NoSession /\ conn.dsn.sessions -> NewSession
    [] OTHER -> NoSession

Send(t) ==
  /\ call[t].phase = "construct"
  /\ call' = [call EXCEPT ![t].phase = "sent", ![t].to = Target]
  /\ UNCHANGED <<conn, stmt, server, durable, ran, since, history>>

-----------------------------------------------------------------------------
(* The server.                                                             *)

\* The session a request runs in; NoSession: outside of every session.
RunsIn(to) ==
  CASE to = NewSession -> {s \in Session : server[s].life = "unused"}
    [] to = NoSession  -> {NoSession}
    [] OTHER           -> {s \in {to} : server[s].life = "alive"}

Answered(t, s) ==
  call' = [call EXCEPT ![t].phase = "answered", ![t].got = s]

Alive(s) == [server EXCEPT ![s].life = "alive"]

\* Transactions exist in sessions only and are not nested.
ServeBegin(t) ==
  /\ call[t].phase = "sent"
  /\ call[t].step = "begin"
  /\ \E s \in RunsIn(call[t].to) \ {NoSession} :
       /\ ~server[s].open
       /\ server' = [Alive(s) EXCEPT ![s].open = TRUE]
       /\ Answered(t, s)
  /\ UNCHANGED <<conn, stmt, durable, ran, since, history>>

ServeDryRun(t) ==
  /\ call[t].phase = "sent"
  /\ call[t].step = "dry"
  /\ \E s \in RunsIn(call[t].to) :
       /\ server' = IF s = NoSession THEN server ELSE Alive(s)
       /\ Answered(t, s)
  /\ UNCHANGED <<conn, stmt, durable, ran, since, history>>

\* A query makes its changes in the open transaction of its session, or else
\* they last.  A SELECT changes nothing.
ServeWork(t) ==
  /\ call[t].phase = "sent"
  /\ call[t].step = "work"
  /\ stmt[t].query # "none"
  /\ \E s \in RunsIn(call[t].to), changes \in SUBSET (Work \ ran) :
       /\ IF s # NoSession /\ server[s].open
          THEN /\ server' = [server EXCEPT ![s].pending = @ \cup changes]
               /\ UNCHANGED durable
          ELSE /\ server' = IF s = NoSession THEN server ELSE Alive(s)
               /\ durable' = durable \cup changes
       /\ ran' = ran \cup changes
       /\ since' = IF Manual THEN since \cup changes ELSE since
       /\ Answered(t, s)
  /\ UNCHANGED <<conn, stmt, history>>

\* A session is terminated and its transaction rolled back.
SessionEnds(s) ==
  /\ server[s].life = "alive"
  /\ server' = [server EXCEPT ![s] =
                  [life |-> "ended", open |-> FALSE, pending |-> {}]]
  /\ UNCHANGED <<conn, stmt, call, durable, ran, since, history>>

-----------------------------------------------------------------------------
(* The answers.                                                            *)

\* RetryLoop: the answer did not come in time and the request is sent again; it
\* has no id, so the server takes it for another one.
Retry(t) ==
  /\ call[t].phase = "answered"
  /\ call' = [call EXCEPT ![t].phase = "sent", ![t].got = NoSession]
  /\ UNCHANGED <<conn, stmt, server, durable, ran, since, history>>

\* The session is kept if the connection has none; the test and the
\* assignment are two steps.
TestSession(t) ==
  /\ call[t].phase = "answered"
  /\ call' = [call EXCEPT ![t].phase = "keep", ![t].to = NoSession,
                ![t].got = IF conn.session = NoSession THEN @ ELSE NoSession]
  /\ UNCHANGED <<conn, stmt, server, durable, ran, since, history>>

Kept(t) == IF call[t].got # NoSession THEN call[t].got ELSE conn.session

\* What the last step of a call leaves on the statement.
Succeeds(t) ==
  IF call[t].op = "prepare"
  THEN stmt' = [stmt EXCEPT ![t] =
                  [state |-> "Prepared", prepared |-> TRUE, query |-> "now"]]
  ELSE \E state \in {"ExecutedWithRs", "ExecutedWithoutRs"} :
         stmt' = [stmt EXCEPT ![t].state = state, ![t].query = "now"]

KeepSession(t) ==
  /\ call[t].phase = "keep"
  /\ conn' = [conn EXCEPT !.session = Kept(t),
                !.active = IF call[t].step = "begin" THEN TRUE ELSE @]
  /\ \E next \in NextSteps(call[t].op, call[t].step) :
       IF next = "done"
       THEN /\ Succeeds(t)
            /\ call' = [call EXCEPT ![t] = IdleCall]
       ELSE /\ GoTo(t, next)
            /\ UNCHANGED stmt
  /\ UNCHANGED <<server, durable, ran, since, history>>

\* What a failure leaves on the statement.  SQLPrepare marks it as prepared all
\* the same; a failed BEGIN or dry run of SQLExecDirect leaves it as executing.
StateAfterFailure(t) ==
  CASE call[t].op \in {"prepare", "execute"} -> "Prepared"
    [] call[t].step = "work" -> "NotPrepared"
    [] OTHER -> "StillExecuting"

\* The query text is not of this transaction any more.
NotNow(x) == [x EXCEPT !.query = IF @ = "now" THEN "before" ELSE @]

\* The request has not arrived or is rejected, or its answer is lost.
CallFails(t) ==
  /\ call[t].phase \in {"sent", "answered"}
  /\ stmt' = [stmt EXCEPT ![t] =
       [state |-> StateAfterFailure(t),
        prepared |-> @.prepared \/ call[t].op = "prepare",
        query |-> IF call[t].op = "prepare" THEN NotNow(@).query ELSE @.query]]
  /\ call' = [call EXCEPT ![t] = IdleCall]
  /\ UNCHANGED <<conn, server, durable, ran, since, history>>

-----------------------------------------------------------------------------
(* Calls of the connection.  The driver manager lets none of them start    *)
(* while a statement of the connection is executing.                       *)

\* CloseCursor of every statement of the connection.
CloseCursors == stmt' = [t \in Stmt |-> NotNow(CloseCursorOf(stmt[t]))]

\* What the application may rely on once SQLEndTran has succeeded.
Reported(type) ==
  /\ kept' = IF type = "COMMIT" THEN kept \cup since ELSE kept
  /\ undone' = IF type = "ROLLBACK" THEN undone \cup since ELSE undone
  /\ since' = {}

\* Faulty variant: the server's refusal is not noticed.
EndAtServerUnnoticed(type) ==
  LET s == conn.session
  IN  /\ s # NoSession
      /\ durable' = IF type = "COMMIT" THEN durable \cup server[s].pending
                                       ELSE durable
      /\ server' = [server EXCEPT ![s].open = FALSE, ![s].pending = {}]

\* COMMIT or ROLLBACK at the server, in the session of the connection.
EndAtServer(type) ==
  LET s == conn.session
  IN  /\ s # NoSession
      /\ server[s].open
      /\ durable' = IF type = "COMMIT" THEN durable \cup server[s].pending
                                       ELSE durable
      /\ server' = [server EXCEPT ![s].open = FALSE, ![s].pending = {}]

EndTranOk(type) ==
  /\ conn.active
  /\ EndAtServer(type)
  /\ conn' = [conn EXCEPT !.active = FALSE]
  /\ CloseCursors
  /\ Reported(type)

\* Faulty variant: the flag is cleared before the answer is looked at.
EndTranLostClearing(type) ==
  /\ conn.active
  /\ EndAtServer(type)
  /\ conn' = [conn EXCEPT !.active = FALSE]
  /\ UNCHANGED <<stmt, since, history>>

\* The server has done it, but the answer is lost or a retry was rejected: the
\* flag and the cursors stay.
EndTranLost(type) ==
  /\ conn.active
  /\ EndAtServer(type)
  /\ UNCHANGED <<conn, stmt, since, history>>

\* Without an active transaction SQLEndTran has nothing to do.
EndTranNothing(type) ==
  /\ ~conn.active
  /\ stmt' = [t \in Stmt |-> NotNow(stmt[t])]
  /\ Reported(type)
  /\ UNCHANGED <<conn, server, durable>>

SQLEndTran(type) ==
  /\ conn.connected
  /\ AllIdle
  /\ EndTranOk(type) \/ EndTranLost(type) \/ EndTranNothing(type)
  /\ UNCHANGED <<call, ran>>

\* SQL_ATTR_AUTOCOMMIT is stored; an open transaction stays open.
SetAutocommit(on) ==
  /\ AllIdle
  /\ conn.autocommit # on
  /\ conn' = [conn EXCEPT !.autocommit = on]
  /\ stmt' = [t \in Stmt |-> NotNow(stmt[t])]
  /\ UNCHANGED <<call, server, durable, ran, since, history>>

\* SQLDisconnect frees the statements; the session id and the attributes stay.
SQLDisconnect ==
  /\ conn.connected
  /\ AllIdle
  /\ ~conn.active
  /\ conn' = [conn EXCEPT !.connected = FALSE]
  /\ stmt' = [t \in Stmt |-> NewStmt]
  /\ UNCHANGED <<call, server, durable, ran, since, history>>

\* Faulty variant: the id of a session to come is taken for the id of one.
SQLConnectEager(d) ==
  /\ ~conn.connected
  /\ conn' = [conn EXCEPT !.connected = TRUE, !.dsn = d, !.session = NewSession]
  /\ UNCHANGED <<stmt, call, server, durable, ran, since, history>>

\* A new data source; the session id and the attributes are the old ones.
SQLConnect(d) ==
  /\ ~conn.connected
  /\ conn' = [conn EXCEPT !.connected = TRUE, !.dsn = d]
  /\ UNCHANGED <<stmt, call, server, durable, ran, since, history>>

-----------------------------------------------------------------------------
StatementCall(t) ==
  SQLPrepare(t) \/ SQLExecute(t) \/ SQLExecDirect(t) \/ SQLCloseCursor(t)

StatementStep(t) ==
  \/ BeginTest(t) \/ Send(t)
  \/ ServeBegin(t) \/ ServeDryRun(t) \/ ServeWork(t)
  \/ Retry(t) \/ TestSession(t) \/ KeepSession(t) \/ CallFails(t)

ConnectionCall ==
  \/ \E type \in {"COMMIT", "ROLLBACK"} : SQLEndTran(type)
  \/ \E on \in BOOLEAN : SetAutocommit(on)
  \/ SQLDisconnect
  \/ \E d \in Dsns : SQLConnect(d)

Next ==
  \/ \E t \in Stmt : StatementCall(t) \/ StatementStep(t)
  \/ ConnectionCall
  \/ \E s \in Session : SessionEnds(s)

Spec == Init /\ [][Next]_vars

-----------------------------------------------------------------------------
(* Properties.                                                             *)

StmtStates == {"NotPrepared", "Prepared", "StillExecuting", "ExecutedWithRs",
               "ExecutedWithoutRs"}

CallType ==
  [op : {"none", "prepare", "execute", "execDirect"},
   step : {"none", "begin", "dry", "work"},
   phase : {"idle", "test", "construct", "sent", "answered", "keep"},
   to : Session \cup {NewSession, NoSession},
   got : Session \cup {NoSession}]

\* Every variable holds values of the kind the code keeps in it; in particular
\* the connection never takes a request for a session for the id of one.
TypeOK ==
  /\ conn \in [connected : BOOLEAN, dsn : Dsns, autocommit : BOOLEAN,
               active : BOOLEAN, session : Session \cup {NoSession}]
  /\ stmt \in [Stmt -> [state : StmtStates, prepared : BOOLEAN,
                        query : {"none", "before", "now"}]]
  /\ call \in [Stmt -> CallType]
  /\ server \in [Session -> [life : {"unused", "alive", "ended"},
                             open : BOOLEAN, pending : SUBSET Work]]
  /\ durable \in SUBSET Work
  /\ ran \in SUBSET Work
  /\ since \in SUBSET Work
  /\ kept \in SUBSET Work
  /\ undone \in SUBSET Work

\* When SQLEndTran(SQL_COMMIT) has returned SQL_SUCCESS, everything the
\* statements of the connection changed in manual-commit mode lasts: nothing
\* ran in another session or was lost with a transaction.
CommitKeeps == kept \subseteq durable

\* When SQLEndTran(SQL_ROLLBACK) has returned SQL_SUCCESS, nothing that was
\* changed in manual-commit mode since the last SQLEndTran lasts, then or later
\* (statement_test.cc, RollBackTransaction).
RollbackUndoes == undone \cap durable = {}

\* SQLDisconnect is refused with 25000 as long as there are changes for which
\* no SQLEndTran has succeeded.
DisconnectSettled == ~conn.connected => since = {}
=============================================================================
