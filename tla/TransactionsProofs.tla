------------------------- MODULE TransactionsProofs -------------------------
(***************************************************************************)
(* Proofs about Transactions, for every set of statements, sessions,       *)
(* changes and data sources: what SQLEndTran and SQLDisconnect promise     *)
(* holds if statements are prepared anew for each transaction and the      *)
(* first session is not opened by two statements at once.                  *)
(***************************************************************************)
EXTENDS Transactions, TLAPS

\* What the application takes care of.
Tidy == ReExecute = FALSE /\ ParallelFirst = FALSE

\* The changes of a transaction are in one place: they are this connection's,
\* still to be committed, in the session it knows.
Together(s) ==
  server[s].open => since \subseteq server[s].pending /\ since \cap durable = {}

\* A transaction begun for a statement, unless its session has ended.
Begun(s) == s \in Session /\ (server[s].open \/ server[s].life = "ended")

\* Work has an identity: it is done once and lies in one session at most.
WorkOnce ==
  /\ durable \cup since \cup undone \subseteq ran
  /\ \A s \in Session :
       /\ server[s].pending \subseteq ran
       /\ server[s].pending \cap undone = {}
       /\ \A r \in Session : r # s => server[r].pending \cap server[s].pending = {}

\* What the flag is good for.
Flag ==
  /\ since # {} => conn.active
  /\ conn.active => conn.session \in Session
  /\ conn.session \in Session => Together(conn.session)

\* Nobody is at work on a closed connection.
Closed == ~conn.connected => ~conn.active /\ \A t \in Stmt : Idle(t) /\ stmt[t].query # "now"

\* The connection's first session is found by a call that runs alone.
FirstSession ==
  conn.session = NoSession =>
    \A t, u \in Stmt : ~Idle(t) /\ ~Idle(u) => t = u

\* What a call knows at each phase of a request.
CallInv(t) ==
  LET c == call[t]
  IN  /\ Idle(t) <=> c.step = "none"
      /\ Manual /\ c.step \in {"dry", "work"} => conn.active
      /\ Manual /\ stmt[t].query = "now" => conn.active
      /\ c.phase \in {"sent", "answered"} /\ c.to \in Session => c.to = conn.session
      /\ c.phase \in {"sent", "answered"} /\ conn.session # NoSession =>
           c.to = conn.session
      /\ c.phase = "answered" /\ conn.session # NoSession => c.got = conn.session
      /\ c.phase = "answered" /\ c.step = "begin" => Begun(c.got)
      /\ c.phase = "keep" /\ conn.session # NoSession => c.got = NoSession
      /\ c.phase = "keep" /\ c.step = "begin" => Begun(Kept(t))
      /\ c.phase \in {"construct", "sent"} /\ c.step = "begin" /\ conn.active =>
           Begun(conn.session)

IInv ==
  /\ TypeOK
  /\ WorkOnce
  /\ Flag
  /\ Closed
  /\ FirstSession
  /\ \A t \in Stmt : CallInv(t)
  /\ CommitKeeps
  /\ RollbackUndoes

USE TransactionsAssumption

-----------------------------------------------------------------------------
(* The calls of a statement.                                               *)

LEMMA InitInv ==
  ASSUME Init
  PROVE  IInv
<1> USE DEF Init, IdleCall, NewStmt
<1>1. TypeOK
  BY DEF TypeOK, CallType, StmtStates
<1>2. WorkOnce /\ Flag /\ Closed /\ FirstSession
  BY DEF WorkOnce, Flag, Closed, FirstSession, Together, Idle
<1>3. \A t \in Stmt : CallInv(t)
  BY DEF CallInv, Idle, Manual
<1>4. CommitKeeps /\ RollbackUndoes
  BY DEF CommitKeeps, RollbackUndoes
<1>5. QED
  BY <1>1, <1>2, <1>3, <1>4 DEF IInv

LEMMA CallTypeKept ==
  ASSUME NEW c \in CallType,
         NEW phase \in {"idle", "test", "construct", "sent", "answered", "keep"},
         NEW to \in Session \cup {NewSession, NoSession},
         NEW got \in Session \cup {NoSession}
  PROVE  /\ [c EXCEPT !.phase = phase, !.to = to] \in CallType
         /\ [c EXCEPT !.phase = phase, !.got = got] \in CallType
         /\ [c EXCEPT !.phase = phase, !.to = to, !.got = got] \in CallType
BY DEF CallType

LEMMA StmtTypeKept ==
  ASSUME NEW x \in [state : StmtStates, prepared : BOOLEAN,
                    query : {"none", "before", "now"}],
         NEW state \in StmtStates, NEW query \in {"none", "before", "now"}
  PROVE  /\ [x EXCEPT !.state = state, !.query = query] \in
              [state : StmtStates, prepared : BOOLEAN,
               query : {"none", "before", "now"}]
         /\ [x EXCEPT !.state = state, !.query = query].query = query
OBVIOUS

\* Only the call and the query of one statement change.
OnlyStatement(t) ==
  /\ UNCHANGED <<conn, server, durable, ran, since, history>>
  /\ call'[t] \in CallType
  /\ call' = [call EXCEPT ![t] = call'[t]]
  /\ stmt'[t] \in [state : StmtStates, prepared : BOOLEAN,
                   query : {"none", "before", "now"}]
  /\ stmt' = [stmt EXCEPT ![t] = stmt'[t]]

\* Such a step is safe if it keeps what is known of that call.
LEMMA StatementStepInv ==
  ASSUME IInv, NEW t \in Stmt, OnlyStatement(t), CallInv(t)',
         conn.connected \/ (call'[t] = call[t] /\ stmt'[t].query = stmt[t].query),
         call[t].phase = "idle" /\ call'[t].phase # "idle" =>
           conn.session # NoSession \/ AllIdle
  PROVE  IInv'
<1> USE DEF IInv, OnlyStatement, history
<1>1. TypeOK'
  BY DEF TypeOK
<1>2. WorkOnce' /\ Flag' /\ CommitKeeps' /\ RollbackUndoes'
  BY DEF WorkOnce, Flag, Together, CommitKeeps, RollbackUndoes
<1>3. Closed'
  BY DEF Closed, Idle, TypeOK
<1>4. FirstSession'
  BY DEF FirstSession, Idle, AllIdle, TypeOK
<1>5. ASSUME NEW u \in Stmt
      PROVE  CallInv(u)'
  <2>1. CASE u = t
    BY <2>1
  <2>2. CASE u # t
    <3>1. call'[u] = call[u] /\ stmt'[u] = stmt[u]
      BY <2>2 DEF TypeOK
    <3>2. QED
      BY <3>1 DEF CallInv, Idle, Manual, Begun, Kept
  <2>3. QED
    BY <2>1, <2>2
<1>6. QED
  BY <1>1, <1>2, <1>3, <1>4, <1>5

LEMMA StatementCallInv ==
  ASSUME IInv, Tidy, NEW t \in Stmt, StatementCall(t)
  PROVE  IInv'
<1> USE DEF IInv, Tidy
<1>1. call[t].phase = "idle" => call[t].step = "none"
  BY DEF CallInv, Idle
<1>2. ASSUME NEW op \in {"prepare", "execute", "execDirect"},
             Start(t, op),
             stmt' = stmt \/ stmt' = [stmt EXCEPT ![t] = stmt'[t]],
             stmt'[t] \in [state : StmtStates, prepared : BOOLEAN,
                           query : {"none", "before", "now"}],
             stmt'[t].query = "now" => stmt[t].query = "now",
             op = "execute" => stmt[t].query = "now"
      PROVE  IInv'
  <2> USE DEF Start, MayStart, IdleCall, FirstStep, FirstPhase, Idle
  <2>1. OnlyStatement(t)
    BY <1>2 DEF OnlyStatement, TypeOK, CallType
  <2>2. CallInv(t)'
    BY <1>2 DEF CallInv, Manual, TypeOK
  <2>3. QED
    BY <1>2, <2>1, <2>2, StatementStepInv
<1>3. CASE SQLPrepare(t)
  BY <1>2, <1>3 DEF SQLPrepare, TypeOK
<1>4. CASE SQLExecute(t)
  BY <1>2, <1>4 DEF SQLExecute, TypeOK, StmtStates
<1>5. CASE SQLExecDirect(t)
  <2>1. Start(t, "execDirect")
    BY <1>5 DEF SQLExecDirect
  <2>2. stmt'[t] =
          [stmt[t] EXCEPT !.state = "StillExecuting", !.query = "before"]
    BY <1>5 DEF SQLExecDirect, TypeOK
  <2>3. stmt' = [stmt EXCEPT ![t] = stmt'[t]]
    BY <1>5 DEF SQLExecDirect, TypeOK
  <2>4. QED
    <3>1. "StillExecuting" \in StmtStates
      BY DEF StmtStates
    <3>2. stmt[t] \in [state : StmtStates, prepared : BOOLEAN,
                       query : {"none", "before", "now"}]
      BY DEF TypeOK
    <3>3. /\ stmt'[t] \in [state : StmtStates, prepared : BOOLEAN,
                           query : {"none", "before", "now"}]
          /\ stmt'[t].query = "before"
      BY <2>2, <3>1, <3>2, StmtTypeKept
    <3>4. QED
      BY <1>2, <2>1, <2>3, <3>3
<1>6. CASE SQLCloseCursor(t)
  <2> USE <1>6 DEF SQLCloseCursor, CloseCursorOf, Idle
  <2>1. stmt'[t] = CloseCursorOf(stmt[t])
    BY DEF TypeOK
  <2>2. OnlyStatement(t)
    BY <2>1 DEF OnlyStatement, TypeOK, StmtStates
  <2>3. CallInv(t)'
    BY <2>1 DEF CallInv, Manual, TypeOK
  <2>4. QED
    BY <2>1, <2>2, <2>3, StatementStepInv
<1>7. QED
  BY <1>3, <1>4, <1>5, <1>6 DEF StatementCall

\* A statement's own steps happen on an open connection.
LEMMA Connected ==
  ASSUME IInv, NEW t \in Stmt, ~Idle(t)
  PROVE  conn.connected
BY DEF IInv, Closed

LEMMA OwnStepInv ==
  ASSUME IInv, NEW t \in Stmt,
         BeginTest(t) \/ Send(t) \/ Retry(t) \/ TestSession(t) \/ CallFails(t)
  PROVE  IInv'
<1> USE DEF IInv
<1>0. ~Idle(t) /\ conn.connected
  BY Connected DEF BeginTest, Send, Retry, TestSession, CallFails, Idle
<1>1. CASE BeginTest(t)
  <2>1. call[t] \in CallType /\ call[t].phase = "test"
    BY <1>1 DEF BeginTest, TypeOK
  <2>2. CASE ~(conn.active \/ ~Manual)
    <3> USE <1>1, <2>2 DEF BeginTest, Idle
    <3>1. call'[t] = [call[t] EXCEPT !.phase = "construct"]
      BY DEF TypeOK
    <3>2. OnlyStatement(t)
      BY <2>1, <3>1 DEF OnlyStatement, TypeOK, CallType
    <3>3. CallInv(t)'
      BY <2>1, <3>1 DEF CallInv, Manual, TypeOK, CallType
    <3>4. QED
      BY <1>0, <3>2, <3>3, StatementStepInv
  <2>3. CASE conn.active \/ ~Manual
    <3> USE <1>1, <2>3 DEF BeginTest, Idle
    <3>1. PICK next \in NextSteps(call[t].op, "begin") : GoTo(t, next)
      OBVIOUS
    <3>2. next \in {"dry", "work"}
      BY <3>1 DEF NextSteps
    <3>3. call'[t] = [call[t] EXCEPT !.step = next, !.phase = "construct",
                        !.to = NoSession, !.got = NoSession]
      BY <3>1, <3>2 DEF GoTo, FirstPhase, TypeOK
    <3>4. call'[t] \in CallType
      BY <2>1, <3>2, <3>3 DEF CallType
    <3>5. call' = [call EXCEPT ![t] = call'[t]]
      BY <3>1, <3>3 DEF GoTo, TypeOK
    <3>6. OnlyStatement(t)
      BY <3>4, <3>5 DEF OnlyStatement, TypeOK
    <3>7. /\ call'[t].phase = "construct"
          /\ call'[t].step \in {"dry", "work"}
      BY <2>1, <3>2, <3>3 DEF CallType
    <3>8. CallInv(t)'
      BY <3>7 DEF CallInv, Manual
    <3>9. QED
      BY <1>0, <2>1, <3>6, <3>8, StatementStepInv
  <2>4. QED
    BY <2>2, <2>3
<1>2. CASE Send(t)
  <2> USE <1>2 DEF Send, Idle
  <2>1. OnlyStatement(t)
    <3>1. Target \in Session \cup {NewSession, NoSession}
      BY DEF TypeOK, Target
    <3>2. call'[t] = [call[t] EXCEPT !.phase = "sent", !.to = Target]
      BY DEF TypeOK
    <3>3. call'[t] \in CallType
      <4>1. call[t] \in CallType
        BY DEF TypeOK
      <4>2. QED
        BY ONLY <3>1, <3>2, <4>1, CallTypeKept
    <3>4. call' = [call EXCEPT ![t] = call'[t]]
      BY DEF TypeOK
    <3>5. QED
      BY <3>3, <3>4 DEF OnlyStatement, TypeOK
  <2>2. CallInv(t)'
    BY DEF CallInv, Manual, TypeOK, CallType, Begun, Target
  <2>3. QED
    BY <1>0, <2>1, <2>2, StatementStepInv
<1>3. CASE TestSession(t)
  <2> USE <1>3 DEF TestSession, Idle
  <2>1. OnlyStatement(t)
    <3>1. PICK got \in Session \cup {NoSession} :
            call'[t] = [call[t] EXCEPT !.phase = "keep", !.to = NoSession,
                                       !.got = got]
      BY DEF TypeOK, CallType
    <3>2. call'[t] \in CallType
      <4>1. call[t] \in CallType
        BY DEF TypeOK
      <4>2. [call[t] EXCEPT !.phase = "keep", !.to = NoSession, !.got = got]
              \in CallType
        BY <4>1, CallTypeKept
      <4>3. QED
        BY <3>1, <4>2
    <3>3. call' = [call EXCEPT ![t] = call'[t]]
      BY DEF TypeOK
    <3>4. QED
      BY <3>2, <3>3 DEF OnlyStatement, TypeOK
  <2>2. CallInv(t)'
    BY DEF CallInv, Manual, TypeOK, CallType, Begun, Kept
  <2>3. QED
    BY <1>0, <2>1, <2>2, StatementStepInv
<1>4. CASE CallFails(t)
  <2> USE <1>4 DEF CallFails, Idle, IdleCall
  <2>1. OnlyStatement(t)
    BY DEF OnlyStatement, TypeOK, CallType, StateAfterFailure, NotNow, StmtStates
  <2>2. CallInv(t)'
    BY DEF CallInv, Manual, TypeOK, NotNow
  <2>3. QED
    BY <1>0, <2>1, <2>2, StatementStepInv
<1>5. CASE Retry(t)
  <2> USE <1>5 DEF Retry, Idle
  <2>1. OnlyStatement(t)
    <3>1. call'[t] = [call[t] EXCEPT !.phase = "sent", !.got = NoSession]
      BY DEF TypeOK
    <3>2. call'[t] \in CallType
      <4>1. call[t] \in CallType
        BY DEF TypeOK
      <4>2. [call[t] EXCEPT !.phase = "sent", !.got = NoSession] \in CallType
        BY <4>1, CallTypeKept
      <4>3. QED
        BY <3>1, <4>2
    <3>3. call' = [call EXCEPT ![t] = call'[t]]
      BY DEF TypeOK
    <3>4. QED
      BY <3>2, <3>3 DEF OnlyStatement, TypeOK
  <2>2. CallInv(t)'
    BY DEF CallInv, Manual, TypeOK, CallType, Begun, Flag
  <2>3. QED
    BY <1>0, <2>1, <2>2, StatementStepInv
<1>6. QED
  BY <1>1, <1>2, <1>3, <1>4, <1>5

-----------------------------------------------------------------------------
(* The server.                                                             *)

LEMMA OthersKept ==
  ASSUME IInv, UNCHANGED <<conn, stmt>>, NEW u \in Stmt, call'[u] = call[u],
         \A s \in Session : Begun(s) => Begun(s)'
  PROVE  CallInv(u)'
<1>1. CallInv(u)
  BY DEF IInv
<1>2. \A s : Begun(s) => Begun(s)'
  BY DEF Begun
<1>3. Kept(u)' = Kept(u) /\ (Idle(u)' <=> Idle(u)) /\ (Manual' <=> Manual)
  BY DEF Kept, Idle, Manual
<1>4. QED
  BY <1>1, <1>2, <1>3 DEF CallInv

LEMMA RunsInSession ==
  ASSUME IInv, NEW to \in Session \cup {NewSession, NoSession},
         NEW s \in RunsIn(to)
  PROVE  /\ s \in Session \cup {NoSession}
         /\ s \in Session => server[s].life # "ended"
         /\ to \in Session => s = to
         /\ s \in Session /\ to \notin Session => to = NewSession
BY DEF RunsIn

\* What the three kinds of request have in common.
LEMMA ServedInv ==
  ASSUME IInv, NEW t \in Stmt, call[t].phase = "sent", call[t].step # "none",
         NEW s \in RunsIn(call[t].to), Answered(t, s),
         UNCHANGED <<conn, stmt, history>>,
         \A r \in Session : Begun(r) => Begun(r)',
         call[t].step = "begin" => Begun(s)'
  PROVE  /\ call' \in [Stmt -> CallType]
         /\ Closed'
         /\ FirstSession'
         /\ \A u \in Stmt : CallInv(u)'
<1> USE DEF IInv
<1>1. call[t] \in CallType /\ call[t].to \in Session \cup {NewSession, NoSession}
  BY DEF TypeOK, CallType
<1>2. s \in Session \cup {NoSession}
  BY <1>1, RunsInSession
<1>3. call' \in [Stmt -> CallType]
  <2>1. [call[t] EXCEPT !.phase = "answered", !.got = s] \in CallType
    BY <1>1, <1>2, CallTypeKept
  <2>2. call' = [call EXCEPT ![t] =
                   [call[t] EXCEPT !.phase = "answered", !.got = s]]
    BY DEF Answered, TypeOK
  <2>3. QED
    BY <2>1, <2>2 DEF TypeOK
<1>4. \A u \in Stmt : Idle(u)' <=> Idle(u)
  BY DEF Answered, Idle, TypeOK
<1>5. Closed' /\ FirstSession'
  BY <1>4 DEF Closed, FirstSession
<1>6. CallInv(t)'
  <2>1. conn.session # NoSession => s = conn.session
    BY <1>1, RunsInSession DEF CallInv, TypeOK
  <2>2. /\ call'[t].phase = "answered"
        /\ call'[t].step = call[t].step
        /\ call'[t].to = call[t].to
        /\ call'[t].got = s
    BY <1>1 DEF Answered, TypeOK, CallType
  <2>3. QED
    BY <2>1, <2>2 DEF CallInv, Idle, Manual
<1>7. \A u \in Stmt : CallInv(u)'
  <2>1. ASSUME NEW u \in Stmt, u # t
        PROVE  CallInv(u)'
    <3>1. call'[u] = call[u]
      BY <2>1 DEF Answered, TypeOK
    <3>2. QED
      BY <3>1, OthersKept
  <2>2. QED
    BY <1>6, <2>1
<1>8. QED
  BY <1>3, <1>5, <1>7

LEMMA ServeBeginInv ==
  ASSUME IInv, NEW t \in Stmt, ServeBegin(t)
  PROVE  IInv'
<1> USE DEF IInv
<1>1. PICK s \in RunsIn(call[t].to) \ {NoSession} :
        /\ ~server[s].open
        /\ server' = [Alive(s) EXCEPT ![s].open = TRUE]
        /\ Answered(t, s)
  BY DEF ServeBegin
<1>2. /\ s \in Session
      /\ server[s].life # "ended"
      /\ call[t].to \in Session => s = call[t].to
  BY RunsInSession DEF TypeOK, CallType
<1>3. server' = [server EXCEPT ![s] =
                   [server[s] EXCEPT !.life = "alive", !.open = TRUE]]
  BY <1>1, <1>2 DEF Alive, TypeOK
<1>4. \A r \in Session : Begun(r) => Begun(r)'
  BY <1>2, <1>3 DEF Begun, TypeOK
<1>5. Begun(s)'
  BY <1>2, <1>3 DEF Begun, TypeOK
<1>6. /\ call' \in [Stmt -> CallType]
      /\ Closed'
      /\ FirstSession'
      /\ \A u \in Stmt : CallInv(u)'
  BY <1>1, <1>4, <1>5, ServedInv DEF ServeBegin
<1>7. \A r \in Session : server'[r].pending = server[r].pending
  BY <1>2, <1>3 DEF TypeOK
<1>8. TypeOK'
  BY <1>2, <1>3, <1>6 DEF TypeOK, ServeBegin, history
<1>9. WorkOnce'
  BY <1>7 DEF WorkOnce, ServeBegin, history
<1>10. Flag'
  <2>1. CASE s = conn.session
    <3>1. ~conn.active
      BY <1>1, <1>2, <2>1 DEF CallInv, Begun, ServeBegin
    <3>2. since = {}
      BY <3>1 DEF Flag
    <3>3. QED
      BY <3>1, <3>2 DEF Flag, Together, ServeBegin
  <2>2. CASE s # conn.session
    <3>1. conn.session \in Session => server'[conn.session] = server[conn.session]
      BY <1>2, <1>3, <2>2 DEF TypeOK
    <3>2. QED
      BY <3>1 DEF Flag, Together, ServeBegin
  <2>3. QED
    BY <2>1, <2>2
<1>11. CommitKeeps' /\ RollbackUndoes'
  BY DEF CommitKeeps, RollbackUndoes, ServeBegin, history
<1>12. QED
  BY <1>6, <1>8, <1>9, <1>10, <1>11

\* A session answers to a request that is not about transactions.
LEMMA AliveKeeps ==
  ASSUME IInv, NEW s \in Session, server[s].life # "ended", server' = Alive(s)
  PROVE  /\ \A r \in Session : /\ server'[r].open = server[r].open
                               /\ server'[r].pending = server[r].pending
                               /\ Begun(r) => Begun(r)'
         /\ server' \in [Session -> [life : {"unused", "alive", "ended"},
                                     open : BOOLEAN, pending : SUBSET Work]]
BY DEF IInv, TypeOK, Alive, Begun

LEMMA ServeDryRunInv ==
  ASSUME IInv, NEW t \in Stmt, ServeDryRun(t)
  PROVE  IInv'
<1> USE DEF IInv
<1>1. PICK s \in RunsIn(call[t].to) :
        /\ server' = IF s = NoSession THEN server ELSE Alive(s)
        /\ Answered(t, s)
  BY DEF ServeDryRun
<1>2. /\ s \in Session \cup {NoSession}
      /\ s \in Session => server[s].life # "ended"
  BY RunsInSession DEF TypeOK, CallType
<1>3. /\ \A r \in Session : /\ server'[r].open = server[r].open
                            /\ server'[r].pending = server[r].pending
                            /\ Begun(r) => Begun(r)'
      /\ server' \in [Session -> [life : {"unused", "alive", "ended"},
                                  open : BOOLEAN, pending : SUBSET Work]]
  <2>1. CASE s = NoSession
    BY <1>1, <2>1 DEF TypeOK, Begun
  <2>2. CASE s # NoSession
    BY <1>1, <1>2, <2>2, AliveKeeps
  <2>3. QED
    BY <2>1, <2>2
<1>4. /\ call' \in [Stmt -> CallType]
      /\ Closed'
      /\ FirstSession'
      /\ \A u \in Stmt : CallInv(u)'
  BY <1>1, <1>3, ServedInv DEF ServeDryRun
<1>5. TypeOK'
  BY <1>3, <1>4 DEF TypeOK, ServeDryRun, history
<1>6. WorkOnce' /\ Flag' /\ CommitKeeps' /\ RollbackUndoes'
  BY <1>3 DEF WorkOnce, Flag, Together, CommitKeeps, RollbackUndoes,
              ServeDryRun, history
<1>7. QED
  BY <1>4, <1>5, <1>6

\* The query's changes join those of its transaction, or last at once.
LEMMA ServeWorkInv ==
  ASSUME IInv, NEW t \in Stmt, ServeWork(t)
  PROVE  IInv'
<1> USE DEF IInv
<1>1. PICK s \in RunsIn(call[t].to), changes \in SUBSET (Work \ ran) :
        /\ IF s # NoSession /\ server[s].open
           THEN /\ server' = [server EXCEPT ![s].pending = @ \cup changes]
                /\ UNCHANGED durable
           ELSE /\ server' = IF s = NoSession THEN server ELSE Alive(s)
                /\ durable' = durable \cup changes
        /\ ran' = ran \cup changes
        /\ since' = IF Manual THEN since \cup changes ELSE since
        /\ Answered(t, s)
  BY DEF ServeWork
<1>2. /\ s \in Session \cup {NoSession}
      /\ s \in Session => server[s].life # "ended"
      /\ call[t].to \in Session => s = call[t].to
  BY RunsInSession DEF TypeOK, CallType
<1>3. Manual => conn.active /\ s = conn.session
  BY <1>2 DEF CallInv, Flag, ServeWork, TypeOK
<1>4. /\ UNCHANGED <<conn, stmt, kept, undone>>
      /\ call[t].phase = "sent" /\ call[t].step = "work"
  BY DEF ServeWork, history
<1>5. /\ ran' \in SUBSET Work
      /\ since' \in SUBSET Work
      /\ durable' \in SUBSET Work
      /\ since \subseteq since' /\ since' \subseteq since \cup changes
  BY <1>1 DEF TypeOK
<1>6. CASE s # NoSession /\ server[s].open
  <2>1. /\ s \in Session
        /\ server' = [server EXCEPT ![s] =
                        [server[s] EXCEPT !.pending = @ \cup changes]]
        /\ durable' = durable
    BY <1>1, <1>2, <1>6 DEF TypeOK
  <2>2. /\ \A r \in Session : /\ server'[r].open = server[r].open
                              /\ Begun(r) => Begun(r)'
                              /\ r # s => server'[r].pending = server[r].pending
        /\ server'[s].pending = server[s].pending \cup changes
        /\ server' \in [Session -> [life : {"unused", "alive", "ended"},
                                    open : BOOLEAN, pending : SUBSET Work]]
    BY <1>1, <2>1 DEF TypeOK, Begun
  <2>3. /\ call' \in [Stmt -> CallType]
        /\ Closed'
        /\ FirstSession'
        /\ \A u \in Stmt : CallInv(u)'
    BY <1>1, <1>4, <2>2, ServedInv DEF history
  <2>4. TypeOK'
    BY <1>4, <1>5, <2>2, <2>3 DEF TypeOK
  <2>5. WorkOnce'
    BY <1>1, <1>4, <1>5, <2>1, <2>2 DEF WorkOnce
  <2>6. Flag'
    <3>1. since' # {} => conn.active
      BY <1>1, <1>3 DEF Flag
    <3>2. CASE conn.session = s
      <4>1. since' \subseteq server'[s].pending
        BY <1>5, <1>6, <2>1, <2>2, <3>2 DEF Flag, Together
      <4>2. since' \cap durable' = {}
        BY <1>1, <1>5, <1>6, <2>1, <3>2 DEF Flag, Together, WorkOnce
      <4>3. QED
        BY <1>4, <3>1, <3>2, <4>1, <4>2 DEF Flag, Together
    <3>3. CASE conn.session # s
      BY <1>1, <1>3, <1>4, <2>1, <2>2, <3>1, <3>3 DEF Flag, Together
    <3>4. QED
      BY <3>2, <3>3
  <2>7. CommitKeeps' /\ RollbackUndoes'
    BY <1>4, <2>1 DEF CommitKeeps, RollbackUndoes
  <2>8. QED
    BY <2>3, <2>4, <2>5, <2>6, <2>7
<1>7. CASE ~(s # NoSession /\ server[s].open)
  <2>1. /\ server' = IF s = NoSession THEN server ELSE Alive(s)
        /\ durable' = durable \cup changes
    BY <1>1, <1>7
  <2>2. /\ \A r \in Session : /\ server'[r].open = server[r].open
                              /\ server'[r].pending = server[r].pending
                              /\ Begun(r) => Begun(r)'
        /\ server' \in [Session -> [life : {"unused", "alive", "ended"},
                                    open : BOOLEAN, pending : SUBSET Work]]
    <3>1. CASE s = NoSession
      BY <2>1, <3>1 DEF TypeOK, Begun
    <3>2. CASE s # NoSession
      BY <1>2, <2>1, <3>2, AliveKeeps
    <3>3. QED
      BY <3>1, <3>2
  <2>3. /\ call' \in [Stmt -> CallType]
        /\ Closed'
        /\ FirstSession'
        /\ \A u \in Stmt : CallInv(u)'
    BY <1>1, <1>4, <2>2, ServedInv DEF history
  <2>4. TypeOK'
    BY <1>4, <1>5, <2>2, <2>3 DEF TypeOK
  <2>5. WorkOnce'
    BY <1>1, <1>4, <1>5, <2>1, <2>2 DEF WorkOnce
  <2>6. Flag'
    <3>1. since' # {} => conn.active
      BY <1>1, <1>3 DEF Flag
    <3>2. conn.session \in Session => Together(conn.session)'
      <4>1. CASE Manual
        BY <1>3, <1>4, <1>7, <2>2, <4>1 DEF Together
      <4>2. CASE ~Manual
        BY <1>1, <1>4, <2>1, <2>2, <4>2 DEF Flag, Together, WorkOnce
      <4>3. QED
        BY <4>1, <4>2
    <3>3. QED
      BY <1>4, <3>1, <3>2 DEF Flag
  <2>7. CommitKeeps' /\ RollbackUndoes'
    BY <1>1, <1>4, <2>1 DEF CommitKeeps, RollbackUndoes, WorkOnce
  <2>8. QED
    BY <2>3, <2>4, <2>5, <2>6, <2>7
<1>8. QED
  BY <1>6, <1>7

\* A transaction that ends with its session leaves nothing behind.
LEMMA SessionEndsInv ==
  ASSUME IInv, NEW s \in Session, SessionEnds(s)
  PROVE  IInv'
<1> USE DEF IInv, SessionEnds, history
<1>1. \A r \in Session : Begun(r) => Begun(r)'
  BY DEF Begun, TypeOK
<1>2. \A u \in Stmt : CallInv(u)'
  BY <1>1, OthersKept
<1>3. /\ \A r \in Session : r # s => server'[r] = server[r]
      /\ server'[s].pending = {}
      /\ ~server'[s].open
  BY DEF TypeOK
<1>4. TypeOK'
  BY DEF TypeOK
<1>5. WorkOnce'
  BY <1>3 DEF WorkOnce
<1>6. Flag'
  BY <1>3 DEF Flag, Together
<1>7. Closed' /\ FirstSession' /\ CommitKeeps' /\ RollbackUndoes'
  BY DEF Closed, FirstSession, CommitKeeps, RollbackUndoes, Idle
<1>8. QED
  BY <1>2, <1>4, <1>5, <1>6, <1>7

-----------------------------------------------------------------------------
(* The answers.                                                            *)

LEMMA KeepSessionInv ==
  ASSUME IInv, NEW t \in Stmt, KeepSession(t)
  PROVE  IInv'
<1> USE DEF IInv
<1> DEFINE begins == call[t].step = "begin"
<1>0. PICK next \in NextSteps(call[t].op, call[t].step) :
        IF next = "done"
        THEN /\ Succeeds(t)
             /\ call' = [call EXCEPT ![t] = IdleCall]
        ELSE /\ GoTo(t, next)
             /\ UNCHANGED stmt
  BY DEF KeepSession
<1>1. /\ call[t].phase = "keep"
      /\ UNCHANGED <<server, durable, ran, since, kept, undone>>
  BY DEF KeepSession, history
<1>2. Kept(t) \in Session \cup {NoSession}
  BY DEF Kept, TypeOK, CallType
<1>3. conn' = [conn EXCEPT !.session = Kept(t),
                 !.active = IF begins THEN TRUE ELSE @]
  BY DEF KeepSession
<1>4. /\ conn'.session = Kept(t)
      /\ conn'.active <=> begins \/ conn.active
      /\ conn'.connected = conn.connected
      /\ Manual' <=> Manual
      /\ conn' \in [connected : BOOLEAN, dsn : Dsns, autocommit : BOOLEAN,
                    active : BOOLEAN, session : Session \cup {NoSession}]
  BY <1>2, <1>3 DEF TypeOK, Manual
<1>5. begins => Begun(Kept(t))
  BY <1>1 DEF CallInv
<1>6. conn.session # NoSession => Kept(t) = conn.session
  BY <1>1 DEF CallInv, Kept
<1>7. \A r : Begun(r)' <=> Begun(r)
  BY <1>1 DEF Begun
<1>8. /\ stmt' \in [Stmt -> [state : StmtStates, prepared : BOOLEAN,
                             query : {"none", "before", "now"}]]
      /\ \A u \in Stmt : u # t => stmt'[u] = stmt[u]
  <2>1. CASE next = "done"
    <3>1. Succeeds(t)
      BY <1>0, <2>1
    <3>2. CASE call[t].op = "prepare"
      <4>1. stmt' = [stmt EXCEPT ![t] = [state |-> "Prepared",
                       prepared |-> TRUE, query |-> "now"]]
        BY <3>1, <3>2 DEF Succeeds
      <4>2. "Prepared" \in StmtStates
        BY DEF StmtStates
      <4>3. QED
        BY <4>1, <4>2 DEF TypeOK
    <3>3. CASE call[t].op # "prepare"
      <4>1. PICK state \in {"ExecutedWithRs", "ExecutedWithoutRs"} :
              stmt' = [stmt EXCEPT ![t].state = state, ![t].query = "now"]
        BY <3>1, <3>3 DEF Succeeds
      <4>2. [stmt[t] EXCEPT !.state = state, !.query = "now"] \in
              [state : StmtStates, prepared : BOOLEAN,
               query : {"none", "before", "now"}]
        <5>1. state \in StmtStates
          BY DEF StmtStates
        <5>2. stmt[t] \in [state : StmtStates, prepared : BOOLEAN,
                           query : {"none", "before", "now"}]
          BY DEF TypeOK
        <5>3. QED
          BY <5>1, <5>2, StmtTypeKept
      <4>3. stmt' = [stmt EXCEPT ![t] =
                       [stmt[t] EXCEPT !.state = state, !.query = "now"]]
        BY <4>1 DEF TypeOK
      <4>4. QED
        BY <4>2, <4>3 DEF TypeOK
    <3>4. QED
      BY <3>2, <3>3
  <2>2. CASE next # "done"
    BY <1>0, <2>2 DEF TypeOK
  <2>3. QED
    BY <2>1, <2>2
<1>9. /\ \/ call'[t] = IdleCall
         \/ /\ next # "done"
            /\ call'[t] = [call[t] EXCEPT !.step = next,
                 !.phase = FirstPhase(next), !.to = NoSession, !.got = NoSession]
      /\ \A u \in Stmt : u # t => call'[u] = call[u]
      /\ call' = [call EXCEPT ![t] = call'[t]]
  BY <1>0 DEF GoTo, TypeOK
<1>10. /\ call'[t] \in CallType
       /\ Idle(t)' \/ (call'[t].phase = "construct" /\ call'[t].step \in {"dry", "work"})
       /\ Idle(t)' <=> call'[t].step = "none"
  <2>1. CASE call'[t] = IdleCall
    BY <2>1 DEF IdleCall, CallType, Idle
  <2>2. CASE call'[t] # IdleCall
    <3>1. next \in {"dry", "work"}
      BY <1>0, <1>9, <2>2 DEF NextSteps
    <3>2. call[t] \in CallType
      BY DEF TypeOK
    <3>3. QED
      BY <1>9, <2>2, <3>1, <3>2 DEF CallType, FirstPhase, Idle
  <2>3. QED
    BY <2>1, <2>2
<1>11. TypeOK'
  BY <1>1, <1>4, <1>8, <1>9, <1>10 DEF TypeOK
<1>12. WorkOnce' /\ CommitKeeps' /\ RollbackUndoes'
  BY <1>1 DEF WorkOnce, CommitKeeps, RollbackUndoes
<1>13. Flag'
  <2>1. conn'.active => conn'.session \in Session
    BY <1>4, <1>5, <1>6 DEF Flag, Begun
  <2>2. since' # {} => conn'.active
    BY <1>1, <1>4 DEF Flag
  <2>3. conn'.session \in Session => Together(conn.session)'
    <3>1. CASE conn.session = NoSession
      BY <1>1, <3>1 DEF Flag, Together
    <3>2. CASE conn.session # NoSession
      BY <1>1, <1>4, <1>6, <3>2 DEF Flag, Together, TypeOK
    <3>3. QED
      BY <3>1, <3>2
  <2>4. QED
    BY <2>1, <2>2, <2>3 DEF Flag
<1>14. Closed'
  BY <1>1, <1>4 DEF Closed, Idle
<1>15. FirstSession'
  BY <1>1, <1>4, <1>6, <1>9 DEF FirstSession, Idle
<1>16. CallInv(t)'
  <2>1. Manual => conn'.active
    BY <1>1, <1>4 DEF CallInv, TypeOK, CallType, Idle
  <2>2. QED
    BY <1>4, <1>10, <2>1 DEF CallInv, Idle
<1>17. ASSUME NEW u \in Stmt, u # t
       PROVE  CallInv(u)'
  <2>1. /\ call'[u] = call[u]
        /\ stmt'[u] = stmt[u]
        /\ Idle(u)' <=> Idle(u)
        /\ CallInv(u)
    BY <1>8, <1>9, <1>17 DEF Idle
  <2>2. CASE conn.session = NoSession
    <3>1. Idle(u)
      BY <1>1, <1>17, <2>2 DEF FirstSession, Idle
    <3>2. QED
      BY <1>4, <2>1, <3>1 DEF CallInv, Idle
  <2>3. CASE conn.session # NoSession
    <3>1. conn'.session = conn.session /\ Kept(u)' = Kept(u)
      BY <1>4, <1>6, <2>1, <2>3 DEF Kept
    <3>2. QED
      BY <1>4, <1>5, <1>6, <1>7, <2>1, <2>3, <3>1 DEF CallInv, Idle
  <2>4. QED
    BY <2>2, <2>3
<1>18. QED
  BY <1>11, <1>12, <1>13, <1>14, <1>15, <1>16, <1>17

-----------------------------------------------------------------------------
(* The calls of the connection.                                            *)

StmtType == [Stmt -> [state : StmtStates, prepared : BOOLEAN,
                      query : {"none", "before", "now"}]]

LEMMA StatementsReset ==
  ASSUME IInv,
         \/ CloseCursors
         \/ stmt' = [t \in Stmt |-> NotNow(stmt[t])]
         \/ stmt' = [t \in Stmt |-> NewStmt]
  PROVE  /\ stmt' \in StmtType
         /\ \A t \in Stmt : stmt'[t].query # "now"
<1> USE DEF IInv, TypeOK, StmtType, NotNow
<1>1. CASE CloseCursors
  <2>1. ASSUME NEW t \in Stmt
        PROVE  CloseCursorOf(stmt[t]) \in [state : StmtStates, prepared : BOOLEAN,
                                          query : {"none", "before", "now"}]
    BY <2>1 DEF CloseCursorOf, StmtStates
  <2>2. \A t \in Stmt : stmt'[t] = NotNow(CloseCursorOf(stmt[t]))
    BY <1>1 DEF CloseCursors
  <2>3. stmt' = [t \in Stmt |-> NotNow(CloseCursorOf(stmt[t]))]
    BY <1>1 DEF CloseCursors
  <2>4. ASSUME NEW x \in [state : StmtStates, prepared : BOOLEAN,
                         query : {"none", "before", "now"}]
        PROVE  /\ NotNow(x) \in [state : StmtStates, prepared : BOOLEAN,
                                  query : {"none", "before", "now"}]
               /\ NotNow(x).query # "now"
    OBVIOUS
  <2>5. QED
    BY <2>1, <2>2, <2>3, <2>4
<1>2. CASE stmt' = [t \in Stmt |-> NotNow(stmt[t])]
  BY <1>2
<1>3. CASE stmt' = [t \in Stmt |-> NewStmt]
  BY <1>3 DEF NewStmt, StmtStates
<1>4. QED
  BY <1>1, <1>2, <1>3

\* While no statement is executing, little can go wrong.
LEMMA IdleInv ==
  ASSUME IInv, AllIdle, UNCHANGED <<call, ran>>,
         conn' \in [connected : BOOLEAN, dsn : Dsns, autocommit : BOOLEAN,
                    active : BOOLEAN, session : Session \cup {NoSession}],
         conn'.session = conn.session,
         stmt' \in StmtType, \A t \in Stmt : stmt'[t].query # "now",
         server' \in [Session -> [life : {"unused", "alive", "ended"},
                                  open : BOOLEAN, pending : SUBSET Work]],
         durable' \in SUBSET Work, since' \in SUBSET Work,
         kept' \in SUBSET Work, undone' \in SUBSET Work
  PROVE  /\ TypeOK'
         /\ ~conn'.connected => Closed' \/ conn'.active
         /\ FirstSession'
         /\ \A t \in Stmt : CallInv(t)'
<1> USE DEF IInv
<1>1. TypeOK'
  BY DEF TypeOK, StmtType
<1>2. \A t \in Stmt : Idle(t) /\ Idle(t)'
  BY DEF AllIdle, Idle
<1>3. ~conn'.connected => Closed' \/ conn'.active
  BY <1>2 DEF Closed
<1>4. FirstSession'
  BY <1>2 DEF FirstSession
<1>5. \A t \in Stmt : CallInv(t)'
  BY <1>2 DEF CallInv, Idle
<1>6. QED
  BY <1>1, <1>3, <1>4, <1>5

\* What COMMIT and ROLLBACK do at the server.
LEMMA EndedAtServer ==
  ASSUME IInv, NEW type \in {"COMMIT", "ROLLBACK"}, EndAtServer(type)
  PROVE  /\ conn.session \in Session
         /\ server[conn.session].open
         /\ server' \in [Session -> [life : {"unused", "alive", "ended"},
                                     open : BOOLEAN, pending : SUBSET Work]]
         /\ \A r \in Session : server'[r].pending \subseteq server[r].pending
         /\ ~server'[conn.session].open
         /\ durable' \in SUBSET Work
         /\ durable \subseteq durable'
         /\ durable' \subseteq durable \cup server[conn.session].pending
         /\ type = "COMMIT" => server[conn.session].pending \subseteq durable'
         /\ type = "ROLLBACK" => durable' = durable
         /\ server'[conn.session].pending = {}
<1> USE DEF IInv
<1> DEFINE s == conn.session
<1>1. s \in Session /\ server[s].open
  BY DEF EndAtServer, TypeOK
<1>2. server' = [server EXCEPT ![s] =
                   [server[s] EXCEPT !.open = FALSE, !.pending = {}]]
  BY DEF EndAtServer, TypeOK
<1>3. /\ \A r \in Session : r # s => server'[r] = server[r]
      /\ server'[s].pending = {}
      /\ ~server'[s].open
      /\ server' \in [Session -> [life : {"unused", "alive", "ended"},
                                  open : BOOLEAN, pending : SUBSET Work]]
  <2>1. server[s] \in [life : {"unused", "alive", "ended"},
                       open : BOOLEAN, pending : SUBSET Work]
    BY <1>1 DEF TypeOK
  <2>2. [server[s] EXCEPT !.open = FALSE, !.pending = {}] \in
          [life : {"unused", "alive", "ended"}, open : BOOLEAN,
           pending : SUBSET Work]
    BY <2>1
  <2>3. QED
    BY <1>1, <1>2, <2>2 DEF TypeOK
<1>4. server[s].pending \in SUBSET Work
  BY <1>1 DEF TypeOK
<1>5. durable' = IF type = "COMMIT" THEN durable \cup server[s].pending
                                    ELSE durable
  BY DEF EndAtServer
<1>6. QED
  BY <1>1, <1>3, <1>4, <1>5 DEF TypeOK

LEMMA EndTranInv ==
  ASSUME IInv, NEW type \in {"COMMIT", "ROLLBACK"}, SQLEndTran(type)
  PROVE  IInv'
<1> USE DEF IInv
<1> DEFINE s == conn.session
<1>1. AllIdle /\ UNCHANGED <<call, ran>> /\ conn.connected
  BY DEF SQLEndTran
<1>2. CASE EndTranOk(type)
  <2>1. /\ conn' = [conn EXCEPT !.active = FALSE]
        /\ EndAtServer(type)
        /\ since' = {}
        /\ kept' = IF type = "COMMIT" THEN kept \cup since ELSE kept
        /\ undone' = IF type = "ROLLBACK" THEN undone \cup since ELSE undone
    BY <1>2 DEF EndTranOk, Reported
  <2>2. /\ stmt' \in StmtType
        /\ \A t \in Stmt : stmt'[t].query # "now"
    BY <1>2, StatementsReset DEF EndTranOk
  <2>3. /\ conn'.session = s /\ ~conn'.active /\ conn'.connected
        /\ conn' \in [connected : BOOLEAN, dsn : Dsns, autocommit : BOOLEAN,
                      active : BOOLEAN, session : Session \cup {NoSession}]
    BY <1>1, <2>1 DEF TypeOK
  <2>4. /\ kept' \in SUBSET Work /\ undone' \in SUBSET Work
    BY <2>1 DEF TypeOK
  <2>5. /\ s \in Session
        /\ since \subseteq server[s].pending
        /\ since \cap durable = {}
    BY <2>1, EndedAtServer DEF Flag, Together
  <2>6. /\ TypeOK'
        /\ FirstSession'
        /\ \A t \in Stmt : CallInv(t)'
    BY <1>1, <2>1, <2>2, <2>3, <2>4, EndedAtServer, IdleInv
  <2>7. /\ \A r \in Session : server'[r].pending \subseteq server[r].pending
        /\ server'[s].pending = {}
        /\ durable' \subseteq durable \cup server[s].pending
        /\ durable \subseteq durable'
        /\ type = "COMMIT" => server[s].pending \subseteq durable'
        /\ type = "ROLLBACK" => durable' = durable
    BY <2>1, EndedAtServer
  <2>8. WorkOnce'
    <3>1. durable' \cup since' \cup undone' \subseteq ran'
      BY <1>1, <2>1, <2>5, <2>7 DEF WorkOnce
    <3>2. \A r \in Session : server'[r].pending \cap undone' = {}
      BY <2>1, <2>5, <2>7 DEF WorkOnce
    <3>3. QED
      BY <1>1, <2>7, <3>1, <3>2 DEF WorkOnce
  <2>9. Flag'
    BY <2>1, <2>3 DEF Flag, Together
  <2>10. Closed'
    BY <2>3 DEF Closed
  <2>11. CommitKeeps'
    BY <2>1, <2>5, <2>7 DEF CommitKeeps
  <2>12. RollbackUndoes'
    BY <2>1, <2>5, <2>7 DEF RollbackUndoes, WorkOnce
  <2>13. QED
    BY <2>6, <2>8, <2>9, <2>10, <2>11, <2>12
<1>3. CASE EndTranLost(type)
  <2>1. EndAtServer(type) /\ UNCHANGED <<conn, stmt, since, kept, undone>>
    BY <1>3 DEF EndTranLost, history
  <2>2. TypeOK'
    BY <1>1, <2>1, EndedAtServer DEF TypeOK
  <2>3. \A u \in Stmt : CallInv(u)'
    BY <1>1, <2>1 DEF AllIdle, Idle, CallInv, Manual
  <2>4. WorkOnce'
    <3>1. /\ s \in Session
          /\ \A r \in Session : server'[r].pending \subseteq server[r].pending
          /\ durable' \subseteq durable \cup server[s].pending
      BY <2>1, EndedAtServer
    <3>2. QED
      BY <1>1, <2>1, <3>1 DEF WorkOnce
  <2>5. Flag'
    BY <2>1, EndedAtServer DEF Flag, Together
  <2>6. Closed' /\ FirstSession'
    BY <1>1, <2>1 DEF Closed, FirstSession, Idle
  <2>7. CommitKeeps'
    BY <2>1, EndedAtServer DEF CommitKeeps
  <2>8. RollbackUndoes'
    BY <2>1, EndedAtServer DEF RollbackUndoes, WorkOnce
  <2>9. QED
    BY <2>2, <2>3, <2>4, <2>5, <2>6, <2>7, <2>8
<1>4. CASE EndTranNothing(type)
  <2>1. /\ UNCHANGED <<conn, server, durable>>
        /\ since = {}
        /\ since' = {}
        /\ kept' = kept
        /\ undone' = undone
    BY <1>4 DEF EndTranNothing, Reported, Flag
  <2>2. /\ stmt' \in StmtType
        /\ \A t \in Stmt : stmt'[t].query # "now"
    BY <1>4, StatementsReset DEF EndTranNothing
  <2>3. /\ TypeOK'
        /\ FirstSession'
        /\ \A t \in Stmt : CallInv(t)'
    BY <1>1, <2>1, <2>2, IdleInv DEF TypeOK
  <2>4. QED
    BY <1>1, <2>1, <2>3 DEF WorkOnce, Flag, Together, Closed, CommitKeeps,
                            RollbackUndoes
<1>5. QED
  BY <1>2, <1>3, <1>4 DEF SQLEndTran

LEMMA ConnectionCallInv ==
  ASSUME IInv, ConnectionCall
  PROVE  IInv'
<1> USE DEF IInv, history
<1>1. ASSUME NEW on \in BOOLEAN, SetAutocommit(on)
      PROVE  IInv'
  <2>1. /\ stmt' \in StmtType
        /\ \A t \in Stmt : stmt'[t].query # "now"
    BY <1>1, StatementsReset DEF SetAutocommit
  <2>2. /\ conn'.session = conn.session
        /\ conn'.active = conn.active
        /\ conn'.connected = conn.connected
        /\ conn' \in [connected : BOOLEAN, dsn : Dsns, autocommit : BOOLEAN,
                      active : BOOLEAN, session : Session \cup {NoSession}]
    BY <1>1 DEF SetAutocommit, TypeOK
  <2>3. /\ TypeOK'
        /\ FirstSession'
        /\ \A t \in Stmt : CallInv(t)'
    BY <1>1, <2>1, <2>2, IdleInv DEF SetAutocommit, TypeOK
  <2>4. WorkOnce' /\ CommitKeeps' /\ RollbackUndoes'
    BY <1>1 DEF SetAutocommit, WorkOnce, CommitKeeps, RollbackUndoes
  <2>5. Flag' /\ Closed'
    BY <1>1, <2>1, <2>2 DEF SetAutocommit, Flag, Together, Closed, Idle
  <2>6. QED
    BY <2>3, <2>4, <2>5
<1>2. CASE SQLDisconnect
  <2>1. /\ stmt' \in StmtType
        /\ \A t \in Stmt : stmt'[t].query # "now"
    BY <1>2, StatementsReset DEF SQLDisconnect
  <2>2. /\ conn'.session = conn.session
        /\ ~conn.active /\ ~conn'.active
        /\ conn' \in [connected : BOOLEAN, dsn : Dsns, autocommit : BOOLEAN,
                      active : BOOLEAN, session : Session \cup {NoSession}]
    BY <1>2 DEF SQLDisconnect, TypeOK
  <2>3. /\ TypeOK'
        /\ FirstSession'
        /\ \A t \in Stmt : CallInv(t)'
    BY <1>2, <2>1, <2>2, IdleInv DEF SQLDisconnect, TypeOK
  <2>4. WorkOnce' /\ CommitKeeps' /\ RollbackUndoes'
    BY <1>2 DEF SQLDisconnect, WorkOnce, CommitKeeps, RollbackUndoes
  <2>5. Flag' /\ Closed'
    BY <1>2, <2>1, <2>2 DEF SQLDisconnect, Flag, Together, Closed, Idle, AllIdle
  <2>6. QED
    BY <2>3, <2>4, <2>5
<1>3. ASSUME NEW d \in Dsns, SQLConnect(d)
      PROVE  IInv'
  <2>1. /\ conn'.session = conn.session
        /\ conn'.active = conn.active
        /\ conn'.connected
        /\ conn' \in [connected : BOOLEAN, dsn : Dsns, autocommit : BOOLEAN,
                      active : BOOLEAN, session : Session \cup {NoSession}]
    BY <1>3 DEF SQLConnect, TypeOK
  <2>2. /\ AllIdle
        /\ stmt' \in StmtType
        /\ \A t \in Stmt : stmt'[t].query # "now"
    BY <1>3 DEF SQLConnect, Closed, AllIdle, StmtType, TypeOK
  <2>3. /\ TypeOK'
        /\ FirstSession'
        /\ \A t \in Stmt : CallInv(t)'
    BY <1>3, <2>1, <2>2, IdleInv DEF SQLConnect, TypeOK
  <2>4. WorkOnce' /\ CommitKeeps' /\ RollbackUndoes'
    BY <1>3 DEF SQLConnect, WorkOnce, CommitKeeps, RollbackUndoes
  <2>5. Flag' /\ Closed'
    BY <1>3, <2>1 DEF SQLConnect, Flag, Together, Closed
  <2>6. QED
    BY <2>3, <2>4, <2>5
<1>4. QED
  BY <1>1, <1>2, <1>3, EndTranInv DEF ConnectionCall

-----------------------------------------------------------------------------
(* The theorems.                                                           *)

LEMMA Invariance ==
  ASSUME Tidy
  PROVE  Spec => []IInv
<1>1. Init => IInv
  BY InitInv
<1>2. IInv /\ [Next]_vars => IInv'
  <2>1. SUFFICES ASSUME IInv, [Next]_vars PROVE IInv'
    OBVIOUS
  <2>2. ASSUME NEW t \in Stmt, StatementCall(t) \/ StatementStep(t)
        PROVE  IInv'
    BY <2>1, <2>2, StatementCallInv, OwnStepInv, ServeBeginInv, ServeDryRunInv,
       ServeWorkInv, KeepSessionInv DEF StatementStep
  <2>3. CASE UNCHANGED vars
    BY <2>1, <2>3 DEF vars, IInv, TypeOK, WorkOnce, Flag, Together, Closed,
       FirstSession, CallInv, Begun, Kept, Manual, Idle, CommitKeeps,
       RollbackUndoes
  <2>4. QED
    BY <2>1, <2>2, <2>3, ConnectionCallInv, SessionEndsInv DEF Next
<1>3. QED
  BY <1>1, <1>2, PTL DEF Spec

\* Every variable holds values of its type.
THEOREM TypesCorrect ==
  ASSUME Tidy
  PROVE  Spec => []TypeOK
<1>1. IInv => TypeOK
  BY DEF IInv
<1>2. QED
  BY <1>1, Invariance, PTL

\* A successful SQLEndTran(SQL_COMMIT) makes all manual-commit changes last,
\* whatever answers are lost and sessions end (FinishTransactionIfNeeded).
THEOREM CommitCorrect ==
  ASSUME Tidy
  PROVE  Spec => []CommitKeeps
<1>1. IInv => CommitKeeps
  BY DEF IInv
<1>2. QED
  BY <1>1, Invariance, PTL

\* A successful SQLEndTran(SQL_ROLLBACK) leaves none of them, then or later
\* (FinishTransactionIfNeeded).
THEOREM RollbackCorrect ==
  ASSUME Tidy
  PROVE  Spec => []RollbackUndoes
<1>1. IInv => RollbackUndoes
  BY DEF IInv
<1>2. QED
  BY <1>1, Invariance, PTL

\* SQLDisconnect succeeds only when every change was committed or rolled back
\* by an SQLEndTran that has said so (SQLDisconnectInternal, 25000).
THEOREM DisconnectCorrect ==
  ASSUME Tidy
  PROVE  Spec => []DisconnectSettled
<1>1. IInv => DisconnectSettled
  BY DEF IInv, Closed, Flag, DisconnectSettled
<1>2. QED
  BY <1>1, Invariance, PTL
=============================================================================
