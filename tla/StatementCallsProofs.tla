------------------------- MODULE StatementCallsProofs -------------------------
(***************************************************************************)
(* Proofs about what the application is told by a statement and about the  *)
(* bodies that work on it: in the synchronous mode, where the body runs    *)
(* inside the call, and with SQLExecDirect alone, synchronous or not.      *)
(* They build on the inductive invariant of StatementAsyncProofs.          *)
(***************************************************************************)
EXTENDS StatementAsyncProofs

-----------------------------------------------------------------------------
(* The synchronous mode.                                                   *)

OnlySynchronous == AsyncModes = {FALSE}

\* No operation is left running by a call, and so none is ever polled.
Synchronous ==
  /\ \A k \in Op : fut[k] = NoTask
  /\ call.pc \in {"idle", "body", "destroy", "freed"}
  /\ stmt.state \notin {"AsyncPrepare", "AsyncExecute"}

IsScript(q) == StatementType[q] = "SCRIPT"
Body == frame[Caller]
Executes == Body.op \in {"execute", "execDirect"}

\* The body that the call runs works on the text and the job of the statement.
BodyText ==
  /\ Body.pc \in {"plan", "exec", "rows"} => Executes
  /\ Executes /\ Body.pc \in {"plan", "run", "rows"} => Body.query = stmt.query
  /\ Executes /\ Body.pc = "run" => Body.job = stmt.job
  /\ Body.op = "prepare" /\ Body.pc = "begin" => Body.query \in Query

\* A job and the child jobs of a script are of the text.
JobOfText ==
  /\ stmt.job # NoQuery =>
       /\ stmt.query # NoQuery
       /\ IsScript(stmt.job) \/ IsScript(stmt.query) => stmt.job = stmt.query
  /\ stmt.children # <<>> =>
       /\ stmt.query # NoQuery /\ IsScript(stmt.query)
       /\ \A i \in DOMAIN stmt.children : stmt.children[i].of = stmt.query

\* A cursor that is open, or that the running body is about to fill or to close.
CursorOfText ==
  stmt.state = "ExecutedWithRs" =>
    /\ stmt.query # NoQuery
    /\ \/ stmt.rows = stmt.query
       \/ Executes /\ Body.pc = "rows"
       \/ Body.op = "prepare" /\ Body.pc = "prepared"
    /\ IsScript(stmt.query) =>
         \/ LastIsSelect(stmt.children)
         \/ Body.op = "moreResults" /\ Body.pc = "begin"

LEMMA BodyStepLeaves ==
  ASSUME NEW a \in Actor, BodyStep(a)
  PROVE  UNCHANGED <<fut, call, obs>>
BY DEF BodyStep, PrepareQuery, MarkPrepared, ExecDirectBegin, ExecDirectPlan, ExecuteBegin,
   ExecuteFails, SelectSucceeds, DmlSucceeds, ScriptSucceeds, ScriptFailsLate, StoreRows,
   MoreResultsBegin, MoreResultsFails, MoreResultsSucceeds, BodyReturns, Succeeds

LEMMA NoTasks ==
  ASSUME IInv, Synchronous
  PROVE  /\ \A t \in Task : frame[t].pc = "free"
         /\ call.held \notin Task
<1>1. call.held \notin Task
  BY DEF Synchronous, IInv, CallShape
<1>2. \A t \in Task, k \in Op : fut[k] # t
  BY ConstantsAssumption DEF Synchronous
<1>3. \A t \in Task : ~Owned(t)
  BY <1>1, <1>2 DEF Owned
<1> QED BY <1>1, <1>3 DEF IInv, NoOrphanWorker

LEMMA OnlyTheCaller ==
  ASSUME IInv, Synchronous, NEW a \in Actor, BodyStep(a)
  PROVE  a = Caller
<1>1. frame[a].pc # "free"
  BY DEF BodyStep, PrepareQuery, MarkPrepared, ExecDirectBegin, ExecDirectPlan,
     ExecuteBegin, ExecuteFails, SelectSucceeds, DmlSucceeds, ScriptSucceeds,
     ScriptFailsLate, StoreRows, MoreResultsBegin, MoreResultsFails, MoreResultsSucceeds,
     BodyReturns, Succeeds, Executing, At
<1> QED BY <1>1, NoTasks DEF Actor

\* A call runs its body itself.
LEMMA RunsInline ==
  ASSUME IInv, OnlySynchronous, NEW op, NEW q, LaunchOrRun(op, q)
  PROVE  RunInline(op, q)
BY DEF IInv, TypeOK, Stmt, OnlySynchronous, LaunchOrRun

\* Outside of a body: the replies that harvest none, and the start of a body.
LEMMA QuietStep ==
  ASSUME IInv, Synchronous, OnlySynchronous,
         \A k \in Op : fut'[k] = NoTask,
         stmt'.state \notin {"AsyncPrepare", "AsyncExecute"},
         \/ \E op, q, code, consumed : ReplyNow(op, q, code, "none", consumed)
         \/ \E op, q : LaunchOrRun(op, q)
         \/ UNCHANGED <<call, obs>>
  PROVE  Synchronous'
<1>1. CASE \E op, q, code, consumed : ReplyNow(op, q, code, "none", consumed)
  BY <1>1 DEF ReplyNow, Reply, IdleCall, Synchronous
<1>2. CASE \E op, q : LaunchOrRun(op, q)
  <2>1. PICK op, q : RunInline(op, q)
    BY <1>2, RunsInline
  <2> QED BY <2>1 DEF RunInline, Suspend, Synchronous
<1>3. CASE UNCHANGED <<call, obs>>
  BY <1>3 DEF Synchronous
<1> QED BY <1>1, <1>2, <1>3

LEMMA SynchronousRequest ==
  ASSUME IInv, Synchronous, OnlySynchronous, Request
  PROVE  Synchronous'
<1> DEFINE Now == \E op, q, code, consumed : ReplyNow(op, q, code, "none", consumed)
           Run == \E op, q : LaunchOrRun(op, q)
           Quiet == /\ \A k \in Op : fut'[k] = NoTask
                    /\ stmt'.state \notin {"AsyncPrepare", "AsyncExecute"}
                    /\ Now \/ Run \/ UNCHANGED <<call, obs>>
<1>0. Quiet => Synchronous'
  BY QuietStep
<1>a. /\ \A k \in Op : fut[k] = NoTask /\ fut[k] \notin Task /\ fut[k] # Moved
      /\ stmt.state \notin {"AsyncPrepare", "AsyncExecute"}
      /\ stmt \in Stmt /\ fut \in [Op -> Task \cup {NoTask, Moved}]
      /\ {"prepare", "execute", "execDirect", "moreResults"} \subseteq Op
  BY ConstantsAssumption DEF Synchronous, IInv, TypeOK, Op
<1>b. /\ \A op, q, code, consumed : ReplyNow(op, q, code, "none", consumed) => Now
      /\ \A op, q : LaunchOrRun(op, q) => Run
  OBVIOUS
<1> HIDE DEF Now, Run
<1>1. ASSUME NEW q \in Query, SQLPrepare(q) PROVE Quiet
  BY <1>1, <1>a, <1>b DEF SQLPrepare, Stmt
<1>2. ASSUME SQLExecute PROVE Quiet
  <2>1. ExecuteProper
    BY <1>2, <1>a DEF SQLExecute
  <2>2. CASE ExecuteRefused
    BY <2>2, <1>a, <1>b DEF ExecuteRefused
  <2>3. CASE ExecuteCanceled
    BY <2>3, <1>a, <1>b DEF ExecuteCanceled, Stmt
  <2>4. CASE ExecutePrepared
    BY <2>4, <1>a, <1>b DEF ExecutePrepared
  <2> QED BY <1>a, <2>1, <2>2, <2>3, <2>4 DEF ExecuteProper
<1>3. ASSUME NEW q \in Query, SQLExecDirect(q) PROVE Quiet
  BY <1>3, <1>a, <1>b DEF SQLExecDirect, Stmt
<1>4. ASSUME SQLMoreResults PROVE Quiet
  BY <1>4, <1>a, <1>b DEF SQLMoreResults, Stmt
<1>5. ASSUME SQLCancel \/ SQLCloseCursor \/ SQLFreeStmtClose
             \/ \E b \in AsyncModes : SQLSetAsyncEnable(b)
      PROVE  Quiet
  BY <1>5, <1>a
     DEF SQLCancel, SQLCloseCursor, SQLFreeStmtClose, SQLSetAsyncEnable, CloseCursor, Stmt
<1>6. ASSUME SQLFreeHandle PROVE Synchronous'
  BY <1>6 DEF SQLFreeHandle, Suspend, Synchronous
<1>7. ASSUME SQLAllocHandle PROVE Synchronous'
  BY <1>7 DEF SQLAllocHandle, IdleCall, NewStmt, Synchronous, IInv, TypeOK, Obs
<1> HIDE DEF Quiet
<1> QED BY <1>0, <1>1, <1>2, <1>3, <1>4, <1>5, <1>6, <1>7 DEF Request

LEMMA SynchronousCall ==
  ASSUME IInv, Synchronous, OnlySynchronous, CallStep
  PROVE  Synchronous' /\ (BodyReturn \/ DestroyFutures)
<1>1. BodyReturn \/ DestroyFutures
  BY DEF CallStep, Synchronous, HandleAsyncPrepare, HandleAsyncExecute, SQLExecuteProceed,
     SQLExecDirectResume, StoreFuture, MarkStillExecuting, Join
<1>2. CASE BodyReturn
  BY <1>2 DEF BodyReturn, Reply, IdleCall, Synchronous, IInv, TypeOK, Stmt
<1>3. CASE DestroyFutures
  BY <1>3 DEF DestroyFutures, IdleCall, Synchronous
<1> QED BY <1>1, <1>2, <1>3

LEMMA SynchronousBody ==
  ASSUME IInv, Synchronous, NEW a \in Actor, BodyStep(a)
  PROVE  Synchronous'
<1>1. UNCHANGED <<fut, call, obs>>
  BY BodyStepLeaves
<1>2. stmt'.state \notin {"AsyncPrepare", "AsyncExecute"}
  BY DEF BodyStep, PrepareQuery, MarkPrepared, ExecDirectBegin, ExecDirectPlan,
     ExecuteBegin, ExecuteFails, SelectSucceeds, DmlSucceeds, ScriptSucceeds,
     ScriptFailsLate, StoreRows, MoreResultsBegin, MoreResultsFails, MoreResultsSucceeds,
     BodyReturns, Succeeds, FailureState, Synchronous, IInv, TypeOK, Stmt
<1> QED BY <1>1, <1>2 DEF Synchronous

LEMMA SynchronousStep ==
  ASSUME IInv, Synchronous, OnlySynchronous, [Next]_vars
  PROVE  Synchronous'
<1>1. CASE UNCHANGED vars
  BY <1>1 DEF vars, Synchronous
<1> QED
  BY <1>1, SynchronousRequest, SynchronousCall, SynchronousBody DEF Next

LEMMA SynchronousInit == Init => Synchronous
BY DEF Init, NewStmt, IdleCall, Synchronous

-----------------------------------------------------------------------------
(* An open cursor in the synchronous mode, while scripts stay alone.       *)

TextInv == BodyText /\ JobOfText /\ CursorOfText

LEMMA TextTypes ==
  ASSUME IInv
  PROVE  /\ stmt \in Stmt /\ frame \in [Actor -> Frame] /\ Body \in Frame
         /\ call.pc # "body" => Body.pc = "free"
         /\ Caller \in Actor /\ NoQuery \notin Query
BY ConstantsAssumption DEF IInv, TypeOK, CallShape, Body, Actor

\* Another text is only ever put beside a job and child jobs of single
\* statements, when there are any.
LEMMA JobsKept ==
  ASSUME JobOfText, ScriptsAlone,
         stmt'.query = stmt.query \/ stmt'.query # NoQuery,
         stmt'.job = stmt.job, stmt'.children = stmt.children
  PROVE  JobOfText'
BY DEF JobOfText, ScriptsAlone, IsScript

\* Between two bodies.
LEMMA TextAtRest ==
  ASSUME IInv, TextInv, ScriptsAlone, call.pc # "body",
         stmt'.query = stmt.query \/ (stmt'.query # NoQuery /\ stmt'.state # "ExecutedWithRs"),
         stmt'.job \in {stmt.job, NoQuery},
         stmt'.children \in {stmt.children, <<>>},
         \/ stmt'.state # "ExecutedWithRs"
         \/ stmt'.state = stmt.state /\ stmt'.rows = stmt.rows /\ stmt'.children = stmt.children,
         \/ Body'.pc = "free"
         \/ \E op \in Op, q \in Query \cup {NoQuery} :
              /\ Body' = NewFrame(op, q)
              /\ op = "prepare" => q \in Query
  PROVE  TextInv'
<1>1. Body.pc = "free"
  BY TextTypes
<1>2. Body'.pc \in {"free", "begin", "exec"}
      /\ (Body'.pc = "exec" => Body'.op = "execute")
      /\ (Body'.op = "prepare" /\ Body'.pc = "begin" => Body'.query \in Query)
  BY DEF NewFrame, FirstPc, IdleFrame, Op
<1>3. BodyText'
  BY <1>2 DEF BodyText, Executes
<1>4. JobOfText'
  BY DEF TextInv, JobOfText, ScriptsAlone, IsScript
<1>5. CursorOfText'
  BY <1>1 DEF TextInv, CursorOfText, LastIsSelect
<1> QED BY <1>3, <1>4, <1>5 DEF TextInv

LEMMA TextRequest ==
  ASSUME IInv, Synchronous, OnlySynchronous, TextInv, ScriptsAlone, Request
  PROVE  TextInv'
<1> DEFINE Kept == stmt'.query = stmt.query
                   \/ (stmt'.query # NoQuery /\ stmt'.state # "ExecutedWithRs")
           Jobs == stmt'.job \in {stmt.job, NoQuery}
           Children == stmt'.children \in {stmt.children, <<>>}
           Closed == \/ stmt'.state # "ExecutedWithRs"
                     \/ /\ stmt'.state = stmt.state
                        /\ stmt'.rows = stmt.rows
                        /\ stmt'.children = stmt.children
           Begins == \E op \in Op, q \in Query \cup {NoQuery} :
                       /\ Body' = NewFrame(op, q)
                       /\ op = "prepare" => q \in Query
           Fine == Kept /\ Jobs /\ Children /\ Closed
<1>0. call.pc # "body" /\ Fine /\ (Body'.pc = "free" \/ Begins) => TextInv'
  BY TextAtRest
<1>a. /\ stmt \in Stmt /\ frame \in [Actor -> Frame] /\ Caller \in Actor
      /\ call.pc # "body" => Body.pc = "free"
      /\ NoQuery \notin Query
  BY TextTypes
<1>b. /\ \A k \in Op : fut[k] = NoTask /\ fut[k] \notin Task /\ fut[k] # Moved
      /\ stmt.state \notin {"AsyncPrepare", "AsyncExecute"}
      /\ {"prepare", "execute", "execDirect", "moreResults"} \subseteq Op
  BY ConstantsAssumption DEF Synchronous, Op
<1>c. ASSUME NEW op \in Op, NEW q \in Query \cup {NoQuery}, LaunchOrRun(op, q),
             op = "prepare" => q \in Query
      PROVE  Begins
  <2>1. RunInline(op, q)
    BY <1>c, RunsInline
  <2>2. Body' = NewFrame(op, q)
    BY <1>a, <2>1 DEF RunInline, Body
  <2> QED BY <1>c, <2>2
<1>d. ASSUME call.pc # "body", UNCHANGED frame PROVE Body'.pc = "free"
  BY <1>a, <1>d DEF Body
<1>e. UNCHANGED stmt => Fine
  OBVIOUS
<1>1. ASSUME NEW q \in Query, SQLPrepare(q)
      PROVE  TextInv'
  <2>1. call.pc # "body"
    BY <1>1 DEF SQLPrepare, Enter
  <2>2. Fine
    BY <1>1, <1>a, <1>b DEF SQLPrepare, Stmt
  <2>3. Body'.pc = "free" \/ Begins
    <3>1. CASE LaunchOrRun("prepare", q)
      BY <1>b, <1>c, <3>1
    <3>2. CASE UNCHANGED frame
      BY <1>d, <2>1, <3>2
    <3> QED BY <1>1, <3>1, <3>2 DEF SQLPrepare
  <2> QED BY <1>0, <2>1, <2>2, <2>3
<1>2. ASSUME SQLExecute
      PROVE  TextInv'
  <2>1. call.pc # "body" /\ ExecuteProper
    BY <1>2, <1>b DEF SQLExecute, Enter
  <2>2. Fine
    BY <2>1, <1>a, <1>b DEF ExecuteProper, ExecuteRefused, ExecuteCanceled, ExecutePrepared, Stmt
  <2>3. Body'.pc = "free" \/ Begins
    <3>1. CASE LaunchOrRun("execute", NoQuery)
      BY <1>b, <1>c, <3>1
    <3>2. CASE UNCHANGED frame
      BY <1>d, <2>1, <3>2
    <3> QED
      BY <2>1, <3>1, <3>2 DEF ExecuteProper, ExecuteRefused, ExecuteCanceled, ExecutePrepared
  <2> QED BY <1>0, <2>1, <2>2, <2>3
<1>3. ASSUME NEW q \in Query, SQLExecDirect(q)
      PROVE  TextInv'
  <2>1. call.pc # "body"
    BY <1>3 DEF SQLExecDirect, Enter
  <2>2. Fine
    BY <1>3, <1>a, <1>b DEF SQLExecDirect, Stmt
  <2>3. Body'.pc = "free" \/ Begins
    <3>1. CASE LaunchOrRun("execDirect", q)
      BY <1>b, <1>c, <3>1
    <3>2. CASE UNCHANGED frame
      BY <1>d, <2>1, <3>2
    <3> QED BY <1>3, <1>b, <3>1, <3>2 DEF SQLExecDirect
  <2> QED BY <1>0, <2>1, <2>2, <2>3
<1>4. ASSUME SQLMoreResults
      PROVE  TextInv'
  <2>1. call.pc # "body"
    BY <1>4 DEF SQLMoreResults, Enter
  <2>2. CASE UNCHANGED frame /\ (stmt' = stmt \/ stmt' = [stmt EXCEPT !.canceled = FALSE, !.state = "NotPrepared"]
                \/ stmt' = [stmt EXCEPT !.children = <<>>, !.state = "ExecutedWithoutRs"])
    <3>1. Fine
      BY <2>2, <1>a DEF Stmt
    <3> QED BY <1>0, <1>d, <2>1, <2>2, <3>1
  <2>3. CASE /\ Len(stmt.children) > 1
             /\ stmt' = [stmt EXCEPT !.children = SubSeq(@, 1, Len(@) - 1)]
             /\ LaunchOrRun("moreResults", NoQuery)
    <3>1. Body' = NewFrame("moreResults", NoQuery)
      BY <1>a, <2>3, RunsInline DEF RunInline, Body
    <3>2. Body'.op = "moreResults" /\ Body'.pc = "begin"
      BY <3>1 DEF NewFrame, FirstPc, IdleFrame
    <3>3. /\ stmt'.query = stmt.query /\ stmt'.job = stmt.job /\ stmt'.state = stmt.state
          /\ stmt'.rows = stmt.rows
          /\ stmt'.children = SubSeq(stmt.children, 1, Len(stmt.children) - 1)
      BY <1>a, <2>3 DEF Stmt
    <3>4. /\ Len(stmt.children) \in Nat /\ stmt.children # <<>>
          /\ \A i \in DOMAIN stmt'.children :
               i \in DOMAIN stmt.children /\ stmt'.children[i] = stmt.children[i]
      BY <1>a, <2>3, <3>3 DEF Stmt
    <3>5. BodyText'
      BY <3>2 DEF BodyText, Executes
    <3>6. JobOfText'
      BY <3>3, <3>4 DEF TextInv, JobOfText, IsScript
    <3>7. CursorOfText'
      BY <1>a, <2>1, <3>2, <3>3 DEF TextInv, CursorOfText, IsScript
    <3> QED BY <3>5, <3>6, <3>7 DEF TextInv
  <2> QED BY <1>4, <1>b, <2>2, <2>3 DEF SQLMoreResults
<1>5. ASSUME \/ SQLCancel \/ SQLCloseCursor \/ SQLFreeStmtClose
             \/ \E b \in AsyncModes : SQLSetAsyncEnable(b)
             \/ SQLFreeHandle
      PROVE  TextInv'
  <2>1. call.pc # "body" /\ UNCHANGED frame
    BY <1>5 DEF SQLCancel, SQLCloseCursor, SQLFreeStmtClose, SQLSetAsyncEnable, SQLFreeHandle, Enter
  <2>2. Fine
    BY <1>5, <1>a
       DEF SQLCancel, SQLCloseCursor, SQLFreeStmtClose, SQLSetAsyncEnable, SQLFreeHandle,
           CloseCursor, Stmt
  <2> QED BY <1>0, <1>d, <2>1, <2>2
<1>6. ASSUME SQLAllocHandle
      PROVE  TextInv'
  <2>1. /\ call.pc # "body" /\ UNCHANGED frame
        /\ stmt'.state = "NotPrepared" /\ stmt'.query = NoQuery
        /\ stmt'.job = NoQuery /\ stmt'.children = <<>>
    BY <1>6 DEF SQLAllocHandle, NewStmt
  <2>2. Body'.pc = "free"
    BY <1>d, <2>1
  <2> QED BY <2>1, <2>2 DEF TextInv, BodyText, JobOfText, CursorOfText, Executes
<1> QED BY <1>1, <1>2, <1>3, <1>4, <1>5, <1>6 DEF Request

LEMMA TextCall ==
  ASSUME IInv, Synchronous, TextInv, ScriptsAlone, BodyReturn \/ DestroyFutures
  PROVE  TextInv'
<1>a. stmt \in Stmt /\ frame \in [Actor -> Frame] /\ Caller \in Actor
  BY TextTypes
<1>1. CASE BodyReturn
  <2>1. Body.pc = "done" /\ Body'.pc = "free"
    BY <1>1, <1>a DEF BodyReturn, Body, IdleFrame
  <2>2. /\ stmt'.query = stmt.query /\ stmt'.job = stmt.job /\ stmt'.rows = stmt.rows
        /\ stmt'.children = stmt.children
        /\ stmt'.state \in {stmt.state, "NeedsParams"}
    BY <1>1, <1>a DEF BodyReturn, Stmt
  <2> QED
    BY <2>1, <2>2 DEF TextInv, BodyText, JobOfText, CursorOfText, Executes, IsScript, LastIsSelect
<1>2. CASE DestroyFutures
  <2>1. UNCHANGED stmt /\ call.pc # "body" /\ Body'.pc = "free"
    BY <1>2, <1>a DEF DestroyFutures, Body, IdleFrame
  <2> QED BY <2>1, TextAtRest
<1> QED BY <1>1, <1>2

\* PrepareQuery replaces the text and the job together.
LEMMA TextPrepare ==
  ASSUME IInv, TextInv, ScriptsAlone, PrepareQuery(Caller)
  PROVE  TextInv'
<1>a. stmt \in Stmt /\ frame \in [Actor -> Frame] /\ Caller \in Actor /\ NoQuery \notin Query
  BY TextTypes
<1>1. Body.op = "prepare" /\ Body.pc = "begin" /\ Body.query \in Query
  BY DEF PrepareQuery, At, Body, TextInv, BodyText
<1>2. Body'.op = "prepare" /\ Body'.pc = "prepared"
  BY <1>1, <1>a DEF PrepareQuery, Body, Frame
<1>3. BodyText'
  BY <1>2 DEF BodyText, Executes
<1>4. CASE UNCHANGED stmt
  BY <1>1, <1>2, <1>3, <1>4 DEF TextInv, JobOfText, CursorOfText, Executes, IsScript, LastIsSelect
<1>5. CASE stmt' = [stmt EXCEPT !.query = Body.query, !.job = Body.query]
  <2>1. /\ stmt'.query = Body.query /\ stmt'.job = Body.query
        /\ stmt'.children = stmt.children /\ stmt'.state = stmt.state
    BY <1>5, <1>a DEF Stmt
  <2>2. JobOfText'
    BY <1>1, <1>a, <2>1 DEF TextInv, JobOfText, ScriptsAlone, IsScript
  <2>3. CursorOfText'
    BY <1>1, <1>2, <1>a, <2>1
       DEF TextInv, CursorOfText, ScriptsAlone, IsScript, LastIsSelect, Executes
  <2> QED BY <1>3, <2>2, <2>3 DEF TextInv
<1> QED BY <1>4, <1>5 DEF PrepareQuery, Body

\* The steps after which no cursor is open.
LEMMA TextClosing ==
  ASSUME IInv, TextInv, NEW a \in Actor, a = Caller,
         \/ MarkPrepared(a) \/ ExecDirectBegin(a) \/ ExecuteBegin(a) \/ ExecuteFails(a)
         \/ DmlSucceeds(a) \/ MoreResultsBegin(a)
  PROVE  TextInv'
<1>a. stmt \in Stmt /\ frame \in [Actor -> Frame] /\ Caller \in Actor /\ NoQuery \notin Query
      /\ Body \in Frame
  BY TextTypes
<1>1. stmt'.state # "ExecutedWithRs" /\ stmt'.query = stmt.query /\ stmt'.children = stmt.children
  BY <1>a DEF MarkPrepared, ExecDirectBegin, ExecuteBegin, ExecuteFails, DmlSucceeds, Succeeds,
     MoreResultsBegin, FailureState, Stmt
<1>2. CursorOfText'
  BY <1>1 DEF CursorOfText
<1>3. stmt'.job \in {stmt.job, Body.query}
      /\ (stmt'.job # stmt.job => Executes /\ Body.pc = "run")
  BY <1>a DEF MarkPrepared, ExecDirectBegin, ExecuteBegin, ExecuteFails, DmlSucceeds, Succeeds,
     MoreResultsBegin, JobAfter, Executing, At, Executes, Body, Stmt
<1>4. JobOfText'
  BY <1>1, <1>3, <1>a DEF TextInv, BodyText, JobOfText, IsScript
<1>5. BodyText'
  <2>1. CASE MarkPrepared(a) \/ ExecuteFails(a) \/ DmlSucceeds(a) \/ MoreResultsBegin(a)
    <3>1. Body'.pc \in {"return", "run"} /\ Body'.op = Body.op
          /\ (Body'.pc = "run" => Body.op = "moreResults")
      BY <2>1, <1>a DEF MarkPrepared, ExecuteFails, DmlSucceeds, MoreResultsBegin, Finish, Goto,
         Succeeds, Body, Frame
    <3> QED BY <3>1 DEF BodyText, Executes
  <2>2. CASE ExecDirectBegin(a)
    <3>1. Body'.pc = "plan" /\ Body'.op = "execDirect" /\ Body'.query = stmt.query
      BY <2>2, <1>a DEF ExecDirectBegin, Body, Frame
    <3> QED BY <1>1, <3>1 DEF BodyText, Executes
  <2>3. CASE ExecuteBegin(a)
    <3>1. Body'.pc = "run" /\ Body'.op = Body.op /\ Body.pc = "exec"
          /\ Body'.query = stmt.query /\ Body'.job = stmt.job /\ stmt'.job = stmt.job
      BY <2>3, <1>a DEF ExecuteBegin, At, Body, Frame, Stmt
    <3> QED BY <1>1, <3>1 DEF BodyText, Executes, TextInv
  <2> QED BY <2>1, <2>2, <2>3
<1> QED BY <1>2, <1>4, <1>5 DEF TextInv

LEMMA TextPlan ==
  ASSUME IInv, TextInv, NEW a \in Actor, a = Caller, ExecDirectPlan(a)
  PROVE  TextInv'
<1>a. stmt \in Stmt /\ frame \in [Actor -> Frame] /\ Caller \in Actor /\ NoQuery \notin Query
      /\ Body \in Frame
  BY TextTypes
<1>1. Body.pc = "plan" /\ Executes /\ Body.query = stmt.query
  BY DEF ExecDirectPlan, At, Body, TextInv, BodyText
<1>2. Body'.pc \in {"exec", "return"} /\ Body'.op = Body.op
  BY <1>a DEF ExecDirectPlan, Goto, Finish, Body, Frame
<1>3. /\ stmt'.query = stmt.query /\ stmt'.children = stmt.children
      /\ stmt'.state = stmt.state /\ stmt'.rows = stmt.rows
      /\ stmt'.job \in {stmt.job, NoQuery, stmt.query}
  BY <1>1, <1>a DEF ExecDirectPlan, Body, Stmt
<1>4. BodyText'
  BY <1>1, <1>2 DEF BodyText, Executes
<1>5. JobOfText'
  BY <1>3, <1>a DEF TextInv, JobOfText, IsScript
<1>6. CursorOfText'
  BY <1>1, <1>2, <1>3 DEF TextInv, CursorOfText, Executes, IsScript, LastIsSelect
<1> QED BY <1>4, <1>5, <1>6 DEF TextInv

\* An execution that succeeds runs the text of the statement, and its job is of it.
LEMMA RunOfText ==
  ASSUME IInv, TextInv, Executing(Caller), Body.query # NoQuery
  PROVE  /\ Executes /\ Body.pc = "run"
         /\ Body.query = stmt.query /\ Body.job = stmt.job /\ stmt.query \in Query
         /\ TypeOfRun(Caller) = "SCRIPT" <=> IsScript(stmt.query)
         /\ JobAfter(Caller) # NoQuery
         /\ IsScript(JobAfter(Caller)) \/ IsScript(stmt.query) => JobAfter(Caller) = stmt.query
<1>a. stmt \in Stmt /\ frame \in [Actor -> Frame] /\ Caller \in Actor /\ NoQuery \notin Query
      /\ Body \in Frame
  BY TextTypes
<1>1. Executes /\ Body.pc = "run"
  BY DEF Executing, At, Executes, Body
<1>2. Body.query = stmt.query /\ Body.job = stmt.job
  BY <1>1 DEF TextInv, BodyText
<1>3. stmt.query \in Query
  BY <1>2, <1>a DEF Stmt
<1>4. CASE stmt.job = NoQuery
  <2>1. JobAfter(Caller) = stmt.query
    BY <1>2, <1>4 DEF JobAfter, PreparedScript, Body
  <2>2. TypeOfRun(Caller) = StatementType[stmt.query]
    BY <1>2, <1>3, <1>4, <1>a, <2>1 DEF TypeOfRun, Body
  <2> QED BY <1>1, <1>2, <1>3, <1>a, <2>1, <2>2 DEF IsScript
<1>5. CASE stmt.job # NoQuery
  <2>1. JobAfter(Caller) = stmt.job
    BY <1>5 DEF JobAfter
  <2>2. TypeOfRun(Caller) = StatementType[stmt.job]
    BY <1>2, <1>5 DEF TypeOfRun, Body
  <2>3. IsScript(stmt.job) \/ IsScript(stmt.query) => stmt.job = stmt.query
    BY <1>5 DEF TextInv, JobOfText
  <2> QED BY <1>1, <1>2, <1>3, <1>5, <2>1, <2>2, <2>3 DEF IsScript
<1> QED BY <1>4, <1>5

LEMMA TextSelect ==
  ASSUME IInv, TextInv, SelectSucceeds(Caller)
  PROVE  TextInv'
<1>a. stmt \in Stmt /\ frame \in [Actor -> Frame] /\ Caller \in Actor /\ NoQuery \notin Query
  BY TextTypes
<1>1. Executing(Caller) /\ Body.query # NoQuery /\ TypeOfRun(Caller) = "SELECT"
  BY DEF SelectSucceeds, Succeeds, Body
<1>2. /\ Executes /\ Body.query = stmt.query /\ stmt.query \in Query
      /\ ~IsScript(stmt.query)
      /\ JobAfter(Caller) # NoQuery
      /\ ~IsScript(JobAfter(Caller)) 
  BY <1>1, RunOfText
<1>3. Body'.pc = "rows" /\ Body'.op = Body.op /\ Body'.query = Body.query
  BY <1>a DEF SelectSucceeds, Goto, Body, Frame
<1>4. /\ stmt'.query = stmt.query /\ stmt'.children = stmt.children
      /\ stmt'.job = JobAfter(Caller)
  BY <1>a DEF SelectSucceeds, Succeeds, Stmt
<1>5. BodyText'
  BY <1>2, <1>3, <1>4 DEF BodyText, Executes
<1>6. JobOfText'
  BY <1>2, <1>4, <1>a DEF TextInv, JobOfText, IsScript
<1>7. CursorOfText'
  BY <1>2, <1>3, <1>4, <1>a DEF CursorOfText, Executes, IsScript
<1> QED BY <1>5, <1>6, <1>7 DEF TextInv

\* The child jobs that are listed join those the statement holds.
LEMMA ListedOfText ==
  ASSUME IInv, TextInv, NEW a \in Actor, a = Caller, Body.query = stmt.query,
         NEW children \in ListChildren(a)
  PROVE  \A i \in DOMAIN children : children[i].of = stmt.query
<1>a. stmt \in Stmt
  BY TextTypes
<1>1. \A i \in DOMAIN stmt.children : stmt.children[i].of = stmt.query
  BY <1>a DEF TextInv, JobOfText, Stmt
<1>2. CASE children = stmt.children
  BY <1>1, <1>2
<1>3. ASSUME NEW types \in ScriptJobs,
             children = stmt.children \o [i \in DOMAIN types |->
                          [of |-> frame[a].query, type |-> types[i]]]
      PROVE  \A i \in DOMAIN children : children[i].of = stmt.query
  <2> DEFINE listed == [i \in DOMAIN types |-> [of |-> frame[a].query, type |-> types[i]]]
  <2>1. /\ types \in Seq(JobType) /\ Len(types) \in Nat /\ DOMAIN types = 1..Len(types)
        /\ stmt.children \in Seq([of : Query, type : JobType])
    BY <1>a, ConstantsAssumption DEF Stmt
  <2>2. listed \in Seq([of : {frame[a].query}, type : JobType])
    BY <2>1
  <2>3. \A i \in DOMAIN listed : listed[i].of = stmt.query
    BY DEF Body
  <2> HIDE DEF listed
  <2>4. children = stmt.children \o listed
    BY <1>3 DEF listed
  <2>5. \A i \in DOMAIN children :
           \/ i \in DOMAIN stmt.children /\ children[i] = stmt.children[i]
           \/ i - Len(stmt.children) \in DOMAIN listed
              /\ children[i] = listed[i - Len(stmt.children)]
    BY <2>1, <2>2, <2>4
  <2> QED BY <1>1, <2>3, <2>5
<1> QED BY <1>2, <1>3 DEF ListChildren

LEMMA TextScript ==
  ASSUME IInv, TextInv, NEW a \in Actor, a = Caller, ScriptSucceeds(a) \/ ScriptFailsLate(a)
  PROVE  TextInv'
<1>a. stmt \in Stmt /\ frame \in [Actor -> Frame] /\ Caller \in Actor /\ NoQuery \notin Query
  BY TextTypes
<1>1. Executing(Caller) /\ Body.query # NoQuery /\ TypeOfRun(Caller) = "SCRIPT"
  BY DEF ScriptSucceeds, ScriptFailsLate, Succeeds, Body
<1>2. /\ Executes /\ Body.query = stmt.query /\ stmt.query \in Query
      /\ IsScript(stmt.query)
      /\ JobAfter(Caller) = stmt.query
  BY <1>1, RunOfText
<1>3. \E children \in ListChildren(a) : stmt'.children = children
  BY <1>a DEF ScriptSucceeds, ScriptFailsLate, Succeeds, Stmt
<1>4. \A i \in DOMAIN stmt'.children : stmt'.children[i].of = stmt.query
  BY <1>2, <1>3, ListedOfText
<1>5. stmt'.query = stmt.query /\ stmt'.job = JobAfter(Caller)
  BY <1>a DEF ScriptSucceeds, ScriptFailsLate, Succeeds, Stmt
<1>6. JobOfText'
  BY <1>2, <1>4, <1>5, <1>a DEF JobOfText, IsScript
<1>7. Body'.pc \in {"rows", "return"} /\ Body'.op = Body.op /\ Body'.query = Body.query
      /\ (stmt'.state = "ExecutedWithRs" => Body'.pc = "rows" /\ LastIsSelect(stmt'.children))
  <2>1. CASE ScriptSucceeds(a)
    <3>1. PICK children \in ListChildren(a) :
            /\ Succeeds(a, children, LastIsSelect(children))
            /\ IF LastIsSelect(children)
               THEN frame' = [frame EXCEPT ![a].pc = "rows",
                                           ![a].shown = ShownChild(a, children)]
               ELSE Finish(a, "ok")
      BY <2>1 DEF ScriptSucceeds
    <3>2. stmt'.children = children
          /\ (stmt'.state = "ExecutedWithRs" => LastIsSelect(children))
      BY <1>a, <3>1 DEF Succeeds, Stmt
    <3>3. /\ Body'.pc \in {"rows", "return"}
          /\ Body'.op = Body.op /\ Body'.query = Body.query
          /\ LastIsSelect(children) => Body'.pc = "rows"
      BY <1>a, <3>1 DEF Goto, Finish, Body, Frame
    <3> QED BY <3>2, <3>3
  <2>2. CASE ScriptFailsLate(a)
    <3>1. stmt'.state # "ExecutedWithRs"
      BY <1>a, <2>2 DEF ScriptFailsLate, FailureState, Stmt
    <3>2. Finish(a, "error")
      BY <2>2 DEF ScriptFailsLate
    <3>3. Body'.pc = "return" /\ Body'.op = Body.op /\ Body'.query = Body.query
      BY <1>a, <3>2 DEF Finish, Body, Frame
    <3> QED BY <3>1, <3>3
  <2> QED BY <2>1, <2>2
<1>8. BodyText'
  BY <1>2, <1>5, <1>7 DEF BodyText, Executes
<1>9. CursorOfText'
  BY <1>2, <1>5, <1>7, <1>a DEF CursorOfText, Executes, IsScript
<1> QED BY <1>6, <1>8, <1>9 DEF TextInv

LEMMA TextRows ==
  ASSUME IInv, TextInv, StoreRows(Caller)
  PROVE  TextInv'
<1>a. stmt \in Stmt /\ frame \in [Actor -> Frame] /\ Caller \in Actor
  BY TextTypes
<1>1. Body.pc = "rows" /\ Executes /\ Body.query = stmt.query
  BY DEF StoreRows, At, Body, TextInv, BodyText
<1>2. Body'.pc = "return"
  BY <1>a DEF StoreRows, Finish, Body, Frame
<1>3. /\ stmt'.query = stmt.query /\ stmt'.children = stmt.children
      /\ stmt'.state = stmt.state /\ stmt'.rows = stmt.query /\ stmt'.job = stmt.job
  BY <1>1, <1>a DEF StoreRows, Body, Stmt
<1> QED
  BY <1>1, <1>2, <1>3
     DEF TextInv, BodyText, JobOfText, CursorOfText, Executes, IsScript, LastIsSelect

LEMMA TextMoreResults ==
  ASSUME IInv, TextInv, NEW a \in Actor, a = Caller,
         MoreResultsFails(a) \/ MoreResultsSucceeds(a)
  PROVE  TextInv'
<1>a. stmt \in Stmt /\ frame \in [Actor -> Frame] /\ Caller \in Actor
  BY TextTypes
<1>1. Body.pc = "run" /\ Body.op = "moreResults" /\ Body'.pc = "return"
  BY <1>a DEF MoreResultsFails, MoreResultsSucceeds, At, Finish, Body, Frame
<1>2. BodyText'
  BY <1>1 DEF BodyText, Executes
<1>3. stmt'.query = stmt.query /\ stmt'.children = stmt.children /\ stmt'.job = stmt.job
  BY <1>a DEF MoreResultsFails, MoreResultsSucceeds, Stmt
<1>4. JobOfText'
  BY <1>3 DEF TextInv, JobOfText, IsScript
<1>5. stmt.children # <<>> /\ Len(stmt.children) \in DOMAIN stmt.children
  BY <1>1, <1>a DEF IInv, ChildToRead, Body, Stmt
<1>6. CursorOfText'
  <2>1. CASE UNCHANGED stmt
    BY <1>1, <2>1 DEF TextInv, CursorOfText, Executes, IsScript, LastIsSelect
  <2>2. CASE stmt'.state = "ExecutedWithoutRs"
    BY <2>2 DEF CursorOfText
  <2>3. CASE /\ stmt.children[Len(stmt.children)].type = "SELECT"
             /\ stmt'.rows = stmt.children[Len(stmt.children)].of
    BY <1>3, <1>5, <2>3 DEF TextInv, JobOfText, CursorOfText, IsScript, LastIsSelect
  <2> QED BY <1>a, <2>1, <2>2, <2>3 DEF MoreResultsFails, MoreResultsSucceeds, Stmt
<1> QED BY <1>2, <1>4, <1>6 DEF TextInv

LEMMA TextReturns ==
  ASSUME IInv, TextInv, BodyReturns(Caller)
  PROVE  TextInv'
<1>a. stmt \in Stmt /\ frame \in [Actor -> Frame] /\ Caller \in Actor
  BY TextTypes
<1>1. Body.pc = "return" /\ Body'.pc = "done" /\ UNCHANGED stmt
  BY <1>a DEF BodyReturns, At, Goto, Body, Frame
<1> QED
  BY <1>1 DEF TextInv, BodyText, JobOfText, CursorOfText, Executes, IsScript, LastIsSelect

LEMMA TextStep ==
  ASSUME IInv, Synchronous, OnlySynchronous, TextInv, [Next]_vars,
         [ScriptsAlone]_vars
  PROVE  TextInv'
<1>1. CASE UNCHANGED vars
  BY <1>1
     DEF vars, TextInv, BodyText, JobOfText, CursorOfText, Executes, Body, IsScript, LastIsSelect
<1> SUFFICES ASSUME ~(UNCHANGED vars) PROVE TextInv'
  BY <1>1
<1>2. CASE Request
  BY <1>2, TextRequest
<1>3. CASE CallStep
  BY <1>3, SynchronousCall, TextCall
<1>4. ASSUME NEW a \in Actor, BodyStep(a)
      PROVE  TextInv'
  <2>1. a = Caller
    BY <1>4, OnlyTheCaller
  <2> QED
    BY <1>4, <2>1, TextPrepare, TextClosing, TextPlan, TextSelect, TextScript, TextRows,
       TextMoreResults, TextReturns
       DEF BodyStep
<1> QED BY <1>2, <1>3, <1>4 DEF Next

LEMMA TextInit == Init => TextInv
BY TextTypes, InitInv DEF Init, NewStmt, IdleFrame, TextInv, BodyText, JobOfText, CursorOfText, Executes, Body

LEMMA CursorAtRest ==
  ASSUME IInv, TextInv
  PROVE  RowsOfLastText
<1>1. call.pc = "idle" => Body.pc = "free"
  BY TextTypes
<1> QED
  BY <1>1 DEF TextInv, CursorOfText, RowsOfLastText, OpenCursor

LEMMA TextInvariance ==
  ASSUME OnlySynchronous
  PROVE  Spec /\ [][ScriptsAlone]_vars => []TextInv
<1>1. Init => TextInv /\ Synchronous
  BY TextInit, SynchronousInit
<1>2. /\ IInv /\ TextInv /\ Synchronous
      /\ [Next]_vars /\ [ScriptsAlone]_vars
      => (TextInv /\ Synchronous)'
  BY TextStep, SynchronousStep
<1> QED BY <1>1, <1>2, Invariance, PTL DEF Spec

\* In the synchronous mode, while scripts stay alone, an open cursor shows the
\* rows of the text the statement holds.
THEOREM CursorShowsText ==
  ASSUME OnlySynchronous
  PROVE  Spec /\ [][ScriptsAlone]_vars => []RowsOfLastText
<1>1. IInv /\ TextInv => RowsOfLastText
  BY CursorAtRest
<1> QED BY <1>1, TextInvariance, Invariance, PTL

-----------------------------------------------------------------------------
(* The child job an open cursor is on.                                     *)

\* A server lists at least one statement of a script.
ScriptsHaveStatements == <<>> \notin ScriptJobs

\* An execution that is not of a prepared text found no child jobs; the one
\* that is about to store a script's rows has those of the child on top.
ListedAfresh ==
  /\ Executes /\ Body.pc = "run" /\ Body.job = NoQuery => stmt.children = <<>>
  /\ Executes /\ Body.pc = "rows" /\ IsScript(stmt.query) =>
       Body.shown = Len(stmt.children)

CursorOnTop ==
  (stmt.state = "ExecutedWithRs" /\ IsScript(stmt.query)) =>
    \/ stmt.shown = Len(stmt.children)
    \/ Executes /\ Body.pc = "rows"
    \/ Body.op = "moreResults" /\ Body.pc = "begin"

TopInv == ListedAfresh /\ CursorOnTop

\* Between two bodies.
LEMMA TopAtRest ==
  ASSUME IInv, TopInv, call.pc # "body",
         \/ stmt'.state # "ExecutedWithRs"
         \/ /\ stmt'.state = stmt.state /\ stmt'.query = stmt.query
            /\ stmt'.shown = stmt.shown /\ stmt'.children = stmt.children,
         Body'.pc \in {"free", "begin", "exec"}
  PROVE  TopInv'
<1>1. Body.pc = "free"
  BY TextTypes
<1> QED BY <1>1 DEF TopInv, ListedAfresh, CursorOnTop, IsScript

\* A body that a call starts is at its first step.
LEMMA BodyStarts ==
  ASSUME IInv, OnlySynchronous, call.pc # "body",
         UNCHANGED frame \/ \E op, q : LaunchOrRun(op, q)
  PROVE  Body'.pc \in {"free", "begin", "exec"}
<1>a. frame \in [Actor -> Frame] /\ Caller \in Actor /\ Body.pc = "free"
  BY TextTypes
<1>1. CASE UNCHANGED frame
  BY <1>1, <1>a DEF Body
<1>2. ASSUME NEW op, NEW q, LaunchOrRun(op, q)
      PROVE  Body'.pc \in {"free", "begin", "exec"}
  <2>1. Body' = NewFrame(op, q)
    BY <1>2, <1>a, RunsInline DEF RunInline, Body
  <2> QED BY <2>1 DEF NewFrame, FirstPc, IdleFrame
<1> QED BY <1>1, <1>2

LEMMA TopRequest ==
  ASSUME IInv, Synchronous, OnlySynchronous, TopInv, Request
  PROVE  TopInv'
<1> DEFINE Starts == UNCHANGED frame \/ \E op, q : LaunchOrRun(op, q)
           Closed == \/ stmt'.state # "ExecutedWithRs"
                     \/ /\ stmt'.state = stmt.state /\ stmt'.query = stmt.query
                        /\ stmt'.shown = stmt.shown /\ stmt'.children = stmt.children
<1>0. call.pc # "body" /\ Starts /\ Closed => TopInv'
  BY TopAtRest, BodyStarts
<1>a. stmt \in Stmt /\ frame \in [Actor -> Frame] /\ Caller \in Actor
  BY TextTypes
<1>b. /\ \A k \in Op : fut[k] = NoTask /\ fut[k] \notin Task /\ fut[k] # Moved
      /\ stmt.state \notin {"AsyncPrepare", "AsyncExecute"}
      /\ {"prepare", "execute", "execDirect", "moreResults"} \subseteq Op
  BY ConstantsAssumption DEF Synchronous, Op
<1>1. ASSUME NEW q \in Query, SQLPrepare(q)
      PROVE  call.pc # "body" /\ Starts /\ Closed
  BY <1>1, <1>a, <1>b DEF SQLPrepare, Enter, Stmt
<1>2. ASSUME SQLExecute
      PROVE  call.pc # "body" /\ Starts /\ Closed
  <2>1. call.pc # "body" /\ ExecuteProper
    BY <1>2, <1>b DEF SQLExecute, Enter
  <2> QED
    BY <2>1, <1>a, <1>b DEF ExecuteProper, ExecuteRefused, ExecuteCanceled, ExecutePrepared, Stmt
<1>3. ASSUME NEW q \in Query, SQLExecDirect(q)
      PROVE  call.pc # "body" /\ Starts /\ Closed
  BY <1>3, <1>a, <1>b DEF SQLExecDirect, Enter, Stmt
<1>4. ASSUME SQLMoreResults
      PROVE  TopInv'
  <2>1. call.pc # "body"
    BY <1>4 DEF SQLMoreResults, Enter
  <2>2. CASE LaunchOrRun("moreResults", NoQuery)
    <3>1. Body' = NewFrame("moreResults", NoQuery)
      BY <1>a, <2>2, RunsInline DEF RunInline, Body
    <3>2. Body'.op = "moreResults" /\ Body'.pc = "begin"
      BY <3>1 DEF NewFrame, FirstPc, IdleFrame
    <3> QED BY <3>2 DEF TopInv, ListedAfresh, CursorOnTop, Executes
  <2>3. CASE UNCHANGED frame /\ Closed
    BY <1>0, <2>1, <2>3
  <2>4. LaunchOrRun("moreResults", NoQuery) \/ (UNCHANGED frame /\ Closed)
    BY <1>4, <1>a, <1>b DEF SQLMoreResults, Stmt
  <2> QED BY <2>2, <2>3, <2>4
<1>5. ASSUME \/ SQLCancel \/ SQLCloseCursor \/ SQLFreeStmtClose
             \/ \E b \in AsyncModes : SQLSetAsyncEnable(b)
             \/ SQLFreeHandle
      PROVE  call.pc # "body" /\ Starts /\ Closed
  BY <1>5, <1>a
     DEF SQLCancel, SQLCloseCursor, SQLFreeStmtClose, SQLSetAsyncEnable, SQLFreeHandle,
         CloseCursor, Enter, Stmt
<1>6. ASSUME SQLAllocHandle
      PROVE  call.pc # "body" /\ Starts /\ Closed
  BY <1>6 DEF SQLAllocHandle, NewStmt
<1> HIDE DEF Starts, Closed
<1> QED BY <1>0, <1>1, <1>2, <1>3, <1>4, <1>5, <1>6 DEF Request

LEMMA TopCall ==
  ASSUME IInv, TopInv, BodyReturn \/ DestroyFutures
  PROVE  TopInv'
<1>a. stmt \in Stmt /\ frame \in [Actor -> Frame] /\ Caller \in Actor
  BY TextTypes
<1>1. CASE BodyReturn
  <2>1. Body.pc = "done" /\ Body'.pc = "free"
    BY <1>1, <1>a DEF BodyReturn, Body, IdleFrame
  <2>2. /\ stmt'.query = stmt.query /\ stmt'.shown = stmt.shown
        /\ stmt'.children = stmt.children
        /\ stmt'.state \in {stmt.state, "NeedsParams"}
    BY <1>1, <1>a DEF BodyReturn, Stmt
  <2> QED BY <2>1, <2>2 DEF TopInv, ListedAfresh, CursorOnTop, IsScript
<1>2. CASE DestroyFutures
  <2>1. UNCHANGED stmt /\ call.pc # "body" /\ Body'.pc = "free"
    BY <1>2, <1>a DEF DestroyFutures, Body, IdleFrame
  <2> QED BY <2>1, TopAtRest
<1> QED BY <1>1, <1>2

\* The steps of a body that neither begin an execution nor list child jobs.
LEMMA TopOtherSteps ==
  ASSUME IInv, TextInv, TopInv, ScriptsAlone, NEW a \in Actor, a = Caller,
         \/ PrepareQuery(a) \/ MarkPrepared(a) \/ ExecDirectBegin(a) \/ ExecDirectPlan(a)
         \/ ExecuteFails(a) \/ DmlSucceeds(a) \/ MoreResultsBegin(a) \/ MoreResultsFails(a)
         \/ ScriptFailsLate(a) \/ BodyReturns(a)
  PROVE  TopInv'
<1>a. stmt \in Stmt /\ frame \in [Actor -> Frame] /\ Caller \in Actor /\ NoQuery \notin Query
      /\ Body \in Frame
  BY TextTypes
<1>1. \/ Body'.pc \notin {"run", "rows"}
      \/ Body'.op = "moreResults" /\ Body'.pc = "run"
  <2>1. ASSUME NEW status, Finish(a, status) PROVE Body'.pc = "return"
    BY <1>a, <2>1 DEF Finish, Body, Frame
  <2>2. CASE PrepareQuery(a)
    BY <1>a, <2>2 DEF PrepareQuery, Body, Frame
  <2>3. ASSUME NEW pc, Goto(a, pc) PROVE Body'.pc = pc /\ Body'.op = Body.op
    BY <1>a, <2>3 DEF Goto, Body, Frame
  <2>4. CASE MarkPrepared(a) \/ ExecDirectPlan(a) \/ BodyReturns(a)
    BY <2>1, <2>3, <2>4 DEF MarkPrepared, ExecDirectPlan, BodyReturns
  <2>5. CASE ExecDirectBegin(a)
    BY <1>a, <2>5 DEF ExecDirectBegin, Body, Frame
  <2>6. CASE MoreResultsBegin(a)
    BY <2>3, <2>6 DEF MoreResultsBegin, Body
  <2> QED
    BY <2>1, <2>2, <2>4, <2>5, <2>6
       DEF ExecuteFails, DmlSucceeds, MoreResultsFails, ScriptFailsLate
<1>2. ListedAfresh'
  BY <1>1 DEF ListedAfresh, Executes
<1>3. CASE stmt'.state # "ExecutedWithRs"
  BY <1>2, <1>3 DEF TopInv, CursorOnTop
<1>4. CASE PrepareQuery(a)
  <2>1. Body.op = "prepare" /\ Body.query \in Query
    BY <1>4 DEF PrepareQuery, At, Body, TextInv, BodyText
  <2>2. /\ stmt'.children = stmt.children /\ stmt'.state = stmt.state
        /\ stmt'.shown = stmt.shown
        /\ stmt'.query = stmt.query \/ stmt'.query = Body.query
    BY <1>4, <1>a DEF PrepareQuery, Body, Stmt
  <2>3. stmt.state = "ExecutedWithRs" /\ IsScript(stmt'.query) => stmt'.query = stmt.query
    BY <2>1, <2>2, <1>a DEF TextInv, CursorOfText, ScriptsAlone, IsScript
  <2> QED BY <1>2, <2>1, <2>2, <2>3 DEF TopInv, CursorOnTop, Executes
<1>5. CASE ExecDirectPlan(a) \/ MoreResultsFails(a) \/ BodyReturns(a)
  <2>1. /\ stmt'.children = stmt.children /\ stmt'.state = stmt.state
        /\ stmt'.shown = stmt.shown /\ stmt'.query = stmt.query
        /\ Body.pc \notin {"rows", "begin"}
    BY <1>5, <1>a DEF ExecDirectPlan, MoreResultsFails, BodyReturns, At, Body, Stmt, TextInv,
       BodyText, Executes
  <2> QED BY <1>2, <2>1 DEF TopInv, CursorOnTop, IsScript
<1>6. CASE MarkPrepared(a) \/ ExecDirectBegin(a) \/ ExecuteFails(a) \/ DmlSucceeds(a)
           \/ MoreResultsBegin(a) \/ ScriptFailsLate(a)
  BY <1>3, <1>6, <1>a DEF MarkPrepared, ExecDirectBegin, ExecuteFails, DmlSucceeds, Succeeds,
     MoreResultsBegin, ScriptFailsLate, FailureState, Stmt
<1> QED BY <1>4, <1>5, <1>6

\* An execution begins; children that were left over are of a prepared text.
LEMMA TopExecuteBegin ==
  ASSUME IInv, TextInv, TopInv, ScriptsReadToTheEnd, ExecuteBegin(Caller)
  PROVE  TopInv'
<1>a. stmt \in Stmt /\ frame \in [Actor -> Frame] /\ Caller \in Actor
  BY TextTypes
<1>1. At(Caller, "exec") /\ Body'.pc = "run" /\ Body'.job = stmt.job
      /\ stmt'.children = stmt.children /\ stmt'.state = "StillExecuting"
  BY <1>a DEF ExecuteBegin, Body, Frame, Stmt
<1>2. stmt.job = NoQuery => stmt.children = <<>>
  BY <1>1, <1>a DEF ScriptsReadToTheEnd, At, Body
<1> QED BY <1>1, <1>2 DEF TopInv, ListedAfresh, CursorOnTop

\* The rows of a SELECT are of no child job, and the text is no script.
LEMMA TopSelect ==
  ASSUME IInv, TextInv, TopInv, SelectSucceeds(Caller)
  PROVE  TopInv'
<1>a. stmt \in Stmt /\ frame \in [Actor -> Frame] /\ Caller \in Actor
  BY TextTypes
<1>1. ~IsScript(stmt.query)
  <2>1. Executing(Caller) /\ Body.query # NoQuery /\ TypeOfRun(Caller) = "SELECT"
    BY DEF SelectSucceeds, Succeeds, Body
  <2> QED BY <2>1, RunOfText
<1>2. Body'.pc = "rows" /\ stmt'.query = stmt.query
  BY <1>a DEF SelectSucceeds, Goto, Succeeds, Body, Frame, Stmt
<1> QED BY <1>1, <1>2 DEF TopInv, ListedAfresh, CursorOnTop, IsScript

\* The child jobs of this execution are on top of those it found.
LEMMA TopScript ==
  ASSUME IInv, TextInv, TopInv, ScriptsHaveStatements, ScriptSucceeds(Caller)
  PROVE  TopInv'
<1>a. stmt \in Stmt /\ frame \in [Actor -> Frame] /\ Caller \in Actor
  BY TextTypes
<1>1. PICK children \in ListChildren(Caller) :
        /\ Succeeds(Caller, children, LastIsSelect(children))
        /\ IF LastIsSelect(children)
           THEN frame' = [frame EXCEPT ![Caller].pc = "rows",
                                       ![Caller].shown = ShownChild(Caller, children)]
           ELSE Finish(Caller, "ok")
  BY DEF ScriptSucceeds
<1>2. Executes /\ Body.pc = "run"
  BY <1>1 DEF Succeeds, Executing, At, Executes, Body
<1>3. ~SkipsListing(Caller)
  BY <1>2 DEF SkipsListing, TopInv, ListedAfresh, Body
<1>4. PICK types \in ScriptJobs :
        children = stmt.children \o
          [i \in DOMAIN types |-> [of |-> frame[Caller].query, type |-> types[i]]]
  BY <1>1, <1>3 DEF ListChildren
<1>5. Len(children) > Len(stmt.children)
  <2> DEFINE listed == [i \in DOMAIN types |-> [of |-> frame[Caller].query, type |-> types[i]]]
  <2>1. types \in Seq(JobType) /\ types # <<>> /\ Len(types) \in Nat
        /\ DOMAIN types = 1 .. Len(types)
    BY ConstantsAssumption DEF ScriptsHaveStatements
  <2>2. listed \in Seq([of : {frame[Caller].query}, type : JobType])
        /\ Len(listed) = Len(types) /\ Len(types) > 0
    BY <2>1
  <2>3. stmt.children \in Seq([of : Query, type : JobType])
    BY <1>a DEF Stmt
  <2> HIDE DEF listed
  <2>4. children = stmt.children \o listed
    BY <1>4 DEF listed
  <2> QED BY <2>2, <2>3, <2>4
<1>6. ShownChild(Caller, children) = Len(children)
  BY <1>5 DEF ShownChild
<1>7. stmt'.children = children
      /\ (stmt'.state = "ExecutedWithRs" => LastIsSelect(children))
  BY <1>1, <1>a DEF Succeeds, Stmt
<1>8. Body'.op = Body.op
      /\ (LastIsSelect(children) => Body'.pc = "rows" /\ Body'.shown = Len(children))
      /\ (~LastIsSelect(children) => Body'.pc = "return")
  BY <1>1, <1>6, <1>a DEF Finish, Body, Frame
<1> QED BY <1>2, <1>7, <1>8 DEF TopInv, ListedAfresh, CursorOnTop, Executes

\* The rows that are stored are those of the child on top.
LEMMA TopRows ==
  ASSUME IInv, TextInv, TopInv, NEW a \in Actor, a = Caller,
         StoreRows(a) \/ MoreResultsSucceeds(a)
  PROVE  TopInv'
<1>a. stmt \in Stmt /\ frame \in [Actor -> Frame] /\ Caller \in Actor
  BY TextTypes
<1>1. Body'.pc = "return"
  BY <1>a DEF StoreRows, MoreResultsSucceeds, Finish, Body, Frame
<1>2. stmt'.query = stmt.query /\ stmt'.children = stmt.children
  BY <1>a DEF StoreRows, MoreResultsSucceeds, Stmt
<1>3. CASE StoreRows(a)
  <2>1. Executes /\ Body.pc = "rows" /\ stmt'.shown = Body.shown
    BY <1>3, <1>a DEF StoreRows, At, Body, Stmt, TextInv, BodyText
  <2> QED BY <1>1, <1>2, <2>1 DEF TopInv, ListedAfresh, CursorOnTop, IsScript
<1>4. CASE MoreResultsSucceeds(a)
  <2>1. stmt'.state # "ExecutedWithRs" \/ stmt'.shown = Len(stmt.children)
    BY <1>4, <1>a DEF MoreResultsSucceeds, Stmt
  <2> QED BY <1>1, <1>2, <2>1 DEF TopInv, ListedAfresh, CursorOnTop, IsScript
<1> QED BY <1>3, <1>4

LEMMA TopStep ==
  ASSUME IInv, Synchronous, OnlySynchronous, ScriptsHaveStatements, TextInv, TopInv,
         [Next]_vars, [ScriptsAlone]_vars, [ScriptsReadToTheEnd]_vars
  PROVE  TopInv'
<1>1. CASE UNCHANGED vars
  BY <1>1 DEF vars, TopInv, ListedAfresh, CursorOnTop, Executes, Body, IsScript
<1> SUFFICES ASSUME ~(UNCHANGED vars) PROVE TopInv'
  BY <1>1
<1>2. CASE Request
  BY <1>2, TopRequest
<1>3. CASE CallStep
  BY <1>3, SynchronousCall, TopCall
<1>4. ASSUME NEW a \in Actor, BodyStep(a)
      PROVE  TopInv'
  <2>1. a = Caller
    BY <1>4, OnlyTheCaller
  <2> QED
    BY <1>4, <2>1, TopOtherSteps, TopExecuteBegin, TopSelect, TopScript, TopRows
       DEF BodyStep
<1> QED BY <1>2, <1>3, <1>4 DEF Next

LEMMA TopInit == Init => TopInv
BY TextTypes, InitInv
   DEF Init, NewStmt, IdleFrame, TopInv, ListedAfresh, CursorOnTop, Executes, Body

LEMMA TopAtRestIsProperty ==
  ASSUME IInv, TextInv, TopInv
  PROVE  OpenCursorIsTopChild
<1>1. call.pc = "idle" => Body.pc = "free"
  BY TextTypes
<1> QED
  BY <1>1 DEF TextInv, CursorOfText, TopInv, CursorOnTop, OpenCursorIsTopChild, OpenCursor,
     IsScript

\* Under the same conditions, when the application walks to the last result of
\* a script before it executes a text directly again, the open cursor of a
\* script shows the child job that the next SQLMoreResults discards.
THEOREM CursorOnTopChild ==
  ASSUME OnlySynchronous, ScriptsHaveStatements
  PROVE  Spec /\ [][ScriptsAlone]_vars /\ [][ScriptsReadToTheEnd]_vars
           => []OpenCursorIsTopChild
<1>1. Init => TopInv /\ Synchronous
  BY TopInit, SynchronousInit
<1>2. /\ IInv /\ TextInv /\ TopInv /\ Synchronous
      /\ [Next]_vars /\ [ScriptsAlone]_vars /\ [ScriptsReadToTheEnd]_vars
      => (TopInv /\ Synchronous)'
  BY TopStep, SynchronousStep
<1>3. IInv /\ TextInv /\ TopInv => OpenCursorIsTopChild
  BY TopAtRestIsProperty
<1> QED BY <1>1, <1>2, <1>3, TextInvariance, Invariance, PTL DEF Spec

-----------------------------------------------------------------------------
(* SQLExecDirect alone.                                                    *)

OnlyExecDirect == Api \cap Op \subseteq {"execDirect"}

\* The task of an earlier call is waited for before a body is started.
DirectShape ==
  /\ \A k \in Op \ {"execDirect"} : fut[k] = NoTask
  /\ call.pc \in {"idle", "store", "mark", "wait", "body", "destroy", "freed"}
  /\ call.op \in Op => call.op = "execDirect"
  /\ call.pc \in {"store", "body"} => fut["execDirect"] \notin Task

\* A function that the driver manager lets be called again has a future.
DirectPending ==
  /\ obs.pending \in {"none", "execDirect"}
  /\ obs.pending = "execDirect" =>
       call.pc = "wait" \/ (call.pc = "idle" /\ fut["execDirect"] \in Task)
  /\ call.pc = "mark" => fut["execDirect"] \in Task

LEMMA ExecDirectDirect ==
  ASSUME IInv, DirectShape, OnlyExecDirect, NEW q \in Query, SQLExecDirect(q)
  PROVE  DirectShape'
<1>1. call.pc = "idle" /\ fut \in [Op -> Task \cup {NoTask, Moved}] /\ Moved \notin Task
  BY ConstantsAssumption DEF SQLExecDirect, Enter, IInv, TypeOK
<1>2. CASE UNCHANGED fut /\ call' = IdleCall
  BY <1>2 DEF DirectShape, IdleCall, Op
<1>3. CASE /\ fut' = [fut EXCEPT !["execDirect"] = Moved]
           /\ Suspend("execDirect", q, "wait", fut["execDirect"], "none")
  BY <1>1, <1>3 DEF DirectShape, Suspend, Op
<1>4. CASE fut["execDirect"] \notin Task /\ LaunchOrRun("execDirect", q) /\ UNCHANGED fut
  BY <1>4 DEF DirectShape, LaunchOrRun, Launch, RunInline, Suspend, Op
<1> QED BY <1>2, <1>3, <1>4 DEF SQLExecDirect, ReplyNow, Reply

LEMMA DirectShapeStep ==
  ASSUME IInv, DirectShape, OnlyExecDirect, [Next]_vars
  PROVE  DirectShape'
<1>0. \A op \in Op : Enter(op) => op = "execDirect"
  BY DEF OnlyExecDirect, Enter
<1>1. ASSUME Request
      PROVE  DirectShape'
  <2>1. ASSUME NEW q \in Query, SQLPrepare(q) PROVE DirectShape'
    BY <1>0, <2>1 DEF SQLPrepare, Op
  <2>2. ASSUME SQLExecute PROVE DirectShape'
    BY <1>0, <2>2 DEF SQLExecute, Op
  <2>3. ASSUME SQLMoreResults PROVE DirectShape'
    BY <1>0, <2>3 DEF SQLMoreResults, Op
  <2>4. ASSUME NEW q \in Query, SQLExecDirect(q) PROVE DirectShape'
    BY <2>4, ExecDirectDirect
  <2>5. ASSUME SQLCancel \/ SQLCloseCursor \/ SQLFreeStmtClose
               \/ \E b \in AsyncModes : SQLSetAsyncEnable(b)
        PROVE  DirectShape'
    <3>1. UNCHANGED <<fut, call>>
      BY <2>5 DEF SQLCancel, SQLCloseCursor, SQLFreeStmtClose, SQLSetAsyncEnable
    <3> QED BY <3>1 DEF DirectShape
  <2>6. ASSUME SQLFreeHandle PROVE DirectShape'
    BY <2>6 DEF SQLFreeHandle, Suspend, DirectShape, Op
  <2>7. ASSUME SQLAllocHandle PROVE DirectShape'
    BY <2>7 DEF SQLAllocHandle, IdleCall, DirectShape, Op
  <2> QED BY <1>1, <2>1, <2>2, <2>3, <2>4, <2>5, <2>6, <2>7 DEF Request
<1>2. ASSUME CallStep
      PROVE  DirectShape'
  <2>0. call.pc \notin {"pollPrepare", "pollExecute", "proceed", "join"}
    BY DEF DirectShape
  <2>1. ASSUME SQLExecDirectResume PROVE DirectShape'
    BY <2>1 DEF SQLExecDirectResume, Reply, IdleCall, DirectShape, Op, IInv, TypeOK
  <2>2. ASSUME StoreFuture PROVE DirectShape'
    <3>1. call.op = "execDirect"
      BY <2>2 DEF StoreFuture, DirectShape, IInv, CallShape, OpPc
    <3> QED BY <2>2, <3>1 DEF StoreFuture, DirectShape, Op, IInv, TypeOK, Call
  <2>3. ASSUME MarkStillExecuting \/ BodyReturn PROVE DirectShape'
    BY <2>3 DEF MarkStillExecuting, BodyReturn, Reply, IdleCall, DirectShape, Op
  <2>4. ASSUME DestroyFutures PROVE DirectShape'
    BY <2>4 DEF DestroyFutures, IdleCall, DirectShape, Op
  <2> QED
    BY <1>2, <2>0, <2>1, <2>2, <2>3, <2>4
       DEF CallStep, HandleAsyncPrepare, HandleAsyncExecute, SQLExecuteProceed, Join
<1>3. ASSUME NEW a \in Actor, BodyStep(a)
      PROVE  DirectShape'
  BY <1>3, BodyStepLeaves DEF DirectShape
<1>4. ASSUME UNCHANGED vars
      PROVE  DirectShape'
  BY <1>4 DEF vars, DirectShape
<1> QED BY <1>1, <1>2, <1>3, <1>4 DEF Next

LEMMA DirectPendingStep ==
  ASSUME IInv, DirectShape, DirectPending, PollNeverRestarts, OnlyExecDirect, DriverManager,
         [Next]_vars
  PROVE  DirectPending' /\ PollNeverRestarts'
<1> USE DEF DirectPending, PollNeverRestarts
<1>0. \A op \in Op : Enter(op) => op = "execDirect"
  BY DEF OnlyExecDirect, Enter
<1>a. Moved \notin Task /\ NoTask \notin Task
      /\ fut \in [Op -> Task \cup {NoTask, Moved}] /\ "execDirect" \in Op
  BY ConstantsAssumption DEF IInv, TypeOK, Op
<1>1. ASSUME Request
      PROVE  DirectPending' /\ PollNeverRestarts'
  <2>1. ASSUME NEW q \in Query, SQLPrepare(q) PROVE FALSE
    BY <1>0, <2>1 DEF SQLPrepare, Op
  <2>2. ASSUME SQLExecute PROVE FALSE
    BY <1>0, <2>2 DEF SQLExecute, Op
  <2>3. ASSUME SQLMoreResults PROVE FALSE
    BY <1>0, <2>3 DEF SQLMoreResults, Op
  <2>4. ASSUME NEW q \in Query, SQLExecDirect(q)
        PROVE  DirectPending' /\ PollNeverRestarts'
    <3>1. call.pc = "idle"
      BY <2>4 DEF SQLExecDirect, Enter
    <3>2. CASE \/ ReplyNow("execDirect", q, "24000", "none", FALSE)
               \/ ReplyNow("execDirect", q, "SUCCESS", "none", TRUE)
      BY <3>2 DEF ReplyNow, Reply, IdleCall
    <3>3. CASE /\ fut["execDirect"] \in Task
               /\ Suspend("execDirect", q, "wait", fut["execDirect"], "none")
      BY <3>3 DEF Suspend
    <3>4. CASE fut["execDirect"] \notin Task /\ LaunchOrRun("execDirect", q)
      <4>1. obs.pending = "none"
        BY <3>1, <3>4
      <4>2. /\ call'.pc \in {"store", "body"} /\ obs' = obs
            /\ call'.poll = Polling("execDirect")
        BY <3>4 DEF LaunchOrRun, Launch, RunInline, Suspend
      <4>3. ~Polling("execDirect")
        BY <4>1 DEF Polling
      <4>4. ~call'.poll
        BY <4>2, <4>3, Zenon
      <4> QED BY <4>1, <4>2, <4>4
    <3> QED BY <2>4, <3>2, <3>3, <3>4 DEF SQLExecDirect
  <2>5. ASSUME SQLCancel \/ SQLCloseCursor \/ SQLFreeStmtClose
               \/ \E b \in AsyncModes : SQLSetAsyncEnable(b)
        PROVE  DirectPending' /\ PollNeverRestarts'
    <3>1. UNCHANGED <<fut, call, obs>>
      BY <2>5 DEF SQLCancel, SQLCloseCursor, SQLFreeStmtClose, SQLSetAsyncEnable
    <3> QED BY <3>1
  <2>6. ASSUME SQLFreeHandle PROVE DirectPending' /\ PollNeverRestarts'
    <3>1. obs.pending = "none"
      BY <2>6 DEF SQLFreeHandle, Enter
    <3> QED BY <2>6, <3>1 DEF SQLFreeHandle, Suspend
  <2>7. ASSUME SQLAllocHandle PROVE DirectPending' /\ PollNeverRestarts'
    <3>1. obs.pending = "none"
      BY <2>7 DEF SQLAllocHandle
    <3> QED BY <2>7, <3>1 DEF SQLAllocHandle, IdleCall, IInv, TypeOK, Obs
  <2> QED BY <1>1, <2>1, <2>2, <2>3, <2>4, <2>5, <2>6, <2>7 DEF Request
<1>2. ASSUME CallStep
      PROVE  DirectPending' /\ PollNeverRestarts'
  <2>0. call.pc \notin {"pollPrepare", "pollExecute", "proceed", "join"}
    BY DEF DirectShape
  <2>1. ASSUME SQLExecDirectResume PROVE DirectPending' /\ PollNeverRestarts'
    BY <2>1 DEF SQLExecDirectResume, Reply, IdleCall
  <2>2. ASSUME StoreFuture PROVE DirectPending' /\ PollNeverRestarts'
    <3>1. call.op = "execDirect" /\ call.held \in Task
      BY <2>2 DEF StoreFuture, DirectShape, IInv, CallShape, OpPc
    <3>2. call'.pc = "mark" /\ obs' = obs /\ fut'["execDirect"] = call.held
      BY <1>a, <2>2, <3>1 DEF StoreFuture, IInv, TypeOK, Call
    <3>3. obs.pending # "execDirect"
      BY <2>2 DEF StoreFuture
    <3> QED BY <3>1, <3>2, <3>3
  <2>3. ASSUME MarkStillExecuting PROVE DirectPending' /\ PollNeverRestarts'
    <3>1. call.op = "execDirect"
      BY <2>3 DEF MarkStillExecuting, DirectShape, IInv, CallShape, OpPc
    <3> QED BY <2>3, <3>1 DEF MarkStillExecuting, Reply, IdleCall
  <2>4. ASSUME BodyReturn PROVE DirectPending' /\ PollNeverRestarts'
    <3>1. \A status : CodeOf(status) # "STILL_EXECUTING"
      BY DEF CodeOf
    <3> QED BY <2>4, <3>1 DEF BodyReturn, Reply, IdleCall
  <2>5. ASSUME DestroyFutures PROVE DirectPending' /\ PollNeverRestarts'
    BY <2>5 DEF DestroyFutures, IdleCall, IInv, TypeOK
  <2> QED
    BY <1>2, <2>0, <2>1, <2>2, <2>3, <2>4, <2>5
       DEF CallStep, HandleAsyncPrepare, HandleAsyncExecute, SQLExecuteProceed, Join
<1>3. ASSUME NEW a \in Actor, BodyStep(a)
      PROVE  DirectPending' /\ PollNeverRestarts'
  BY <1>3, BodyStepLeaves
<1>4. ASSUME UNCHANGED vars
      PROVE  DirectPending' /\ PollNeverRestarts'
  BY <1>4 DEF vars
<1> QED BY <1>1, <1>2, <1>3, <1>4 DEF Next

LEMMA DirectInit == Init => DirectShape /\ DirectPending /\ PollNeverRestarts
BY ConstantsAssumption
   DEF Init, DirectShape, DirectPending, PollNeverRestarts, IdleCall, Op

\* Every task belongs to the future of SQLExecDirect or to the call, and never
\* one to each; and the call runs a body itself only when there is none.
LEMMA OneWorkerHolds ==
  ASSUME IInv, DirectShape
  PROVE  OneWorker
<1>1. SUFFICES ASSUME NEW a \in Actor, NEW b \in Actor, Running(a), Running(b), a # b
               PROVE  FALSE
  BY DEF OneWorker
<1>2. \A t \in Task : Running(t) => call.held = t \/ fut["execDirect"] = t
  <2>1. TAKE t \in Task
  <2>2. Running(t) => Owned(t)
    BY DEF Running, IInv, NoOrphanWorker
  <2>3. \A k \in Op : fut[k] = t => k = "execDirect"
    BY ConstantsAssumption DEF DirectShape
  <2> QED BY <2>2, <2>3 DEF Owned
<1>3. Moved \notin Task
  BY ConstantsAssumption
<1>4. call.held \in Task => fut["execDirect"] \notin Task
  BY <1>3 DEF IInv, CallShape, DirectShape
<1>5. Running(Caller) => call.held \notin Task /\ fut["execDirect"] \notin Task
  BY DEF Running, IInv, CallShape, DirectShape
<1> QED BY <1>1, <1>2, <1>4, <1>5 DEF Actor

\* With SQLExecDirect alone at most one body works on the statement at a time,
\* whatever is polled, canceled, closed or freed, in both modes.
THEOREM OneBody ==
  ASSUME OnlyExecDirect
  PROVE  Spec => []OneWorker
<1>1. Init => DirectShape
  BY DirectInit
<1>2. IInv /\ DirectShape /\ [Next]_vars => DirectShape'
  BY DirectShapeStep
<1>3. IInv /\ DirectShape => OneWorker
  BY OneWorkerHolds
<1> QED BY <1>1, <1>2, <1>3, Invariance, PTL DEF Spec

\* Under a driver manager a SQLExecDirect that is called again after
\* SQL_STILL_EXECUTING never starts the query a second time.
THEOREM PollsOnly ==
  ASSUME OnlyExecDirect, DriverManager
  PROVE  Spec => []PollNeverRestarts
<1>1. Init => DirectShape /\ DirectPending /\ PollNeverRestarts
  BY DirectInit
<1>2. IInv /\ DirectShape /\ DirectPending /\ PollNeverRestarts /\ [Next]_vars
      => (DirectShape /\ DirectPending /\ PollNeverRestarts)'
  BY DirectShapeStep, DirectPendingStep
<1> QED BY <1>1, <1>2, Invariance, PTL DEF Spec
=============================================================================
