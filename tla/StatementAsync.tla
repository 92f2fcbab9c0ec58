--------------------------- MODULE StatementAsync ---------------------------
(***************************************************************************)
(* One statement handle of the driver: the state kept in StatementHandle   *)
(* (odbc_stmt_handle.h), the API functions that drive it                   *)
(* (odbc_sql_requests.cc, odbc_statement.cc, odbc_sql_results.cc) and the  *)
(* std::async tasks they start when SQL_ATTR_ASYNC_ENABLE is on.           *)
(*                                                                         *)
(* Every API function runs under the statement's mutex, so at any time at  *)
(* most one call is in progress (variable call).  A task holds no mutex:   *)
(* its steps interleave with the steps of the calls.  Both run the same    *)
(* bodies (PrepareQuery, ActuallyProcessExecute, ...), hence the actors.   *)
(*                                                                         *)
(* The getters of the futures return std::move(member): they leave an      *)
(* engaged optional that holds an invalid future (Moved) and hand the      *)
(* shared state to a local, whose destructor blocks until the task ends.   *)
(***************************************************************************)
EXTENDS Naturals, Sequences, FiniteSets

CONSTANTS
  Query,           \* query texts the application uses
  StatementType,   \* [Query -> {"SELECT", "DML", "SCRIPT"}], told by the server
  ScriptJobs,      \* child job types the server may list for a script
  MaxChildren,     \* bound on the child jobs a statement holds
  Task,            \* std::async tasks (a bound on those alive at once)
  Caller,          \* the application's thread, inside an API function
  NoQuery, NoTask, \* absent values
  Moved,           \* an engaged optional whose future was moved from
  Api,             \* the API functions the application calls
  AsyncModes,      \* values SQL_ATTR_ASYNC_ENABLE may take
  DriverManager    \* TRUE: a driver manager refuses other calls while one
                   \* has returned SQL_STILL_EXECUTING

Op == {"prepare", "execute", "execDirect", "moreResults"}

StmtStates ==
  {"NotPrepared", "Prepared", "AsyncPrepare", "AsyncExecute", "StillExecuting",
   "ExecutedWithoutRs", "ExecutedWithRs", "NeedsParams"}

JobType == {"SELECT", "DML"}

ASSUME ConstantsAssumption ==
  /\ NoQuery \notin Query
  /\ StatementType \in [Query -> JobType \cup {"SCRIPT"}]
  /\ ScriptJobs \subseteq Seq(JobType)
  /\ MaxChildren \in Nat
  /\ Caller \notin Task
  /\ NoTask \notin Task
  /\ Moved \notin Task
  /\ NoTask # Moved
  /\ AsyncModes \subseteq BOOLEAN
  /\ AsyncModes # {}
  /\ DriverManager \in BOOLEAN

VARIABLES
  stmt,    \* the fields of StatementHandle that control its behaviour
  fut,     \* [Op -> the optional<future> member of that operation]
  frame,   \* [Actor -> the body the actor is running]
  call,    \* the API call in progress
  obs      \* what the application and the driver manager have seen

vars == <<stmt, fut, frame, call, obs>>

Actor == Task \cup {Caller}

Status == {"none", "ok", "error", "noData", "needData"}

IdleFrame == [op |-> "none", pc |-> "free", query |-> NoQuery, job |-> NoQuery,
              shown |-> 0, status |-> "none"]

IdleCall == [op |-> "none", pc |-> "idle", query |-> NoQuery, held |-> NoTask,
             code |-> "none", started |-> FALSE, poll |-> FALSE]

\* shown is the place among the children of the child job whose output the
\* result set holds; 0 when it holds the output of the whole text.
NewStmt(async) ==
  [state |-> "NotPrepared", prepared |-> FALSE, canceled |-> FALSE,
   query |-> NoQuery, job |-> NoQuery, rows |-> NoQuery, shown |-> 0,
   children |-> <<>>, async |-> async]

Init ==
  /\ stmt \in {NewStmt(b) : b \in AsyncModes}
  /\ fut = [k \in Op |-> NoTask]
  /\ frame = [a \in Actor |-> IdleFrame]
  /\ call = IdleCall
  /\ obs = [pending |-> "none", query |-> NoQuery, started |-> FALSE,
            op |-> "none", code |-> "none", harvest |-> "none",
            consumed |-> FALSE]

-----------------------------------------------------------------------------
(* Entering and leaving a call.                                            *)

\* The driver manager lets a pending function be called again, with the same
\* text, and SQLCancel; without one every call reaches the driver.
Enter(op) ==
  /\ op \in Api
  /\ call.pc = "idle"
  /\ DriverManager => obs.pending \in {"none", op} \/ op = "cancel"

SameText(op, q) == (DriverManager /\ obs.pending = op) => q = obs.query

Polling(op) == obs.pending = op

Started(op) == Polling(op) /\ obs.started

\* The call returns: code is the SQLRETURN (or SQLSTATE), harvest the status
\* of the body it ran, waited for or answers for, consumed whether it used up
\* a cancel.
Reply(op, q, started, code, harvest, consumed) ==
  /\ call' = IdleCall
  /\ obs' = [pending |-> IF code = "STILL_EXECUTING" THEN op ELSE "none",
             query |-> IF code = "STILL_EXECUTING" THEN q ELSE NoQuery,
             started |-> started, op |-> op, code |-> code,
             harvest |-> harvest, consumed |-> consumed]

ReplyNow(op, q, code, harvest, consumed) ==
  Reply(op, q, Started(op), code, harvest, consumed)

\* Faulty variant: the body's status itself is returned.
CodeOfUnmapped(status) == status

CodeOf(status) ==
  CASE status = "ok"       -> "SUCCESS"
    [] status = "noData"   -> "NO_DATA"
    [] status = "needData" -> "NEED_DATA"
    [] OTHER               -> "ERROR"

FirstPc(op) == IF op = "execute" THEN "exec" ELSE "begin"

NewFrame(op, q) == [IdleFrame EXCEPT !.op = op, !.pc = FirstPc(op), !.query = q]

Suspend(op, q, pc, held, code) ==
  /\ call' = [op |-> op, pc |-> pc, query |-> q, held |-> held, code |-> code,
              started |-> Started(op) \/ pc \in {"store", "body"},
              poll |-> Polling(op)]
  /\ UNCHANGED obs

\* std::async: the task exists from here on, its future is still a local.
Launch(op, q) ==
  \E t \in Task :
    /\ frame[t].pc = "free"
    /\ frame' = [frame EXCEPT ![t] = NewFrame(op, q)]
    /\ Suspend(op, q, "store", t, "STILL_EXECUTING")

RunInline(op, q) ==
  /\ frame' = [frame EXCEPT ![Caller] = NewFrame(op, q)]
  /\ Suspend(op, q, "body", NoTask, "none")

LaunchOrRun(op, q) ==
  IF stmt.async THEN Launch(op, q) ELSE RunInline(op, q)

-----------------------------------------------------------------------------
(* Polling a future.                                                       *)

\* HandleAsyncPrepare / HandleAsyncExecute: op is the function called, slot
\* the future it looks at, failed the state an unfinished operation falls to.
\* A future that is not ready is destroyed at the return, so the call blocks
\* ("join") although its answer is already SQL_STILL_EXECUTING.
PollCanceled(op, q, failed) ==
  /\ stmt.canceled
  /\ stmt' = [stmt EXCEPT !.canceled = FALSE, !.state = failed]
  /\ ReplyNow(op, q, "HY008", "none", TRUE)
  /\ UNCHANGED <<fut, frame>>

PollNoFuture(op, q, slot, failed) ==
  /\ ~stmt.canceled
  /\ fut[slot] = NoTask
  /\ stmt' = [stmt EXCEPT !.state = failed]
  /\ ReplyNow(op, q, "ERROR", "none", FALSE)
  /\ UNCHANGED <<fut, frame>>

\* wait_for on a future without shared state: std::future_error.
PollInvalidFuture(op, q, slot) ==
  /\ ~stmt.canceled
  /\ fut[slot] = Moved
  /\ ReplyNow(op, q, "FUTURE_ERROR", "none", FALSE)
  /\ UNCHANGED <<stmt, fut, frame>>

PollNotReady(op, q, slot) ==
  /\ ~stmt.canceled
  /\ fut[slot] \in Task
  /\ frame[fut[slot]].pc # "done"
  /\ fut' = [fut EXCEPT ![slot] = Moved]
  /\ Suspend(op, q, "join", fut[slot], "STILL_EXECUTING")
  /\ UNCHANGED <<stmt, frame>>

\* The future is ready: get() takes the status and the member is reset.
PollReady(op, q, slot, failed) ==
  /\ ~stmt.canceled
  /\ fut[slot] \in Task
  /\ frame[fut[slot]].pc = "done"
  /\ LET status == frame[fut[slot]].status
     IN /\ stmt' = [stmt EXCEPT !.state = IF status = "ok" THEN @ ELSE failed]
        /\ IF op = "execute" /\ slot = "prepare" /\ status = "ok"
           THEN Suspend(op, q, "proceed", NoTask, "none")
           ELSE ReplyNow(op, q, CodeOf(status), status, FALSE)
  /\ frame' = [frame EXCEPT ![fut[slot]] = IdleFrame]
  /\ fut' = [fut EXCEPT ![slot] = NoTask]

PollFuture(op, q, slot, failed) ==
  \/ PollCanceled(op, q, failed)
  \/ PollNoFuture(op, q, slot, failed)
  \/ PollInvalidFuture(op, q, slot)
  \/ PollNotReady(op, q, slot)
  \/ PollReady(op, q, slot, failed)

-----------------------------------------------------------------------------
(* SQLPrepare.                                                             *)

SQLPrepare(q) ==
  /\ Enter("prepare")
  /\ SameText("prepare", q)
  /\ \/ /\ stmt.state = "AsyncPrepare"
        /\ Suspend("prepare", q, "pollPrepare", NoTask, "none")
        /\ UNCHANGED <<stmt, fut, frame>>
     \/ /\ stmt.state = "Prepared"
        /\ stmt.canceled
        /\ stmt' = [stmt EXCEPT !.canceled = FALSE, !.state = "NotPrepared"]
        /\ ReplyNow("prepare", q, "SUCCESS", "none", TRUE)
        /\ UNCHANGED <<fut, frame>>
     \/ /\ stmt.state # "AsyncPrepare"
        /\ ~(stmt.state = "Prepared" /\ stmt.canceled)
        /\ LaunchOrRun("prepare", q)
        /\ UNCHANGED <<stmt, fut>>

\* What the body a future belongs to has come to so far.
Outcome(slot) ==
  IF fut[slot] \in Task THEN frame[fut[slot]].status ELSE "none"

\* The handler reads the state again: if the task has overwritten it since the
\* caller's own test, there is "nothing to do" and the answer is SQL_SUCCESS.
HandleAsyncPrepare ==
  /\ call.pc = "pollPrepare"
  /\ \/ /\ stmt.state = "AsyncPrepare"
        /\ PollFuture(call.op, call.query, "prepare", "NotPrepared")
     \/ /\ stmt.state # "AsyncPrepare"
        /\ IF call.op = "execute"
           THEN Suspend("execute", NoQuery, "proceed", NoTask, "none")
           ELSE ReplyNow("prepare", call.query, "SUCCESS", Outcome("prepare"),
                         FALSE)
        /\ UNCHANGED <<stmt, fut, frame>>

-----------------------------------------------------------------------------
(* SQLExecute.                                                             *)

ExecuteRefused ==
  /\ \/ stmt.state \in {"NotPrepared", "ExecutedWithRs"}
     \/ stmt.state = "StillExecuting" /\ ~stmt.canceled
  /\ ReplyNow("execute", NoQuery, "HY010", "none", FALSE)
  /\ UNCHANGED <<stmt, fut, frame>>

\* A canceled execution that is still marked as running: the server job is
\* canceled (which may fail) and forgotten.
ExecuteCanceled ==
  /\ stmt.state = "StillExecuting"
  /\ stmt.canceled
  /\ stmt' = [stmt EXCEPT !.canceled = FALSE, !.state = "Prepared",
                          !.job = NoQuery]
  /\ \E code \in {"SUCCESS", "ERROR"} :
       /\ stmt.job = NoQuery => code = "SUCCESS"
       /\ ReplyNow("execute", NoQuery, code, "none", TRUE)
  /\ UNCHANGED <<fut, frame>>

ExecutePrepared ==
  /\ stmt.state \in
       {"Prepared", "AsyncPrepare", "ExecutedWithoutRs", "NeedsParams"}
  /\ LaunchOrRun("execute", NoQuery)
  /\ UNCHANGED <<stmt, fut>>

\* What SQLExecute does once no prepare is outstanding.
ExecuteProper ==
  \/ ExecuteRefused
  \/ ExecuteCanceled
  \/ ExecutePrepared
  \/ /\ stmt.state = "AsyncExecute"
     /\ Suspend("execute", NoQuery, "pollExecute", NoTask, "none")
     /\ UNCHANGED <<stmt, fut, frame>>

\* Task bounds the tasks alive: a call that may go on to launch one needs room.
RoomToLaunch == \E t \in Task : frame[t].pc = "free"

SQLExecute ==
  /\ Enter("execute")
  /\ IF stmt.state = "AsyncPrepare"
     THEN /\ RoomToLaunch
          /\ Suspend("execute", NoQuery, "pollPrepare", NoTask, "none")
          /\ UNCHANGED <<stmt, fut, frame>>
     ELSE ExecuteProper

HandleAsyncExecute ==
  /\ call.pc = "pollExecute"
  /\ \/ /\ stmt.state = "AsyncExecute"
        /\ PollFuture("execute", NoQuery, "execute", "Prepared")
     \/ /\ stmt.state # "AsyncExecute"
        /\ ReplyNow("execute", NoQuery, "SUCCESS", Outcome("execute"), FALSE)
        /\ UNCHANGED <<stmt, fut, frame>>

\* The outstanding prepare succeeded: the same call goes on.
SQLExecuteProceed ==
  /\ call.pc = "proceed"
  /\ ExecuteProper

-----------------------------------------------------------------------------
(* SQLExecDirect.                                                          *)

\* Faulty variants: a canceled call drops the future without waiting for its
\* task; a call does not look for the future of an earlier one.
SQLExecDirectDetaching(q) ==
  /\ Enter("execDirect")
  /\ SameText("execDirect", q)
  /\ stmt.state # "ExecutedWithRs"
  /\ IF stmt.canceled
     THEN /\ stmt' = [stmt EXCEPT !.query = q, !.canceled = FALSE,
                                  !.state = "NotPrepared"]
          /\ fut' = [fut EXCEPT !["execDirect"] = NoTask]
          /\ ReplyNow("execDirect", q, "HY008", "none", TRUE)
          /\ UNCHANGED frame
     ELSE /\ fut["execDirect"] \notin Task
          /\ stmt' = [stmt EXCEPT !.query = q]
          /\ LaunchOrRun("execDirect", q)
          /\ UNCHANGED fut

SQLExecDirectForgetful(q) ==
  /\ Enter("execDirect")
  /\ SameText("execDirect", q)
  /\ stmt.state # "ExecutedWithRs"
  /\ stmt' = [stmt EXCEPT !.query = q]
  /\ LaunchOrRun("execDirect", q)
  /\ UNCHANGED fut

SQLExecDirect(q) ==
  /\ Enter("execDirect")
  /\ SameText("execDirect", q)
  /\ \/ /\ stmt.state = "ExecutedWithRs"
        /\ ReplyNow("execDirect", q, "24000", "none", FALSE)
        /\ UNCHANGED <<stmt, fut, frame>>
     \/ /\ stmt.state # "ExecutedWithRs"
        /\ fut["execDirect"] \in Task
        /\ stmt' = [stmt EXCEPT !.query = q]
        /\ fut' = [fut EXCEPT !["execDirect"] = Moved]
        /\ Suspend("execDirect", q, "wait", fut["execDirect"], "none")
        /\ UNCHANGED frame
     \/ /\ stmt.state # "ExecutedWithRs"
        /\ fut["execDirect"] \notin Task
        /\ stmt.canceled
        /\ stmt' = [stmt EXCEPT !.query = q, !.canceled = FALSE,
                                !.state = "NotPrepared"]
        /\ ReplyNow("execDirect", q, "SUCCESS", "none", TRUE)
        /\ UNCHANGED <<fut, frame>>
     \/ /\ stmt.state # "ExecutedWithRs"
        /\ fut["execDirect"] \notin Task
        /\ ~stmt.canceled
        /\ stmt' = [stmt EXCEPT !.query = q]
        /\ LaunchOrRun("execDirect", q)
        /\ UNCHANGED fut

\* The temporary that has_value() was asked of is destroyed: the call waits
\* for the task and drops its status.  From here on valid() is false, so the
\* call, unless it was canceled, answers SQL_SUCCESS (HandleAsyncExecDirect).
SQLExecDirectResume ==
  /\ call.pc = "wait"
  /\ frame[call.held].pc = "done"
  /\ \/ /\ stmt.canceled
        /\ stmt' = [stmt EXCEPT !.canceled = FALSE, !.state = "NotPrepared"]
        /\ Reply("execDirect", call.query, call.started, "HY008",
                 frame[call.held].status, TRUE)
     \/ /\ ~stmt.canceled
        /\ Reply("execDirect", call.query, call.started, "SUCCESS",
                 frame[call.held].status, FALSE)
        /\ UNCHANGED stmt
  /\ fut' = [fut EXCEPT !["execDirect"] = NoTask]
  /\ frame' = [frame EXCEPT ![call.held] = IdleFrame]

-----------------------------------------------------------------------------
(* SQLMoreResults.                                                         *)

\* A pending future is moved into a local first, so HandleAsyncGetResults
\* finds an engaged but invalid member and answers SQL_SUCCESS at once; the
\* local is destroyed at the return, which waits for the task.
SQLMoreResults ==
  /\ Enter("moreResults")
  /\ \/ /\ stmt.canceled
        /\ stmt' = [stmt EXCEPT !.canceled = FALSE, !.state = "NotPrepared"]
        /\ fut' = [fut EXCEPT !["moreResults"] = NoTask]
        /\ IF fut["moreResults"] \in Task
           THEN Suspend("moreResults", NoQuery, "join", fut["moreResults"],
                        "HY008")
           ELSE ReplyNow("moreResults", NoQuery, "HY008", "none", TRUE)
        /\ UNCHANGED frame
     \/ /\ ~stmt.canceled
        /\ fut["moreResults"] \in Task
        /\ fut' = [fut EXCEPT !["moreResults"] = Moved]
        /\ Suspend("moreResults", NoQuery, "join", fut["moreResults"], "SUCCESS")
        /\ UNCHANGED <<stmt, frame>>
     \/ /\ ~stmt.canceled
        /\ fut["moreResults"] = Moved
        /\ ReplyNow("moreResults", NoQuery, "SUCCESS", "none", FALSE)
        /\ UNCHANGED <<stmt, fut, frame>>
     \/ /\ ~stmt.canceled
        /\ fut["moreResults"] = NoTask
        /\ Len(stmt.children) <= 1
        /\ stmt' = [stmt EXCEPT !.children = <<>>, !.state = "ExecutedWithoutRs"]
        /\ ReplyNow("moreResults", NoQuery, "NO_DATA", "none", FALSE)
        /\ UNCHANGED <<fut, frame>>
     \/ /\ ~stmt.canceled
        /\ fut["moreResults"] = NoTask
        /\ Len(stmt.children) > 1
        /\ stmt' = [stmt EXCEPT !.children = SubSeq(@, 1, Len(@) - 1)]
        /\ LaunchOrRun("moreResults", NoQuery)
        /\ UNCHANGED fut

-----------------------------------------------------------------------------
(* The end of a call that launched, waited or ran a body itself.           *)

MarkedState(op) ==
  CASE op = "prepare" -> "AsyncPrepare"
    [] op = "execute" -> "AsyncExecute"
    [] OTHER          -> "StillExecuting"

\* Faulty variant: the earlier future is dropped without waiting for its task.
StoreFutureDetaching ==
  /\ call.pc = "store"
  /\ fut' = [fut EXCEPT ![call.op] = call.held]
  /\ call' = [call EXCEPT !.pc = "mark", !.held = NoTask]
  /\ UNCHANGED <<stmt, frame, obs>>

\* SetFuture...: assigning over an earlier future waits for its task.
StoreFuture ==
  /\ call.pc = "store"
  /\ LET old == fut[call.op]
     IN /\ old \in Task => frame[old].pc = "done"
        /\ frame' = IF old \in Task THEN [frame EXCEPT ![old] = IdleFrame]
                    ELSE frame
  /\ fut' = [fut EXCEPT ![call.op] = call.held]
  /\ call' = [call EXCEPT !.pc = "mark", !.held = NoTask]
  /\ UNCHANGED <<stmt, obs>>

\* The state is written only now; the task has been running meanwhile.
MarkStillExecuting ==
  /\ call.pc = "mark"
  /\ stmt' = [stmt EXCEPT !.state = MarkedState(call.op)]
  /\ Reply(call.op, call.query, call.started, call.code, "none", FALSE)
  /\ UNCHANGED <<fut, frame>>

\* The destructor of a future held by the call.
Join ==
  /\ call.pc = "join"
  /\ frame[call.held].pc = "done"
  /\ frame' = [frame EXCEPT ![call.held] = IdleFrame]
  /\ Reply(call.op, call.query, call.started, call.code,
           frame[call.held].status, call.code = "HY008")
  /\ UNCHANGED <<stmt, fut>>

\* A synchronous call returns what its body returned.
BodyReturn ==
  /\ call.pc = "body"
  /\ frame[Caller].pc = "done"
  /\ LET status == frame[Caller].status
     IN /\ stmt' = [stmt EXCEPT !.state =
                      IF status = "needData" THEN "NeedsParams" ELSE @]
        /\ Reply(call.op, call.query, call.started, CodeOf(status), status,
                 FALSE)
  /\ frame' = [frame EXCEPT ![Caller] = IdleFrame]
  /\ UNCHANGED fut

-----------------------------------------------------------------------------
(* The other functions that change the statement.                          *)

SQLCancel ==
  /\ Enter("cancel")
  /\ stmt.state \in {"Prepared", "AsyncPrepare", "AsyncExecute",
                     "StillExecuting", "NeedsParams"}
  /\ ~stmt.canceled
  /\ stmt' = [stmt EXCEPT !.canceled = TRUE]
  /\ UNCHANGED <<fut, frame, call, obs>>

CloseCursor ==
  stmt' = [stmt EXCEPT !.rows = NoQuery, !.shown = 0,
             !.state = IF stmt.prepared THEN "Prepared" ELSE "NotPrepared"]

SQLCloseCursor ==
  /\ Enter("closeCursor")
  /\ stmt.state = "ExecutedWithRs"
  /\ CloseCursor
  /\ UNCHANGED <<fut, frame, call, obs>>

\* SQLFreeStmt(SQL_CLOSE) closes whatever the state.
SQLFreeStmtClose ==
  /\ Enter("freeStmtClose")
  /\ CloseCursor
  /\ UNCHANGED <<fut, frame, call, obs>>

SQLSetAsyncEnable(b) ==
  /\ Enter("setAsyncEnable")
  /\ b # stmt.async
  /\ stmt' = [stmt EXCEPT !.async = b]
  /\ UNCHANGED <<fut, frame, call, obs>>

\* SQLFreeHandle(SQL_HANDLE_STMT): the destructor first destroys the members
\* declared after the futures (job_data_, paging_info_), then the futures.
SQLFreeHandle ==
  /\ Enter("freeHandle")
  /\ Suspend("freeHandle", NoQuery, "destroy", NoTask, "none")
  /\ UNCHANGED <<stmt, fut, frame>>

\* Faulty variant: the destructor does not wait for the tasks.
DestroyFuturesAtOnce ==
  /\ call.pc = "destroy"
  /\ frame' = [a \in Actor |-> IdleFrame]
  /\ fut' = [k \in Op |-> NoTask]
  /\ call' = [IdleCall EXCEPT !.pc = "freed"]
  /\ UNCHANGED <<stmt, obs>>

DestroyFutures ==
  /\ call.pc = "destroy"
  /\ \A k \in Op : fut[k] \in Task => frame[fut[k]].pc = "done"
  /\ frame' = [a \in Actor |-> IdleFrame]
  /\ fut' = [k \in Op |-> NoTask]
  /\ call' = [IdleCall EXCEPT !.pc = "freed"]
  /\ UNCHANGED <<stmt, obs>>

\* SQLAllocHandle(SQL_HANDLE_STMT) gives the application a new statement.
SQLAllocHandle ==
  /\ call.pc = "freed"
  /\ call' = IdleCall
  /\ stmt' \in {NewStmt(b) : b \in AsyncModes}
  /\ obs' = [obs EXCEPT !.op = "none", !.code = "none", !.harvest = "none",
                        !.consumed = FALSE, !.started = FALSE]
  /\ UNCHANGED <<fut, frame>>

-----------------------------------------------------------------------------
(* The bodies, run by a task or by the caller.                             *)

At(a, pc) == frame[a].pc = pc

Goto(a, pc) == frame' = [frame EXCEPT ![a].pc = pc]

\* The body returns after its last write to the statement: the future becomes
\* ready only in a later step (BodyReturns).
Finish(a, status) ==
  frame' = [frame EXCEPT ![a].pc = "return", ![a].status = status]

\* Faulty variant: a body that failed is tried again, without a limit.
BodyReturnsRetrying(a) ==
  /\ At(a, "return")
  /\ IF frame[a].status = "error"
     THEN frame' = [frame EXCEPT ![a].pc = FirstPc(frame[a].op)]
     ELSE Goto(a, "done")
  /\ UNCHANGED <<stmt, fut, call, obs>>

BodyReturns(a) ==
  /\ At(a, "return")
  /\ Goto(a, "done")
  /\ UNCHANGED <<stmt, fut, call, obs>>

\* PrepareQuery: the dry run at the server, then the text and the job.
PrepareQuery(a) ==
  /\ At(a, "begin")
  /\ frame[a].op = "prepare"
  /\ \/ /\ stmt' = [stmt EXCEPT !.query = frame[a].query,
                                !.job = frame[a].query]
        /\ frame' = [frame EXCEPT ![a].pc = "prepared", ![a].status = "ok"]
     \/ /\ frame' = [frame EXCEPT ![a].pc = "prepared", ![a].status = "error"]
        /\ UNCHANGED stmt
  /\ UNCHANGED <<fut, call, obs>>

\* The statement becomes Prepared whether or not PrepareQuery succeeded.
MarkPrepared(a) ==
  /\ At(a, "prepared")
  /\ stmt' = [stmt EXCEPT !.state = "Prepared", !.prepared = TRUE]
  /\ Goto(a, "return")
  /\ UNCHANGED <<fut, call, obs>>

ExecDirectBegin(a) ==
  /\ At(a, "begin")
  /\ frame[a].op = "execDirect"
  /\ stmt' = [stmt EXCEPT !.state = "StillExecuting"]
  /\ frame' = [frame EXCEPT ![a].pc = "plan", ![a].query = stmt.query]
  /\ UNCHANGED <<fut, call, obs>>

\* Without bound parameters the dry run is skipped and the prepared job
\* cleared; with them PrepareQuery runs.  Either may fail, and the failure
\* leaves the state StillExecuting.
ExecDirectPlan(a) ==
  /\ At(a, "plan")
  /\ \/ /\ stmt' = [stmt EXCEPT !.job = NoQuery]
        /\ Goto(a, "exec")
     \/ /\ stmt' = [stmt EXCEPT !.query = frame[a].query, !.job = frame[a].query]
        /\ Goto(a, "exec")
     \/ /\ Finish(a, "error")
        /\ UNCHANGED stmt
  /\ UNCHANGED <<fut, call, obs>>

\* ActuallyProcessExecute reads the text and the prepared job here.
ExecuteBegin(a) ==
  /\ At(a, "exec")
  /\ stmt' = [stmt EXCEPT !.state = "StillExecuting"]
  /\ frame' = [frame EXCEPT ![a].pc = "run", ![a].query = stmt.query,
                            ![a].job = stmt.job]
  /\ UNCHANGED <<fut, call, obs>>

FailureState(a) ==
  IF frame[a].op = "execute" THEN "Prepared" ELSE "NotPrepared"

\* FetchBQData stores the executed job if the statement has no prepared one.
\* A prepared script runs in ExecuteScript, which leaves the job alone.
PreparedScript(a) ==
  frame[a].job # NoQuery /\ StatementType[frame[a].job] = "SCRIPT"

JobAfter(a) ==
  IF stmt.job # NoQuery \/ PreparedScript(a) THEN stmt.job ELSE frame[a].query

\* The statement type: the prepared job's, else the executed one's.
TypeOfRun(a) ==
  LET job == IF frame[a].job = NoQuery THEN JobAfter(a) ELSE frame[a].job
  IN IF job = NoQuery THEN "DML" ELSE StatementType[job]

Executing(a) == At(a, "run") /\ frame[a].op \in {"execute", "execDirect"}

\* The server fails the query, or a parameter has to be sent first.
ExecuteFails(a) ==
  /\ Executing(a)
  /\ \E job \in {stmt.job, JobAfter(a)} :
       stmt' = [stmt EXCEPT !.job = job, !.state = FailureState(a)]
  /\ \E status \in {"error", "needData"} : Finish(a, status)
  /\ UNCHANGED <<fut, call, obs>>

\* The child jobs of a script are listed, last statement first.  A statement
\* that was prepared lists them always, one that was not only if it holds none.
SkipsListing(a) == frame[a].job = NoQuery /\ stmt.children # <<>>

ListChildren(a) ==
  IF SkipsListing(a)
  THEN {stmt.children}
  ELSE {stmt.children \o [i \in DOMAIN types |->
           [of |-> frame[a].query, type |-> types[i]]] :
         types \in {ts \in ScriptJobs :
                      Len(stmt.children) + Len(ts) <= MaxChildren}}

\* Faulty variant: the first statement's output is fetched for one child only.
ShownChildOfOne(a, children) ==
  IF Len(children) = Len(stmt.children) + 1 THEN Len(children) ELSE 0

\* The server answers a script with the output of its last statement; when the
\* children were listed the first statement's output replaces it.
ShownChild(a, children) ==
  IF Len(children) > Len(stmt.children) THEN Len(children) ELSE 0

LastIsSelect(children) ==
  children # <<>> /\ children[Len(children)].type = "SELECT"

Succeeds(a, children, withRows) ==
  /\ Executing(a)
  /\ frame[a].query # NoQuery
  /\ stmt' = [stmt EXCEPT !.job = JobAfter(a), !.children = children,
                 !.state = IF withRows THEN "ExecutedWithRs"
                           ELSE "ExecutedWithoutRs"]
  /\ UNCHANGED <<fut, call, obs>>

\* The state is published before the rows are stored (step StoreRows).
SelectSucceeds(a) ==
  /\ TypeOfRun(a) = "SELECT"
  /\ Succeeds(a, stmt.children, TRUE)
  /\ Goto(a, "rows")

\* A statement that affected no row answers SQL_NO_DATA.
DmlSucceeds(a) ==
  /\ TypeOfRun(a) = "DML"
  /\ Succeeds(a, stmt.children, FALSE)
  /\ \E status \in {"ok", "noData"} : Finish(a, status)

ScriptSucceeds(a) ==
  /\ TypeOfRun(a) = "SCRIPT"
  /\ \E children \in ListChildren(a) :
       /\ Succeeds(a, children, LastIsSelect(children))
       /\ IF LastIsSelect(children)
          THEN frame' = [frame EXCEPT ![a].pc = "rows",
                                      ![a].shown = ShownChild(a, children)]
          ELSE Finish(a, "ok")

\* The children were stored, then fetching the first one's rows failed.
ScriptFailsLate(a) ==
  /\ Executing(a)
  /\ frame[a].query # NoQuery
  /\ TypeOfRun(a) = "SCRIPT"
  /\ \E children \in ListChildren(a) :
       /\ Len(children) > Len(stmt.children) + 1
       /\ stmt' = [stmt EXCEPT !.job = JobAfter(a), !.children = children,
                               !.state = FailureState(a)]
  /\ Finish(a, "error")
  /\ UNCHANGED <<fut, call, obs>>

\* Faulty variant: the rows of the earlier result set stay.
StoreRowsForgotten(a) ==
  /\ At(a, "rows")
  /\ Finish(a, "ok")
  /\ UNCHANGED <<stmt, fut, call, obs>>

StoreRows(a) ==
  /\ At(a, "rows")
  /\ stmt' = [stmt EXCEPT !.rows = frame[a].query, !.shown = frame[a].shown]
  /\ Finish(a, "ok")
  /\ UNCHANGED <<fut, call, obs>>

\* ActuallyGetMoreResults: the next child is on top of the stack.
MoreResultsBegin(a) ==
  /\ At(a, "begin")
  /\ frame[a].op = "moreResults"
  /\ stmt' = [stmt EXCEPT !.state = "StillExecuting"]
  /\ Goto(a, "run")
  /\ UNCHANGED <<fut, call, obs>>

\* A failed fetch of the child's rows leaves the state StillExecuting.
MoreResultsFails(a) ==
  /\ At(a, "run")
  /\ frame[a].op = "moreResults"
  /\ Finish(a, "error")
  /\ UNCHANGED <<stmt, fut, call, obs>>

\* A child that is not a SELECT, or whose rows cannot be converted, has none.
MoreResultsSucceeds(a) ==
  /\ At(a, "run")
  /\ frame[a].op = "moreResults"
  /\ LET child == stmt.children[Len(stmt.children)]
     IN \/ /\ child.type = "SELECT"
           /\ stmt' = [stmt EXCEPT !.rows = child.of, !.shown = Len(stmt.children),
                                   !.state = "ExecutedWithRs"]
        \/ stmt' = [stmt EXCEPT !.state = "ExecutedWithoutRs"]
  /\ Finish(a, "ok")
  /\ UNCHANGED <<fut, call, obs>>

-----------------------------------------------------------------------------
(* The specification.                                                      *)

BodyStep(a) ==
  \/ PrepareQuery(a)
  \/ MarkPrepared(a)
  \/ ExecDirectBegin(a)
  \/ ExecDirectPlan(a)
  \/ ExecuteBegin(a)
  \/ ExecuteFails(a)
  \/ SelectSucceeds(a)
  \/ DmlSucceeds(a)
  \/ ScriptSucceeds(a)
  \/ ScriptFailsLate(a)
  \/ StoreRows(a)
  \/ MoreResultsBegin(a)
  \/ MoreResultsFails(a)
  \/ MoreResultsSucceeds(a)
  \/ BodyReturns(a)

\* The steps of a call in progress.
CallStep ==
  \/ HandleAsyncPrepare
  \/ HandleAsyncExecute
  \/ SQLExecuteProceed
  \/ SQLExecDirectResume
  \/ StoreFuture
  \/ MarkStillExecuting
  \/ Join
  \/ BodyReturn
  \/ DestroyFutures

\* The application calls a function.
Request ==
  \/ \E q \in Query : SQLPrepare(q)
  \/ SQLExecute
  \/ \E q \in Query : SQLExecDirect(q)
  \/ SQLMoreResults
  \/ SQLCancel
  \/ SQLCloseCursor
  \/ SQLFreeStmtClose
  \/ \E b \in AsyncModes : SQLSetAsyncEnable(b)
  \/ SQLFreeHandle
  \/ SQLAllocHandle

Next ==
  \/ Request
  \/ CallStep
  \/ \E a \in Actor : BodyStep(a)

Spec == Init /\ [][Next]_vars

\* The operating system runs the application's thread inside a call, and every
\* task, until they are done; nothing makes the application call a function.
FairSpec ==
  /\ Spec
  /\ WF_vars(CallStep)
  /\ \A a \in Actor : WF_vars(BodyStep(a))

-----------------------------------------------------------------------------
(* Properties.                                                             *)

Frame == [op : Op \cup {"none"},
          pc : {"free", "begin", "prepared", "plan", "exec", "run", "rows",
                "return", "done"},
          query : Query \cup {NoQuery}, job : Query \cup {NoQuery},
          shown : Nat, status : Status]

Code == {"none", "SUCCESS", "NO_DATA", "NEED_DATA", "ERROR", "HY008", "HY010",
         "24000", "FUTURE_ERROR", "STILL_EXECUTING"}

OpPc == {"pollPrepare", "pollExecute", "proceed", "store", "mark", "join",
         "wait", "body"}

Call == [op : Op \cup {"none", "freeHandle"},
         pc : OpPc \cup {"idle", "destroy", "freed"},
         query : Query \cup {NoQuery}, held : Task \cup {NoTask},
         code : Code, started : BOOLEAN, poll : BOOLEAN]

Stmt == [state : StmtStates, prepared : BOOLEAN, canceled : BOOLEAN,
         query : Query \cup {NoQuery}, job : Query \cup {NoQuery},
         rows : Query \cup {NoQuery}, shown : Nat,
         children : Seq([of : Query, type : JobType]), async : AsyncModes]

Obs == [pending : Op \cup {"none"}, query : Query \cup {NoQuery},
        started : BOOLEAN, op : Op \cup {"none"}, code : Code,
        harvest : Status, consumed : BOOLEAN]

\* Every variable holds values of the kind the code keeps in it.
TypeOK ==
  /\ stmt \in Stmt
  /\ fut \in [Op -> Task \cup {NoTask, Moved}]
  /\ frame \in [Actor -> Frame]
  /\ call \in Call
  /\ obs \in Obs

Running(a) == frame[a].pc \notin {"free", "done"}

Owned(t) == call.held = t \/ \E k \in Op : fut[k] = t

\* A task that exists is owned by exactly one future, a member of the
\* statement or a local of the call: none is lost while its body still uses
\* the statement, none is waited for twice (the moves out of the members in
\* odbc_stmt_handle.h, the SetFuture... calls, the destructor).
NoOrphanWorker ==
  /\ \A t \in Task : Owned(t) <=> frame[t].pc # "free"
  /\ \A k, l \in Op : fut[k] \in Task /\ fut[k] = fut[l] => k = l
  /\ \A k \in Op : call.held \in Task => fut[k] # call.held

\* What the futures promise: a statement is freed only when no task uses it.
Lifetime == INSTANCE WorkerLifetime WITH
  Worker <- Task,
  alive <- {t \in Task : Running(t)},
  phase <- CASE call.pc = "destroy" -> "closing"
             [] call.pc = "freed"   -> "freed"
             [] OTHER               -> "live"

\* The statement implements it, whatever is launched, polled, canceled or
\* abandoned before the handle is freed.
ImplementsWorkerLifetime == Lifetime!Spec

\* At most one body at a time works on the statement.  It holds for an
\* application that executes with SQLExecDirect only, canceled or not: a poll
\* waits for the task before anything else is started.  It does not hold for
\* SQLMoreResults beside it: a poll of SQLExecDirect that meets the open cursor
\* answers 24000 before the task has ended, and nothing is pending any more.
OneWorker ==
  \A a, b \in Actor : Running(a) /\ Running(b) => a = b

\* A call that repeats a function that answered SQL_STILL_EXECUTING asks for
\* the outcome of the running operation and never starts it again.
PollNeverRestarts ==
  call.pc = "store" => ~call.poll

OpenCursor == call.pc = "idle" /\ stmt.state = "ExecutedWithRs"

\* A script is not replaced by another text, nor another text by a script: the
\* child jobs of a script stay on the statement when its text is replaced.
ScriptsAlone ==
  (stmt.query # NoQuery /\ stmt'.query \notin {NoQuery, stmt.query}) =>
     "SCRIPT" \notin {StatementType[stmt.query], StatementType[stmt'.query]}

\* An open cursor shows the rows of the text the statement holds, whatever
\* was prepared, executed, canceled or closed before (scripts aside).
RowsOfLastText ==
  OpenCursor => stmt.rows = stmt.query

\* The application does not execute a text directly while it has left child jobs
\* of an earlier execution on the statement: it walks to the last result first.
ScriptsReadToTheEnd ==
  \A a \in Actor :
    At(a, "exec") /\ ~At(a, "exec")' /\ stmt.job = NoQuery => stmt.children = <<>>

\* While a script has results left an open cursor shows the rows of the child
\* job on top, the one the next SQLMoreResults discards: no result set is
\* skipped or shown twice, and a script starts with its first statement's.
OpenCursorIsTopChild ==
  (OpenCursor /\ StatementType[stmt.query] = "SCRIPT") =>
    LastIsSelect(stmt.children) /\ stmt.shown = Len(stmt.children)

\* SQL_SUCCESS never stands for a body that failed, whichever task ran it and
\* however late the call that asks for it comes.
ErrorReported ==
  obs.code = "SUCCESS" => obs.harvest # "error"

\* Every call returns: a body never waits for the thread that waits for it.
CallsReturn == call.pc \notin {"idle", "freed"} ~> call.pc \in {"idle", "freed"}
=============================================================================
