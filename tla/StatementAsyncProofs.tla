------------------------ MODULE StatementAsyncProofs ------------------------
(***************************************************************************)
(* Proofs about StatementAsync, for every set of queries, tasks and API    *)
(* functions, with and without a driver manager.                           *)
(***************************************************************************)
EXTENDS StatementAsync, SequenceTheorems, TLAPS

\* How a call, the futures and the bodies hang together between two steps.
CallShape ==
  /\ call.pc \in {"store", "join", "wait"} <=> call.held \in Task
  /\ call.pc \in OpPc <=> call.op \in Op
  /\ call.pc = "wait" => call.op = "execDirect" /\ fut["execDirect"] = Moved
  /\ call.pc = "store" => frame[call.held].op = call.op
  /\ call.pc = "freed" => \A k \in Op : fut[k] = NoTask
  /\ frame[Caller].pc # "free" => call.pc = "body"
  /\ \A k \in Op : fut[k] \in Task => frame[fut[k]].op = k

\* A body that walks to the next result set finds a child job.
ChildToRead ==
  \A a \in Actor :
    frame[a].op = "moreResults" /\ frame[a].pc \notin {"free", "return", "done"}
      => stmt.children # <<>>

IInv == TypeOK /\ NoOrphanWorker /\ CallShape /\ ChildToRead

\* What a body step does to the frames: only its own moves on.
BodyMoves(a) ==
  /\ frame' \in [Actor -> Frame]
  /\ \A b \in Actor : b # a => frame'[b] = frame[b]
  /\ frame[a].pc \notin {"free", "done"}
  /\ frame'[a].pc # "free"
  /\ frame'[a].op = frame[a].op
  /\ frame[a].pc = "return" => frame'[a].pc = "done"

LEMMA BodyKeepsInv ==
  ASSUME IInv, NEW a \in Actor, BodyMoves(a),
         stmt' \in Stmt,
         stmt.children # <<>> => stmt'.children # <<>>,
         UNCHANGED <<fut, call, obs>>
  PROVE  IInv'
<1> USE DEF IInv, BodyMoves
<1>1. TypeOK'
  BY DEF TypeOK
<1>2. NoOrphanWorker'
  BY DEF NoOrphanWorker, Owned, TypeOK, Actor
<1>3. CallShape'
  BY DEF CallShape, TypeOK, Actor
<1>4. ChildToRead'
  BY DEF ChildToRead, TypeOK
<1>5. QED
  BY <1>1, <1>2, <1>3, <1>4

LEMMA FinishMoves ==
  ASSUME IInv, NEW a \in Actor, NEW status \in Status, Finish(a, status),
         frame[a].pc \notin {"free", "return", "done"}
  PROVE  BodyMoves(a)
<1> DEFINE f == [frame[a] EXCEPT !.pc = "return", !.status = status]
<1>1. f \in Frame /\ f.op = frame[a].op /\ f.pc = "return"
  BY DEF IInv, TypeOK, Frame
<1>2. frame' = [frame EXCEPT ![a] = f]
  BY DEF Finish, IInv, TypeOK, Frame
<1> HIDE DEF f
<1>3. QED
  BY <1>1, <1>2 DEF BodyMoves, IInv, TypeOK

LEMMA GotoMoves ==
  ASSUME IInv, NEW a \in Actor, Goto(a, "exec") \/ Goto(a, "rows"),
         frame[a].pc \notin {"free", "return", "done"}
  PROVE  BodyMoves(a)
<1>1. CASE Goto(a, "exec")
  BY <1>1 DEF Goto, BodyMoves, IInv, TypeOK, Frame
<1>2. CASE Goto(a, "rows")
  BY <1>2 DEF Goto, BodyMoves, IInv, TypeOK, Frame
<1>3. QED
  BY <1>1, <1>2

LEMMA BodyReturnsInv ==
  ASSUME IInv, NEW a \in Actor, BodyReturns(a)
  PROVE  IInv'
<1>1. BodyMoves(a)
  BY DEF BodyReturns, BodyMoves, At, IInv, TypeOK, Frame, Status, Goto
<1>2. stmt' \in Stmt /\ (stmt.children # <<>> => stmt'.children # <<>>)
  BY DEF BodyReturns, At, IInv, TypeOK, Frame, Stmt, StmtStates
<1>3. QED
  BY <1>1, <1>2, BodyKeepsInv DEF BodyReturns

LEMMA PrepareQueryInv ==
  ASSUME IInv, NEW a \in Actor, PrepareQuery(a)
  PROVE  IInv'
<1>1. BodyMoves(a)
  BY DEF PrepareQuery, BodyMoves, At, IInv, TypeOK, Frame, Status
<1>2. stmt' \in Stmt /\ (stmt.children # <<>> => stmt'.children # <<>>)
  BY DEF PrepareQuery, At, IInv, TypeOK, Frame, Stmt, StmtStates
<1>3. QED
  BY <1>1, <1>2, BodyKeepsInv DEF PrepareQuery

LEMMA MarkPreparedInv ==
  ASSUME IInv, NEW a \in Actor, MarkPrepared(a)
  PROVE  IInv'
<1>1. BodyMoves(a)
  BY DEF MarkPrepared, BodyMoves, At, IInv, TypeOK, Frame, Status, Goto
<1>2. stmt' \in Stmt /\ (stmt.children # <<>> => stmt'.children # <<>>)
  BY DEF MarkPrepared, At, IInv, TypeOK, Frame, Stmt, StmtStates
<1>3. QED
  BY <1>1, <1>2, BodyKeepsInv DEF MarkPrepared

LEMMA ExecDirectBeginInv ==
  ASSUME IInv, NEW a \in Actor, ExecDirectBegin(a)
  PROVE  IInv'
<1> DEFINE f == [frame[a] EXCEPT !.pc = "plan", !.query = stmt.query]
<1>0. f \in Frame /\ f.op = frame[a].op /\ f.pc = "plan"
  BY DEF IInv, TypeOK, Frame, Stmt
<1>a. frame' = [frame EXCEPT ![a] = f]
  BY DEF ExecDirectBegin, IInv, TypeOK, Frame
<1>b. frame[a].pc \notin {"free", "return", "done"}
  BY DEF ExecDirectBegin, At
<1> HIDE DEF f
<1>1. BodyMoves(a)
  BY <1>0, <1>a, <1>b DEF BodyMoves, IInv, TypeOK
<1>2. stmt' \in Stmt /\ (stmt.children # <<>> => stmt'.children # <<>>)
  BY DEF ExecDirectBegin, At, IInv, TypeOK, Frame, Stmt, StmtStates
<1>3. QED
  BY <1>1, <1>2, BodyKeepsInv DEF ExecDirectBegin

LEMMA ExecDirectPlanInv ==
  ASSUME IInv, NEW a \in Actor, ExecDirectPlan(a)
  PROVE  IInv'
<1>1. BodyMoves(a)
  BY FinishMoves, GotoMoves DEF ExecDirectPlan, At, Status
<1>2. stmt' \in Stmt /\ (stmt.children # <<>> => stmt'.children # <<>>)
  BY DEF ExecDirectPlan, At, IInv, TypeOK, Frame, Stmt, StmtStates
<1>3. QED
  BY <1>1, <1>2, BodyKeepsInv DEF ExecDirectPlan

LEMMA ExecuteBeginInv ==
  ASSUME IInv, NEW a \in Actor, ExecuteBegin(a)
  PROVE  IInv'
<1> DEFINE f == [frame[a] EXCEPT !.pc = "run", !.query = stmt.query, !.job = stmt.job]
<1>0. f \in Frame /\ f.op = frame[a].op /\ f.pc = "run"
  BY DEF IInv, TypeOK, Frame, Stmt
<1>a. frame' = [frame EXCEPT ![a] = f]
  BY DEF ExecuteBegin, IInv, TypeOK, Frame
<1>b. frame[a].pc \notin {"free", "return", "done"}
  BY DEF ExecuteBegin, At
<1> HIDE DEF f
<1>1. BodyMoves(a)
  BY <1>0, <1>a, <1>b DEF BodyMoves, IInv, TypeOK
<1>2. stmt' \in Stmt /\ (stmt.children # <<>> => stmt'.children # <<>>)
  BY DEF ExecuteBegin, At, IInv, TypeOK, Frame, Stmt, StmtStates
<1>3. QED
  BY <1>1, <1>2, BodyKeepsInv DEF ExecuteBegin

LEMMA ExecuteFailsInv ==
  ASSUME IInv, NEW a \in Actor, ExecuteFails(a)
  PROVE  IInv'
<1>1. BodyMoves(a)
  BY FinishMoves DEF ExecuteFails, At, Status, Executing
<1>2. stmt' \in Stmt /\ (stmt.children # <<>> => stmt'.children # <<>>)
  BY DEF ExecuteFails, At, IInv, TypeOK, Frame, Stmt, StmtStates, JobAfter, Executing, FailureState
<1>3. QED
  BY <1>1, <1>2, BodyKeepsInv DEF ExecuteFails

LEMMA SelectSucceedsInv ==
  ASSUME IInv, NEW a \in Actor, SelectSucceeds(a)
  PROVE  IInv'
<1>1. BodyMoves(a)
  BY GotoMoves DEF SelectSucceeds, Succeeds, Executing, At
<1>2. stmt' \in Stmt /\ (stmt.children # <<>> => stmt'.children # <<>>)
  BY DEF SelectSucceeds, At, IInv, TypeOK, Frame, Stmt, StmtStates, Succeeds, JobAfter, Executing
<1>3. QED
  BY <1>1, <1>2, BodyKeepsInv DEF SelectSucceeds, Succeeds

LEMMA DmlSucceedsInv ==
  ASSUME IInv, NEW a \in Actor, DmlSucceeds(a)
  PROVE  IInv'
<1>1. BodyMoves(a)
  BY FinishMoves DEF DmlSucceeds, At, Status, Succeeds, Executing
<1>2. stmt' \in Stmt /\ (stmt.children # <<>> => stmt'.children # <<>>)
  BY DEF DmlSucceeds, At, IInv, TypeOK, Frame, Stmt, StmtStates, Succeeds, JobAfter, Executing
<1>3. QED
  BY <1>1, <1>2, BodyKeepsInv DEF DmlSucceeds, Succeeds

LEMMA StoreRowsInv ==
  ASSUME IInv, NEW a \in Actor, StoreRows(a)
  PROVE  IInv'
<1>1. BodyMoves(a)
  BY FinishMoves DEF StoreRows, At, Status
<1>2. stmt' \in Stmt /\ (stmt.children # <<>> => stmt'.children # <<>>)
  BY DEF StoreRows, At, IInv, TypeOK, Frame, Stmt, StmtStates
<1>3. QED
  BY <1>1, <1>2, BodyKeepsInv DEF StoreRows

LEMMA MoreResultsBeginInv ==
  ASSUME IInv, NEW a \in Actor, MoreResultsBegin(a)
  PROVE  IInv'
<1>1. BodyMoves(a)
  BY DEF MoreResultsBegin, BodyMoves, At, IInv, TypeOK, Frame, Status, Goto
<1>2. stmt' \in Stmt /\ (stmt.children # <<>> => stmt'.children # <<>>)
  BY DEF MoreResultsBegin, At, IInv, TypeOK, Frame, Stmt, StmtStates
<1>3. QED
  BY <1>1, <1>2, BodyKeepsInv DEF MoreResultsBegin

LEMMA MoreResultsFailsInv ==
  ASSUME IInv, NEW a \in Actor, MoreResultsFails(a)
  PROVE  IInv'
<1>1. BodyMoves(a)
  BY FinishMoves DEF MoreResultsFails, At, Status
<1>2. stmt' \in Stmt /\ (stmt.children # <<>> => stmt'.children # <<>>)
  BY DEF MoreResultsFails, At, IInv, TypeOK, Frame, Stmt, StmtStates
<1>3. QED
  BY <1>1, <1>2, BodyKeepsInv DEF MoreResultsFails

LEMMA MoreResultsSucceedsInv ==
  ASSUME IInv, NEW a \in Actor, MoreResultsSucceeds(a)
  PROVE  IInv'
<1>0. At(a, "run") /\ Finish(a, "ok")
  BY Zenon DEF MoreResultsSucceeds
<1>1. BodyMoves(a)
  BY <1>0, FinishMoves DEF At, Status
<1> DEFINE child == stmt.children[Len(stmt.children)]
<1>c. child \in [of : Query, type : JobType]
  <2>1. stmt.children # <<>>
    BY DEF MoreResultsSucceeds, At, IInv, ChildToRead
  <2>2. stmt.children \in Seq([of : Query, type : JobType])
    BY DEF IInv, TypeOK, Stmt
  <2>3. Len(stmt.children) \in 1 .. Len(stmt.children)
    BY <2>1, <2>2, EmptySeq
  <2>4. QED
    BY <2>2, <2>3, ElementOfSeq
<1>d. \/ stmt' = [stmt EXCEPT !.rows = child.of, !.shown = Len(stmt.children),
                              !.state = "ExecutedWithRs"]
      \/ stmt' = [stmt EXCEPT !.state = "ExecutedWithoutRs"]
  BY Zenon DEF MoreResultsSucceeds
<1>e. Len(stmt.children) \in Nat
  BY DEF IInv, TypeOK, Stmt
<1> HIDE DEF child
<1>2. stmt' \in Stmt /\ (stmt.children # <<>> => stmt'.children # <<>>)
  <2>1. stmt \in Stmt /\ child.of \in Query
    BY <1>c DEF IInv, TypeOK
  <2> QED BY <1>d, <1>e, <2>1 DEF Stmt, StmtStates
<1>3. QED
  BY <1>1, <1>2, BodyKeepsInv DEF MoreResultsSucceeds

\* What the server lists is a sequence of children, none of them lost.
LEMMA ListChildrenType ==
  ASSUME IInv, NEW a \in Actor, frame[a].query # NoQuery,
         NEW children \in ListChildren(a)
  PROVE  /\ children \in Seq([of : Query, type : JobType])
         /\ stmt.children # <<>> => children # <<>>
<1> DEFINE Child == [of : Query, type : JobType]
<1>1. stmt.children \in Seq(Child) /\ frame[a].query \in Query
  BY DEF IInv, TypeOK, Stmt, Frame
<1>2. CASE children = stmt.children
  BY <1>1, <1>2
<1>3. ASSUME NEW types \in ScriptJobs,
             children = stmt.children \o
               [i \in DOMAIN types |-> [of |-> frame[a].query, type |-> types[i]]]
      PROVE  /\ children \in Seq(Child)
             /\ stmt.children # <<>> => children # <<>>
  <2> DEFINE new == [i \in DOMAIN types |->
                       [of |-> frame[a].query, type |-> types[i]]]
  <2>1. types \in Seq(JobType)
    BY ConstantsAssumption
  <2>2. Len(types) \in Nat /\ DOMAIN types = 1 .. Len(types)
        /\ \A i \in 1 .. Len(types) : types[i] \in JobType
    BY <2>1, LenProperties, ElementOfSeq
  <2>3. new \in [1 .. Len(types) -> Child]
    BY <1>1, <2>2
  <2>4. new \in Seq(Child)
    BY <2>2, <2>3
  <2> HIDE DEF new, Child
  <2>5. children \in Seq(Child) /\ Len(children) = Len(stmt.children) + Len(new)
    BY <1>1, <1>3, <2>4, ConcatProperties DEF new
  <2>6. stmt.children # <<>> => children # <<>>
    BY <1>1, <2>4, <2>5, LenProperties, EmptySeq
  <2>7. QED
    BY <2>5, <2>6
<1>4. QED
  BY <1>2, <1>3 DEF ListChildren

LEMMA ScriptSucceedsInv ==
  ASSUME IInv, NEW a \in Actor, ScriptSucceeds(a)
  PROVE  IInv'
<1>1. PICK children \in ListChildren(a) :
        /\ Succeeds(a, children, LastIsSelect(children))
        /\ IF LastIsSelect(children)
           THEN frame' = [frame EXCEPT ![a].pc = "rows",
                                       ![a].shown = ShownChild(a, children)]
           ELSE Finish(a, "ok")
  BY DEF ScriptSucceeds
<1>3. /\ children \in Seq([of : Query, type : JobType])
      /\ stmt.children # <<>> => children # <<>>
  BY <1>1, ListChildrenType DEF Succeeds
<1>2. BodyMoves(a)
  <2>1. frame[a].pc \notin {"free", "return", "done"}
    BY <1>1 DEF Succeeds, Executing, At
  <2>2. ShownChild(a, children) \in Nat
    BY <1>3 DEF ShownChild
  <2>3. CASE Finish(a, "ok")
    BY <2>1, <2>3, FinishMoves DEF Status
  <2>4. CASE frame' = [frame EXCEPT ![a].pc = "rows", ![a].shown = ShownChild(a, children)]
    <3> HIDE DEF IInv
    <3>1. frame[a] \in Frame /\ frame \in [Actor -> Frame]
      BY DEF IInv, TypeOK
    <3>2. frame'[a] \in Frame /\ frame'[a].op = frame[a].op /\ frame'[a].pc = "rows"
      BY <2>2, <2>4, <3>1 DEF Frame
    <3> QED BY <2>1, <2>4, <3>1, <3>2 DEF BodyMoves
  <2> QED BY <1>1, <2>3, <2>4
<1>4. stmt' \in Stmt /\ (stmt.children # <<>> => stmt'.children # <<>>)
  BY <1>1, <1>3
     DEF Succeeds, IInv, TypeOK, Frame, Stmt, StmtStates, JobAfter
<1>5. QED
  BY <1>1, <1>2, <1>4, BodyKeepsInv DEF Succeeds

LEMMA ScriptFailsLateInv ==
  ASSUME IInv, NEW a \in Actor, ScriptFailsLate(a)
  PROVE  IInv'
<1>1. PICK children \in ListChildren(a) :
        stmt' = [stmt EXCEPT !.job = JobAfter(a), !.children = children,
                             !.state = FailureState(a)]
  BY DEF ScriptFailsLate
<1>2. BodyMoves(a)
  BY FinishMoves DEF ScriptFailsLate, Executing, At, Status
<1>3. /\ children \in Seq([of : Query, type : JobType])
      /\ stmt.children # <<>> => children # <<>>
  BY <1>1, ListChildrenType DEF ScriptFailsLate
<1>4. stmt' \in Stmt /\ (stmt.children # <<>> => stmt'.children # <<>>)
  BY <1>1, <1>3
     DEF IInv, TypeOK, Frame, Stmt, StmtStates, JobAfter, FailureState
<1>5. QED
  BY <1>2, <1>4, BodyKeepsInv DEF ScriptFailsLate

\* Every step of a body, run by a task or by the caller, keeps the invariant.
LEMMA BodyStepInv ==
  ASSUME IInv, NEW a \in Actor, BodyStep(a)
  PROVE  IInv'
BY PrepareQueryInv, MarkPreparedInv, ExecDirectBeginInv, ExecDirectPlanInv,
   ExecuteBeginInv, ExecuteFailsInv, SelectSucceedsInv, DmlSucceedsInv,
   ScriptSucceedsInv, ScriptFailsLateInv, StoreRowsInv, MoreResultsBeginInv,
   MoreResultsFailsInv, MoreResultsSucceedsInv, BodyReturnsInv
   DEF BodyStep

-----------------------------------------------------------------------------
(* Calls.                                                                  *)

\* A call that holds no task and runs no body itself.
LightCall == call.held \notin Task /\ call.pc # "body"

LEMMA ReplyType ==
  ASSUME IInv, NEW op \in Op, NEW q \in Query \cup {NoQuery},
         NEW started \in BOOLEAN, NEW code \in Code, NEW harvest \in Status,
         NEW consumed \in BOOLEAN,
         Reply(op, q, started, code, harvest, consumed)
  PROVE  call' = IdleCall /\ call' \in Call /\ obs' \in Obs
BY DEF Reply, IdleCall, Call, Obs, Code

LEMMA StartedType ==
  ASSUME IInv, NEW op PROVE Started(op) \in BOOLEAN
BY DEF IInv, TypeOK, Obs, Started, Polling

LEMMA ReplyNowType ==
  ASSUME IInv, NEW op \in Op, NEW q \in Query \cup {NoQuery},
         NEW code \in Code, NEW harvest \in Status, NEW consumed \in BOOLEAN,
         ReplyNow(op, q, code, harvest, consumed)
  PROVE  call' = IdleCall /\ call' \in Call /\ obs' \in Obs
BY ReplyType, StartedType DEF ReplyNow

LEMMA SuspendType ==
  ASSUME IInv, NEW op \in Op, NEW q \in Query \cup {NoQuery},
         NEW pc \in OpPc, NEW held \in Task \cup {NoTask}, NEW code \in Code,
         Suspend(op, q, pc, held, code)
  PROVE  /\ call' \in Call /\ obs' = obs
         /\ call'.op = op /\ call'.pc = pc /\ call'.held = held
BY StartedType DEF Suspend, Call, Polling

\* The call returns without having touched a task.
LEMMA LightReplyInv ==
  ASSUME IInv, LightCall, call' = IdleCall, call' \in Call, obs' \in Obs,
         stmt' \in Stmt, stmt'.children = stmt.children,
         UNCHANGED <<fut, frame>>
  PROVE  IInv'
<1> USE DEF IInv
<1>1. TypeOK'
  BY DEF TypeOK
<1>2. NoOrphanWorker'
  BY ConstantsAssumption DEF NoOrphanWorker, Owned, LightCall, IdleCall
<1>3. CallShape'
  BY ConstantsAssumption DEF CallShape, LightCall, IdleCall, OpPc, Op
<1>4. ChildToRead'
  BY DEF ChildToRead
<1>5. QED
  BY <1>1, <1>2, <1>3, <1>4

\* The call goes on to another step without having touched a task.
LEMMA LightSuspendInv ==
  ASSUME IInv, LightCall, NEW op \in Op, NEW q \in Query \cup {NoQuery},
         NEW pc \in {"pollPrepare", "pollExecute", "proceed"},
         Suspend(op, q, pc, NoTask, "none"),
         UNCHANGED <<stmt, fut, frame>>
  PROVE  IInv'
<1> USE DEF IInv
<1>0. /\ call' \in Call /\ obs' = obs
      /\ call'.op = op /\ call'.pc = pc /\ call'.held = NoTask
  BY SuspendType DEF OpPc, Code
<1>1. TypeOK'
  BY <1>0 DEF TypeOK
<1>2. NoOrphanWorker'
  BY <1>0, ConstantsAssumption DEF NoOrphanWorker, Owned, LightCall
<1>3. CallShape'
  BY <1>0, ConstantsAssumption DEF CallShape, LightCall, OpPc
<1>4. ChildToRead'
  BY DEF ChildToRead
<1>5. QED
  BY <1>1, <1>2, <1>3, <1>4

LEMMA NewFrameType ==
  ASSUME NEW op \in Op, NEW q \in Query \cup {NoQuery}
  PROVE  /\ NewFrame(op, q) \in Frame
         /\ NewFrame(op, q).op = op
         /\ NewFrame(op, q).pc \in {"begin", "exec"}
BY DEF NewFrame, IdleFrame, FirstPc, Frame, Status

\* A body is started, in a new task or in the call itself.
LEMMA LaunchOrRunInv ==
  ASSUME IInv, LightCall, NEW op \in Op, NEW q \in Query \cup {NoQuery},
         LaunchOrRun(op, q), stmt' \in Stmt,
         stmt.children # <<>> => stmt'.children # <<>>,
         op = "moreResults" => stmt'.children # <<>>,
         UNCHANGED fut
  PROVE  IInv'
<1> DEFINE f == NewFrame(op, q)
<1>0. f \in Frame /\ f.op = op /\ f.pc \in {"begin", "exec"}
  BY NewFrameType
<1> HIDE DEF f
<1>1. CASE Launch(op, q)
  <2>1. PICK t \in Task : /\ frame[t].pc = "free"
                          /\ frame' = [frame EXCEPT ![t] = f]
                          /\ Suspend(op, q, "store", t, "STILL_EXECUTING")
    BY <1>1 DEF Launch, f
  <2>2. /\ call' \in Call /\ obs' = obs
        /\ call'.op = op /\ call'.pc = "store" /\ call'.held = t
    BY <2>1, SuspendType DEF OpPc, Code
  <2>3. /\ frame' \in [Actor -> Frame] /\ frame'[t] = f
        /\ \A b \in Actor : b # t => frame'[b] = frame[b]
    BY <1>0, <2>1 DEF IInv, TypeOK, Actor
  <2>4. TypeOK'
    BY <2>2, <2>3 DEF IInv, TypeOK
  <2>5. NoOrphanWorker'
    BY <1>0, <2>1, <2>2, <2>3
       DEF IInv, NoOrphanWorker, Owned, LightCall, Actor
  <2>6. CallShape'
    BY <1>0, <2>1, <2>2, <2>3, ConstantsAssumption
       DEF IInv, NoOrphanWorker, Owned, CallShape, LightCall, Actor, OpPc
  <2>7. ChildToRead'
    BY <1>0, <2>1, <2>3 DEF IInv, ChildToRead, Actor
  <2>8. QED
    BY <2>4, <2>5, <2>6, <2>7 DEF IInv
<1>2. CASE RunInline(op, q)
  <2>1. /\ frame' = [frame EXCEPT ![Caller] = f]
        /\ Suspend(op, q, "body", NoTask, "none")
    BY <1>2 DEF RunInline, f
  <2>2. /\ call' \in Call /\ obs' = obs
        /\ call'.op = op /\ call'.pc = "body" /\ call'.held = NoTask
    BY <2>1, SuspendType DEF OpPc, Code
  <2>3. /\ frame' \in [Actor -> Frame] /\ frame'[Caller] = f
        /\ \A b \in Actor : b # Caller => frame'[b] = frame[b]
    BY <1>0, <2>1 DEF IInv, TypeOK, Actor
  <2>4. TypeOK'
    BY <2>2, <2>3 DEF IInv, TypeOK
  <2>5. NoOrphanWorker'
    BY <1>0, <2>2, <2>3, ConstantsAssumption
       DEF IInv, NoOrphanWorker, Owned, LightCall, Actor
  <2>6. CallShape'
    BY <1>0, <2>2, <2>3, ConstantsAssumption
       DEF IInv, CallShape, LightCall, Actor, OpPc
  <2>7. ChildToRead'
    BY <1>0, <2>3 DEF IInv, ChildToRead, Actor
  <2>8. QED
    BY <2>4, <2>5, <2>6, <2>7 DEF IInv
<1>3. QED
  BY <1>1, <1>2 DEF LaunchOrRun

\* A task is waited for and its future is gone from the statement.
LEMMA ReleaseShape ==
  ASSUME IInv, NEW t \in Task,
         frame' = [frame EXCEPT ![t] = IdleFrame],
         fut' \in [Op -> Task \cup {NoTask, Moved}],
         \A k \in Op : fut'[k] # t,
         \A k \in Op : fut[k] \in Task /\ fut[k] # t <=> fut'[k] \in Task,
         \A k \in Op : fut'[k] \in Task => fut'[k] = fut[k],
         call.held \in Task => call.held = t,
         call'.held = NoTask,
         stmt'.children = stmt.children,
         frame[Caller].pc = "free"
  PROVE  /\ frame' \in [Actor -> Frame]
         /\ NoOrphanWorker'
         /\ frame'[Caller].pc = "free"
         /\ \A k \in Op : fut'[k] \in Task => frame'[fut'[k]].op = k
         /\ ChildToRead'
<1>1. IdleFrame \in Frame /\ IdleFrame.pc = "free"
  BY DEF IdleFrame, Frame, Status
<1>2. /\ frame' \in [Actor -> Frame] /\ frame'[t] = IdleFrame
      /\ \A b \in Actor : b # t => frame'[b] = frame[b]
  BY <1>1 DEF IInv, TypeOK, Actor
<1>3. NoOrphanWorker'
  BY <1>1, <1>2, ConstantsAssumption
     DEF IInv, TypeOK, NoOrphanWorker, Owned, Actor
<1>4. \A k \in Op : fut'[k] \in Task => frame'[fut'[k]].op = k
  BY <1>2 DEF IInv, CallShape, Actor
<1>5. ChildToRead'
  BY <1>1, <1>2 DEF IInv, ChildToRead
<1>6. QED
  BY <1>2, <1>3, <1>4, <1>5, ConstantsAssumption DEF Actor

LEMMA CodeOfType ==
  ASSUME NEW status \in Status PROVE CodeOf(status) \in Code
BY DEF CodeOf, Code

LEMMA PollFutureInv ==
  ASSUME IInv, LightCall, NEW op \in Op,
         NEW q \in Query \cup {NoQuery}, NEW slot \in {"prepare", "execute"},
         NEW failed \in StmtStates, PollFuture(op, q, slot, failed)
  PROVE  IInv'
<1>0. slot \in Op
  BY DEF Op
<1>1. CASE PollCanceled(op, q, failed)
  BY <1>0, <1>1, ReplyNowType, LightReplyInv
     DEF PollCanceled, IInv, TypeOK, Stmt, Code, Status
<1>2. CASE PollNoFuture(op, q, slot, failed)
  BY <1>0, <1>2, ReplyNowType, LightReplyInv
     DEF PollNoFuture, IInv, TypeOK, Stmt, Code, Status
<1>3. CASE PollInvalidFuture(op, q, slot)
  BY <1>0, <1>3, ReplyNowType, LightReplyInv
     DEF PollInvalidFuture, IInv, TypeOK, Code, Status
<1>4. CASE PollNotReady(op, q, slot)
  <2>1. /\ call' \in Call /\ obs' = obs
        /\ call'.op = op /\ call'.pc = "join" /\ call'.held = fut[slot]
    BY <1>0, <1>4, SuspendType DEF PollNotReady, OpPc, Code
  <2>2. /\ fut' \in [Op -> Task \cup {NoTask, Moved}]
        /\ fut[slot] \in Task /\ fut'[slot] = Moved
        /\ \A k \in Op : k # slot => fut'[k] = fut[k]
    BY <1>0, <1>4 DEF PollNotReady, IInv, TypeOK
  <2>3. TypeOK'
    BY <1>4, <2>1, <2>2 DEF PollNotReady, IInv, TypeOK
  <2>4. NoOrphanWorker'
    <3>1. \A u \in Task : Owned(u)' <=> Owned(u)
      BY <1>0, <2>1, <2>2, ConstantsAssumption DEF Owned, LightCall
    <3>2. \A u \in Task : Owned(u)' <=> frame'[u].pc # "free"
      BY <1>4, <3>1 DEF PollNotReady, IInv, NoOrphanWorker
    <3>3. \A k, l \in Op : fut'[k] \in Task /\ fut'[k] = fut'[l] => k = l
      BY <2>2, ConstantsAssumption DEF IInv, NoOrphanWorker
    <3>4. \A k \in Op : fut'[k] # fut[slot]
      BY <1>0, <2>2, ConstantsAssumption DEF IInv, NoOrphanWorker
    <3>5. QED
      BY <2>1, <3>2, <3>3, <3>4 DEF NoOrphanWorker
  <2>5. CallShape'
    BY <1>0, <1>4, <2>1, <2>2, ConstantsAssumption
       DEF PollNotReady, IInv, CallShape, LightCall, OpPc
  <2>6. ChildToRead'
    BY <1>4 DEF PollNotReady, IInv, ChildToRead
  <2>7. QED
    BY <2>3, <2>4, <2>5, <2>6 DEF IInv
<1>5. CASE PollReady(op, q, slot, failed)
  <2> DEFINE t == fut[slot]
             status == frame[t].status
  <2>1. /\ t \in Task /\ status \in Status
        /\ frame' = [frame EXCEPT ![t] = IdleFrame]
        /\ fut' = [fut EXCEPT ![slot] = NoTask]
        /\ stmt' = [stmt EXCEPT !.state = IF status = "ok" THEN @ ELSE failed]
        /\ \/ Suspend(op, q, "proceed", NoTask, "none")
           \/ ReplyNow(op, q, CodeOf(status), status, FALSE)
    BY <1>5 DEF PollReady, IInv, TypeOK, Frame, Actor
  <2>2. /\ call' \in Call /\ obs' \in Obs /\ call'.held = NoTask
        /\ call'.pc \in {"idle", "proceed"}
        /\ call'.pc \in OpPc <=> call'.op \in Op
    <3>1. CASE Suspend(op, q, "proceed", NoTask, "none")
      BY <1>0, <3>1, SuspendType DEF OpPc, Code, IInv, TypeOK
    <3>2. CASE ReplyNow(op, q, CodeOf(status), status, FALSE)
      <4> HIDE DEF status
      <4>1. CodeOf(status) \in Code
        BY <2>1, CodeOfType
      <4>2. call' = IdleCall /\ call' \in Call /\ obs' \in Obs
        BY <1>0, <2>1, <3>2, <4>1, ReplyNowType
      <4>3. QED
        BY <4>2 DEF IdleCall, OpPc, Op
    <3>3. QED
      BY <2>1, <3>1, <3>2
  <2>3. stmt' \in Stmt /\ stmt'.children = stmt.children
    BY <2>1 DEF IInv, TypeOK, Stmt
  <2>4. /\ fut' \in [Op -> Task \cup {NoTask, Moved}] /\ fut'[slot] = NoTask
        /\ \A k \in Op : k # slot => fut'[k] = fut[k]
    BY <1>0, <2>1 DEF IInv, TypeOK
  <2>5. \A k \in Op : fut'[k] # t
    BY <1>0, <2>1, <2>4, ConstantsAssumption DEF IInv, NoOrphanWorker
  <2>6. \A k \in Op : fut[k] \in Task /\ fut[k] # t <=> fut'[k] \in Task
    BY <1>0, <2>1, <2>4, <2>5, ConstantsAssumption
  <2>7. \A k \in Op : fut'[k] \in Task => fut'[k] = fut[k]
    BY <2>4, ConstantsAssumption
  <2>8. call.held \notin Task /\ frame[Caller].pc = "free"
    BY DEF LightCall, IInv, CallShape
  <2> HIDE DEF t, status
  <2>9. /\ frame' \in [Actor -> Frame]
        /\ NoOrphanWorker'
        /\ frame'[Caller].pc = "free"
        /\ \A k \in Op : fut'[k] \in Task => frame'[fut'[k]].op = k
        /\ ChildToRead'
    BY <2>1, <2>2, <2>3, <2>4, <2>5, <2>6, <2>7, <2>8, ReleaseShape
  <2>10. CallShape'
    BY <2>2, <2>9, ConstantsAssumption DEF CallShape
  <2>11. QED
    BY <2>2, <2>3, <2>4, <2>9, <2>10 DEF IInv, TypeOK
<1>6. QED
  BY <1>1, <1>2, <1>3, <1>4, <1>5 DEF PollFuture

LEMMA LightPc ==
  ASSUME IInv, call.pc \in {"idle", "pollPrepare", "pollExecute", "proceed",
                            "mark", "destroy", "freed"}
  PROVE  LightCall
BY DEF IInv, CallShape, LightCall

LEMMA SQLPrepareInv ==
  ASSUME IInv, NEW q \in Query, SQLPrepare(q)
  PROVE  IInv'
<1>1. LightCall /\ "prepare" \in Op
  BY LightPc DEF SQLPrepare, Enter, Op
<1>2. CASE /\ Suspend("prepare", q, "pollPrepare", NoTask, "none")
           /\ UNCHANGED <<stmt, fut, frame>>
  BY <1>1, <1>2, LightSuspendInv
<1>3. CASE /\ stmt' = [stmt EXCEPT !.canceled = FALSE, !.state = "NotPrepared"]
           /\ ReplyNow("prepare", q, "SUCCESS", "none", TRUE)
           /\ UNCHANGED <<fut, frame>>
  BY <1>1, <1>3, ReplyNowType, LightReplyInv
     DEF IInv, TypeOK, Stmt, StmtStates, Code, Status
<1>4. CASE LaunchOrRun("prepare", q) /\ UNCHANGED <<stmt, fut>>
  BY <1>1, <1>4, LaunchOrRunInv DEF IInv, TypeOK
<1>5. QED
  BY <1>2, <1>3, <1>4 DEF SQLPrepare

LEMMA OutcomeType ==
  ASSUME IInv, NEW slot \in Op
  PROVE  Outcome(slot) \in Status
BY DEF Outcome, Status, IInv, TypeOK, Frame, Actor

LEMMA HandleAsyncPrepareInv ==
  ASSUME IInv, HandleAsyncPrepare
  PROVE  IInv'
<1>1. LightCall /\ "prepare" \in Op /\ "execute" \in Op
  BY LightPc DEF HandleAsyncPrepare, Op
<1>2. call.op \in Op /\ call.query \in Query \cup {NoQuery}
  BY DEF HandleAsyncPrepare, IInv, TypeOK, CallShape, Call, OpPc
<1>3. CASE PollFuture(call.op, call.query, "prepare", "NotPrepared")
  BY <1>1, <1>2, <1>3, PollFutureInv DEF StmtStates
<1>4. CASE /\ Suspend("execute", NoQuery, "proceed", NoTask, "none")
           /\ UNCHANGED <<stmt, fut, frame>>
  BY <1>1, <1>4, LightSuspendInv
<1>5. CASE /\ ReplyNow("prepare", call.query, "SUCCESS", Outcome("prepare"), FALSE)
           /\ UNCHANGED <<stmt, fut, frame>>
  BY <1>1, <1>2, <1>5, OutcomeType, ReplyNowType, LightReplyInv
     DEF IInv, TypeOK, Code
<1>6. QED
  BY <1>3, <1>4, <1>5 DEF HandleAsyncPrepare

LEMMA ExecuteProperInv ==
  ASSUME IInv, LightCall, ExecuteProper
  PROVE  IInv'
<1>1. "execute" \in Op
  BY DEF Op
<1>2. CASE ExecuteRefused
  BY <1>1, <1>2, ReplyNowType, LightReplyInv
     DEF ExecuteRefused, IInv, TypeOK, Code, Status
<1>3. CASE ExecuteCanceled
  <2>1. PICK code \in {"SUCCESS", "ERROR"} :
          ReplyNow("execute", NoQuery, code, "none", TRUE)
    BY <1>3 DEF ExecuteCanceled
  <2>2. call' = IdleCall /\ call' \in Call /\ obs' \in Obs
    BY <1>1, <2>1, ReplyNowType DEF Code, Status
  <2>3. stmt' \in Stmt /\ stmt'.children = stmt.children
    BY <1>3 DEF ExecuteCanceled, IInv, TypeOK, Stmt, StmtStates
  <2>4. QED
    BY <1>3, <2>2, <2>3, LightReplyInv DEF ExecuteCanceled
<1>4. CASE ExecutePrepared
  BY <1>1, <1>4, LaunchOrRunInv DEF ExecutePrepared, IInv, TypeOK
<1>5. CASE /\ Suspend("execute", NoQuery, "pollExecute", NoTask, "none")
           /\ UNCHANGED <<stmt, fut, frame>>
  BY <1>1, <1>5, LightSuspendInv
<1>6. QED
  BY <1>2, <1>3, <1>4, <1>5 DEF ExecuteProper

LEMMA SQLExecuteInv ==
  ASSUME IInv, SQLExecute
  PROVE  IInv'
<1>1. LightCall /\ "execute" \in Op
  BY LightPc DEF SQLExecute, Enter, Op
<1>2. CASE /\ Suspend("execute", NoQuery, "pollPrepare", NoTask, "none")
           /\ UNCHANGED <<stmt, fut, frame>>
  BY <1>1, <1>2, LightSuspendInv
<1>3. QED
  BY <1>1, <1>2, ExecuteProperInv DEF SQLExecute

LEMMA HandleAsyncExecuteInv ==
  ASSUME IInv, HandleAsyncExecute
  PROVE  IInv'
<1>1. LightCall /\ "execute" \in Op
  BY LightPc DEF HandleAsyncExecute, Op
<1>2. CASE PollFuture("execute", NoQuery, "execute", "Prepared")
  BY <1>1, <1>2, PollFutureInv DEF StmtStates
<1>3. CASE /\ ReplyNow("execute", NoQuery, "SUCCESS", Outcome("execute"), FALSE)
           /\ UNCHANGED <<stmt, fut, frame>>
  BY <1>1, <1>3, OutcomeType, ReplyNowType, LightReplyInv DEF IInv, TypeOK, Code
<1>4. QED
  BY <1>2, <1>3 DEF HandleAsyncExecute

LEMMA SQLExecuteProceedInv ==
  ASSUME IInv, SQLExecuteProceed
  PROVE  IInv'
BY LightPc, ExecuteProperInv DEF SQLExecuteProceed

\* A future is moved from its member into the call.
LEMMA TakeFutureInv ==
  ASSUME IInv, LightCall, NEW op \in Op, NEW q \in Query \cup {NoQuery},
         NEW pc \in {"join", "wait"}, NEW code \in Code,
         pc = "wait" => op = "execDirect" /\ fut'[op] = Moved,
         fut[op] \in Task, NEW left \in {NoTask, Moved},
         fut' = [fut EXCEPT ![op] = left],
         Suspend(op, q, pc, fut[op], code),
         stmt' \in Stmt, stmt'.children = stmt.children, UNCHANGED frame
  PROVE  IInv'
<1>1. /\ call' \in Call /\ obs' = obs
      /\ call'.op = op /\ call'.pc = pc /\ call'.held = fut[op]
  BY SuspendType DEF OpPc
<1>2. /\ fut' \in [Op -> Task \cup {NoTask, Moved}]
      /\ fut'[op] \notin Task
      /\ \A k \in Op : k # op => fut'[k] = fut[k]
  BY ConstantsAssumption DEF IInv, TypeOK
<1>3. TypeOK'
  BY <1>1, <1>2 DEF IInv, TypeOK
<1>4. NoOrphanWorker'
  <2>1. \A u \in Task : Owned(u)' <=> Owned(u)
    BY <1>1, <1>2 DEF Owned, LightCall
  <2>2. \A u \in Task : Owned(u)' <=> frame'[u].pc # "free"
    BY <2>1 DEF IInv, NoOrphanWorker
  <2>3. \A k, l \in Op : fut'[k] \in Task /\ fut'[k] = fut'[l] => k = l
    BY <1>2 DEF IInv, NoOrphanWorker
  <2>4. \A k \in Op : fut'[k] # fut[op]
    BY <1>2 DEF IInv, NoOrphanWorker
  <2>5. QED
    BY <1>1, <2>2, <2>3, <2>4 DEF NoOrphanWorker
<1>5. CallShape'
  BY <1>1, <1>2 DEF IInv, CallShape, LightCall, OpPc
<1>6. ChildToRead'
  BY DEF IInv, ChildToRead
<1>7. QED
  BY <1>3, <1>4, <1>5, <1>6 DEF IInv

LEMMA SQLExecDirectInv ==
  ASSUME IInv, NEW q \in Query, SQLExecDirect(q)
  PROVE  IInv'
<1>1. LightCall /\ "execDirect" \in Op
  BY LightPc DEF SQLExecDirect, Enter, Op
<1>2. CASE /\ ReplyNow("execDirect", q, "24000", "none", FALSE)
           /\ UNCHANGED <<stmt, fut, frame>>
  BY <1>1, <1>2, ReplyNowType, LightReplyInv DEF IInv, TypeOK, Code, Status
<1>3. CASE /\ fut["execDirect"] \in Task
           /\ stmt' = [stmt EXCEPT !.query = q]
           /\ fut' = [fut EXCEPT !["execDirect"] = Moved]
           /\ Suspend("execDirect", q, "wait", fut["execDirect"], "none")
           /\ UNCHANGED frame
  <2>1. stmt' \in Stmt /\ stmt'.children = stmt.children
    BY <1>3 DEF IInv, TypeOK, Stmt
  <2>2. fut'["execDirect"] = Moved
    BY <1>1, <1>3 DEF IInv, TypeOK
  <2>3. QED
    BY <1>1, <1>3, <2>1, <2>2, TakeFutureInv DEF Code
<1>4. CASE /\ stmt' = [stmt EXCEPT !.query = q, !.canceled = FALSE,
                                   !.state = "NotPrepared"]
           /\ ReplyNow("execDirect", q, "SUCCESS", "none", TRUE)
           /\ UNCHANGED <<fut, frame>>
  <2>1. stmt' \in Stmt /\ stmt'.children = stmt.children
    BY <1>4 DEF IInv, TypeOK, Stmt, StmtStates
  <2>2. QED
    BY <1>1, <1>4, <2>1, ReplyNowType, LightReplyInv DEF Code, Status
<1>5. CASE /\ stmt' = [stmt EXCEPT !.query = q]
           /\ LaunchOrRun("execDirect", q)
           /\ UNCHANGED fut
  BY <1>1, <1>5, LaunchOrRunInv DEF IInv, TypeOK, Stmt
<1>6. QED
  BY <1>2, <1>3, <1>4, <1>5 DEF SQLExecDirect

\* The call that waited for its task returns.
LEMMA ReleaseInv ==
  ASSUME IInv, call.held \in Task, call' = IdleCall, call' \in Call,
         obs' \in Obs, stmt' \in Stmt, stmt'.children = stmt.children,
         frame' = [frame EXCEPT ![call.held] = IdleFrame],
         fut' \in [Op -> Task \cup {NoTask, Moved}],
         \A k \in Op : fut[k] \in Task <=> fut'[k] \in Task,
         \A k \in Op : fut'[k] \in Task => fut'[k] = fut[k]
  PROVE  IInv'
<1> DEFINE t == call.held
<1>1. \A k \in Op : fut[k] # t /\ fut'[k] # t
  BY DEF IInv, NoOrphanWorker
<1>2. frame[Caller].pc = "free"
  BY DEF IInv, CallShape
<1>3. call'.held = NoTask /\ call'.pc = "idle" /\ call'.op = "none"
  BY DEF IdleCall
<1>4. /\ frame' \in [Actor -> Frame]
      /\ NoOrphanWorker'
      /\ frame'[Caller].pc = "free"
      /\ \A k \in Op : fut'[k] \in Task => frame'[fut'[k]].op = k
      /\ ChildToRead'
  <2> HIDE DEF t
  <2>1. t \in Task /\ t = call.held
    BY DEF t
  <2>2. \A k \in Op : fut[k] \in Task /\ fut[k] # t <=> fut'[k] \in Task
    BY <1>1
  <2>3. QED
    BY <1>1, <1>2, <1>3, <2>1, <2>2, ReleaseShape
<1>5. TypeOK'
  BY <1>4 DEF TypeOK
<1>6. CallShape'
  BY <1>3, <1>4, ConstantsAssumption DEF CallShape, OpPc, Op
<1>7. QED
  BY <1>4, <1>5, <1>6 DEF IInv

LEMMA SQLExecDirectResumeInv ==
  ASSUME IInv, SQLExecDirectResume
  PROVE  IInv'
<1>1. /\ call.pc = "wait" /\ call.held \in Task /\ "execDirect" \in Op
      /\ fut["execDirect"] = Moved
  BY DEF SQLExecDirectResume, IInv, CallShape, Op
<1>2. /\ call.query \in Query \cup {NoQuery} /\ call.started \in BOOLEAN
      /\ frame[call.held].status \in Status
  BY <1>1 DEF IInv, TypeOK, Call, Frame, Actor
<1>3. call' = IdleCall /\ call' \in Call /\ obs' \in Obs
  BY <1>1, <1>2, ReplyType DEF SQLExecDirectResume, Code
<1>4. stmt' \in Stmt /\ stmt'.children = stmt.children
  BY DEF SQLExecDirectResume, IInv, TypeOK, Stmt, StmtStates
<1>5. /\ fut' \in [Op -> Task \cup {NoTask, Moved}]
      /\ fut'["execDirect"] = NoTask
      /\ \A k \in Op : k # "execDirect" => fut'[k] = fut[k]
  BY <1>1 DEF SQLExecDirectResume, IInv, TypeOK
<1>6. /\ \A k \in Op : fut[k] \in Task <=> fut'[k] \in Task
      /\ \A k \in Op : fut'[k] \in Task => fut'[k] = fut[k]
  BY <1>1, <1>5, ConstantsAssumption
<1>7. QED
  BY <1>1, <1>3, <1>4, <1>5, <1>6, ReleaseInv DEF SQLExecDirectResume

LEMMA JoinInv ==
  ASSUME IInv, Join
  PROVE  IInv'
<1>1. call.held \in Task /\ call.op \in Op
  BY DEF Join, IInv, CallShape, OpPc
<1>2. /\ call.query \in Query \cup {NoQuery} /\ call.started \in BOOLEAN
      /\ frame[call.held].status \in Status /\ call.code \in Code
      /\ (call.code = "HY008") \in BOOLEAN
  BY <1>1 DEF IInv, TypeOK, Call, Frame, Actor
<1>3. call' = IdleCall /\ call' \in Call /\ obs' \in Obs
  BY <1>1, <1>2, ReplyType DEF Join
<1>4. QED
  BY <1>1, <1>3, ReleaseInv DEF Join, IInv, TypeOK

\* No body that walks to the next result set is at work when no future and
\* no call stands for one.
LEMMA NoMoreResultsBody ==
  ASSUME IInv, LightCall, fut["moreResults"] = NoTask, NEW a \in Actor,
         frame[a].pc # "free"
  PROVE  frame[a].op # "moreResults"
<1>1. a # Caller
  BY DEF IInv, CallShape, LightCall
<1>2. a \in Task
  BY <1>1 DEF Actor
<1>3. PICK k \in Op : fut[k] = a
  BY <1>2 DEF IInv, NoOrphanWorker, Owned, LightCall
<1>4. QED
  BY <1>2, <1>3, ConstantsAssumption DEF IInv, CallShape

LEMMA SQLMoreResultsInv ==
  ASSUME IInv, SQLMoreResults
  PROVE  IInv'
<1> DEFINE op == "moreResults"
<1>1. LightCall /\ op \in Op
  BY LightPc DEF SQLMoreResults, Enter, Op
<1>2. CASE /\ stmt' = [stmt EXCEPT !.canceled = FALSE, !.state = "NotPrepared"]
           /\ fut' = [fut EXCEPT ![op] = NoTask]
           /\ IF fut[op] \in Task
              THEN Suspend(op, NoQuery, "join", fut[op], "HY008")
              ELSE ReplyNow(op, NoQuery, "HY008", "none", TRUE)
           /\ UNCHANGED frame
  <2>1. stmt' \in Stmt /\ stmt'.children = stmt.children
    BY <1>2 DEF IInv, TypeOK, Stmt, StmtStates
  <2>2. CASE fut[op] \in Task
    BY <1>1, <1>2, <2>1, <2>2, TakeFutureInv DEF Code
  <2>3. CASE fut[op] \notin Task
    <3>1. call' = IdleCall /\ call' \in Call /\ obs' \in Obs
      BY <1>1, <1>2, <2>3, ReplyNowType DEF Code, Status
    <3>2. /\ fut' \in [Op -> Task \cup {NoTask, Moved}]
          /\ fut'[op] = NoTask
          /\ \A k \in Op : k # op => fut'[k] = fut[k]
      BY <1>1, <1>2 DEF IInv, TypeOK
    <3>3. /\ \A k \in Op : fut[k] \in Task <=> fut'[k] \in Task
          /\ \A k \in Op : fut'[k] \in Task => fut'[k] = fut[k]
      BY <2>3, <3>2, ConstantsAssumption
    <3>4. TypeOK'
      BY <1>2, <2>1, <3>1, <3>2 DEF IInv, TypeOK
    <3>5. NoOrphanWorker'
      BY <1>1, <1>2, <3>1, <3>3, ConstantsAssumption
         DEF IInv, NoOrphanWorker, Owned, LightCall, IdleCall
    <3>6. CallShape'
      BY <1>1, <1>2, <3>1, <3>3, ConstantsAssumption
         DEF IInv, CallShape, LightCall, IdleCall, OpPc, Op
    <3>7. ChildToRead'
      BY <1>2, <2>1 DEF IInv, ChildToRead
    <3>8. QED
      BY <3>4, <3>5, <3>6, <3>7 DEF IInv
  <2>4. QED
    BY <2>2, <2>3
<1>3. CASE /\ fut[op] \in Task
           /\ fut' = [fut EXCEPT ![op] = Moved]
           /\ Suspend(op, NoQuery, "join", fut[op], "SUCCESS")
           /\ UNCHANGED <<stmt, frame>>
  BY <1>1, <1>3, TakeFutureInv DEF Code, IInv, TypeOK
<1>4. CASE /\ ReplyNow(op, NoQuery, "SUCCESS", "none", FALSE)
           /\ UNCHANGED <<stmt, fut, frame>>
  BY <1>1, <1>4, ReplyNowType, LightReplyInv DEF IInv, TypeOK, Code, Status
<1>5. CASE /\ fut[op] = NoTask
           /\ stmt' = [stmt EXCEPT !.children = <<>>,
                                   !.state = "ExecutedWithoutRs"]
           /\ ReplyNow(op, NoQuery, "NO_DATA", "none", FALSE)
           /\ UNCHANGED <<fut, frame>>
  <2>1. stmt' \in Stmt
    <3>1. <<>> \in Seq([of : Query, type : JobType])
      BY EmptySeq
    <3> DEFINE none == <<>>
    <3>2. stmt' = [stmt EXCEPT !.children = none, !.state = "ExecutedWithoutRs"]
      BY <1>5
    <3> HIDE DEF none
    <3>3. none \in Seq([of : Query, type : JobType])
      BY <3>1 DEF none
    <3>4. QED
      BY <3>2, <3>3 DEF IInv, TypeOK, Stmt, StmtStates
  <2>2. call' = IdleCall /\ call' \in Call /\ obs' \in Obs
    BY <1>1, <1>5, ReplyNowType DEF Code, Status
  <2>3. TypeOK'
    BY <1>5, <2>1, <2>2 DEF IInv, TypeOK
  <2>4. NoOrphanWorker'
    BY <1>1, <1>5, <2>2, ConstantsAssumption
       DEF IInv, NoOrphanWorker, Owned, LightCall, IdleCall
  <2>5. CallShape'
    BY <1>1, <1>5, <2>2, ConstantsAssumption
       DEF IInv, CallShape, LightCall, IdleCall, OpPc, Op
  <2>6. ChildToRead'
    BY <1>1, <1>5, NoMoreResultsBody DEF ChildToRead
  <2>7. QED
    BY <2>3, <2>4, <2>5, <2>6 DEF IInv
<1>6. CASE /\ Len(stmt.children) > 1
           /\ stmt' = [stmt EXCEPT !.children = SubSeq(@, 1, Len(@) - 1)]
           /\ LaunchOrRun(op, NoQuery)
           /\ UNCHANGED fut
  <2> DEFINE Child == [of : Query, type : JobType]
             rest == SubSeq(stmt.children, 1, Len(stmt.children) - 1)
  <2>1. stmt.children \in Seq(Child) /\ Len(stmt.children) \in Nat
    BY LenProperties DEF IInv, TypeOK, Stmt
  <2>2. rest \in Seq(Child) /\ Len(rest) = Len(stmt.children) - 1
    <3> HIDE DEF Child
    <3>1. \A i \in 1 .. Len(stmt.children) - 1 : stmt.children[i] \in Child
      BY <2>1, ElementOfSeq
    <3>2. QED
      BY <1>6, <2>1, <3>1, SubSeqProperties
  <2>3. rest # <<>>
    <3> HIDE DEF rest, Child
    <3>1. QED
      BY <1>6, <2>1, <2>2, EmptySeq
  <2>4. stmt' \in Stmt /\ stmt'.children = rest
    <3>1. stmt' = [stmt EXCEPT !.children = rest]
      BY <1>6 DEF IInv, TypeOK, Stmt
    <3> HIDE DEF rest
    <3>2. QED
      BY <2>2, <3>1 DEF IInv, TypeOK, Stmt
  <2>5. QED
    BY <1>1, <1>6, <2>3, <2>4, LaunchOrRunInv
<1>7. QED
  BY <1>2, <1>3, <1>4, <1>5, <1>6 DEF SQLMoreResults

LEMMA StoreFutureInv ==
  ASSUME IInv, StoreFuture
  PROVE  IInv'
<1> DEFINE t   == call.held
           op  == call.op
           old == fut[op]
<1>1. t \in Task /\ op \in Op /\ frame[t].op = op /\ frame[Caller].pc = "free"
  BY DEF StoreFuture, IInv, CallShape, OpPc
<1>2. /\ call' \in Call /\ call'.pc = "mark" /\ call'.op = op
      /\ call'.held = NoTask /\ obs' = obs /\ stmt' = stmt
  BY DEF StoreFuture, IInv, TypeOK, Call, OpPc
<1>3. /\ fut' \in [Op -> Task \cup {NoTask, Moved}] /\ fut'[op] = t
      /\ \A k \in Op : k # op => fut'[k] = fut[k]
  BY <1>1 DEF StoreFuture, IInv, TypeOK
<1>4. /\ \A k \in Op : fut[k] # t
      /\ old # t
  BY <1>1 DEF IInv, NoOrphanWorker
<1>5. IdleFrame \in Frame /\ IdleFrame.pc = "free"
  BY DEF IdleFrame, Frame, Status
<1>6. /\ frame' \in [Actor -> Frame]
      /\ old \in Task => frame'[old] = IdleFrame
      /\ \A b \in Actor : b # old => frame'[b] = frame[b]
      /\ old \notin Task => frame' = frame
  BY <1>5 DEF StoreFuture, IInv, TypeOK, Actor
<1>7. frame'[Caller] = frame[Caller]
  BY <1>6, ConstantsAssumption DEF Actor
<1> HIDE DEF t, op, old
<1>8. TypeOK'
  BY <1>2, <1>3, <1>6 DEF IInv, TypeOK
<1>9. NoOrphanWorker'
  <2>1. \A k \in Op : k # op => fut[k] # old \/ old \notin Task
    BY <1>1 DEF IInv, NoOrphanWorker, old
  <2>2. ASSUME NEW u \in Task
        PROVE  Owned(u)' <=> frame'[u].pc # "free"
    <3>1. CASE u = old
      BY <1>2, <1>3, <1>4, <1>5, <1>6, <2>1, <3>1, ConstantsAssumption DEF Owned
    <3>2. CASE u # old
      <4>1. Owned(u)' <=> Owned(u)
        BY <1>1, <1>2, <1>3, <3>2, ConstantsAssumption DEF Owned, t, old
      <4>2. frame'[u] = frame[u]
        BY <1>6, <3>2 DEF Actor
      <4>3. QED
        BY <4>1, <4>2 DEF IInv, NoOrphanWorker
    <3>3. QED
      BY <3>1, <3>2
  <2>3. \A k, l \in Op : fut'[k] \in Task /\ fut'[k] = fut'[l] => k = l
    BY <1>3, <1>4 DEF IInv, NoOrphanWorker
  <2>4. QED
    BY <1>2, <2>2, <2>3, ConstantsAssumption DEF NoOrphanWorker
<1>10. CallShape'
  <2>1. frame'[Caller] = frame[Caller] /\ frame'[t] = frame[t]
    BY <1>1, <1>4, <1>6, <1>7 DEF Actor
  <2>2. \A k \in Op : fut'[k] \in Task => frame'[fut'[k]].op = k
    <3>1. ASSUME NEW k \in Op, k # op, fut[k] \in Task
          PROVE  frame'[fut[k]] = frame[fut[k]]
      <4>1. fut[k] # old
        BY <1>1, <3>1 DEF IInv, NoOrphanWorker, old
      <4>2. QED
        BY <1>6, <3>1, <4>1 DEF Actor
    <3>2. QED
      BY <1>1, <1>3, <2>1, <3>1 DEF IInv, CallShape
  <2>3. QED
    BY <1>1, <1>2, <2>1, <2>2, ConstantsAssumption DEF CallShape, OpPc
<1>11. ChildToRead'
  BY <1>2, <1>5, <1>6 DEF IInv, ChildToRead
<1>12. QED
  BY <1>8, <1>9, <1>10, <1>11 DEF IInv

LEMMA MarkStillExecutingInv ==
  ASSUME IInv, MarkStillExecuting
  PROVE  IInv'
<1>1. LightCall
  BY LightPc DEF MarkStillExecuting
<1>2. /\ call.op \in Op /\ call.query \in Query \cup {NoQuery}
      /\ call.started \in BOOLEAN /\ call.code \in Code
  BY DEF MarkStillExecuting, IInv, TypeOK, CallShape, Call, OpPc
<1>3. call' = IdleCall /\ call' \in Call /\ obs' \in Obs
  BY <1>2, ReplyType DEF MarkStillExecuting, Status
<1>4. stmt' \in Stmt /\ stmt'.children = stmt.children
  BY DEF MarkStillExecuting, MarkedState, IInv, TypeOK, Stmt, StmtStates
<1>5. QED
  BY <1>1, <1>3, <1>4, LightReplyInv DEF MarkStillExecuting

LEMMA BodyReturnInv ==
  ASSUME IInv, BodyReturn
  PROVE  IInv'
<1> DEFINE status == frame[Caller].status
<1>1. /\ call.op \in Op /\ call.query \in Query \cup {NoQuery}
      /\ call.started \in BOOLEAN /\ status \in Status
      /\ call.held \notin Task
  BY DEF BodyReturn, IInv, TypeOK, CallShape, Call, OpPc, Frame, Actor
<1>2. /\ stmt' = [stmt EXCEPT !.state =
                    IF status = "needData" THEN "NeedsParams" ELSE @]
      /\ Reply(call.op, call.query, call.started, CodeOf(status), status, FALSE)
      /\ frame' = [frame EXCEPT ![Caller] = IdleFrame]
      /\ fut' = fut
  BY DEF BodyReturn
<1> HIDE DEF status
<1>3. call' = IdleCall /\ call' \in Call /\ obs' \in Obs
  BY <1>1, <1>2, ReplyType, CodeOfType
<1>4. stmt' \in Stmt /\ stmt'.children = stmt.children
  BY <1>2 DEF IInv, TypeOK, Stmt, StmtStates
<1>5. IdleFrame \in Frame /\ IdleFrame.pc = "free"
  BY DEF IdleFrame, Frame, Status
<1>6. /\ frame' \in [Actor -> Frame] /\ frame'[Caller] = IdleFrame
      /\ \A b \in Actor : b # Caller => frame'[b] = frame[b]
  BY <1>2, <1>5 DEF IInv, TypeOK, Actor
<1>7. TypeOK'
  BY <1>2, <1>3, <1>4, <1>6 DEF IInv, TypeOK
<1>8. NoOrphanWorker'
  BY <1>1, <1>2, <1>3, <1>6, ConstantsAssumption
     DEF IInv, NoOrphanWorker, Owned, IdleCall, Actor
<1>9. CallShape'
  BY <1>2, <1>3, <1>5, <1>6, ConstantsAssumption
     DEF IInv, CallShape, IdleCall, OpPc, Op, Actor
<1>10. ChildToRead'
  BY <1>4, <1>5, <1>6 DEF IInv, ChildToRead
<1>11. QED
  BY <1>7, <1>8, <1>9, <1>10 DEF IInv

\* A call that changes only the statement, and leaves its children alone.
LEMMA StatementOnlyInv ==
  ASSUME IInv, stmt' \in Stmt, stmt'.children = stmt.children,
         UNCHANGED <<fut, frame, call, obs>>
  PROVE  IInv'
BY DEF IInv, TypeOK, NoOrphanWorker, Owned, CallShape, ChildToRead

LEMMA StatementCallsInv ==
  ASSUME IInv,
         \/ SQLCancel
         \/ SQLCloseCursor
         \/ SQLFreeStmtClose
         \/ \E b \in AsyncModes : SQLSetAsyncEnable(b)
  PROVE  IInv'
<1>0. stmt \in Stmt
  BY DEF IInv, TypeOK
<1>1. stmt' \in Stmt /\ stmt'.children = stmt.children
  <2>1. CASE SQLCancel
    BY <1>0, <2>1 DEF SQLCancel, Stmt, StmtStates
  <2>2. CASE CloseCursor
    <3> DEFINE closed == IF stmt.prepared THEN "Prepared" ELSE "NotPrepared"
    <3>1. stmt' = [stmt EXCEPT !.rows = NoQuery, !.shown = 0, !.state = closed]
      BY <2>2 DEF CloseCursor
    <3>2. closed \in StmtStates
      BY DEF StmtStates
    <3> HIDE DEF closed
    <3>3. 0 \in Nat
      OBVIOUS
    <3> QED BY <1>0, <3>1, <3>2, <3>3 DEF Stmt
  <2>3. ASSUME NEW b \in AsyncModes, SQLSetAsyncEnable(b)
        PROVE  stmt' \in Stmt /\ stmt'.children = stmt.children
    BY <1>0, <2>3 DEF SQLSetAsyncEnable, Stmt
  <2> QED BY <2>1, <2>2, <2>3 DEF SQLCloseCursor, SQLFreeStmtClose
<1>2. QED
  BY <1>1, StatementOnlyInv
     DEF SQLCancel, SQLCloseCursor, SQLFreeStmtClose, SQLSetAsyncEnable

LEMMA SQLFreeHandleInv ==
  ASSUME IInv, SQLFreeHandle
  PROVE  IInv'
<1>1. LightCall
  BY LightPc DEF SQLFreeHandle, Enter
<1>2. /\ call' \in Call /\ obs' = obs /\ call'.op = "freeHandle"
      /\ call'.pc = "destroy" /\ call'.held = NoTask
  BY StartedType DEF SQLFreeHandle, Suspend, Call, Code, Polling
<1>3. TypeOK'
  BY <1>2 DEF SQLFreeHandle, IInv, TypeOK
<1>4. NoOrphanWorker'
  BY <1>1, <1>2, ConstantsAssumption
     DEF SQLFreeHandle, IInv, NoOrphanWorker, Owned, LightCall
<1>5. CallShape'
  BY <1>1, <1>2, ConstantsAssumption
     DEF SQLFreeHandle, IInv, CallShape, LightCall, OpPc, Op
<1>6. ChildToRead'
  BY DEF SQLFreeHandle, IInv, ChildToRead
<1>7. QED
  BY <1>3, <1>4, <1>5, <1>6 DEF IInv

LEMMA DestroyFuturesInv ==
  ASSUME IInv, DestroyFutures
  PROVE  IInv'
<1>1. IdleFrame \in Frame /\ IdleFrame.pc = "free"
  BY DEF IdleFrame, Frame, Status
<1>2. /\ call' \in Call /\ call'.pc = "freed" /\ call'.op = "none"
      /\ call'.held = NoTask
  BY DEF DestroyFutures, IdleCall, Call, Code
<1>3. /\ frame' \in [Actor -> Frame]
      /\ \A a \in Actor : frame'[a] = IdleFrame
  BY <1>1 DEF DestroyFutures
<1>4. fut' \in [Op -> Task \cup {NoTask, Moved}] /\ \A k \in Op : fut'[k] = NoTask
  BY DEF DestroyFutures
<1>5. TypeOK'
  BY <1>2, <1>3, <1>4 DEF DestroyFutures, IInv, TypeOK
<1>6. NoOrphanWorker'
  BY <1>1, <1>2, <1>3, <1>4, ConstantsAssumption
     DEF NoOrphanWorker, Owned, Actor
<1>7. CallShape'
  BY <1>1, <1>2, <1>3, <1>4, ConstantsAssumption
     DEF CallShape, OpPc, Op, Actor
<1>8. ChildToRead'
  BY <1>1, <1>3 DEF ChildToRead
<1>9. QED
  BY <1>5, <1>6, <1>7, <1>8 DEF IInv

LEMMA NewStmtType ==
  ASSUME NEW b \in AsyncModes
  PROVE  NewStmt(b) \in Stmt /\ NewStmt(b).children = <<>>
BY EmptySeq DEF NewStmt, Stmt, StmtStates

LEMMA SQLAllocHandleInv ==
  ASSUME IInv, SQLAllocHandle
  PROVE  IInv'
<1>1. LightCall /\ \A k \in Op : fut[k] = NoTask
  BY LightPc DEF SQLAllocHandle, IInv, CallShape
<1>2. call' \in Call /\ call' = IdleCall
  BY DEF SQLAllocHandle, IdleCall, Call, Code
<1>3. stmt' \in Stmt
  BY NewStmtType DEF SQLAllocHandle
<1>4. obs' \in Obs
  BY DEF SQLAllocHandle, IInv, TypeOK, Obs, Code, Status
<1>5. TypeOK'
  BY <1>2, <1>3, <1>4 DEF SQLAllocHandle, IInv, TypeOK
<1>6. NoOrphanWorker'
  BY <1>1, <1>2, ConstantsAssumption
     DEF SQLAllocHandle, IInv, NoOrphanWorker, Owned, LightCall, IdleCall
<1>7. CallShape'
  BY <1>1, <1>2, ConstantsAssumption
     DEF SQLAllocHandle, IInv, CallShape, LightCall, IdleCall, OpPc, Op
<1>8. ChildToRead'
  BY <1>1, NoMoreResultsBody DEF SQLAllocHandle, ChildToRead, Op
<1>9. QED
  BY <1>5, <1>6, <1>7, <1>8 DEF IInv

LEMMA InitInv == Init => IInv
<1> SUFFICES ASSUME Init PROVE IInv
  OBVIOUS
<1>1. stmt \in Stmt
  BY NewStmtType DEF Init
<1>2. frame \in [Actor -> Frame] /\ \A a \in Actor : frame[a].pc = "free"
  BY DEF Init, IdleFrame, Frame, Status
<1>3. call \in Call /\ call.pc = "idle" /\ call.held = NoTask /\ call.op = "none"
  BY DEF Init, IdleCall, Call, Code
<1>4. fut \in [Op -> Task \cup {NoTask, Moved}] /\ \A k \in Op : fut[k] = NoTask
  BY DEF Init
<1>5. obs \in Obs
  BY DEF Init, Obs, Code, Status
<1>6. TypeOK
  BY <1>1, <1>2, <1>3, <1>4, <1>5 DEF TypeOK
<1>7. NoOrphanWorker
  BY <1>2, <1>3, <1>4, ConstantsAssumption DEF NoOrphanWorker, Owned, Actor
<1>8. CallShape
  BY <1>2, <1>3, <1>4, ConstantsAssumption DEF CallShape, OpPc, Op, Actor
<1>9. ChildToRead
  BY <1>2 DEF ChildToRead
<1>10. QED
  BY <1>6, <1>7, <1>8, <1>9 DEF IInv

\* Every step keeps the invariant.
LEMMA NextInv == IInv /\ [Next]_vars => IInv'
<1> SUFFICES ASSUME IInv, [Next]_vars PROVE IInv'
  OBVIOUS
<1>1. CASE Request
  BY <1>1, SQLPrepareInv, SQLExecuteInv, SQLExecDirectInv, SQLMoreResultsInv,
     StatementCallsInv, SQLFreeHandleInv, SQLAllocHandleInv DEF Request
<1>2. CASE CallStep
  BY <1>2, HandleAsyncPrepareInv, HandleAsyncExecuteInv, SQLExecuteProceedInv,
     SQLExecDirectResumeInv, StoreFutureInv, MarkStillExecutingInv, JoinInv,
     BodyReturnInv, DestroyFuturesInv DEF CallStep
<1>3. CASE \E a \in Actor : BodyStep(a)
  BY <1>3, BodyStepInv
<1>4. CASE UNCHANGED vars
  BY <1>4 DEF vars, IInv, TypeOK, NoOrphanWorker, Owned, CallShape, ChildToRead
<1>5. QED
  BY <1>1, <1>2, <1>3, <1>4 DEF Next

LEMMA Invariance == Spec => []IInv
BY InitInv, NextInv, PTL DEF Spec

-----------------------------------------------------------------------------
(* The theorems.                                                           *)

\* Every variable keeps its kind of value, whatever the queries, the tasks
\* and the functions the application calls.
THEOREM TypeCorrect == Spec => []TypeOK
<1>1. IInv => TypeOK
  BY DEF IInv
<1>2. QED
  BY <1>1, Invariance, PTL

\* No task ever loses its future or has two of them, for any number of tasks:
\* what is moved out of a member of the statement is always waited for.
THEOREM NoOrphan == Spec => []NoOrphanWorker
<1>1. IInv => NoOrphanWorker
  BY DEF IInv
<1>2. QED
  BY <1>1, Invariance, PTL

\* The tasks that work on the statement, and what WorkerLifetime calls phase.
Alive == {t \in Task : Running(t)}

Phase == CASE call.pc = "destroy" -> "closing"
           [] call.pc = "freed"   -> "freed"
           [] OTHER               -> "live"

LEMMA AliveUnchanged ==
  ASSUME \A t \in Task : Running(t)' <=> Running(t)
  PROVE  Alive' = Alive
BY DEF Alive

\* A task that is put to rest was done: it did not work any more.
LEMMA RestUnchanged ==
  ASSUME IInv, NEW t \in Task, frame[t].pc = "done",
         frame' = [frame EXCEPT ![t] = IdleFrame]
  PROVE  Alive' = Alive
<1>1. frame'[t].pc = "free" /\ \A b \in Actor : b # t => frame'[b] = frame[b]
  BY DEF IInv, TypeOK, IdleFrame, Actor
<1>2. QED
  BY <1>1, AliveUnchanged DEF Running, Actor

LEMMA CallerUnchanged ==
  ASSUME IInv, NEW f, frame' = [frame EXCEPT ![Caller] = f]
  PROVE  Alive' = Alive
<1>1. \A t \in Task : frame'[t] = frame[t]
  BY ConstantsAssumption DEF IInv, TypeOK, Actor
<1>2. QED
  BY <1>1, AliveUnchanged DEF Running

\* A task is forked, or the call runs the body itself.
LEMMA LaunchOrRunForks ==
  ASSUME IInv, call.pc \in {"idle", "proceed"}, NEW op \in Op,
         NEW q \in Query \cup {NoQuery}, LaunchOrRun(op, q)
  PROVE  Phase' = Phase /\ (Alive' = Alive
                            \/ \E t \in Task : t \notin Alive /\ Alive' = Alive \cup {t})
<1>1. CASE Launch(op, q)
  <2>1. PICK t \in Task : /\ frame[t].pc = "free"
                          /\ frame' = [frame EXCEPT ![t] = NewFrame(op, q)]
                          /\ Suspend(op, q, "store", t, "STILL_EXECUTING")
    BY <1>1 DEF Launch
  <2>2. /\ frame'[t] = NewFrame(op, q)
        /\ \A b \in Actor : b # t => frame'[b] = frame[b]
    BY <2>1 DEF IInv, TypeOK, Actor
  <2>3. t \notin Alive /\ Alive' = Alive \cup {t}
    BY <2>1, <2>2, NewFrameType DEF Alive, Running, Actor
  <2>4. Phase' = Phase
    BY <2>1 DEF Suspend, Phase
  <2>5. QED
    BY <2>3, <2>4
<1>2. CASE RunInline(op, q)
  BY <1>2, CallerUnchanged DEF RunInline, Suspend, Phase
<1>3. QED
  BY <1>1, <1>2 DEF LaunchOrRun

LEMMA ExecuteProperForks ==
  ASSUME IInv, call.pc \in {"idle", "proceed"}, ExecuteProper
  PROVE  Phase' = Phase /\ (Alive' = Alive
                            \/ \E t \in Task : t \notin Alive /\ Alive' = Alive \cup {t})
<1>1. CASE UNCHANGED frame /\ Phase' = Phase
  BY <1>1, AliveUnchanged DEF Running
<1>2. CASE ExecuteRefused \/ ExecuteCanceled
  BY <1>1, <1>2
     DEF ExecuteRefused, ExecuteCanceled, ReplyNow, Reply, IdleCall, Phase
<1>3. CASE ExecutePrepared
  BY <1>3, LaunchOrRunForks DEF ExecutePrepared, Op
<1>4. CASE /\ Suspend("execute", NoQuery, "pollExecute", NoTask, "none")
           /\ UNCHANGED frame
  BY <1>1, <1>4 DEF Suspend, Phase
<1>5. QED
  BY <1>2, <1>3, <1>4 DEF ExecuteProper

\* A poll launches nothing; a task it takes the answer of was done.
LEMMA PollForksNothing ==
  ASSUME IInv, call.pc \in {"pollPrepare", "pollExecute"}, NEW op, NEW q,
         NEW slot \in Op, NEW failed, PollFuture(op, q, slot, failed)
  PROVE  Phase' = Phase /\ Alive' = Alive
<1>1. Phase' = Phase
  BY DEF PollFuture, PollCanceled, PollNoFuture, PollInvalidFuture,
         PollNotReady, PollReady, ReplyNow, Reply, Suspend, IdleCall, Phase
<1>2. CASE UNCHANGED frame
  BY <1>1, <1>2, AliveUnchanged DEF Running
<1>3. CASE PollReady(op, q, slot, failed)
  BY <1>1, <1>3, RestUnchanged DEF PollReady
<1>4. QED
  BY <1>2, <1>3 DEF PollFuture, PollCanceled, PollNoFuture, PollInvalidFuture,
                    PollNotReady

\* One step of a body ends its task or leaves it at work.
LEMMA BodyStepAlive ==
  ASSUME IInv, NEW a \in Actor, BodyStep(a)
  PROVE  /\ UNCHANGED <<fut, call>>
         /\ \A b \in Actor : b # a => frame'[b] = frame[b]
         /\ Running(a)
<1>1. UNCHANGED <<fut, call>>
  BY DEF BodyStep, PrepareQuery, MarkPrepared, ExecDirectBegin, ExecDirectPlan,
         ExecuteBegin, ExecuteFails, SelectSucceeds, DmlSucceeds,
         ScriptSucceeds, ScriptFailsLate, StoreRows, MoreResultsBegin,
         MoreResultsFails, MoreResultsSucceeds, BodyReturns, Succeeds
<1>2. Running(a)
  BY DEF BodyStep, PrepareQuery, MarkPrepared, ExecDirectBegin, ExecDirectPlan,
         ExecuteBegin, ExecuteFails, SelectSucceeds, DmlSucceeds,
         ScriptSucceeds, ScriptFailsLate, StoreRows, MoreResultsBegin,
         MoreResultsFails, MoreResultsSucceeds, BodyReturns, Succeeds,
         Executing, At, Running
<1>3. \A b \in Actor : b # a => frame'[b] = frame[b]
  BY DEF BodyStep, PrepareQuery, MarkPrepared, ExecDirectBegin, ExecDirectPlan,
         ExecuteBegin, ExecuteFails, SelectSucceeds, DmlSucceeds,
         ScriptSucceeds, ScriptFailsLate, StoreRows, MoreResultsBegin,
         MoreResultsFails, MoreResultsSucceeds, BodyReturns, Succeeds,
         Goto, Finish, IInv, TypeOK
<1>4. QED
  BY <1>1, <1>2, <1>3

\* A step of the statement, seen from its tasks.
Step ==
  \/ Phase' = Phase /\ Alive' = Alive
  \/ \E t \in Task : /\ Phase = "live" /\ Phase' = Phase
                     /\ t \notin Alive /\ Alive' = Alive \cup {t}
  \/ \E t \in Task : /\ Phase' = Phase
                     /\ t \in Alive /\ Alive' = Alive \ {t}
  \/ Phase = "live" /\ Phase' = "closing" /\ Alive' = Alive
  \/ Phase = "closing" /\ Alive = {} /\ Phase' = "freed" /\ Alive' = Alive
  \/ Phase = "freed" /\ Phase' = "live" /\ Alive' = Alive

LEMMA RequestStep ==
  ASSUME IInv, Request
  PROVE  Step
<1>1. CASE UNCHANGED frame /\ Phase' = Phase
  BY <1>1, AliveUnchanged DEF Running, Step
<1>2. ASSUME NEW q \in Query, SQLPrepare(q) PROVE Step
  <2>1. CASE LaunchOrRun("prepare", q)
    BY <1>2, <2>1, LaunchOrRunForks DEF SQLPrepare, Enter, Op, Phase, Step
  <2>2. CASE ~LaunchOrRun("prepare", q)
    BY <1>1, <1>2, <2>2
       DEF SQLPrepare, Enter, Suspend, ReplyNow, Reply, IdleCall, Phase
  <2>3. QED
    BY <2>1, <2>2
<1>3. CASE SQLExecute
  <2>1. CASE ExecuteProper
    BY <1>3, <2>1, ExecuteProperForks DEF SQLExecute, Enter, Phase, Step
  <2>2. CASE ~ExecuteProper
    BY <1>1, <1>3, <2>2 DEF SQLExecute, Enter, Suspend, Phase
  <2>3. QED
    BY <2>1, <2>2
<1>4. ASSUME NEW q \in Query, SQLExecDirect(q) PROVE Step
  <2>1. CASE LaunchOrRun("execDirect", q)
    BY <1>4, <2>1, LaunchOrRunForks DEF SQLExecDirect, Enter, Op, Phase, Step
  <2>2. CASE ~LaunchOrRun("execDirect", q)
    BY <1>1, <1>4, <2>2
       DEF SQLExecDirect, Enter, Suspend, ReplyNow, Reply, IdleCall, Phase
  <2>3. QED
    BY <2>1, <2>2
<1>5. CASE SQLMoreResults
  <2>1. CASE LaunchOrRun("moreResults", NoQuery)
    BY <1>5, <2>1, LaunchOrRunForks DEF SQLMoreResults, Enter, Op, Phase, Step
  <2>2. CASE ~LaunchOrRun("moreResults", NoQuery)
    BY <1>1, <1>5, <2>2
       DEF SQLMoreResults, Enter, Suspend, ReplyNow, Reply, IdleCall, Phase
  <2>3. QED
    BY <2>1, <2>2
<1>6. CASE \/ SQLCancel \/ SQLCloseCursor \/ SQLFreeStmtClose
           \/ \E b \in AsyncModes : SQLSetAsyncEnable(b)
  BY <1>1, <1>6
     DEF SQLCancel, SQLCloseCursor, SQLFreeStmtClose, SQLSetAsyncEnable, Phase
<1>7. CASE SQLFreeHandle
  BY <1>7, AliveUnchanged
     DEF SQLFreeHandle, Enter, Suspend, Phase, Step, Running
<1>8. CASE SQLAllocHandle
  BY <1>8, AliveUnchanged DEF SQLAllocHandle, IdleCall, Phase, Step, Running
<1>9. QED
  BY <1>2, <1>3, <1>4, <1>5, <1>6, <1>7, <1>8 DEF Request

LEMMA CallStepStep ==
  ASSUME IInv, CallStep
  PROVE  Step
<1>1. CASE HandleAsyncPrepare
  <2>1. CASE PollFuture(call.op, call.query, "prepare", "NotPrepared")
    BY <1>1, <2>1, PollForksNothing DEF HandleAsyncPrepare, Op, Step
  <2>2. CASE ~PollFuture(call.op, call.query, "prepare", "NotPrepared")
    BY <1>1, <2>2, AliveUnchanged
       DEF HandleAsyncPrepare, Suspend, ReplyNow, Reply, IdleCall, Phase,
           Step, Running
  <2>3. QED
    BY <2>1, <2>2
<1>2. CASE HandleAsyncExecute
  <2>1. CASE PollFuture("execute", NoQuery, "execute", "Prepared")
    BY <1>2, <2>1, PollForksNothing DEF HandleAsyncExecute, Op, Step
  <2>2. CASE ~PollFuture("execute", NoQuery, "execute", "Prepared")
    BY <1>2, <2>2, AliveUnchanged
       DEF HandleAsyncExecute, ReplyNow, Reply, IdleCall, Phase, Step, Running
  <2>3. QED
    BY <2>1, <2>2
<1>3. CASE SQLExecuteProceed
  BY <1>3, ExecuteProperForks DEF SQLExecuteProceed, Phase, Step
<1>4. CASE SQLExecDirectResume
  <2>1. call.held \in Task
    BY <1>4 DEF SQLExecDirectResume, IInv, CallShape
  <2>2. Alive' = Alive
    BY <1>4, <2>1, RestUnchanged DEF SQLExecDirectResume
  <2>3. Phase' = Phase
    BY <1>4 DEF SQLExecDirectResume, Reply, IdleCall, Phase
  <2>4. QED
    BY <2>2, <2>3 DEF Step
<1>5. CASE StoreFuture
  <2>1. fut[call.op] \in Task => Alive' = Alive
    BY <1>5, RestUnchanged DEF StoreFuture
  <2>2. fut[call.op] \notin Task => Alive' = Alive
    BY <1>5, AliveUnchanged DEF StoreFuture, Running
  <2>3. Phase' = Phase
    BY <1>5 DEF StoreFuture, IInv, TypeOK, Call, Phase
  <2>4. QED
    BY <2>1, <2>2, <2>3 DEF Step
<1>6. CASE MarkStillExecuting
  BY <1>6, AliveUnchanged
     DEF MarkStillExecuting, Reply, IdleCall, Phase, Step, Running
<1>7. CASE Join
  <2>1. call.held \in Task
    BY <1>7 DEF Join, IInv, CallShape
  <2>2. Alive' = Alive
    BY <1>7, <2>1, RestUnchanged DEF Join
  <2>3. Phase' = Phase
    BY <1>7 DEF Join, Reply, IdleCall, Phase
  <2>4. QED
    BY <2>2, <2>3 DEF Step
<1>8. CASE BodyReturn
  <2>1. Alive' = Alive
    BY <1>8, CallerUnchanged DEF BodyReturn
  <2>2. Phase' = Phase
    BY <1>8 DEF BodyReturn, Reply, IdleCall, Phase
  <2>3. QED
    BY <2>1, <2>2 DEF Step
<1>9. CASE DestroyFutures
  <2>1. Alive = {}
    <3>1. ASSUME NEW t \in Task, frame[t].pc # "free"
          PROVE  frame[t].pc = "done"
      <4>1. call.held # t
        BY <1>9, <3>1 DEF DestroyFutures, IInv, CallShape
      <4>2. PICK k \in Op : fut[k] = t
        BY <3>1, <4>1 DEF IInv, NoOrphanWorker, Owned
      <4>3. QED
        BY <1>9, <3>1, <4>2 DEF DestroyFutures
    <3>2. QED
      BY <3>1 DEF Alive, Running
  <2>2. Alive' = {}
    BY <1>9 DEF DestroyFutures, IdleFrame, Alive, Running, Actor
  <2>3. Phase = "closing" /\ Phase' = "freed"
    BY <1>9 DEF DestroyFutures, IdleCall, Phase, IInv, TypeOK, Call
  <2>4. QED
    BY <2>1, <2>2, <2>3 DEF Step
<1>10. QED
  BY <1>1, <1>2, <1>3, <1>4, <1>5, <1>6, <1>7, <1>8, <1>9 DEF CallStep

LEMMA BodyStepStep ==
  ASSUME IInv, NEW a \in Actor, BodyStep(a)
  PROVE  Step
<1>1. /\ UNCHANGED <<fut, call>>
      /\ \A b \in Actor : b # a => frame'[b] = frame[b]
      /\ Running(a)
  BY BodyStepAlive
<1>2. Phase' = Phase
  BY <1>1 DEF Phase
<1>3. CASE Running(a)' \/ a \notin Task
  BY <1>1, <1>2, <1>3, AliveUnchanged DEF Running, Actor, Step
<1>4. CASE ~Running(a)' /\ a \in Task
  <2>1. a \in Alive /\ Alive' = Alive \ {a}
    BY <1>1, <1>4 DEF Alive, Running, Actor
  <2>2. QED
    BY <1>2, <1>4, <2>1 DEF Step
<1>5. QED
  BY <1>3, <1>4

LEMMA NextStep ==
  ASSUME IInv, [Next]_vars
  PROVE  Step
<1>1. CASE UNCHANGED vars
  BY <1>1, AliveUnchanged DEF vars, Phase, Step, Running
<1>2. QED
  BY <1>1, RequestStep, CallStepStep, BodyStepStep DEF Next

\* The statement keeps the promise of WorkerLifetime: a task starts only while
\* the handle is in use, and its memory is freed after the last task has
\* ended, in every interleaving of calls, polls, cancels and tasks.
THEOREM Refinement == Spec => ImplementsWorkerLifetime
<1>1. Init => Lifetime!Init
  BY ConstantsAssumption
     DEF Init, IdleFrame, IdleCall, Actor, Running, Lifetime!Init
<1>2. IInv /\ [Next]_vars => [Lifetime!Next]_(Lifetime!vars)
  <2>1. Step => [Lifetime!Next]_(Lifetime!vars)
    BY DEF Step, Phase, Alive, Lifetime!Next, Lifetime!vars, Lifetime!Fork,
           Lifetime!Finish, Lifetime!Close, Lifetime!Free, Lifetime!Reuse
  <2>2. QED
    BY <2>1, NextStep
<1>3. QED
  BY <1>1, <1>2, Invariance, PTL
     DEF Spec, ImplementsWorkerLifetime, Lifetime!Spec
=============================================================================
