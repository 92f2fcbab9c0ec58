-------------------------- MODULE StatementAsyncMC --------------------------
(* Instances of StatementAsync for TLC.                                    *)
EXTENDS StatementAsync, TLC

CONSTANTS sel, dml, script, t1, t2

MCStatementType ==
  [q \in Query |-> CASE q = sel -> "SELECT" [] q = dml -> "DML" [] OTHER -> "SCRIPT"]

\* What a server lists: one statement, or two of them.
MCScriptJobs == {<<"DML">>, <<"DML", "SELECT">>, <<"SELECT", "SELECT">>}

AllApi == Op \cup {"cancel", "closeCursor", "freeStmtClose", "setAsyncEnable",
                   "freeHandle"}

ExecDirectApi == {"execDirect", "cancel", "closeCursor",
                  "freeStmtClose", "setAsyncEnable", "freeHandle"}

OnlyPrepare == {"prepare"}
OnlyExecDirect == {"execDirect", "closeCursor"}
LifetimeApi == Op \cup {"cancel", "closeCursor", "freeHandle"}

On == {TRUE}
Off == {FALSE}
Both == BOOLEAN

\* What the next steps depend on when there is no driver manager: obs is only
\* read by the properties about replies.
LifetimeView ==
  <<stmt, fut, frame, [call EXCEPT !.started = FALSE, !.poll = FALSE]>>

TaskSymmetry == Permutations(Task)
=============================================================================
