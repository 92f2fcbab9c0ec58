----------------------------- MODULE HandleLocks -----------------------------
(***************************************************************************)
(* The entry points of the driver (odbc_api.cc) and the handles they work  *)
(* on.  Every function takes one mutex (HandleLock in odbc_lock.cc): that  *)
(* of the handle it is called with, or, when the handle is going to be     *)
(* deleted, that of its parent.  It then checks the handle, does its work, *)
(* and releases the mutex when it returns.                                 *)
(*                                                                         *)
(* What a function does is kept as far as other threads can meet it: the   *)
(* handles it creates, deletes or visits, and the explicit descriptors it  *)
(* reads.  The three versions of a function (A, plain and W) take the same *)
(* mutex; W converts its strings while it holds it.                        *)
(***************************************************************************)
EXTENDS Naturals, FiniteSets

CONSTANTS
  Thread,
  Env, Conn, Stmt, Desc,   \* the handles there can be; Desc: SQL_DESC_ALLOC_USER
  Parent,                  \* the handle a handle is allocated on
  Global,                  \* g_driver_mutex
  Implicit,                \* the descriptor a statement is created with
  Nobody,
  NoMutex

Handle == Env \cup Conn \cup Stmt \cup Desc
Mutex == Handle \cup {Global}
Role == {"ARD", "APD"}

ASSUME HandleLocksAssumption ==
  /\ Parent \in [Handle -> Handle \cup {Global}]
  /\ \A e \in Env : Parent[e] = Global
  /\ \A c \in Conn : Parent[c] \in Env
  /\ \A h \in Stmt \cup Desc : Parent[h] \in Conn
  /\ Env \cap Conn = {} /\ Env \cap Stmt = {} /\ Env \cap Desc = {}
  /\ Conn \cap Stmt = {} /\ Conn \cap Desc = {} /\ Stmt \cap Desc = {}
  /\ Global \notin Handle
  /\ Implicit \notin Desc
  /\ Nobody \notin Thread
  /\ NoMutex \notin Mutex

VARIABLES
  alive,      \* the handles allocated and not deleted
  connected,  \* the connections whose is_connected_ is set
  told,       \* the connections the application was told are connected
  app,        \* the ARD and the APD of each statement
  owner,      \* the thread that holds each mutex
  call        \* the call each thread is in

vars == <<alive, connected, told, app, owner, call>>

\* arg: the handle passed beside the first one; inside the function, the
\* handles it has collected to visit.
Idle == [pc |-> "idle", handle |-> Nobody, lock |-> NoMutex, body |-> "none",
         roles |-> {}, arg |-> {}]

Init ==
  /\ alive = {}
  /\ connected = {}
  /\ told = {}
  /\ app = [s \in Stmt |-> [r \in Role |-> Implicit]]
  /\ owner = [m \in Mutex |-> Nobody]
  /\ call = [t \in Thread |-> Idle]

-----------------------------------------------------------------------------
(* The family of a handle.                                                 *)

Children(h, Kind) == {k \in Kind \cap alive : Parent[k] = h}
Descriptors(s) == {app[s][r] : r \in Role} \ {Implicit}
Users(d) == {s \in Stmt : d \in Descriptors(s)}

\* The type of a descriptor the application allocates is kApplication; the
\* type it is associated under is kARD or kAPD.
AssociatedAs(d, type) == {s \in Stmt : type \in Role /\ app[s][type] = d}

\* Mutants: the handle itself is locked; the environment is, for a statement.
GetParentHandlesSelf(h) == h
GetParentHandlesTop(h) == IF h \in Stmt THEN Parent[Parent[h]] ELSE Parent[h]

GetParentHandles(h) ==
  IF h \in Desc /\ AssociatedAs(h, "Application") # {}
    THEN CHOOSE s \in AssociatedAs(h, "Application") : TRUE
    ELSE Parent[h]

-----------------------------------------------------------------------------
(* What the driver manager and the application see to: nothing is called   *)
(* with a handle that is being deleted, and no handle is deleted while a   *)
(* call is made with it or while it has children.                          *)

InProgress(t) == call[t].pc # "idle"

Passed(t) ==
  {call[t].handle}
    \cup (IF call[t].body \in {"setDesc", "copyDesc"} THEN call[t].arg ELSE {})
    \cup (IF call[t].handle \in Stmt THEN Descriptors(call[t].handle) ELSE {})

WillDelete(h, body) ==
  CASE body = "free" -> {h}
    [] body = "disconnect" -> Children(h, Stmt \cup Desc)
    [] OTHER -> {}

MayUse(t, H) ==
  /\ H \subseteq alive
  /\ \A u \in Thread \ {t} : InProgress(u) =>
       WillDelete(call[u].handle, call[u].body) \cap H = {}

MayDelete(t, H) ==
  \A u \in Thread \ {t} : InProgress(u) => Passed(u) \cap H = {}

-----------------------------------------------------------------------------
(* HandleLock.                                                             *)

Begin(t, h, lock, body, roles, arg) ==
  /\ ~InProgress(t)
  /\ call' = [call EXCEPT ![t] =
       [pc |-> "wait", handle |-> h, lock |-> lock, body |-> body,
        roles |-> roles, arg |-> arg]]
  /\ UNCHANGED <<alive, connected, told, app, owner>>

\* HandleLock(handle, type).
Call(t, h, body, roles, arg) ==
  /\ MayUse(t, {h} \cup arg \cup (IF h \in Stmt THEN Descriptors(h) ELSE {}))
  /\ Begin(t, h, h, body, roles, arg)

\* A statement is called with the descriptors in these roles.
OfStatement(t, roles) ==
  \E s \in Stmt : Call(t, s, "work", roles, {})
OfConnection(t) ==
  \E c \in Conn : Call(t, c, "work", {}, {})
OfDescriptor(t) ==
  \E d \in Desc : Call(t, d, "work", {}, {})
OfAny(t) ==
  \E h \in Handle : Call(t, h, "work", {}, {})

\* Mutant: the connection need not be connected.
ValidAnyway(c) == TRUE

\* The checks of a function made once it has the mutex (ValidateXHandle).
Valid(c) ==
  c.body \in {"allocStmt", "allocDesc", "disconnect"} => c.handle \in connected

\* What a function collects before it works through it.  SQLEndTran of an
\* environment goes on to the statements of its connections
\* (FinishTransactionIfNeeded) and has the mutex of neither.
Collected(c) ==
  CASE c.body = "disconnect" -> Children(c.handle, Stmt \cup Desc)
    [] c.body = "sweep" -> Children(c.handle, Stmt)
    [] c.body = "endTranEnv" ->
         LET conns == Children(c.handle, Conn)
         IN  conns \cup UNION {Children(k, Stmt) : k \in conns}
    [] c.body = "free" /\ c.handle \in Desc ->
         {p \in Stmt \X Role : app[p[1]][p[2]] = c.handle}
    [] OTHER -> c.arg

\* The constructor of HandleLock and the checks.  A null handle counts as
\* locked without a mutex.
Acquire(t) ==
  LET c == call[t] IN
  /\ c.pc = "wait"
  /\ IF c.lock = NoMutex THEN UNCHANGED owner
     ELSE /\ owner[c.lock] = Nobody
          /\ owner' = [owner EXCEPT ![c.lock] = t]
  /\ call' = [call EXCEPT ![t].pc = "inside",
                          ![t].body = IF Valid(c) THEN c.body ELSE "none",
                          ![t].roles = IF Valid(c) THEN c.roles ELSE {},
                          ![t].arg = IF Valid(c) THEN Collected(c) ELSE {}]
  /\ UNCHANGED <<alive, connected, told, app>>

\* The destructor.
Release(t) ==
  /\ owner' = IF call[t].lock = NoMutex THEN owner
              ELSE [owner EXCEPT ![call[t].lock] = Nobody]
  /\ call' = [call EXCEPT ![t] = Idle]

\* A function fails: a W function cannot convert a string it was passed, or
\* the work is refused before it has changed anything other threads meet.
Fail(t) ==
  /\ call[t].pc = "inside"
  /\ Release(t)
  /\ UNCHANGED <<alive, connected, told, app>>

-----------------------------------------------------------------------------
(* The functions that change the handles: what they ask for, and what they *)
(* do inside.                                                              *)

SQLAllocHandle(t) ==
  \/ \E e \in Env \ alive :
       MayDelete(t, {e}) /\ Begin(t, e, NoMutex, "allocEnv", {}, {})
  \/ \E e \in Env : Call(t, e, "allocConn", {}, {})
  \/ \E c \in told, body \in {"allocStmt", "allocDesc"} : Call(t, c, body, {}, {})

NewHandle(t, Kind) ==
  /\ \E h \in Kind \ alive : /\ Parent[h] = call[t].handle
                             /\ alive' = alive \cup {h}
  /\ UNCHANGED <<connected, told, app>>

DoAlloc(t) ==
  LET c == call[t] IN
  \/ /\ c.body = "allocEnv"
     /\ alive' = alive \cup {c.handle}
     /\ UNCHANGED <<connected, told, app>>
  \/ c.body = "allocConn" /\ NewHandle(t, Conn)
  \/ c.body = "allocStmt" /\ NewHandle(t, Stmt)
  \/ c.body = "allocDesc" /\ NewHandle(t, Desc)

SQLConnect(t) ==
  \E c \in Conn \ told : Call(t, c, "connect", {}, {})
SQLDriverConnect(t) ==
  \E c \in Conn \ told : Call(t, c, "driverConnect", {}, {})
SQLBrowseConnect(t) ==
  \E c \in Conn \ told : Call(t, c, "browseConnect", {}, {})

\* SQLDriverConnectW and SQLBrowseConnectW convert the connection string
\* they return once they are connected, and fail when they cannot.
\* SQLBrowseConnect answers SQL_SUCCESS even if ConnectionHandle::Connect fails.
DoConnect(t) ==
  LET c == call[t] IN
  /\ c.body \in {"connect", "driverConnect", "browseConnect"}
  /\ \/ /\ connected' = connected \cup {c.handle}
        /\ told' \in {told \cup {c.handle},
                      IF c.body = "connect" THEN told \cup {c.handle} ELSE told}
     \/ /\ c.body = "browseConnect"
        /\ told' = told \cup {c.handle}
        /\ UNCHANGED connected
  /\ UNCHANGED <<alive, app>>

\* Statements that lose a descriptor go back to the one they were created with.
Without(H) ==
  [s \in Stmt |-> [r \in Role |->
     IF s \in H \/ app[s][r] \in H THEN Implicit ELSE app[s][r]]]

SQLDisconnect(t) ==
  \E c \in told :
    /\ MayDelete(t, Children(c, Stmt \cup Desc))
    /\ Call(t, c, "disconnect", {}, {})

\* First the descriptors, then the statements.
DoDisconnect(t) ==
  LET c == call[t] IN
  /\ c.body = "disconnect"
  /\ connected' = connected \ {c.handle}
  /\ told' = told \ {c.handle}
  /\ alive' = alive \ c.arg
  /\ app' = Without(c.arg)

\* The parent is asked for the mutex, as the handle is going to be deleted.
SQLFreeHandle(t) ==
  \E h \in Handle :
    /\ h \notin told
    /\ Children(h, Conn \cup Stmt \cup Desc) = {}
    /\ MayDelete(t, {h})
    /\ MayUse(t, {h})
    /\ Begin(t, h, GetParentHandles(h), "free", {}, {})

\* Mutants: the statements keep the descriptor; they keep a null pointer.
DoFreeKeeping(t) ==
  /\ call[t].body = "free"
  /\ alive' = alive \ {call[t].handle}
  /\ connected' = connected \ {call[t].handle}
  /\ UNCHANGED <<told, app>>
DoFreeNull(t) ==
  /\ call[t].body = "free"
  /\ alive' = alive \ {call[t].handle}
  /\ connected' = connected \ {call[t].handle}
  /\ app' = [s \in Stmt |-> [r \in Role |->
       IF <<s, r>> \in call[t].arg THEN Nobody ELSE app[s][r]]]
  /\ UNCHANGED told

\* A statement is erased from its descriptors and its connection; the pairs
\* collected from a descriptor get their own descriptor back.
DoFree(t) ==
  LET c == call[t] IN
  /\ c.body = "free"
  /\ alive' = alive \ {c.handle}
  /\ connected' = connected \ {c.handle}
  /\ app' = [s \in Stmt |-> [r \in Role |->
       IF s = c.handle \/ <<s, r>> \in c.arg THEN Implicit ELSE app[s][r]]]
  /\ UNCHANGED told

\* SQL_ATTR_APP_ROW_DESC and SQL_ATTR_APP_PARAM_DESC, or any other attribute.
SQLSetStmtAttr(t) ==
  \/ \E s \in Stmt, r \in Role :
       \/ \E d \in Desc : Parent[d] = Parent[s] /\ Call(t, s, "setDesc", {r}, {d})
       \/ Call(t, s, "setDesc", {r}, {})
  \/ OfStatement(t, Role)

DoSetDesc(t) ==
  LET c == call[t] IN
  /\ c.body = "setDesc"
  /\ app' = [app EXCEPT ![c.handle] = [r \in Role |->
       IF r \notin c.roles THEN @[r]
       ELSE IF c.arg = {} THEN Implicit ELSE CHOOSE d \in c.arg : TRUE]]
  /\ UNCHANGED <<alive, connected, told>>

\* Everything else leaves the handles as they are.
DoWork(t) ==
  /\ call[t].body \in {"none", "work", "sweep", "endTranEnv", "copyDesc"}
  /\ UNCHANGED <<alive, connected, told, app>>

Work(t) ==
  /\ call[t].pc = "inside"
  /\ \/ DoAlloc(t) \/ DoConnect(t) \/ DoDisconnect(t) \/ DoFree(t)
     \/ DoSetDesc(t) \/ DoWork(t)
  /\ Release(t)

-----------------------------------------------------------------------------
(* The functions of a connection and of an environment.  SQLSetConnectAttr *)
(* and SQLEndTran visit the statements below the handle.                     *)

SQLSetConnectAttr(t) == OfConnection(t) \/ \E c \in Conn : Call(t, c, "sweep", {}, {})
SQLGetConnectAttr(t) == OfConnection(t)
SQLGetInfo(t) == OfConnection(t)
SQLGetFunctions(t) == OfConnection(t)
SQLNativeSql(t) == OfConnection(t)
SQLEndTran(t) ==
  \/ \E c \in told : Call(t, c, "sweep", {}, {})
  \/ \E e \in Env : Call(t, e, "endTranEnv", {}, {})
SQLSetEnvAttr(t) == \E e \in Env : Call(t, e, "work", {}, {})
SQLGetEnvAttr(t) == \E e \in Env : Call(t, e, "work", {}, {})

(* The functions of any handle. *)
SQLGetDiagField(t) == OfAny(t)
SQLGetDiagRec(t) == OfAny(t)
SQLCancelHandle(t) == OfAny(t)

(* The functions of a descriptor.  SQLCopyDesc locks the source only. *)
SQLGetDescField(t) == OfDescriptor(t)
SQLGetDescRec(t) == OfDescriptor(t)
SQLSetDescField(t) == OfDescriptor(t)
SQLSetDescRec(t) == OfDescriptor(t)
SQLCopyDesc(t) == \E d, target \in Desc : Call(t, d, "copyDesc", {}, {target})

(* The functions of a statement, with the explicit descriptors they use. *)
SQLPrepare(t) == OfStatement(t, {})
SQLBindParameter(t) == OfStatement(t, {"APD"})
SQLExecute(t) == OfStatement(t, {"APD"})
SQLExecDirect(t) == OfStatement(t, {"APD"})
SQLParamData(t) == OfStatement(t, {"APD"})
SQLPutData(t) == OfStatement(t, {"APD"})
SQLNumParams(t) == OfStatement(t, {})
SQLDescribeParam(t) == OfStatement(t, {})
SQLGetStmtAttr(t) == OfStatement(t, Role)
SQLGetCursorName(t) == OfStatement(t, {})
SQLSetCursorName(t) == OfStatement(t, {})
SQLBindCol(t) == OfStatement(t, {"ARD"})
SQLFetch(t) == OfStatement(t, {"ARD"})
SQLFetchScroll(t) == OfStatement(t, {"ARD"})
SQLGetData(t) == OfStatement(t, {"ARD"})
SQLNumResultCols(t) == OfStatement(t, {})
SQLDescribeCol(t) == OfStatement(t, {})
SQLColAttribute(t) == OfStatement(t, {})
SQLRowCount(t) == OfStatement(t, {})
SQLMoreResults(t) == OfStatement(t, {})
SQLCloseCursor(t) == OfStatement(t, {})
SQLCancel(t) == OfStatement(t, {})
SQLFreeStmt(t) == OfStatement(t, Role)

(* The catalog functions: their results replace those of the statement. *)
SQLGetTypeInfo(t) == OfStatement(t, {})
SQLTables(t) == OfStatement(t, {})
SQLColumns(t) == OfStatement(t, {})
SQLPrimaryKeys(t) == OfStatement(t, {})
SQLForeignKeys(t) == OfStatement(t, {})
SQLProcedures(t) == OfStatement(t, {})
SQLProcedureColumns(t) == OfStatement(t, {})
SQLSpecialColumns(t) == OfStatement(t, {})
SQLStatistics(t) == OfStatement(t, {})

(* Functions of later releases: they take the mutex and do nothing. *)
SQLExtendedFetch(t) == OfStatement(t, {})
SQLColAttributes(t) == OfStatement(t, {})
SQLTablePrivileges(t) == OfStatement(t, {})
SQLColumnPrivileges(t) == OfStatement(t, {})
SQLSetPos(t) == OfStatement(t, {})
SQLBulkOperations(t) == OfStatement(t, {})

BeginCall(t) ==
  \/ SQLAllocHandle(t) \/ SQLFreeHandle(t)
  \/ SQLConnect(t) \/ SQLDriverConnect(t) \/ SQLBrowseConnect(t) \/ SQLDisconnect(t)
  \/ SQLSetConnectAttr(t) \/ SQLGetConnectAttr(t) \/ SQLGetInfo(t)
  \/ SQLGetFunctions(t) \/ SQLNativeSql(t) \/ SQLEndTran(t)
  \/ SQLSetEnvAttr(t) \/ SQLGetEnvAttr(t)
  \/ SQLGetDiagField(t) \/ SQLGetDiagRec(t) \/ SQLCancelHandle(t)
  \/ SQLGetDescField(t) \/ SQLGetDescRec(t) \/ SQLSetDescField(t)
  \/ SQLSetDescRec(t) \/ SQLCopyDesc(t)
  \/ SQLPrepare(t) \/ SQLBindParameter(t) \/ SQLExecute(t) \/ SQLExecDirect(t)
  \/ SQLParamData(t) \/ SQLPutData(t) \/ SQLNumParams(t) \/ SQLDescribeParam(t)
  \/ SQLSetStmtAttr(t) \/ SQLGetStmtAttr(t) \/ SQLGetCursorName(t)
  \/ SQLSetCursorName(t) \/ SQLBindCol(t) \/ SQLFetch(t) \/ SQLFetchScroll(t)
  \/ SQLGetData(t) \/ SQLNumResultCols(t) \/ SQLDescribeCol(t)
  \/ SQLColAttribute(t) \/ SQLRowCount(t) \/ SQLMoreResults(t)
  \/ SQLCloseCursor(t) \/ SQLCancel(t) \/ SQLFreeStmt(t)
  \/ SQLGetTypeInfo(t) \/ SQLTables(t) \/ SQLColumns(t) \/ SQLPrimaryKeys(t)
  \/ SQLForeignKeys(t) \/ SQLProcedures(t) \/ SQLProcedureColumns(t)
  \/ SQLSpecialColumns(t) \/ SQLStatistics(t)
  \/ SQLExtendedFetch(t) \/ SQLColAttributes(t) \/ SQLTablePrivileges(t)
  \/ SQLColumnPrivileges(t) \/ SQLSetPos(t) \/ SQLBulkOperations(t)

Next == \E t \in Thread : BeginCall(t) \/ Acquire(t) \/ Fail(t) \/ Work(t)

Spec == Init /\ [][Next]_vars

-----------------------------------------------------------------------------
(* Properties.                                                             *)

\* The state is well typed.
Call_ ==
  [pc : {"idle", "wait", "inside"}, handle : Handle \cup {Nobody},
   lock : Mutex \cup {NoMutex},
   body : {"none", "work", "allocEnv", "allocConn", "allocStmt", "allocDesc",
           "connect", "driverConnect", "browseConnect", "disconnect", "free",
           "setDesc", "copyDesc", "sweep", "endTranEnv"},
   roles : SUBSET Role, arg : SUBSET (Handle \cup (Stmt \X Role))]

TypeOK ==
  /\ alive \subseteq Handle
  /\ connected \subseteq Conn
  /\ told \subseteq Conn
  /\ app \in [Stmt -> [Role -> Desc \cup {Implicit}]]
  /\ owner \in [Mutex -> Thread \cup {Nobody}]
  /\ call \in [Thread -> Call_]

Inside(t) == call[t].pc = "inside"

\* The handles whose set of children a function reads or changes: every set
\* of statements, descriptors and connections is an unguarded std::set.
Family(t) ==
  IF ~Inside(t) THEN {}
  ELSE CASE call[t].body \in {"allocConn", "allocStmt", "allocDesc",
                              "disconnect", "sweep"} -> {call[t].handle}
         [] call[t].body = "endTranEnv" -> {call[t].handle} \cup (call[t].arg \cap Conn)
         [] call[t].body = "free" -> {Parent[call[t].handle]}
         [] OTHER -> {}

\* An SQLEndTran of an environment is at the statements of these connections.
Reached(t) ==
  IF Inside(t) /\ call[t].body = "endTranEnv" THEN call[t].arg \cap Conn ELSE {}

\* Two threads are never at the same set of children at once: SQLAllocHandle
\* inserts under the mutex of the handle the set belongs to, SQLFreeHandle
\* erases under that of the parent of the handle it frees.  The exception is
\* SQLEndTran of an environment, which walks the statements of its connections
\* without their mutexes: two threads meet only in a set it has reached so.
FamiliesGuarded ==
  \A t, u \in Thread :
    t # u => Family(t) \cap Family(u) \subseteq Reached(t) \cup Reached(u)

\* The handles a function goes on to beside the one it was called with.
Visited(c) ==
  CASE c.body = "free" -> {p[1] : p \in c.arg}
    [] c.body \in {"setDesc", "copyDesc", "disconnect", "sweep", "endTranEnv"} -> c.arg
    [] OTHER -> {}

\* The handles the function a thread is in goes on to read.
InUse(t) ==
  IF ~Inside(t) THEN {}
  ELSE LET c == call[t] IN
       (IF c.body = "allocEnv" THEN {} ELSE {c.handle})
         \cup Visited(c)
         \cup (IF c.body = "work"
                 THEN {app[c.handle][r] : r \in c.roles} \ {Implicit} ELSE {})

\* No function goes on with a handle that another thread has deleted: neither
\* the one it was called with, nor the statements or connections it visits,
\* nor the descriptors of its statement.  The exception is again SQLEndTran of
\* an environment: a statement of a connection it has reached may be deleted
\* before it closes the statement's cursor.
NoUseAfterFree ==
  \A t \in Thread :
    InUse(t) \ {s \in Stmt : Parent[s] \in Reached(t)} \subseteq alive

\* A connection that was disconnected has neither statements nor descriptors:
\* SQLAllocHandle cannot add one behind the back of an SQLDisconnect.
DisconnectedIsEmpty ==
  \A c \in Conn \ connected : Children(c, Stmt \cup Desc) = {}

\* No handle outlives the one it was allocated on, and no statement points to
\* a descriptor that is gone.
NoOrphans ==
  /\ \A h \in alive : Parent[h] \in alive \cup {Global}
  /\ \A s \in Stmt : Descriptors(s) \subseteq alive
=============================================================================
