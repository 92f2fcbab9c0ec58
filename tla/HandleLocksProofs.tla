-------------------------- MODULE HandleLocksProofs --------------------------
(***************************************************************************)
(* Proofs about HandleLocks, for every set of threads and every tree of    *)
(* handles: with the mutex HandleLock chooses, no two threads are at the   *)
(* same set of children and nobody goes on with a handle that was deleted, *)
(* except where SQLEndTran of an environment is at the statements of its   *)
(* connections; and the tree of handles stays whole.                       *)
(***************************************************************************)
EXTENDS HandleLocks, TLAPS

\* A call a function can make: whose handle of which kind under which mutex.
WellFormed(c) ==
  /\ c.handle \in Handle
  /\ c.body = "allocEnv" => c.handle \in Env /\ c.lock = NoMutex
  /\ c.body = "free" => c.lock = Parent[c.handle]
  /\ c.body \notin {"allocEnv", "free"} => c.lock = c.handle
  /\ c.body \in {"allocConn", "endTranEnv"} => c.handle \in Env
  /\ c.body \in {"allocStmt", "allocDesc", "connect", "driverConnect",
                 "browseConnect", "disconnect", "sweep"} => c.handle \in Conn
  /\ c.body = "setDesc" =>
       /\ c.handle \in Stmt
       /\ c.arg \subseteq {d \in Desc : Parent[d] = Parent[c.handle]}
  /\ c.body = "copyDesc" => c.arg \subseteq Desc
  /\ c.body = "work" /\ c.roles # {} => c.handle \in Stmt
  /\ c.body = "free" /\ c.pc = "wait" => c.arg = {}

Shape == \A t \in Thread : InProgress(t) => WellFormed(call[t])

\* Who is inside holds its mutex.
Locked ==
  \A t \in Thread : Inside(t) /\ call[t].lock # NoMutex => owner[call[t].lock] = t

\* What a call needs alive.  A statement that is freed is taken off its
\* descriptors under their connection's mutex: they may be freed meanwhile.
NeededBy(h, body, arg) ==
  {h} \cup (IF body \in {"setDesc", "copyDesc"} THEN arg ELSE {})
      \cup (IF h \in Stmt /\ body # "free" THEN Descriptors(h) ELSE {})
Needed(t) == NeededBy(call[t].handle, call[t].body, call[t].arg)

Going(t) == WillDelete(call[t].handle, call[t].body)

\* What a call needs is there, and nobody is about to delete it.
NeededAlive ==
  \A t \in Thread : InProgress(t) /\ call[t].body # "allocEnv" => Needed(t) \subseteq alive
NoneGoing ==
  \A t, u \in Thread :
    t # u /\ InProgress(t) /\ InProgress(u) => Going(t) \cap Needed(u) = {}

\* A statement and its descriptors are of one connection.
SameConnection ==
  \A s \in Stmt, r \in Role :
    app[s][r] # Implicit =>
      s \in alive /\ app[s][r] \in alive /\ Parent[app[s][r]] = Parent[s]

\* What SQLEndTran of an environment visits: connections, and statements.
Walk(visited, conns) ==
  /\ visited \cap Conn \subseteq conns
  /\ \A s \in visited : s \in Conn \/ (s \in Stmt /\ Parent[s] \in visited \cap Conn)

\* What a function has collected is still what it would collect, but for the
\* statements SQLEndTran of an environment has come to.
Current(t) ==
  LET c == call[t] IN
  /\ c.body \in {"allocStmt", "allocDesc", "disconnect"} => c.handle \in connected
  /\ c.body = "disconnect" => c.arg = Children(c.handle, Stmt \cup Desc)
  /\ c.body = "sweep" => c.arg \subseteq Children(c.handle, Stmt)
  /\ c.body = "endTranEnv" => Walk(c.arg, Children(c.handle, Conn))
  /\ c.body = "free" =>
       /\ \A p \in c.arg : p[1] \in Children(Parent[c.handle], Stmt)
       /\ c.handle \in Desc =>
            \A s \in Stmt, r \in Role : app[s][r] = c.handle => <<s, r>> \in c.arg

Gathered == \A t \in Thread : Inside(t) => Current(t)

\* A handle that is freed has no children.
FreedAlone ==
  \A t \in Thread : InProgress(t) /\ call[t].body = "free" =>
    Children(call[t].handle, Conn \cup Stmt \cup Desc) = {}

\* The handle that a handle was allocated on is there.
Tree == \A h \in alive : Parent[h] \in alive \cup {Global}

IInv ==
  /\ TypeOK /\ Shape /\ Locked
  /\ NeededAlive /\ NoneGoing
  /\ SameConnection /\ Gathered /\ FreedAlone
  /\ Tree /\ DisconnectedIsEmpty

-----------------------------------------------------------------------------
(* How a call begins.                                                      *)

\* A call as the driver manager and the application let it begin.
Asked(t) ==
  \E c \in Call_ :
    /\ ~InProgress(t)
    /\ c.pc = "wait"
    /\ call' = [call EXCEPT ![t] = c]
    /\ UNCHANGED <<alive, connected, told, app, owner>>
    /\ WellFormed(c)
    /\ IF c.body = "allocEnv" THEN c.handle \notin alive
       ELSE MayUse(t, NeededBy(c.handle, c.body, c.arg))
    /\ MayDelete(t, WillDelete(c.handle, c.body))
    /\ c.body = "free" => Children(c.handle, Conn \cup Stmt \cup Desc) = {}

Plain == {"work", "allocConn", "allocStmt", "allocDesc", "connect",
          "driverConnect", "browseConnect", "sweep", "endTranEnv"}

\* Call with nothing beside the handle asks for what the handle's kind allows.
LEMMA PlainCall ==
  ASSUME TypeOK, NEW t \in Thread, NEW h \in Handle, NEW body \in Plain,
         NEW roles \in SUBSET Role, roles # {} => h \in Stmt,
         body \in {"allocConn", "endTranEnv"} => h \in Env,
         body \notin {"work", "allocConn", "endTranEnv"} => h \in Conn,
         Call(t, h, body, roles, {})
  PROVE  Asked(t)
<1> DEFINE c == [pc |-> "wait", handle |-> h, lock |-> h, body |-> body,
                 roles |-> roles, arg |-> {}]
<1>1. c \in Call_
  BY DEF Call_, Plain, Mutex
<1>2. WellFormed(c)
  BY DEF WellFormed, Plain
<1>3. /\ ~InProgress(t) /\ call' = [call EXCEPT ![t] = c]
      /\ UNCHANGED <<alive, connected, told, app, owner>>
      /\ MayUse(t, NeededBy(h, body, {}))
  <2>1. NeededBy(h, body, {}) = {h} \cup {} \cup (IF h \in Stmt THEN Descriptors(h) ELSE {})
    BY DEF NeededBy, Plain
  <2> QED  BY <2>1 DEF Call, Begin
<1>4. MayDelete(t, WillDelete(h, body))
  <2>1. WillDelete(h, body) = {}
    BY DEF WillDelete, Plain
  <2> QED  BY <2>1 DEF MayDelete
<1>5. body \notin {"allocEnv", "free"}
  BY DEF Plain
<1> HIDE DEF c
<1>6. c.pc = "wait" /\ c.handle = h /\ c.body = body /\ c.arg = {}
  BY DEF c
<1> QED  BY <1>1, <1>2, <1>3, <1>4, <1>5, <1>6 DEF Asked

\* SQLSetStmtAttr with a descriptor, SQLCopyDesc and SQLDisconnect.
LEMMA CallWith ==
  ASSUME TypeOK, NEW t \in Thread, NEW h \in Handle,
         NEW body \in {"setDesc", "copyDesc", "disconnect"},
         NEW roles \in SUBSET Role, NEW arg \in SUBSET Desc,
         body = "setDesc" =>
           h \in Stmt /\ arg \subseteq {d \in Desc : Parent[d] = Parent[h]},
         body = "disconnect" =>
           h \in Conn /\ arg = {} /\ MayDelete(t, Children(h, Stmt \cup Desc)),
         Call(t, h, body, roles, arg)
  PROVE  Asked(t)
<1> DEFINE c == [pc |-> "wait", handle |-> h, lock |-> h, body |-> body,
                 roles |-> roles, arg |-> arg]
<1>1. c \in Call_
  BY DEF Call_, Mutex, Handle
<1>2. WellFormed(c)
  BY DEF WellFormed
<1>3. /\ ~InProgress(t) /\ call' = [call EXCEPT ![t] = c]
      /\ UNCHANGED <<alive, connected, told, app, owner>>
      /\ MayUse(t, NeededBy(h, body, arg))
  <2>1. NeededBy(h, body, arg)
          = {h} \cup arg \cup (IF h \in Stmt THEN Descriptors(h) ELSE {})
    BY DEF NeededBy
  <2> QED  BY <2>1 DEF Call, Begin
<1>4. MayDelete(t, WillDelete(h, body))
  <2>1. CASE body = "disconnect"
    BY <2>1 DEF WillDelete
  <2>2. CASE body # "disconnect"
    <3>1. WillDelete(h, body) = {}
      BY <2>2 DEF WillDelete
    <3> QED  BY <3>1 DEF MayDelete
  <2> QED  BY <2>1, <2>2
<1> HIDE DEF c
<1>5. c.pc = "wait" /\ c.handle = h /\ c.body = body /\ c.arg = arg
  BY DEF c
<1> QED  BY <1>1, <1>2, <1>3, <1>4, <1>5 DEF Asked

\* The functions that do not change the handles.
LEMMA WorkAsks ==
  ASSUME TypeOK, NEW t \in Thread
  PROVE  /\ \A roles \in SUBSET Role : OfStatement(t, roles) => Asked(t)
         /\ OfConnection(t) => Asked(t)
         /\ OfDescriptor(t) => Asked(t)
         /\ OfAny(t) => Asked(t)
         /\ (\E e \in Env : Call(t, e, "work", {}, {})) => Asked(t)
<1>1. \A h \in Handle, roles \in SUBSET Role :
        (roles # {} => h \in Stmt) /\ Call(t, h, "work", roles, {}) => Asked(t)
  BY PlainCall DEF Plain
<1>2. {} \in SUBSET Role /\ Env \cup Conn \cup Stmt \cup Desc \subseteq Handle
  BY DEF Handle
<1> QED  BY <1>1, <1>2 DEF OfStatement, OfConnection, OfDescriptor, OfAny

\* SQLFreeHandle: no descriptor is associated under kApplication, so that the
\* parent is locked.
LEMMA FreeAsks ==
  ASSUME TypeOK, HandleLocksAssumption, NEW t \in Thread, SQLFreeHandle(t)
  PROVE  Asked(t)
<1>1. PICK h \in Handle :
        /\ Children(h, Conn \cup Stmt \cup Desc) = {}
        /\ MayDelete(t, {h}) /\ MayUse(t, {h})
        /\ Begin(t, h, GetParentHandles(h), "free", {}, {})
  BY DEF SQLFreeHandle
<1>2. GetParentHandles(h) = Parent[h]
  BY DEF GetParentHandles, AssociatedAs, Role
<1> DEFINE c == [pc |-> "wait", handle |-> h, lock |-> Parent[h], body |-> "free",
                 roles |-> {}, arg |-> {}]
<1>3. c \in Call_
  <2>1. Parent[h] \in Mutex
    BY DEF HandleLocksAssumption, Mutex
  <2> QED  BY <2>1 DEF Call_
<1>4. WellFormed(c)
  BY DEF WellFormed
<1>5. /\ MayUse(t, NeededBy(h, "free", {}))
      /\ MayDelete(t, WillDelete(h, "free"))
  <2>1. NeededBy(h, "free", {}) = {h} /\ WillDelete(h, "free") = {h}
    BY DEF NeededBy, WillDelete
  <2> QED  BY <1>1, <2>1
<1>6. /\ ~InProgress(t) /\ call' = [call EXCEPT ![t] = c]
      /\ UNCHANGED <<alive, connected, told, app, owner>>
  BY <1>1, <1>2 DEF Begin
<1> HIDE DEF c
<1>7. c.pc = "wait" /\ c.handle = h /\ c.body = "free" /\ c.arg = {}
  BY DEF c
<1> QED  BY <1>1, <1>3, <1>4, <1>5, <1>6, <1>7 DEF Asked

\* SQLAllocHandle: a new environment has no parent to lock.
LEMMA AllocAsks ==
  ASSUME TypeOK, HandleLocksAssumption, NEW t \in Thread, SQLAllocHandle(t)
  PROVE  Asked(t)
<1>1. CASE \E e \in Env \ alive :
             MayDelete(t, {e}) /\ Begin(t, e, NoMutex, "allocEnv", {}, {})
  <2>1. PICK e \in Env \ alive : Begin(t, e, NoMutex, "allocEnv", {}, {})
    BY <1>1
  <2> DEFINE c == [pc |-> "wait", handle |-> e, lock |-> NoMutex,
                   body |-> "allocEnv", roles |-> {}, arg |-> {}]
  <2>2. c \in Call_ /\ WellFormed(c)
    BY DEF Call_, WellFormed, Handle
  <2>3. MayDelete(t, WillDelete(e, "allocEnv"))
    BY DEF MayDelete, WillDelete
  <2>4. /\ ~InProgress(t) /\ call' = [call EXCEPT ![t] = c]
        /\ UNCHANGED <<alive, connected, told, app, owner>>
    BY <2>1 DEF Begin
  <2> HIDE DEF c
  <2>5. c.pc = "wait" /\ c.handle = e /\ c.body = "allocEnv"
    BY DEF c
  <2> QED  BY <2>1, <2>2, <2>3, <2>4, <2>5 DEF Asked
<1>2. ASSUME NEW e \in Env, Call(t, e, "allocConn", {}, {}) PROVE Asked(t)
  BY <1>2, PlainCall DEF Plain, Handle
<1>3. ASSUME NEW c \in told, NEW body \in {"allocStmt", "allocDesc"},
             Call(t, c, body, {}, {})
      PROVE  Asked(t)
  <2>1. c \in Conn /\ c \in Handle
    BY DEF TypeOK, Handle
  <2> QED  BY <1>3, <2>1, PlainCall DEF Plain
<1> QED  BY <1>1, <1>2, <1>3 DEF SQLAllocHandle

\* Every function begins as it may.
LEMMA BeginCallAsks ==
  ASSUME TypeOK, HandleLocksAssumption, NEW t \in Thread, BeginCall(t)
  PROVE  Asked(t)
<1>1. {} \in SUBSET Role /\ Role \in SUBSET Role /\ {"ARD"} \in SUBSET Role
      /\ {"APD"} \in SUBSET Role
  BY DEF Role
<1>2. ASSUME NEW c \in Conn, NEW body \in {"connect", "driverConnect", "browseConnect", "sweep"},
             Call(t, c, body, {}, {})
      PROVE  Asked(t)
  BY <1>2, PlainCall DEF Plain, Handle
<1>3. CASE SQLConnect(t) \/ SQLDriverConnect(t) \/ SQLBrowseConnect(t)
  BY <1>2, <1>3 DEF SQLConnect, SQLDriverConnect, SQLBrowseConnect
<1>4. CASE SQLDisconnect(t)
  <2>1. PICK c \in told : /\ MayDelete(t, Children(c, Stmt \cup Desc))
                          /\ Call(t, c, "disconnect", {}, {})
    BY <1>4 DEF SQLDisconnect
  <2>2. c \in Conn /\ c \in Handle
    BY DEF TypeOK, Handle
  <2> QED  BY <2>1, <2>2, CallWith
<1>5. CASE SQLSetConnectAttr(t) \/ SQLEndTran(t)
  <2>1. told \subseteq Conn
    BY DEF TypeOK
  <2>2. ASSUME NEW e \in Env, Call(t, e, "endTranEnv", {}, {}) PROVE Asked(t)
    BY <2>2, PlainCall DEF Plain, Handle
  <2> QED  BY <1>2, <1>5, <2>1, <2>2, WorkAsks DEF SQLSetConnectAttr, SQLEndTran
<1>6. CASE SQLSetStmtAttr(t)
  <2>1. ASSUME NEW s \in Stmt, NEW r \in Role, NEW d \in Desc, Parent[d] = Parent[s],
               Call(t, s, "setDesc", {r}, {d})
        PROVE  Asked(t)
    BY <2>1, CallWith DEF Handle
  <2>2. ASSUME NEW s \in Stmt, NEW r \in Role, Call(t, s, "setDesc", {r}, {})
        PROVE  Asked(t)
    BY <2>2, CallWith DEF Handle
  <2> QED  BY <1>1, <1>6, <2>1, <2>2, WorkAsks DEF SQLSetStmtAttr
<1>7. CASE SQLCopyDesc(t)
  <2>1. PICK d \in Desc, target \in Desc : Call(t, d, "copyDesc", {}, {target})
    BY <1>7 DEF SQLCopyDesc
  <2> QED  BY <2>1, CallWith DEF Handle
<1>8. CASE \/ SQLGetConnectAttr(t) \/ SQLGetInfo(t) \/ SQLGetFunctions(t)
           \/ SQLNativeSql(t) \/ SQLSetEnvAttr(t) \/ SQLGetEnvAttr(t)
           \/ SQLGetDiagField(t) \/ SQLGetDiagRec(t) \/ SQLCancelHandle(t)
           \/ SQLGetDescField(t) \/ SQLGetDescRec(t) \/ SQLSetDescField(t)
           \/ SQLSetDescRec(t)
  BY <1>8, WorkAsks
  DEF SQLGetConnectAttr, SQLGetInfo, SQLGetFunctions, SQLNativeSql, SQLSetEnvAttr,
      SQLGetEnvAttr, SQLGetDiagField, SQLGetDiagRec, SQLCancelHandle,
      SQLGetDescField, SQLGetDescRec, SQLSetDescField, SQLSetDescRec
<1>9. ASSUME \E roles \in {{}, {"ARD"}, {"APD"}, Role} : OfStatement(t, roles)
      PROVE  Asked(t)
  BY <1>1, <1>9, WorkAsks
<1>10. CASE \/ SQLPrepare(t) \/ SQLBindParameter(t) \/ SQLExecute(t)
            \/ SQLExecDirect(t) \/ SQLParamData(t) \/ SQLPutData(t)
            \/ SQLNumParams(t) \/ SQLDescribeParam(t) \/ SQLGetStmtAttr(t)
            \/ SQLGetCursorName(t) \/ SQLSetCursorName(t) \/ SQLBindCol(t)
            \/ SQLFetch(t) \/ SQLFetchScroll(t) \/ SQLGetData(t)
            \/ SQLNumResultCols(t) \/ SQLDescribeCol(t) \/ SQLColAttribute(t)
            \/ SQLRowCount(t) \/ SQLMoreResults(t) \/ SQLCloseCursor(t)
            \/ SQLCancel(t) \/ SQLFreeStmt(t)
  BY <1>9, <1>10
  DEF SQLPrepare, SQLBindParameter, SQLExecute, SQLExecDirect, SQLParamData,
      SQLPutData, SQLNumParams, SQLDescribeParam, SQLGetStmtAttr, SQLGetCursorName,
      SQLSetCursorName, SQLBindCol, SQLFetch, SQLFetchScroll, SQLGetData,
      SQLNumResultCols, SQLDescribeCol, SQLColAttribute, SQLRowCount,
      SQLMoreResults, SQLCloseCursor, SQLCancel, SQLFreeStmt
<1>11. CASE \/ SQLGetTypeInfo(t) \/ SQLTables(t) \/ SQLColumns(t)
            \/ SQLPrimaryKeys(t) \/ SQLForeignKeys(t) \/ SQLProcedures(t)
            \/ SQLProcedureColumns(t) \/ SQLSpecialColumns(t) \/ SQLStatistics(t)
            \/ SQLExtendedFetch(t) \/ SQLColAttributes(t) \/ SQLTablePrivileges(t)
            \/ SQLColumnPrivileges(t) \/ SQLSetPos(t) \/ SQLBulkOperations(t)
  BY <1>9, <1>11
  DEF SQLGetTypeInfo, SQLTables, SQLColumns, SQLPrimaryKeys, SQLForeignKeys,
      SQLProcedures, SQLProcedureColumns, SQLSpecialColumns, SQLStatistics,
      SQLExtendedFetch, SQLColAttributes, SQLTablePrivileges, SQLColumnPrivileges,
      SQLSetPos, SQLBulkOperations
<1> QED
  BY <1>3, <1>4, <1>5, <1>6, <1>7, <1>8, <1>10, <1>11, FreeAsks, AllocAsks
  DEF BeginCall

-----------------------------------------------------------------------------
(* A call begins, and gets its mutex.                                      *)

\* What holds of the calls of the other threads goes on to hold.
LEMMA BeginKeeps ==
  ASSUME IInv, HandleLocksAssumption, NEW t \in Thread, Asked(t)
  PROVE  IInv'
<1> USE DEF IInv
<1>1. PICK c \in Call_ :
        /\ ~InProgress(t)
        /\ c.pc = "wait"
        /\ call' = [call EXCEPT ![t] = c]
        /\ UNCHANGED <<alive, connected, told, app, owner>>
        /\ WellFormed(c)
        /\ IF c.body = "allocEnv" THEN c.handle \notin alive
           ELSE MayUse(t, NeededBy(c.handle, c.body, c.arg))
        /\ MayDelete(t, WillDelete(c.handle, c.body))
        /\ c.body = "free" => Children(c.handle, Conn \cup Stmt \cup Desc) = {}
  BY DEF Asked
<1>2. TypeOK'
  BY <1>1 DEF TypeOK
<1>3. /\ call'[t] = c
      /\ \A u \in Thread \ {t} : call'[u] = call[u]
  BY <1>1 DEF TypeOK
<1>4. Shape'
  BY <1>1, <1>3 DEF Shape, InProgress, WellFormed
<1>5. Locked'
  BY <1>1, <1>3 DEF Locked, Inside
<1>6. /\ Needed(t)' = NeededBy(c.handle, c.body, c.arg)
      /\ Going(t)' = WillDelete(c.handle, c.body)
      /\ \A u \in Thread \ {t} : /\ Needed(u)' = Needed(u)
                                 /\ Going(u)' = Going(u)
                                 /\ InProgress(u)' = InProgress(u)
                                 /\ Inside(u)' = Inside(u)
  <2>1. Needed(t)' = NeededBy(c.handle, c.body, c.arg)
    BY <1>1, <1>3 DEF Needed, NeededBy, Descriptors
  <2>2. Going(t)' = WillDelete(c.handle, c.body)
    <3>1. Children(c.handle, Stmt \cup Desc)
            = {k \in (Stmt \cup Desc) \cap alive' : Parent[k] = c.handle}
      BY <1>1 DEF Children
    <3> QED  BY <1>3, <3>1 DEF Going, WillDelete, Children
  <2>3. \A u \in Thread \ {t} : Needed(u)' = Needed(u)
    BY <1>1, <1>3 DEF Needed, NeededBy, Descriptors
  <2>4. \A u \in Thread \ {t} : Going(u)' = Going(u)
    BY <1>1, <1>3 DEF Going, WillDelete, Children
  <2>5. \A u \in Thread \ {t} : /\ InProgress(u)' = InProgress(u)
                                /\ Inside(u)' = Inside(u)
    BY <1>3 DEF InProgress, Inside
  <2> QED  BY <2>1, <2>2, <2>3, <2>4, <2>5
<1>7. NeededAlive'
  BY <1>1, <1>3, <1>6 DEF NeededAlive, MayUse
<1>8. NoneGoing'
  <2>1. ASSUME NEW u \in Thread \ {t}, InProgress(u)
        PROVE  Going(t)' \cap Needed(u) = {}
    <3>1. Needed(u) \subseteq Passed(u)
      BY DEF Needed, NeededBy, Passed
    <3> QED  BY <1>1, <1>6, <2>1, <3>1 DEF MayDelete
  <2>2. ASSUME NEW u \in Thread \ {t}, InProgress(u)
        PROVE  Going(u) \cap Needed(t)' = {}
    <3>1. CASE c.body # "allocEnv"
      BY <1>1, <1>6, <2>2, <3>1 DEF MayUse, Going
    <3>2. CASE c.body = "allocEnv"
      <4>1. Needed(t)' = {c.handle} /\ c.handle \in Env /\ c.handle \notin alive
        BY <1>1, <1>6, <3>2 DEF WellFormed, NeededBy, HandleLocksAssumption
      <4>2. Going(u) \subseteq alive
        <5>1. CASE call[u].body = "free"
          BY <2>2, <5>1 DEF Going, WillDelete, NeededAlive, Needed, NeededBy
        <5>2. CASE call[u].body = "disconnect"
          BY <5>2 DEF Going, WillDelete, Children
        <5>3. CASE call[u].body \notin {"free", "disconnect"}
          BY <5>3 DEF Going, WillDelete
        <5> QED  BY <5>1, <5>2, <5>3
      <4> QED  BY <4>1, <4>2
    <3> QED  BY <3>1, <3>2
  <2> QED  BY <1>6, <2>1, <2>2 DEF NoneGoing
<1>9. SameConnection' /\ Tree' /\ DisconnectedIsEmpty'
  BY <1>1 DEF SameConnection, Tree, DisconnectedIsEmpty, Children
<1>10. Gathered'
  <2>1. ~Inside(t)'
    BY <1>1, <1>3 DEF Inside
  <2>2. \A u \in Thread \ {t} : Current(u)' = Current(u)
    BY <1>1, <1>3 DEF Current, Children
  <2> QED  BY <1>6, <2>1, <2>2 DEF Gathered
<1>11. FreedAlone'
  BY <1>1, <1>3, <1>6 DEF FreedAlone, Children
<1> QED  BY <1>2, <1>4, <1>5, <1>7, <1>8, <1>9, <1>10, <1>11

\* A function that has its mutex is the only one that has; what it collects
\* is current.
LEMMA AcquireKeeps ==
  ASSUME IInv, HandleLocksAssumption, NEW t \in Thread, Acquire(t)
  PROVE  IInv'
<1> USE DEF IInv
<1> DEFINE c == call[t]
<1> DEFINE n == call'[t]
<1>1. /\ c \in Call_ /\ c.pc = "wait" /\ WellFormed(c)
      /\ \A u \in Thread \ {t} : call'[u] = call[u]
      /\ UNCHANGED <<alive, connected, told, app>>
  BY DEF Acquire, TypeOK, Shape, InProgress
<1>2. /\ n.pc = "inside" /\ n.handle = c.handle /\ n.lock = c.lock
      /\ n.body = IF Valid(c) THEN c.body ELSE "none"
      /\ n.arg = IF Valid(c) THEN Collected(c) ELSE {}
      /\ n.roles = IF Valid(c) THEN c.roles ELSE {}
      /\ n = [c EXCEPT !.pc = "inside",
                       !.body = IF Valid(c) THEN c.body ELSE "none",
                       !.roles = IF Valid(c) THEN c.roles ELSE {},
                       !.arg = IF Valid(c) THEN Collected(c) ELSE {}]
  BY DEF Acquire, TypeOK, Call_
<1>3. Collected(c) \in SUBSET (Handle \cup (Stmt \X Role))
  BY <1>1 DEF Collected, Children, Call_, Handle
<1>4. n \in Call_
  BY <1>1, <1>2, <1>3 DEF Call_
<1>5. TypeOK'
  <2>1. call' = [call EXCEPT ![t] = n]
    BY DEF Acquire, TypeOK
  <2>2. owner' \in [Mutex -> Thread \cup {Nobody}]
    BY DEF Acquire, TypeOK
  <2> QED  BY <1>1, <1>4, <2>1, <2>2 DEF TypeOK
<1>6. c.body \in {"setDesc", "copyDesc", "free", "allocEnv"} => n.body = c.body
  BY <1>2 DEF Valid
<1>7. n.body \in {c.body, "none"}
  BY <1>2
<1>8. n.body \in {"setDesc", "copyDesc"} => n.arg = c.arg
  BY <1>2 DEF Collected
<1>9. Shape'
  <2>1. WellFormed(n)
    BY <1>1, <1>2, <1>6, <1>7, <1>8 DEF WellFormed
  <2>2. \A u \in Thread : WellFormed(call[u])' = WellFormed(call'[u])
    BY DEF WellFormed
  <2> QED  BY <1>1, <2>1, <2>2 DEF Shape, InProgress
<1>10. Locked'
  BY <1>1, <1>2 DEF Acquire, Locked, Inside, TypeOK, Call_, HandleLocksAssumption
<1>11. /\ Needed(t)' \subseteq Needed(t)
       /\ Going(t)' \subseteq Going(t)
       /\ \A u \in Thread \ {t} : Needed(u)' = Needed(u) /\ Going(u)' = Going(u)
  <2>1. Needed(t)' \subseteq Needed(t)
    BY <1>1, <1>2, <1>6, <1>7, <1>8 DEF Needed, NeededBy, Descriptors
  <2>2. Going(t)' \subseteq Going(t)
    BY <1>1, <1>2, <1>7 DEF Going, WillDelete, Children
  <2>3. ASSUME NEW u \in Thread \ {t}
        PROVE  Needed(u)' = Needed(u) /\ Going(u)' = Going(u)
    <3>1. call'[u] = call[u] /\ alive' = alive /\ app' = app
      BY <1>1
    <3> QED  BY ONLY <3>1 DEF Needed, NeededBy, Descriptors, Going, WillDelete, Children
  <2> QED  BY <2>1, <2>2, <2>3
<1>12. NeededAlive'
  <2>1. InProgress(t) /\ (n.body # "allocEnv" => c.body # "allocEnv")
    BY <1>1, <1>6 DEF InProgress
  <2>2. n.body # "allocEnv" => Needed(t)' \subseteq alive'
    BY <1>1, <1>11, <2>1 DEF NeededAlive
  <2>3. ASSUME NEW u \in Thread \ {t}, InProgress(u)', call'[u].body # "allocEnv"
        PROVE  Needed(u)' \subseteq alive'
    BY <1>1, <1>11, <2>3 DEF NeededAlive, InProgress
  <2> QED  BY <2>2, <2>3 DEF NeededAlive
<1>13. NoneGoing'
  BY <1>1, <1>2, <1>11 DEF NoneGoing, InProgress
<1>14. SameConnection' /\ Tree' /\ DisconnectedIsEmpty'
  BY <1>1 DEF SameConnection, Tree, DisconnectedIsEmpty, Children
<1>15. Gathered'
  <2>1. Current(t)'
    <3>1. CASE n.body = "free"
      <4>1. n.arg = IF c.handle \in Desc
                      THEN {p \in Stmt \X Role : app[p[1]][p[2]] = c.handle} ELSE {}
        BY <1>1, <1>2, <1>7, <3>1 DEF Collected, WellFormed
      <4>2. ASSUME NEW p \in n.arg
            PROVE  p[1] \in Children(Parent[c.handle], Stmt)
        <5>1. c.handle \in Desc /\ p \in Stmt \X Role /\ app[p[1]][p[2]] = c.handle
          BY <4>1
        <5>2. c.handle # Implicit
          BY <5>1 DEF HandleLocksAssumption
        <5> QED  BY <5>1, <5>2 DEF SameConnection, Children
      <4>3. ASSUME c.handle \in Desc, NEW s \in Stmt, NEW r \in Role,
                   app[s][r] = c.handle
            PROVE  <<s, r>> \in n.arg
        BY <4>1, <4>3
      <4> QED  BY <1>1, <1>2, <3>1, <4>2, <4>3 DEF Current, Children
    <3>2. CASE n.body # "free"
      <4>1. n.body # "none" => n.arg = Collected(c) /\ n.body = c.body /\ Valid(c)
        BY <1>2
      <4>2. n.body \in {"allocStmt", "allocDesc", "disconnect"} => n.handle \in connected
        BY <1>2, <4>1 DEF Valid
      <4>3. n.body = "disconnect" => n.arg = Children(n.handle, Stmt \cup Desc)
        BY <1>2, <4>1 DEF Collected
      <4>4. n.body = "sweep" => n.arg \subseteq Children(n.handle, Stmt)
        BY <1>2, <4>1 DEF Collected
      <4>5. n.body = "endTranEnv" => Walk(n.arg, Children(n.handle, Conn))
        <5>1. SUFFICES ASSUME n.body = "endTranEnv"
                       PROVE  Walk(n.arg, Children(n.handle, Conn))
          OBVIOUS
        <5> DEFINE conns == Children(n.handle, Conn)
        <5>2. n.arg = conns \cup UNION {Children(k, Stmt) : k \in conns}
          BY <1>2, <4>1, <5>1 DEF Collected
        <5>3. conns \subseteq Conn
          BY DEF Children
        <5>4. \A k \in conns : \A s \in Children(k, Stmt) : s \in Stmt /\ Parent[s] = k
          BY DEF Children
        <5> HIDE DEF conns
        <5>5. \A s \in n.arg : s \in conns \/ (s \in Stmt /\ Parent[s] \in conns)
          BY <5>2, <5>4
        <5>6. n.arg \cap Conn \subseteq conns
          BY <5>5 DEF HandleLocksAssumption
        <5>7. conns \subseteq n.arg
          BY <5>2
        <5>8. Walk(n.arg, conns)
          BY <5>3, <5>5, <5>6, <5>7 DEF Walk
        <5> QED  BY <5>8 DEF conns
      <4>6. \A h, S : Children(h, S)' = Children(h, S)
        BY <1>1 DEF Children
      <4> QED  BY <1>1, <3>2, <4>2, <4>3, <4>4, <4>5, <4>6 DEF Current
    <3> QED  BY <3>1, <3>2
  <2>2. \A u \in Thread \ {t} : Current(u)' = Current(u)
    BY <1>1 DEF Current, Children
  <2> QED  BY <1>1, <2>1, <2>2 DEF Gathered, Inside
<1>16. FreedAlone'
  <2>1. (call[t].body = "free" =>
           Children(call[t].handle, Conn \cup Stmt \cup Desc) = {})'
    BY <1>1, <1>2, <1>7 DEF FreedAlone, InProgress, Children
  <2>2. ASSUME NEW u \in Thread \ {t}
        PROVE  (InProgress(u) /\ call[u].body = "free" =>
                  Children(call[u].handle, Conn \cup Stmt \cup Desc) = {})'
    BY <1>1 DEF FreedAlone, InProgress, Children
  <2> QED  BY <2>1, <2>2 DEF FreedAlone
<1> QED  BY <1>5, <1>9, <1>10, <1>12, <1>13, <1>14, <1>15, <1>16

-----------------------------------------------------------------------------
(* A function does its work and returns.                                   *)

\* Two functions are never inside under the same mutex.
LEMMA OwnMutex ==
  ASSUME IInv, NEW t \in Thread, NEW u \in Thread \ {t}, Inside(t), Inside(u),
         call[u].lock # NoMutex
  PROVE  call[u].lock # call[t].lock
BY DEF IInv, Locked

\* HandleLock's destructor gives the mutex back, and it alone.
LEMMA ReleaseKeeps ==
  ASSUME IInv, HandleLocksAssumption, NEW t \in Thread, Inside(t), Release(t)
  PROVE  /\ owner' \in [Mutex -> Thread \cup {Nobody}]
         /\ call' \in [Thread -> Call_]
         /\ Shape' /\ Locked'
         /\ ~InProgress(t)'
         /\ \A u \in Thread \ {t} : call'[u] = call[u]
<1>1. /\ Idle \in Call_ /\ call' = [call EXCEPT ![t] = Idle]
      /\ call \in [Thread -> Call_]
  BY DEF Idle, Call_, Release, IInv, TypeOK
<1>2. call'[t] = Idle /\ \A u \in Thread \ {t} : call'[u] = call[u]
  BY <1>1
<1>3. owner' \in [Mutex -> Thread \cup {Nobody}]
  BY DEF Release, IInv, TypeOK
<1>4. ~InProgress(t)' /\ ~Inside(t)'
  BY <1>2 DEF InProgress, Inside, Idle
<1>5. Shape'
  BY <1>2, <1>4 DEF IInv, Shape, InProgress, WellFormed
<1>6. Locked'
  <2>1. ASSUME NEW u \in Thread \ {t}, Inside(u), call[u].lock # NoMutex
        PROVE  owner'[call[u].lock] = u
    <3>1. call[u].lock # call[t].lock /\ owner[call[u].lock] = u
      BY <2>1, OwnMutex DEF IInv, Locked
    <3> QED  BY <3>1 DEF Release, IInv, TypeOK
  <2> QED  BY <1>2, <1>4, <2>1 DEF Locked, Inside
<1> QED  BY <1>1, <1>2, <1>3, <1>4, <1>5, <1>6

\* What a function may change for the calls of the others to go on: children
\* of the handle it has locked, handles it said it would delete, and
\* descriptors it was called with.
LEMMA OthersKeep ==
  ASSUME IInv, HandleLocksAssumption, NEW t \in Thread, Inside(t), Release(t),
         \A h \in Conn \cup Stmt \cup Desc :
           (h \in alive <=> h \in alive') \/ Parent[h] = call[t].lock,
         alive \ alive' \subseteq Going(t),
         \A h \in alive' \ alive : h \in Env \/ Parent[h] = call[t].handle,
         \A c \in connected \ connected' : c = call[t].lock \/ c \in Going(t),
         \A s \in Stmt, r \in Role :
           app'[s][r] \in {Implicit, app[s][r]}
                            \cup (Needed(t) \cap alive \cap alive')
  PROVE  NeededAlive' /\ NoneGoing' /\ Gathered' /\ FreedAlone'
<1> USE DEF IInv
<1>1. /\ ~InProgress(t)' /\ ~Inside(t)' /\ InProgress(t)
      /\ \A u \in Thread \ {t} : call'[u] = call[u]
  BY ReleaseKeeps DEF InProgress, Inside
<1>2. ASSUME NEW u \in Thread \ {t}
      PROVE  Needed(u)' \subseteq Needed(u) \cup (Needed(t) \cap alive \cap alive')
  BY <1>1 DEF Needed, NeededBy, Descriptors
<1>3. ASSUME NEW u \in Thread \ {t}, InProgress(u)
      PROVE  /\ Going(u)' \subseteq Going(u) \cup (alive' \ alive)
             /\ Going(u)' \cap Env \subseteq Going(u)
  <2>1. CASE call[u].body = "free"
    BY <1>1, <2>1 DEF Going, WillDelete
  <2>2. CASE call[u].body = "disconnect"
    BY <1>1, <2>2 DEF Going, WillDelete, Children, HandleLocksAssumption
  <2>3. CASE call[u].body \notin {"free", "disconnect"}
    BY <1>1, <2>3 DEF Going, WillDelete
  <2> QED  BY <2>1, <2>2, <2>3
<1>4. NeededAlive'
  <2>1. ASSUME NEW u \in Thread \ {t}, InProgress(u), call[u].body # "allocEnv"
        PROVE  Needed(u)' \subseteq alive'
    <3>1. Needed(u) \subseteq alive /\ Going(t) \cap Needed(u) = {}
      BY <1>1, <2>1 DEF NeededAlive, NoneGoing
    <3> QED  BY <1>2, <3>1
  <2> QED  BY <1>1, <2>1 DEF NeededAlive, InProgress
<1>5. NoneGoing'
  <2>1. ASSUME NEW u \in Thread \ {t}, NEW v \in Thread \ {t, u},
               InProgress(u), InProgress(v), NEW x \in Going(u)' \cap Needed(v)'
        PROVE  FALSE
    <3>1. Going(u) \cap Needed(v) = {} /\ Going(u) \cap Needed(t) = {}
      BY <1>1, <2>1 DEF NoneGoing
    <3>2. x \notin Going(u)
      BY <1>2, <2>1, <3>1
    <3>3. x \notin alive /\ x \notin Env /\ x \in Needed(v)
      BY <1>2, <1>3, <2>1, <3>2
    <3>4. call[v].body = "allocEnv"
      BY <2>1, <3>3 DEF NeededAlive
    <3>5. call[v].handle \in Env
      BY <2>1, <3>4 DEF Shape, WellFormed
    <3>6. Needed(v) = {call[v].handle}
      BY <3>4, <3>5 DEF Needed, NeededBy, HandleLocksAssumption
    <3> QED  BY <3>3, <3>5, <3>6
  <2>2. \A u \in Thread : InProgress(u)' => u # t /\ InProgress(u)
    BY <1>1 DEF InProgress
  <2> QED  BY <2>1, <2>2 DEF NoneGoing
<1>6. Gathered'
  <2>1. ASSUME NEW u \in Thread \ {t}, Inside(u)
        PROVE  Current(u)'
    <3>1. CASE call[u].body = "allocEnv"
      BY <1>1, <3>1 DEF Current
    <3>2. CASE call[u].body # "allocEnv"
      <4>1. /\ WellFormed(call[u]) /\ call[u] \in Call_ /\ Current(u)
            /\ Going(t) \cap Needed(u) = {} /\ Going(u) \cap Needed(t) = {}
        BY <1>1, <2>1 DEF Shape, InProgress, Inside, Gathered, NoneGoing, TypeOK
      <4>2. call[u].lock # NoMutex /\ call[u].lock # call[t].lock
        <5>1. call[u].lock # NoMutex
          BY <3>2, <4>1 DEF WellFormed, Mutex, HandleLocksAssumption
        <5> QED  BY <2>1, <5>1, OwnMutex
      <4>3. \A K \in {Conn, Stmt, Stmt \cup Desc} :
              Children(call[u].lock, K)' = Children(call[u].lock, K)
        BY <1>1, <4>2 DEF Children
      <4>4. call[u].body # "free" => call[u].lock = call[u].handle
        BY <3>2, <4>1 DEF WellFormed
      <4>5. call[u].body = "free" => call[u].lock = Parent[call[u].handle]
        BY <4>1 DEF WellFormed
      <4>6. call[u].body \in {"allocStmt", "allocDesc", "disconnect"} =>
              call[u].handle \in connected'
        BY <4>1, <4>2, <4>4 DEF Current, Needed, NeededBy
      <4>7. ASSUME call[u].body = "free", call[u].handle \in Desc,
                   NEW s \in Stmt, NEW r \in Role, app'[s][r] = call[u].handle
            PROVE  <<s, r>> \in call[u].arg
        <5>1. call[u].handle \notin Needed(t) /\ call[u].handle # Implicit
          BY <4>1, <4>7 DEF Going, WillDelete, HandleLocksAssumption
        <5>2. app[s][r] = call[u].handle
          BY <4>7, <5>1
        <5> QED  BY <4>1, <4>7, <5>2 DEF Current
      <4> QED  BY <1>1, <4>1, <4>3, <4>4, <4>5, <4>6, <4>7 DEF Current
    <3> QED  BY <3>1, <3>2
  <2> QED  BY <1>1, <2>1 DEF Gathered, Inside
<1>7. FreedAlone'
  <2>1. ASSUME NEW u \in Thread \ {t}, InProgress(u), call[u].body = "free"
        PROVE  Children(call[u].handle, Conn \cup Stmt \cup Desc)' = {}
    <3>1. call[u].handle # call[t].handle
      BY <1>1, <2>1 DEF NoneGoing, Going, WillDelete, Needed, NeededBy
    <3>2. \A h \in Conn \cup Stmt \cup Desc : h \notin Env
      BY DEF HandleLocksAssumption
    <3> QED  BY <1>1, <2>1, <3>1, <3>2 DEF FreedAlone, Children
  <2>2. \A u \in Thread : InProgress(u)' => u # t /\ InProgress(u)
    BY <1>1 DEF InProgress
  <2> QED  BY <1>1, <2>1, <2>2 DEF FreedAlone, Children
<1> QED  BY <1>4, <1>5, <1>6, <1>7

\* A function that leaves the handles as they are: it fails, or it is one of
\* those that neither create, delete nor associate a handle.
LEMMA LeaveKeeps ==
  ASSUME IInv, HandleLocksAssumption, NEW t \in Thread, Inside(t), Release(t),
         UNCHANGED <<alive, connected, told, app>>
  PROVE  IInv'
<1>1. TypeOK' /\ Shape' /\ Locked'
  BY ReleaseKeeps DEF IInv, TypeOK
<1>2. NeededAlive' /\ NoneGoing' /\ Gathered' /\ FreedAlone'
  BY OthersKeep
<1>3. SameConnection' /\ Tree' /\ DisconnectedIsEmpty'
  BY DEF IInv, SameConnection, Tree, DisconnectedIsEmpty, Children
<1> QED  BY <1>1, <1>2, <1>3 DEF IInv

\* SQLAllocHandle: the parent of the new handle is there, and connected when
\* it is a connection.
LEMMA AllocKeeps ==
  ASSUME IInv, HandleLocksAssumption, NEW t \in Thread, Inside(t), Release(t),
         DoAlloc(t)
  PROVE  IInv'
<1> USE DEF IInv
<1> DEFINE c == call[t]
<1>1. /\ WellFormed(c) /\ Current(t)
      /\ c.body # "allocEnv" => c.handle \in alive
  BY DEF Shape, InProgress, Inside, Gathered, NeededAlive, Needed, NeededBy
<1>2. PICK h \in Handle :
        /\ alive' = alive \cup {h}
        /\ h \in Env \/ (Parent[h] = c.handle /\ c.lock = c.handle /\ c.body # "allocEnv")
        /\ h \in Stmt \cup Desc => c.handle \in connected
        /\ UNCHANGED <<connected, told, app>>
  <2>1. CASE c.body = "allocEnv"
    BY <1>1, <2>1 DEF DoAlloc, WellFormed
  <2>2. CASE c.body = "allocConn" /\ NewHandle(t, Conn)
    BY <1>1, <2>2 DEF NewHandle, WellFormed, Handle, HandleLocksAssumption
  <2>3. CASE c.body = "allocStmt" /\ NewHandle(t, Stmt)
    BY <1>1, <2>3 DEF NewHandle, WellFormed, Current, Handle
  <2>4. CASE c.body = "allocDesc" /\ NewHandle(t, Desc)
    BY <1>1, <2>4 DEF NewHandle, WellFormed, Current, Handle
  <2> QED  BY <2>1, <2>2, <2>3, <2>4 DEF DoAlloc
<1>3. TypeOK' /\ Shape' /\ Locked'
  BY <1>2, ReleaseKeeps DEF TypeOK
<1>4. NeededAlive' /\ NoneGoing' /\ Gathered' /\ FreedAlone'
  <2>1. \A k \in Conn \cup Stmt \cup Desc : k \notin Env
    BY DEF HandleLocksAssumption
  <2> QED  BY <1>2, <2>1, OthersKeep
<1>5. SameConnection'
  BY <1>2 DEF SameConnection
<1>6. Tree'
  BY <1>1, <1>2 DEF Tree, HandleLocksAssumption
<1>7. DisconnectedIsEmpty'
  <2>1. h \in Stmt \cup Desc => Parent[h] \in connected
    BY <1>2, <1>1 DEF HandleLocksAssumption
  <2> QED  BY <1>2, <2>1 DEF DisconnectedIsEmpty, Children
<1> QED  BY <1>3, <1>4, <1>5, <1>6, <1>7

\* SQLConnect, SQLDriverConnect and SQLBrowseConnect.
LEMMA ConnectKeeps ==
  ASSUME IInv, HandleLocksAssumption, NEW t \in Thread, Inside(t), Release(t),
         DoConnect(t)
  PROVE  IInv'
<1>1. call[t].handle \in Conn
  BY DEF IInv, Shape, InProgress, Inside, WellFormed, DoConnect
<1>2. TypeOK' /\ Shape' /\ Locked'
  BY <1>1, ReleaseKeeps DEF IInv, TypeOK, DoConnect
<1>3. NeededAlive' /\ NoneGoing' /\ Gathered' /\ FreedAlone'
  BY OthersKeep DEF DoConnect
<1>4. SameConnection' /\ Tree' /\ DisconnectedIsEmpty'
  BY DEF IInv, SameConnection, Tree, DisconnectedIsEmpty, Children, DoConnect
<1> QED  BY <1>2, <1>3, <1>4 DEF IInv

\* SQLDisconnect: what it has collected is everything there is to delete.
LEMMA DisconnectKeeps ==
  ASSUME IInv, HandleLocksAssumption, NEW t \in Thread, Inside(t), Release(t),
         DoDisconnect(t)
  PROVE  IInv'
<1> USE DEF IInv
<1> DEFINE c == call[t]
<1>1. /\ c.handle \in Conn /\ c.lock = c.handle
      /\ c.arg = Children(c.handle, Stmt \cup Desc) /\ Going(t) = c.arg
  BY DEF Shape, InProgress, Inside, WellFormed, DoDisconnect, Gathered, Current,
         Going, WillDelete
<1>2. /\ alive' = alive \ c.arg
      /\ connected' = connected \ {c.handle} /\ told' = told \ {c.handle}
      /\ \A s \in Stmt, r \in Role :
           app'[s][r] = IF s \in c.arg \/ app[s][r] \in c.arg THEN Implicit ELSE app[s][r]
  BY DEF DoDisconnect, Without
<1>3. TypeOK' /\ Shape' /\ Locked'
  <2>1. app' \in [Stmt -> [Role -> Desc \cup {Implicit}]]
    BY DEF DoDisconnect, Without, TypeOK
  <2> QED  BY <1>2, <2>1, ReleaseKeeps DEF TypeOK
<1>4. NeededAlive' /\ NoneGoing' /\ Gathered' /\ FreedAlone'
  <2>1. \A h \in Conn \cup Stmt \cup Desc :
          (h \in alive <=> h \in alive') \/ Parent[h] = c.lock
    BY <1>1, <1>2 DEF Children
  <2>2. alive \ alive' \subseteq Going(t) /\ alive' \ alive = {}
    BY <1>1, <1>2
  <2>3. \A a \in connected \ connected' : a = c.lock
    BY <1>1, <1>2
  <2>4. \A s \in Stmt, r \in Role : app'[s][r] \in {Implicit, app[s][r]}
    BY <1>2
  <2> QED  BY <2>1, <2>2, <2>3, <2>4, OthersKeep
<1>5. SameConnection'
  BY <1>2 DEF SameConnection
<1>6. Tree'
  <2>1. \A h \in Handle : Parent[h] \notin c.arg
    BY <1>1 DEF Children, Handle, HandleLocksAssumption
  <2> QED  BY <1>2, <2>1 DEF Tree, TypeOK
<1>7. DisconnectedIsEmpty'
  BY <1>1, <1>2 DEF DisconnectedIsEmpty, Children
<1> QED  BY <1>3, <1>4, <1>5, <1>6, <1>7

\* SQLFreeHandle: the handle has no children, and no statement is left with a
\* descriptor that goes.
LEMMA FreeKeeps ==
  ASSUME IInv, HandleLocksAssumption, NEW t \in Thread, Inside(t), Release(t),
         DoFree(t)
  PROVE  IInv'
<1> USE DEF IInv
<1> DEFINE c == call[t]
<1>1. /\ c.handle \in Handle /\ c.lock = Parent[c.handle]
      /\ Going(t) = {c.handle} /\ Current(t) /\ c.body = "free"
      /\ Children(c.handle, Conn \cup Stmt \cup Desc) = {}
  BY DEF Shape, InProgress, Inside, WellFormed, DoFree, Gathered, Going, WillDelete,
         FreedAlone
<1>2. /\ alive' = alive \ {c.handle} /\ connected' = connected \ {c.handle}
      /\ told' = told
      /\ \A s \in Stmt, r \in Role :
           app'[s][r] = IF s = c.handle \/ <<s, r>> \in c.arg THEN Implicit ELSE app[s][r]
  BY DEF DoFree
<1>3. TypeOK' /\ Shape' /\ Locked'
  <2>1. app' \in [Stmt -> [Role -> Desc \cup {Implicit}]]
    BY DEF DoFree, TypeOK
  <2> QED  BY <1>2, <2>1, ReleaseKeeps DEF TypeOK
<1>4. NeededAlive' /\ NoneGoing' /\ Gathered' /\ FreedAlone'
  <2>1. \A h \in Conn \cup Stmt \cup Desc :
          (h \in alive <=> h \in alive') \/ Parent[h] = c.lock
    BY <1>1, <1>2
  <2>2. alive \ alive' \subseteq Going(t) /\ alive' \ alive = {}
    BY <1>1, <1>2
  <2>3. \A a \in connected \ connected' : a \in Going(t)
    BY <1>1, <1>2
  <2>4. \A s \in Stmt, r \in Role : app'[s][r] \in {Implicit, app[s][r]}
    BY <1>2
  <2> QED  BY <2>1, <2>2, <2>3, <2>4, OthersKeep
<1>5. SameConnection'
  <2>1. ASSUME NEW s \in Stmt, NEW r \in Role, app'[s][r] # Implicit
        PROVE  /\ s # c.handle /\ app[s][r] # c.handle
               /\ app'[s][r] = app[s][r]
    <3>1. s # c.handle /\ <<s, r>> \notin c.arg /\ app'[s][r] = app[s][r]
      BY <1>2, <2>1
    <3>2. app[s][r] \in Desc
      BY <2>1, <3>1 DEF TypeOK
    <3> QED  BY <1>1, <3>1, <3>2 DEF Current
  <2>2. alive' = alive \ {c.handle}
    BY <1>2
  <2> QED  BY <2>1, <2>2 DEF SameConnection
<1>6. Tree'
  <2>1. ASSUME NEW h \in alive PROVE Parent[h] # c.handle
    <3>1. CASE h \in Env
      BY <1>1, <3>1 DEF HandleLocksAssumption
    <3>2. CASE h \notin Env
      BY <1>1, <3>2 DEF Children, TypeOK, Handle
    <3> QED  BY <3>1, <3>2
  <2> QED  BY <1>2, <2>1 DEF Tree
<1>7. DisconnectedIsEmpty'
  BY <1>1, <1>2 DEF DisconnectedIsEmpty, Children
<1> QED  BY <1>3, <1>4, <1>5, <1>6, <1>7

\* SQLSetStmtAttr: the descriptor is one of the statement's connection.
LEMMA SetDescKeeps ==
  ASSUME IInv, HandleLocksAssumption, NEW t \in Thread, Inside(t), Release(t),
         DoSetDesc(t)
  PROVE  IInv'
<1> USE DEF IInv
<1> DEFINE c == call[t]
<1>1. /\ c.handle \in Stmt /\ c.arg \subseteq {d \in Desc : Parent[d] = Parent[c.handle]}
      /\ c.handle \in alive /\ c.arg \subseteq alive /\ c.arg \subseteq Needed(t)
  <2>1. c.body = "setDesc" /\ InProgress(t)
    BY DEF DoSetDesc, InProgress, Inside
  <2>2. WellFormed(c)
    BY <2>1 DEF Shape
  <2>3. {c.handle} \cup c.arg \subseteq Needed(t) /\ Needed(t) \subseteq alive
    BY <2>1 DEF NeededAlive, Needed, NeededBy
  <2> QED  BY <2>1, <2>2, <2>3 DEF WellFormed
<1>2. /\ UNCHANGED <<alive, connected, told>>
      /\ app' \in [Stmt -> [Role -> Desc \cup {Implicit}]]
      /\ \A s \in Stmt, r \in Role :
           \/ app'[s][r] = app[s][r]
           \/ s = c.handle /\ app'[s][r] \in {Implicit} \cup c.arg
  <2> DEFINE new == [r \in Role |-> IF r \notin c.roles THEN app[c.handle][r]
                                    ELSE IF c.arg = {} THEN Implicit
                                    ELSE CHOOSE d \in c.arg : TRUE]
  <2>1. app' = [app EXCEPT ![c.handle] = new]
    BY DEF DoSetDesc
  <2>2. \A r \in Role : new[r] \in {app[c.handle][r], Implicit} \cup c.arg
    OBVIOUS
  <2>3. new \in [Role -> Desc \cup {Implicit}]
    BY <1>1, <2>2 DEF TypeOK
  <2> HIDE DEF new
  <2> QED  BY <1>1, <2>1, <2>2, <2>3 DEF TypeOK, DoSetDesc
<1>3. TypeOK' /\ Shape' /\ Locked'
  BY <1>2, ReleaseKeeps DEF TypeOK
<1>4. NeededAlive' /\ NoneGoing' /\ Gathered' /\ FreedAlone'
  BY <1>1, <1>2, OthersKeep
<1>5. SameConnection'
  BY <1>1, <1>2 DEF SameConnection
<1>6. Tree' /\ DisconnectedIsEmpty'
  BY <1>2 DEF Tree, DisconnectedIsEmpty, Children
<1> QED  BY <1>3, <1>4, <1>5, <1>6

-----------------------------------------------------------------------------
(* The theorems.                                                           *)

LEMMA InitIInv == ASSUME HandleLocksAssumption, Init PROVE IInv
<1>1. \A t \in Thread : ~InProgress(t) /\ ~Inside(t)
  BY DEF Init, Idle, InProgress, Inside
<1>2. TypeOK
  <2>1. Idle \in Call_
    BY DEF Idle, Call_
  <2> QED  BY <2>1 DEF Init, TypeOK
<1>3. Shape /\ Locked /\ NeededAlive /\ NoneGoing /\ Gathered /\ FreedAlone
  BY <1>1 DEF Shape, Locked, NeededAlive, NoneGoing, Gathered, FreedAlone
<1>4. SameConnection /\ Tree /\ DisconnectedIsEmpty
  BY DEF Init, SameConnection, Tree, DisconnectedIsEmpty, Children
<1> QED  BY <1>2, <1>3, <1>4 DEF IInv

LEMMA NextIInv == ASSUME HandleLocksAssumption, IInv, [Next]_vars PROVE IInv'
<1>1. CASE UNCHANGED vars
  <2> USE <1>1 DEF vars, IInv
  <2>1. TypeOK' /\ Shape' /\ Locked'
    BY DEF TypeOK, Shape, WellFormed, InProgress, Inside, Locked
  <2>2. \A t \in Thread :
          /\ Needed(t)' = Needed(t) /\ Going(t)' = Going(t)
          /\ InProgress(t)' = InProgress(t) /\ Inside(t)' = Inside(t)
    BY DEF Needed, NeededBy, Descriptors, Going, WillDelete, Children, InProgress, Inside
  <2>3. NeededAlive' /\ NoneGoing'
    BY <2>2 DEF NeededAlive, NoneGoing
  <2>4. Gathered' /\ FreedAlone'
    BY <2>2 DEF Gathered, Current, FreedAlone, Children, Walk
  <2>5. SameConnection' /\ Tree'
    BY DEF SameConnection, Tree
  <2>6. DisconnectedIsEmpty'
    BY DEF DisconnectedIsEmpty, Children
  <2> QED  BY <2>1, <2>3, <2>4, <2>5, <2>6
<1>2. ASSUME NEW t \in Thread, BeginCall(t) PROVE IInv'
  BY <1>2, BeginCallAsks, BeginKeeps DEF IInv
<1>3. ASSUME NEW t \in Thread, Acquire(t) PROVE IInv'
  BY <1>3, AcquireKeeps
<1>4. ASSUME NEW t \in Thread, Fail(t) PROVE IInv'
  BY <1>4, LeaveKeeps DEF Fail, Inside
<1>5. ASSUME NEW t \in Thread, Work(t) PROVE IInv'
  <2>1. Inside(t) /\ Release(t)
    BY <1>5 DEF Work, Inside
  <2>2. CASE DoWork(t)
    BY <2>1, <2>2, LeaveKeeps DEF DoWork
  <2> QED
    BY <1>5, <2>1, <2>2, AllocKeeps, ConnectKeeps, DisconnectKeeps, FreeKeeps, SetDescKeeps
    DEF Work
<1> QED  BY <1>1, <1>2, <1>3, <1>4, <1>5 DEF Next

LEMMA Invariance == Spec => []IInv
<1>1. HandleLocksAssumption
  BY HandleLocksAssumption
<1> QED  BY <1>1, InitIInv, NextIInv, PTL DEF Spec

\* The state of the handles stays well typed, whatever the functions do.
THEOREM TypeCorrect == Spec => []TypeOK
<1>1. IInv => TypeOK
  BY DEF IInv
<1> QED  BY <1>1, Invariance, PTL

\* SQLAllocHandle, SQLFreeHandle, SQLDisconnect, SQLEndTran and
\* SQLSetConnectAttr are never two at a time at one std::set of children, as
\* the mutex each of them holds is that of the handle the set belongs to; only
\* at the statements an SQLEndTran of an environment has reached they may meet.
THEOREM FamiliesAreGuarded == Spec => []FamiliesGuarded
<1>1. ASSUME IInv, NEW v \in Thread, NEW h \in Family(v) \ Reached(v)
      PROVE  Inside(v) /\ h = call[v].lock /\ call[v].lock # NoMutex
  <2>1. Inside(v) /\ WellFormed(call[v])
    BY <1>1 DEF Family, IInv, Shape, InProgress, Inside
  <2>2. CASE call[v].body = "free"
    <3>1. call[v].lock \in Mutex
      BY <2>1, <2>2, HandleLocksAssumption DEF WellFormed, Mutex, HandleLocksAssumption
    <3> QED  BY <1>1, <2>1, <2>2, <3>1, HandleLocksAssumption
             DEF Family, WellFormed, HandleLocksAssumption
  <2>3. CASE call[v].body # "free"
    <3>1. call[v].body \in {"allocConn", "allocStmt", "allocDesc",
                            "disconnect", "sweep", "endTranEnv"}
      BY <1>1, <2>1, <2>3 DEF Family
    <3>2. call[v].lock = call[v].handle /\ call[v].handle \in Mutex
      BY <2>1, <3>1 DEF WellFormed, Mutex
    <3>3. h = call[v].handle
      BY <1>1, <2>1, <3>1 DEF Family, Reached
    <3> QED  BY <2>1, <3>2, <3>3, HandleLocksAssumption DEF HandleLocksAssumption
  <2> QED  BY <2>2, <2>3
<1>2. ASSUME IInv, NEW t \in Thread, NEW u \in Thread \ {t},
             NEW h \in Family(t) \cap Family(u), h \notin Reached(t) \cup Reached(u)
      PROVE  FALSE
  <2>1. /\ Inside(t) /\ Inside(u) /\ call[u].lock # NoMutex
        /\ call[t].lock = call[u].lock
    BY <1>1, <1>2
  <2> QED  BY <1>2, <2>1, OwnMutex
<1>3. IInv => FamiliesGuarded
  BY <1>2 DEF FamiliesGuarded
<1> QED  BY <1>3, Invariance, PTL

\* As long as the application deletes no handle that is in use, the driver
\* deletes none either: a function finds every handle it goes on to read, but
\* for the statements an SQLEndTran of an environment has reached.
THEOREM NothingUsedAfterFree == Spec => []NoUseAfterFree
<1>1. ASSUME IInv, NEW t \in Thread
      PROVE  InUse(t) \ {s \in Stmt : Parent[s] \in Reached(t)} \subseteq alive
  <2>1. CASE ~Inside(t)
    BY <2>1 DEF InUse
  <2>2. CASE Inside(t)
    <3> DEFINE c == call[t]
    <3>1. InProgress(t) /\ WellFormed(c) /\ Current(t)
      BY <1>1, <2>2 DEF IInv, Shape, Gathered, InProgress, Inside
    <3>2. c.body # "allocEnv" => Needed(t) \subseteq alive
      BY <1>1, <3>1 DEF IInv, NeededAlive
    <3>3. c.body # "allocEnv" => c.handle \in alive
      BY <3>2 DEF Needed, NeededBy
    <3>4. Visited(c) \ {s \in Stmt : Parent[s] \in Reached(t)} \subseteq alive
      <4>1. CASE c.body = "free"
        BY <3>1, <4>1 DEF Visited, Current, Children
      <4>2. CASE c.body \in {"setDesc", "copyDesc"}
        BY <3>2, <4>2 DEF Visited, Needed, NeededBy
      <4>3. CASE c.body \in {"disconnect", "sweep"}
        BY <3>1, <4>3 DEF Visited, Current, Children
      <4>5. CASE c.body = "endTranEnv"
        <5>1. Walk(c.arg, Children(c.handle, Conn)) /\ Visited(c) = c.arg
          BY <3>1, <4>5 DEF Visited, Current
        <5>2. Reached(t) = c.arg \cap Conn
          BY <2>2, <4>5 DEF Reached
        <5>3. c.arg \cap Conn \subseteq alive
          BY <5>1 DEF Walk, Children
        <5> QED  BY <5>1, <5>2, <5>3 DEF Walk
      <4>4. CASE c.body \notin {"free", "setDesc", "copyDesc", "disconnect", "sweep",
                                "endTranEnv"}
        BY <4>4 DEF Visited
      <4> QED  BY <4>1, <4>2, <4>3, <4>4, <4>5
    <3>5. ASSUME c.body = "work", NEW r \in c.roles, app[c.handle][r] # Implicit
          PROVE  app[c.handle][r] \in alive
      <4>1. c.handle \in Stmt /\ r \in Role
        BY <1>1, <3>1, <3>5 DEF WellFormed, IInv, TypeOK, Call_
      <4> QED  BY <1>1, <3>5, <4>1 DEF IInv, SameConnection
    <3> QED  BY <2>2, <3>3, <3>4, <3>5 DEF InUse
  <2> QED  BY <2>1, <2>2
<1>2. IInv => NoUseAfterFree
  BY <1>1 DEF NoUseAfterFree
<1> QED  BY <1>2, Invariance, PTL

\* What SQLDisconnect leaves behind is empty, also if SQLAllocHandle was
\* waiting for the connection's mutex meanwhile.
THEOREM DisconnectedStaysEmpty == Spec => []DisconnectedIsEmpty
<1>1. IInv => DisconnectedIsEmpty
  BY DEF IInv
<1> QED  BY <1>1, Invariance, PTL

\* No handle outlives its parent, and no statement keeps a descriptor that
\* SQLFreeHandle or SQLDisconnect has deleted.
THEOREM TreeStaysWhole == Spec => []NoOrphans
<1>1. IInv => NoOrphans
  BY DEF IInv, NoOrphans, Tree, SameConnection, Descriptors
<1> QED  BY <1>1, Invariance, PTL
=============================================================================
