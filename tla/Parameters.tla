----------------------------- MODULE Parameters -----------------------------
(***************************************************************************)
(* The parameters of one statement: SQLBindParameter, the execution of one *)
(* or several sets of parameters, and the dialogue that sends the values   *)
(* of data-at-execution parameters (odbc_sql_requests.cc,                  *)
(* odbc_sql_execute_utils.cc, odbc_desc_handle.cc).                        *)
(*                                                                         *)
(* The driver manager and the application are modelled by dm: what they    *)
(* may call follows from the last reply.  A byte of parameter data is      *)
(* known by the execution it was given for and the SQLPutData that gave    *)
(* it, so that stale, lost and misplaced bytes can be told.                *)
(***************************************************************************)
EXTENDS Integers, Sequences, FiniteSets, SequencesExt

CONSTANTS
  MaxParams,     \* parameters of the longest query text
  MaxSets,       \* largest SQL_ATTR_PARAMSET_SIZE
  Bindings,      \* what the application binds: an indicator for each set,
                 \* what the value pointer is, and the column size if the type
                 \* has one
  Texts,         \* the query texts: number of parameters, SELECT or not
  Servers,       \* what comes of each set at the server; "lost": it was
                 \* executed, and the driver got an error for an answer
  Column,        \* the column size given to SQLBindParameter for strings
  ServerColumn,  \* the column size the server's type has
  PutKinds,      \* the lengths of SQLPutData: "data", "null", "empty", "nts"
  MaxPuts,       \* SQLPutData calls of one execution
  MaxRounds      \* executions

Params == 1 .. MaxParams
Sets == 1 .. MaxSets
Indicator == {"none", "nts", "len", "null", "dae", "lenDae"}
Data == {"value", "bad", "token", "minusOne", "null"}
PutKind == {"data", "null", "empty", "nts"}

ASSUME ParametersAssumption ==
  /\ MaxParams \in Nat \ {0}
  /\ MaxSets \in Nat \ {0}
  /\ Bindings \subseteq [ind : [Sets -> Indicator], data : Data, size : {0, Column}]
  /\ Texts \subseteq [params : 0 .. MaxParams, select : BOOLEAN]
  /\ Servers \subseteq [Sets -> {"ok", "noRows", "error", "lost"}]
  /\ Column \in Nat \ {0}
  /\ ServerColumn \in Nat \ {0}
  /\ PutKinds \subseteq PutKind
  /\ MaxPuts \in Nat
  /\ MaxRounds \in Nat

VARIABLES
  state,     \* stmt_state_
  index,     \* current_param_index_
  partial,   \* is_partial_putdata_called_
  canceled,  \* the cancellation SQLCancel asked for is not used up
  prepared,  \* is_statement_prepared_
  query,     \* the text: its number of parameters, what it is
  apd,       \* application parameter descriptor, record by record
  ipd,       \* column sizes of the implementation parameter descriptor
  apdCount,  \* SQL_DESC_COUNT of the APD
  sets,      \* SQL_ATTR_PARAMSET_SIZE
  result,    \* outcome of each set of the last execution, and what it sent
  dm,        \* the driver manager's view of the dialogue
  given      \* history: what SQLPutData was given for the current execution,
             \* for which parameters otherwise than by its length (other), how
             \* often the server ran each set, and whose answer was lost

dialogue == <<index, partial>>
descriptors == <<apd, ipd, apdCount>>
text == <<canceled, prepared, query>>
vars == <<state, dialogue, text, descriptors, sets, result, dm, given>>

NoQuery == [params |-> 0, select |-> FALSE]

\* The record operator[] of the map creates, and the one a call binds.
NoRecord == [is |-> "none", ind |-> [s \in Sets |-> "none"], data |-> "null",
             buffer |-> <<>>]
AutoRecord == [NoRecord EXCEPT !.is = "auto"]

NoResult == [reply |-> "none", outcome |-> <<>>]

\* fresh: no data-at-execution dialogue has left traces on the statement.
Nothing == [round |-> 0, fresh |-> TRUE, puts |-> 0, asked |-> {},
            data |-> [i \in Params |-> <<>>], other |-> {},
            ran |-> [s \in Sets |-> 0], lost |-> {}]

Init ==
  /\ state = "NotPrepared"
  /\ index = 0
  /\ partial = FALSE
  /\ canceled = FALSE
  /\ prepared = FALSE
  /\ query = NoQuery
  /\ apd = [i \in Params |-> NoRecord]
  /\ ipd = [i \in Params |-> 0]
  /\ apdCount = 0
  /\ sets \in Sets
  /\ result = NoResult
  /\ dm = "ready"
  /\ given = Nothing

-----------------------------------------------------------------------------
(* One execution: every set of parameters is a request of its own.         *)

IsDataAtExec(ind) == ind \in {"dae", "lenDae"}

Plain(from) == [from |-> from, bytes |-> <<>>]

\* What ConstructPositionalQueryParams makes of parameter i of set s, with the
\* records of the APD: the diagnostic of a failure, or the value it sends.
\* buffered holds when SQLParamData executes: it uses the buffered data of a
\* data-at-execution parameter, the application's pointer if there is none, and
\* never looks whether an ordinary parameter was bound to a buffer.
Argument(records, i, s, buffered) ==
  LET rec == records[i]
      needed == IsDataAtExec(rec.ind[s])
  IN  IF rec.is = "none" THEN [fails |-> "07002"]
      ELSE IF rec.ind[s] = "null" THEN [sends |-> Plain("empty")]
      ELSE IF needed /\ ~buffered THEN [fails |-> "NEED_DATA"]
      ELSE IF rec.data = "null" /\ ~buffered THEN [fails |-> "HY009"]
      ELSE IF rec.is = "auto" THEN [fails |-> "HY000"]
      ELSE IF needed THEN [sends |-> [from |-> "buffer", bytes |-> rec.buffer]]
      ELSE IF rec.data = "bad" THEN [fails |-> "HY000"]
      ELSE [sends |-> Plain("bound")]

\* The first parameter of the set that fails decides.
ConstructPositionalQueryParams(records, q, s, buffered) ==
  LET arg == [i \in 1 .. q.params |-> Argument(records, i, s, buffered)]
      failing == {i \in 1 .. q.params : "fails" \in DOMAIN arg[i]}
  IN  IF failing # {} THEN arg[Min(failing)]
      ELSE [sends |-> [i \in 1 .. q.params |-> arg[i].sends]]

\* A text without parameters is executed once.
ArraySize(q) == IF q.params = 0 THEN 1 ELSE sets

\* The loop over the sets: what became of each when the server answers set s
\* with server[s].  A failing set does not stop the next one.
Outcomes(records, q, server, buffered) ==
  [s \in 1 .. ArraySize(q) |->
     LET built == ConstructPositionalQueryParams(records, q, s, buffered)
     IN  IF "fails" \in DOMAIN built
         THEN [of |-> built.fails, sent |-> <<>>]
         ELSE [of |-> server[s], sent |-> built.sends]]

\* The sets the driver knows to be executed (any_success).
Executed(outcome) == {s \in DOMAIN outcome : outcome[s].of \in {"ok", "noRows"}}

Lost(outcome) == {s \in DOMAIN outcome : outcome[s].of = "lost"}

\* Faulty variants: the first set that needs data ends the execution; the sets
\* that failed are forgotten when one was executed.
ReplyToFirstNeed(q, outcome) ==
  IF \E s \in DOMAIN outcome : outcome[s].of = "NEED_DATA" THEN "NEED_DATA"
  ELSE IF Executed(outcome) = {} THEN outcome[Len(outcome)].of
  ELSE "SUCCESS"

ReplyToForgetting(q, outcome) ==
  IF Executed(outcome) = {} THEN outcome[Len(outcome)].of ELSE "SUCCESS"

\* The reply to all sets: the diagnostic of the last failing one if none was
\* executed, SQL_NO_DATA when a DML text changed no row, else success, or
\* 01S01 when some failed.
ReplyTo(q, outcome) ==
  LET good == Executed(outcome)
      failing == DOMAIN outcome \ good
  IN  IF good = {} THEN outcome[Max(failing)].of
      ELSE IF ~q.select /\ \A s \in good : outcome[s].of = "noRows" THEN "NO_DATA"
      ELSE IF failing # {} THEN "01S01"
      ELSE "SUCCESS"

\* Faulty variant: SQL_NEED_DATA is a failure like the others.
StateAfterFailure(q, reply, failureState) ==
  IF reply \notin {"SUCCESS", "01S01", "NO_DATA"} THEN failureState
  ELSE IF q.select THEN "WithRs"
  ELSE "WithoutRs"

StateAfter(q, reply, failureState) ==
  IF reply = "NEED_DATA" THEN "NeedsParams"
  ELSE IF reply \notin {"SUCCESS", "01S01", "NO_DATA"} THEN failureState
  ELSE IF q.select THEN "WithRs"
  ELSE "WithoutRs"

\* Once a set was executed, listing the statements of a script or reading the
\* results may still fail.
ActuallyProcessExecute(records, q, server, buffered, failureState, round) ==
  LET outcome == Outcomes(records, q, server, buffered)
      good == Executed(outcome)
      ran == good \cup Lost(outcome)
  IN  \E reply \in {ReplyTo(q, outcome)} \cup (IF good # {} THEN {"results"} ELSE {}) :
        /\ state' = StateAfter(q, reply, failureState)
        /\ result' = [reply |-> reply, outcome |-> outcome]
        /\ dm' = IF reply = "NEED_DATA" THEN "need" ELSE "ready"
        /\ given' = [round EXCEPT
                       !.ran = [s \in Sets |-> IF s \in ran THEN @[s] + 1 ELSE @[s]],
                       !.lost = @ \cup Lost(outcome)]

-----------------------------------------------------------------------------
(* Binding, preparing and executing.  The driver manager refuses these     *)
(* while data is needed.                                                   *)

\* The history of an execution ends with the next call of another kind.
Forgotten == given' = [Nothing EXCEPT !.round = given.round]
Settled == result' = NoResult /\ Forgotten

\* A call that executes nothing: SQL_SUCCESS in answer to a cancellation
\* ("skipped"), or a failure before any set.
AnsweredWith(reply) ==
  /\ result' = [reply |-> reply, outcome |-> <<>>]
  /\ Forgotten

\* Faulty variant: the count is one past the last record.
RecordAfterLast(records) ==
  1 + Max({0} \cup {i \in Params : records[i].is # "none"})

LastRecord(records) == Max({0} \cup {i \in Params : records[i].is # "none"})

\* ConfigureIpdRecord: the types with a length take it from the column size,
\* for the others size is 0 and the record keeps what it had.
ConfigureIpdRecord(i, size) ==
  IF size = 0 /\ apd[i].is # "none" THEN ipd[i] ELSE size

\* SQLBindParameter with the bytes of a value, bytes the conversion refuses, a
\* token for SQLParamData, no pointer, or a token equal to SQL_DATA_AT_EXEC: the
\* last one changes the state at once.  The new record is a copy of the old one
\* when there is one: it keeps the buffered data.
SQLBindParameter(i, ind, data, size) ==
  /\ dm = "ready"
  /\ state' = IF data = "minusOne" THEN "NeedsParams" ELSE state
  /\ apd' = [apd EXCEPT ![i] = [is |-> "bound", ind |-> ind, data |-> data,
                                buffer |-> apd[i].buffer]]
  /\ ipd' = [ipd EXCEPT ![i] = ConfigureIpdRecord(i, size)]
  /\ apdCount' = LastRecord(apd')
  /\ UNCHANGED <<dialogue, text, sets, dm>>
  /\ Settled

\* SetParameterType or SetConciseType refuses a type: nothing is bound, but the
\* state has been changed.
BindRefused ==
  /\ dm = "ready"
  /\ state' = "NeedsParams"
  /\ UNCHANGED <<dialogue, text, descriptors, sets, dm>>
  /\ Settled

\* The parameters the server found have its own types and sizes.
PopulateIpd(n) == [i \in Params |-> IF i <= n THEN ServerColumn ELSE 0]

\* The new text replaces what SQLBindParameter stored in the IPD.
PrepareQuery(q) ==
  /\ query' = q
  /\ ipd' = PopulateIpd(q.params)

\* A text the server refuses leaves the old one; a failure after that, the new
\* parameters with the old records or with none.
PrepareFails(q) ==
  \/ UNCHANGED <<query, ipd>>
  \/ /\ query' = [query EXCEPT !.params = q.params]
     /\ ipd' \in {ipd, PopulateIpd(0)}

\* A cancellation left over is used up instead of preparing.  When preparing
\* fails the state says prepared all the same.
SQLPrepare(q) ==
  /\ dm = "ready"
  /\ state # "WithRs"
  /\ IF canceled /\ state = "Prepared"
     THEN /\ canceled' = FALSE
          /\ state' = "NotPrepared"
          /\ UNCHANGED <<prepared, query, ipd>>
     ELSE /\ PrepareQuery(q) \/ PrepareFails(q)
          /\ state' = "Prepared"
          /\ prepared' = TRUE
          /\ UNCHANGED canceled
  /\ UNCHANGED <<dialogue, apd, apdCount, sets, dm>>
  /\ Settled

\* SQLFreeStmt(SQL_RESET_PARAMS) erases the records up to the count; the IPD,
\* the index and the flag stay.
ResetParams ==
  /\ dm = "ready"
  /\ apd' = [i \in Params |-> IF i <= apdCount THEN NoRecord ELSE apd[i]]
  /\ apdCount' = LastRecord(apd')
  /\ UNCHANGED <<state, dialogue, text, ipd, sets, dm>>
  /\ Settled

CloseCursor ==
  /\ dm = "ready"
  /\ state = "WithRs"
  /\ state' = IF prepared THEN "Prepared" ELSE "NotPrepared"
  /\ UNCHANGED <<dialogue, text, descriptors, sets, dm>>
  /\ Settled

NextRound ==
  [Nothing EXCEPT !.round = given.round + 1,
                  !.fresh = index = 0 /\ \A i \in Params : apd[i].buffer = <<>>]

SQLExecute(server) ==
  /\ dm = "ready"
  /\ given.round < MaxRounds
  /\ state \notin {"NotPrepared", "WithRs", "StillExecuting"}
  /\ query # NoQuery
  /\ ActuallyProcessExecute(apd, query, server, FALSE, "Prepared", NextRound)
  /\ UNCHANGED <<dialogue, text, descriptors, sets>>

\* After a failed SQLExecDirect a cancellation is used up instead of executing.
\* The prepared job is dropped, with what it said of the text.
SQLExecuteSkipped ==
  /\ dm = "ready"
  /\ state = "StillExecuting" /\ canceled
  /\ canceled' = FALSE
  /\ state' = "Prepared"
  /\ \E select \in BOOLEAN : query' = [query EXCEPT !.select = select]
  /\ \E reply \in {"skipped", "error"} : AnsweredWith(reply)
  /\ UNCHANGED <<dialogue, prepared, descriptors, sets, dm>>

\* SQLExecDirect prepares the text at the server only if parameter 1 is bound;
\* without it the text runs as one without parameters.
SQLExecDirect(q, server) ==
  /\ dm = "ready"
  /\ given.round < MaxRounds
  /\ state # "WithRs"
  /\ ~canceled
  /\ PrepareQuery(IF apd[1].is = "none" THEN [q EXCEPT !.params = 0] ELSE q)
  /\ ActuallyProcessExecute(apd, query', server, FALSE, "NotPrepared", NextRound)
  /\ UNCHANGED <<dialogue, canceled, prepared, apd, apdCount, sets>>

\* A cancellation, of whichever call, is used up: SQL_SUCCESS, nothing executed.
SQLExecDirectSkipped ==
  /\ dm = "ready"
  /\ state # "WithRs"
  /\ canceled
  /\ canceled' = FALSE
  /\ state' = "NotPrepared"
  /\ AnsweredWith("skipped")
  /\ UNCHANGED <<dialogue, prepared, query, descriptors, sets, dm>>

\* No transaction can be begun, or preparing fails: the state stays as it was
\* set on entry.
SQLExecDirectFails(q) ==
  /\ dm = "ready"
  /\ state # "WithRs"
  /\ ~canceled
  /\ state' = "StillExecuting"
  /\ PrepareFails(q)
  /\ AnsweredWith("error")
  /\ UNCHANGED <<dialogue, canceled, prepared, apd, apdCount, sets, dm>>

-----------------------------------------------------------------------------
(* The dialogue that follows SQL_NEED_DATA.                                *)

\* SQLParamData asks for every parameter with an indicator that is not SQL_NTS,
\* whatever the indicator says.
Asks(i) == apd[i].is = "bound" /\ apd[i].ind[1] \notin {"none", "nts"}

NextAsked ==
  LET asked == {i \in Params : index < i /\ i <= query.params /\ Asks(i)}
  IN  IF asked = {} THEN 0 ELSE Min(asked)

\* Looking up a record that is not there creates it, without counting it.
Visited(upto) ==
  [i \in Params |->
     IF index < i /\ i <= upto /\ apd[i].is = "none" THEN AutoRecord ELSE apd[i]]

ParamDataRefused == (state # "NeedsParams" /\ ~partial) \/ index > query.params

SQLParamDataRefused ==
  /\ dm \in {"need", "can"}
  /\ ParamDataRefused
  /\ result' = [result EXCEPT !.reply =
                  IF state # "NeedsParams" /\ ~partial THEN "HY010" ELSE "HY000"]
  /\ dm' = "ready"
  /\ UNCHANGED <<state, dialogue, text, descriptors, sets, given>>

SQLParamDataAsks ==
  /\ dm \in {"need", "can"}
  /\ ~ParamDataRefused
  /\ NextAsked # 0
  /\ apd' = Visited(NextAsked)
  /\ index' = NextAsked
  /\ state' = "NeedsPutData"
  /\ partial' = FALSE
  /\ dm' = "must"
  /\ given' = [given EXCEPT !.asked = @ \cup {NextAsked}]
  /\ UNCHANGED <<text, ipd, apdCount, sets, result>>

\* After the last parameter the query is executed with the buffered data.
SQLParamDataExecutes(server) ==
  /\ dm \in {"need", "can"}
  /\ ~ParamDataRefused
  /\ NextAsked = 0
  /\ apd' = Visited(query.params)
  /\ ActuallyProcessExecute(apd', query, server, TRUE, "Prepared", given)
  /\ UNCHANGED <<dialogue, text, ipd, apdCount, sets>>

-----------------------------------------------------------------------------
Nul == [round |-> 0, put |-> 0]
Byte == [round : 1 .. MaxRounds, put : 1 .. MaxPuts] \cup {Nul}

\* SQL_LEN_DATA_AT_EXEC(Column) limits the data, and so does the IPD's length.
Limit(i) ==
  IF apd[i].ind[1] = "lenDae" THEN Column
  ELSE IF apd[i].ind[1] = "dae" THEN ipd[i]
  ELSE 0

Piece(n) == [k \in 1 .. n |-> [round |-> given.round, put |-> given.puts + 1]]

\* Faulty variant: a put replaces what was put before.
StoredOver(kind, n) == IF kind = "data" THEN Piece(n) ELSE [k \in 1 .. 4 |-> Nul]

\* The data of a put: n bytes by their number, the same by SQL_NTS, no bytes, or
\* SQL_NULL_DATA.  The last two replace the buffer by four NUL bytes, and
\* SQL_NTS appends nothing.
Stored(kind, n) ==
  CASE kind = "data" -> apd[index].buffer \o Piece(n)
    [] kind = "nts" -> apd[index].buffer
    [] kind \in {"null", "empty"} -> [k \in 1 .. 4 |-> Nul]

Overlong(kind, n) ==
  /\ kind = "data"
  /\ Limit(index) > 0
  /\ Len(apd[index].buffer) + n > Limit(index)

SQLPutData(kind, n) ==
  /\ dm \in {"must", "can"}
  /\ given.puts < MaxPuts
  /\ state = "NeedsPutData"
  /\ ~Overlong(kind, n)
  /\ apd' = [apd EXCEPT ![index].buffer = Stored(kind, n)]
  /\ state' = IF kind = "data" /\ Limit(index) > 0
                   /\ Len(apd[index].buffer) + n = Limit(index)
              THEN "NeedsParams" ELSE state
  /\ partial' = TRUE
  /\ dm' = "can"
  /\ given' = [given EXCEPT
                 !.puts = @ + 1,
                 !.data[index] = IF kind = "data" THEN @ \o Piece(n) ELSE @,
                 !.other = IF kind = "data" THEN @ ELSE @ \cup {index}]
  /\ UNCHANGED <<index, text, ipd, apdCount, sets, result>>

\* 22001, or HY010 once the column is full: nothing is stored, and the driver
\* manager takes the execution for abandoned.
SQLPutDataRefused(kind, n) ==
  /\ dm \in {"must", "can"}
  /\ given.puts < MaxPuts
  /\ state # "NeedsPutData" \/ Overlong(kind, n)
  /\ result' = [result EXCEPT !.reply = IF state # "NeedsPutData" THEN "HY010"
                                        ELSE "22001"]
  /\ dm' = "ready"
  /\ UNCHANGED <<state, dialogue, text, descriptors, sets, given>>

\* SQLCancel ends the dialogue for the driver manager.  The driver only notes
\* it, in a dialogue or not: state, index and buffers stay.
SQLCancel ==
  /\ canceled' = (canceled \/ state \in {"Prepared", "StillExecuting", "NeedsParams",
                                          "NeedsPutData"})
  /\ dm' = "ready"
  /\ UNCHANGED <<state, dialogue, prepared, query, descriptors, sets, result,
                 given>>
-----------------------------------------------------------------------------
Bind ==
  \/ \E i \in Params, b \in Bindings : SQLBindParameter(i, b.ind, b.data, b.size)
  \/ BindRefused

Put ==
  \E kind \in PutKinds : \E n \in IF kind = "data" THEN 1 .. 2 ELSE {1} :
    SQLPutData(kind, n) \/ SQLPutDataRefused(kind, n)

Next ==
  \/ Bind
  \/ \E q \in Texts : SQLPrepare(q)
  \/ ResetParams
  \/ CloseCursor
  \/ \E server \in Servers : SQLExecute(server)
  \/ SQLExecuteSkipped
  \/ \E q \in Texts, server \in Servers : SQLExecDirect(q, server)
  \/ SQLExecDirectSkipped
  \/ \E q \in Texts : SQLExecDirectFails(q)
  \/ SQLParamDataRefused
  \/ SQLParamDataAsks
  \/ \E server \in Servers : SQLParamDataExecutes(server)
  \/ Put
  \/ SQLCancel

Spec == Init /\ [][Next]_vars

-----------------------------------------------------------------------------
(* Properties.                                                             *)

Failure == {"07002", "HY009", "HY000", "NEED_DATA", "error", "lost"}
Outcome == [of : Failure \cup {"ok", "noRows"},
            sent : Seq([from : {"empty", "bound", "buffer"}, bytes : Seq(Byte)])]

\* The fields of the statement and its descriptors are of their types, and the
\* index of the dialogue is that of a parameter.
TypeOK ==
  /\ state \in {"NotPrepared", "Prepared", "StillExecuting", "NeedsParams",
                "NeedsPutData", "WithRs", "WithoutRs"}
  /\ index \in 0 .. MaxParams
  /\ {partial, canceled, prepared} \subseteq BOOLEAN
  /\ query \in [params : 0 .. MaxParams, select : BOOLEAN]
  /\ apd \in [Params -> [is : {"none", "auto", "bound"}, ind : [Sets -> Indicator],
                         data : Data, buffer : Seq(Byte)]]
  /\ ipd \in [Params -> Nat]
  /\ apdCount \in 0 .. MaxParams
  /\ sets \in Sets
  /\ result \in [reply : Failure \cup {"none", "SUCCESS", "01S01", "NO_DATA", "results",
                                       "skipped", "HY010", "22001"},
                 outcome : Seq(Outcome)]
  /\ dm \in {"ready", "need", "must", "can"}
  /\ given \in [round : 0 .. MaxRounds, fresh : BOOLEAN, puts : 0 .. MaxPuts,
                asked : SUBSET Params, data : [Params -> Seq(Byte)],
                other : SUBSET Params, ran : [Sets -> Nat], lost : SUBSET Sets]

\* What an execution sends for a parameter that SQLParamData is to ask for was
\* asked for in this execution, and if the application gave it by its length
\* alone, what is sent is what was given: complete, in order, and nothing else.
\* This is so in the first dialogue of a statement; the index is not reset, and
\* later executions send what is left in the buffers.  Data given by SQL_NTS are
\* lost, for SQL_NULL_DATA and for no bytes four NUL bytes are sent, and a
\* parameter that needs data in a later set only is not asked for.
FirstDialogueSentAsGiven ==
  given.fresh =>
    \A s \in DOMAIN result.outcome : \A i \in DOMAIN result.outcome[s].sent :
      result.outcome[s].sent[i].from = "buffer" /\ Asks(i) =>
        /\ i \in given.asked
        /\ i \in given.other \/ result.outcome[s].sent[i].bytes = given.data[i]

\* One execution by the application runs each of its sets at most once at the
\* server, whether or not data was needed in between; only a set whose answer
\* was lost may run again once the data another set needs are there.
SetsRunOnce == \A s \in Sets : given.ran[s] <= 1 \/ s \in given.lost

Diagnostic == Failure \cup {"HY010", "22001"}

\* SQL_SUCCESS means every set was executed, unless it answers a cancellation
\* (skipped); 01S01 that some were and some not; a diagnostic of a failure, or
\* SQL_NEED_DATA, that the driver knows of none.  The exception is a failure of
\* the results, after the sets were executed.
SetsReported ==
  LET good == Executed(result.outcome)
  IN  /\ result.reply = "SUCCESS" => good # {} /\ good = DOMAIN result.outcome
      /\ result.reply = "01S01" => good # {} /\ good # DOMAIN result.outcome
      /\ result.reply \in Diagnostic => good = {}

\* The driver is in the state in which it accepts the call that the driver
\* manager lets through: a dialogue that was opened can be carried on.
DialogueContinues ==
  /\ dm = "need" => state = "NeedsParams"
  /\ dm = "must" => state = "NeedsPutData"
  /\ (dm \in {"need", "can"} /\ given.fresh) => ~ParamDataRefused
=============================================================================
