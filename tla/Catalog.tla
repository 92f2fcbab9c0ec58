-------------------------------- MODULE Catalog --------------------------------
(***************************************************************************)
(* The catalogue functions of a statement: SQLTables, SQLColumns,          *)
(* SQLPrimaryKeys, SQLForeignKeys, SQLStatistics, SQLProcedures,           *)
(* SQLProcedureColumns, SQLSpecialColumns and SQLGetTypeInfo.  A call asks *)
(* BigQuery in rounds (projects, datasets, tables, a table's metadata) and *)
(* sends the requests of a round in parallel, in at most MaxThreads        *)
(* threads; meanwhile objects come and go in BigQuery.                     *)
(*                                                                         *)
(* A table is <<project, dataset, name>>, a dataset <<project, name>>.  An *)
(* argument is a name, a pattern (a name in the domain of Patterns) or     *)
(* NULL, which stands for a name of length zero as well; "" is an empty    *)
(* name given with SQL_NTS.                                                *)
(***************************************************************************)
EXTENDS ColumnTypes, FiniteSets, SequencesExt

CONSTANTS
  ProjectSeq, DatasetSeq, TableSeq, RoutineSeq,   \* the order of BigQuery's lists
  TableInfo,       \* table -> [type, columns, primary_key, foreign_keys, num_rows]
  RoutineInfo,     \* <<project, dataset, name>> -> [type, fields]
  Patterns,        \* pattern -> [matches, literal, escaped, percent, backslash]
  UpperOf,         \* names that have capital forms -> that form
  CurrentCatalog,  \* SQL_ATTR_CURRENT_CATALOG
  Dsns,            \* [allowed, additional, default_dataset]
  ThreadLimits,    \* values of MaxThreads
  Calls,           \* the calls of the application
  FirstTables,     \* the tables that exist at first
  MaxCalls, MaxChanges, MaxFailures

NULL == "NULL"
NoLiteral == "NoLiteral"
ERROR == "ERROR"
SUCCESS == "SUCCESS"

\* The catalogue requires a current catalog, and projects are configured once.
ASSUME CatalogAssumption ==
  /\ CurrentCatalog \in Range(ProjectSeq)
  /\ FirstTables \subseteq DOMAIN TableInfo
  /\ ThreadLimits \subseteq Nat
  /\ \A dsn \in Dsns :
       /\ dsn \in [allowed : Seq(STRING), additional : Seq(STRING), default_dataset : STRING]
       /\ IsInjective(dsn.allowed) /\ IsInjective(dsn.additional)
  /\ MaxCalls \in Nat /\ MaxChanges \in Nat /\ MaxFailures \in Nat

\* BigQuery lists every object, and none twice.
ASSUME ListsAssumption ==
  /\ \A seq \in {ProjectSeq, DatasetSeq, TableSeq} : seq \in Seq(STRING) /\ IsInjective(seq)
  /\ RoutineSeq \in Seq(STRING)
  /\ DOMAIN TableInfo \subseteq Range(ProjectSeq) \X Range(DatasetSeq) \X Range(TableSeq)

\* The columns of a table have types of the REST interface and names of their own.
ASSUME FieldsAssumption ==
  \A x \in DOMAIN TableInfo :
    LET fields == TableInfo[x].columns
    IN  /\ fields \in Seq([name : STRING, type : RestTypes, mode : STRING,
                            precision : Nat, scale : Nat, max_length : Nat])
        /\ \A i, j \in DOMAIN fields : fields[i].name = fields[j].name => i = j

\* Every routine has parameters: SUM over none is NULL, on which std::stoi fails.
ASSUME RoutinesAssumption == \A r \in DOMAIN RoutineInfo : RoutineInfo[r].fields # <<>>

Functions == {"tables", "columns", "procedures", "procedureColumns", "primaryKeys",
              "foreignKeys", "statistics", "specialColumns", "typeInfo"}

ASSUME CallsAssumption ==
  \A c \in Calls :
    /\ c \in [fn : Functions, catalog : STRING, schema : STRING, table : STRING,
              column : STRING, types : SUBSET STRING, metadata_id : BOOLEAN, max_rows : Nat,
              fk_catalog : STRING, fk_schema : STRING, fk_table : STRING,
              valid : BOOLEAN, data_type : STRING]
    /\ NoLiteral \notin {c.catalog, c.schema}

VARIABLES
  store,    \* BigQuery: [open, datasets, tables, routines]
  config,   \* the data source: [dsn, max_threads]
  stmt,     \* [state, result, ird, job]
  call,     \* the call in progress or, in stage "idle", the last one
  pool,     \* the requests of the round in progress
  answer,   \* of the last call: [code, refused]
  seen,     \* what was visible during the call, and what failed
  budget    \* [calls, changes, failures] still allowed

vars == <<store, config, stmt, call, pool, answer, seen, budget>>

\* The elements of a sequence that are in the set S, in their order.
Selected(seq, S) ==
  LET upTo[i \in 0..Len(seq)] ==
        IF i = 0 THEN <<>> ELSE
        IF seq[i] \in S THEN Append(upTo[i - 1], seq[i]) ELSE upTo[i - 1]
  IN  upTo[Len(seq)]

(***************************************************************************)
(* Names and patterns.                                                     *)
(***************************************************************************)
ToCharStr(arg, default) == IF arg = NULL THEN default ELSE arg

ToUpper(name) == IF name \in DOMAIN UpperOf THEN UpperOf[name] ELSE name

IsSearchPatternArgument(arg) == arg \in DOMAIN Patterns

HasPercent(arg) == IsSearchPatternArgument(arg) /\ Patterns[arg].percent

HasBackslash(arg) == IsSearchPatternArgument(arg) /\ Patterns[arg].backslash

\* Faulty variant: the default dataset is taken for a pattern.
EscapeNothing(name) == name

EscapeOdbcPattern(name) ==
  IF IsSearchPatternArgument(name) THEN Patterns[name].escaped ELSE name

\* The name that a filter spells out, if it spells out one.
LiteralFromOdbcPattern(filter, metadata_id) ==
  CASE metadata_id -> filter
    [] ~metadata_id /\ IsSearchPatternArgument(filter) -> Patterns[filter].literal
    [] ~metadata_id /\ filter = "" -> NoLiteral
    [] OTHER -> filter

\* A pattern is not empty; one that spells out a name matches that name, an escaped
\* name spells out itself, and a project or a capital form is neither a pattern nor
\* converted again.
ASSUME PatternsAssumption ==
  /\ "" \notin DOMAIN Patterns
  /\ \A f \in DOMAIN Patterns :
       Patterns[f].literal # NoLiteral => Patterns[f].matches = {Patterns[f].literal}
  /\ \A dsn \in Dsns :
       LET name == dsn.default_dataset
       IN  /\ name # NoLiteral
           /\ IsSearchPatternArgument(name) =>
                LET escaped == Patterns[name].escaped
                IN  IsSearchPatternArgument(escaped) /\ Patterns[escaped].literal = name
  /\ CurrentCatalog \notin DOMAIN Patterns \cup {"", NULL, NoLiteral}
  /\ \A n \in DOMAIN UpperOf : UpperOf[n] \notin DOMAIN UpperOf

\* NULL is the name of nothing; the name of a dataset has no wildcard but "_", so that
\* the name, read as a pattern, matches itself.
ASSUME NamesAssumption ==
  /\ NULL \notin Range(ProjectSeq) \cup Range(DatasetSeq) \cup Range(TableSeq)
  /\ \A dsn \in Dsns :
       LET name == dsn.default_dataset
       IN  IsSearchPatternArgument(name) => name \in Patterns[name].matches

\* RE2::FullMatch with the expression of BuildRegex.
FullMatch(name, filter, metadata_id) ==
  CASE metadata_id -> ToUpper(name) = ToUpper(filter)
    [] ~metadata_id /\ IsSearchPatternArgument(filter) ->
         name \in Patterns[filter].matches
    [] OTHER -> name = filter

\* Names as identifier arguments.
SanitizeIdentifierArgument(arg, metadata_id) ==
  IF metadata_id THEN ToUpper(arg) ELSE arg

\* The names that match, in their order.
Matching(names, filter, metadata_id) ==
  Selected(names, {n \in Range(names) : FullMatch(n, filter, metadata_id)})

FilterAllowedProjects(allowed, filter, metadata_id) ==
  Matching(allowed, filter, metadata_id)

(***************************************************************************)
(* BigQuery: what it answers to a request now.  A request is               *)
(* [kind, project, dataset, name].                                         *)
(***************************************************************************)
Ok(value) == [ok |-> TRUE, code |-> "none", value |-> value]
Error(code) == [ok |-> FALSE, code |-> code, value |-> <<>>]

Task(kind, project, dataset, name) ==
  [kind |-> kind, project |-> project, dataset |-> dataset, name |-> name]

DatasetsOf(p) ==
  Selected(DatasetSeq, {d \in Range(DatasetSeq) : <<p, d>> \in store.datasets})
TablesOf(p, d) ==
  Selected(TableSeq, {t \in Range(TableSeq) : <<p, d, t>> \in store.tables})
\* LIKE in a query is case-sensitive.
RoutinesOf(p, d, pattern) ==
  Matching(Selected(RoutineSeq, {r \in Range(RoutineSeq) : <<p, d, r>> \in store.routines}),
           pattern, FALSE)

Answered(task) ==
  LET p == task.project
      d == task.dataset
      Open(project) == project \in store.open
      needs_dataset == task.kind \in {"tables", "table", "routines", "routine", "keys"}
  IN  CASE task.kind = "projects" -> Ok(Selected(ProjectSeq, store.open))
        [] task.kind # "projects" /\ ~Open(p) -> Error("403")
        [] Open(p) /\ task.kind \in {"datasets", "validate"} -> Ok(DatasetsOf(p))
        [] Open(p) /\ needs_dataset /\ <<p, d>> \notin store.datasets -> Error("404")
        [] OTHER ->
             CASE task.kind = "tables" -> Ok(TablesOf(p, d))
               [] task.kind = "routines" -> Ok(RoutinesOf(p, d, task.name))
               [] task.kind = "table" ->
                    IF <<p, d, task.name>> \in store.tables
                    THEN Ok(<<task.name>>) ELSE Error("404")
               [] task.kind = "routine" ->
                    Ok(IF <<p, d, task.name>> \in store.routines
                       THEN <<task.name>> ELSE <<>>)
               [] task.kind = "keys" -> Ok(TablesOf(p, d))

(***************************************************************************)
(* The rows of the functions.  A row of SQLTables is <<project, dataset,   *)
(* table, type>>, with "" for NULL.                                        *)
(***************************************************************************)
NormalizeRestTableType(type) ==
  CASE type \in {"BASE TABLE", "BASE_TABLE", "CLONE", "TABLE"} -> "TABLE"
    [] type = "MATERIALIZED_VIEW" -> "MATERIALIZED VIEW"
    [] OTHER -> type

kAllTableTypes == <<"TABLE", "VIEW", "EXTERNAL", "MATERIALIZED VIEW", "SNAPSHOT">>

AllColumns(c) == ~c.metadata_id /\ c.column \in {"", "%"}

MatchingFields(c, fields) ==
  {f \in Range(fields) : FullMatch(f.name, c.column, c.metadata_id)}

\* The rows of one table in SQLColumns: all, or the first column that matches.
ProcessTableResults(c, table) ==
  LET fields == TableInfo[table].columns
      chosen == Selected(fields, MatchingFields(c, fields))
      Row(f, pos) == CreateResultSetDSRow(table, f, pos)
  IN  CASE AllColumns(c) -> [i \in DOMAIN fields |-> Row(fields[i], i)]
        [] ~AllColumns(c) /\ chosen # <<>> -> <<Row(chosen[1], 1)>>
        [] OTHER -> <<>>

ProcessProcedureColumnResults(c, routine) ==
  LET fields == RoutineInfo[routine].fields
      chosen == IF AllColumns(c) THEN fields ELSE Selected(fields, MatchingFields(c, fields))
      shown == IF AllColumns(c) \/ chosen = <<>> THEN chosen ELSE <<chosen[1]>>
  IN  [i \in DOMAIN shown |-> CreateProcedureColumnResultSetDSRow(routine, shown[i])]

\* A row of SQLProcedures; of the parameters of a function the first is what
\* it returns.  Its two queries, for the routine and for the parameters, are one
\* read here.
FetchBQSQLProcedureData(routine) ==
  LET info == RoutineInfo[routine]
      inputs == Cardinality({i \in DOMAIN info.fields : info.fields[i].mode # "OUT"})
      outputs == Cardinality({i \in DOMAIN info.fields :
                                info.fields[i].mode \in {"OUT", "INOUT"}})
  IN  [routine |-> routine, type |-> info.type, outputs |-> outputs,
       inputs |-> IF info.type = "FUNCTION" THEN inputs - 1 ELSE inputs]

FetchPKResultSetFromTableMetaData(table) ==
  LET key == TableInfo[table].primary_key
      fields == TableInfo[table].columns
      known == {i \in DOMAIN key : \E f \in Range(fields) : f.name = key[i]}
      places == Selected([i \in DOMAIN key |-> i], known)
  IN  [k \in DOMAIN places |->
         [table |-> table, column |-> key[places[k]], ordinal |-> places[k]]]

\* The rows of a table's foreign keys that refer to one of the tables kept.
KeyRows(table, kept) ==
  LET keys == TableInfo[table].foreign_keys
      Of(j) == IF keys[j].table \notin kept THEN <<>>
               ELSE [k \in DOMAIN keys[j].columns |->
                       [pk_table |-> keys[j].table, fk_table |-> table[3],
                        column |-> keys[j].columns[k], key_seq |-> k, fk_ordinal |-> j]]
  IN  FlattenSeq([j \in DOMAIN keys |-> Of(j)])

\* By primary key table, then by place in the key, then as they came.
ByPrimaryKey(rows) ==
  LET Place(t) == CHOOSE i \in DOMAIN TableSeq : TableSeq[i] = t
      Before(a, b) ==
        \/ Place(a.pk_table) < Place(b.pk_table)
        \/ a.pk_table = b.pk_table /\ a.key_seq < b.key_seq
        \/ <<a.pk_table, a.key_seq>> = <<b.pk_table, b.key_seq>> /\ a.fk_ordinal < b.fk_ordinal
  IN  SortSeq(rows, Before)

FetchForeignKeysFromTableMetadata(c, table) ==
  LET kept == IF c.table = "" THEN Range(TableSeq) ELSE {c.table}
  IN  ByPrimaryKey(KeyRows(table, kept))

\* The query over a dataset reads both names as patterns.
QueriedKeys(c, tables) ==
  LET kept == {t \in Range(TableSeq) : c.table = "" \/ FullMatch(t, c.table, FALSE)}
      Of(t) == IF c.fk_table = "" \/ FullMatch(t, c.fk_table, FALSE)
               THEN KeyRows(<<c.catalog, c.schema, t>>, kept) ELSE <<>>
  IN  ByPrimaryKey(FlattenSeq([i \in DOMAIN tables |-> Of(tables[i])]))

FetchStatisticsResultSet(table) ==
  <<[table |-> table, type |-> "SQL_TABLE_STAT",
     cardinality |-> TableInfo[table].num_rows]>>

(***************************************************************************)
(* What a request contributes to the call: the function that runs in its   *)
(* thread.                                                                 *)
(***************************************************************************)
\* SQLColumns asks for one table when neither name is a pattern.
FastPath(c) ==
  ~c.metadata_id /\ ~IsSearchPatternArgument(c.schema) /\ ~IsSearchPatternArgument(c.table)

\* Faulty variant: every error of a list is skipped.
ToleratedAlways(c, kind) ==
  CASE kind \in {"datasets", "tables", "routines", "validate"} -> {"403", "404", "other"}
    [] kind = "table" /\ c.fn \in {"columns", "foreignKeys", "statistics"} -> {"404"}
    [] OTHER -> {}

\* The errors of a request that leave its part of the answer empty.
Tolerated(c, kind) ==
  CASE kind = "validate" -> {"403", "404", "other"}
    [] kind \in {"datasets", "tables", "routines"} -> {"403", "404"}
    [] kind = "table" /\ c.fn = "columns" /\ ~FastPath(c) -> {"403", "404"}
    [] kind = "table" /\ \/ c.fn = "columns" /\ FastPath(c)
                         \/ c.fn \in {"foreignKeys", "statistics"} -> {"404"}
    [] OTHER -> {}

GetFilteredTables(c, p, d, names) ==
  LET Row(t) == <<p, d, t, NormalizeRestTableType(TableInfo[<<p, d, t>>].type)>>
      kept == Selected(Matching(names, c.table, c.metadata_id),
                       {t \in Range(names) : c.types = {"%"} \/ Row(t)[4] \in c.types})
  IN  [i \in DOMAIN kept |-> Row(kept[i])]

\* The values of an answer that the call keeps.
Kept(c, task, names) ==
  LET p == task.project
      d == task.dataset
      Chosen(filter) == Matching(names, filter, c.metadata_id)
      datasets == Chosen(IF c.fn = "schemas" THEN "%" ELSE c.schema)
      Paired(seq) == [i \in DOMAIN seq |-> <<p, d, seq[i]>>]
      \* The tables of a dataset stay together, as DatasetTablesBatch.
  IN  CASE task.kind = "projects" -> Chosen(IF c.fn = "tables" THEN c.catalog ELSE "%")
        [] task.kind = "validate" -> <<p>>
        [] task.kind = "datasets" -> [i \in DOMAIN datasets |-> <<p, datasets[i]>>]
        [] task.kind = "tables" /\ c.fn = "tables" -> GetFilteredTables(c, p, d, names)
        [] task.kind = "tables" /\ c.fn = "columns" -> <<Paired(Chosen(c.table))>>
        [] task.kind = "keys" -> QueriedKeys(c, names)
        [] task.kind \in {"table", "routine", "routines"} -> Paired(names)

\* A routine that is gone when it is read leaves an empty row.
Missing(c, task, names) ==
  c.fn = "procedures" /\ task.kind = "routine" /\ names = <<>>

TaskResult(c, task, given) ==
  LET kept == IF Missing(c, task, given.value) THEN <<NoLiteral>>
              ELSE Kept(c, task, given.value)
  IN  CASE given.ok -> Ok(kept)
        [] ~given.ok /\ given.code \in Tolerated(c, task.kind) -> Ok(<<>>)
        [] OTHER -> given

(***************************************************************************)
(* ExecuteParallelTasks; a single request and a loop of requests are rounds*)
(* of one thread.  The inputs before "next" have been started; one that is *)
(* running is [at, ready, result], "at" its place among the inputs, and    *)
(* what it gave is kept as elements [at, what].                            *)
(***************************************************************************)
Start(at) == [at |-> at, ready |-> FALSE, result |-> Ok(<<>>)]

\* The next n inputs are started.
Launched(p, n) ==
  [p EXCEPT !.running = @ \o [i \in 1..n |-> Start(p.next + i - 1)], !.next = @ + n]

\* Faulty variant: the requests of a round all start at once.
FilledAtOnce(p) ==
  IF p.error # "none" THEN p ELSE Launched(p, Len(p.inputs) - p.next + 1)

\* The requests that the driver starts before it waits.
Filled(p) ==
  LET free == p.threads - Len(p.running)
      left == Len(p.inputs) - p.next + 1
  IN  IF p.error # "none" \/ free <= 0 THEN p
      ELSE Launched(p, IF left < free THEN left ELSE free)

\* Faulty variant: no thread is no thread.
ExecuteInNoThread(max_threads, tasks) ==
  Filled([threads |-> max_threads, inputs |-> tasks, next |-> 1, running |-> <<>>,
          done |-> <<>>, error |-> "none"])

ExecuteParallelTasks(max_threads, tasks) ==
  Filled([threads |-> IF max_threads = 0 THEN 1 ELSE max_threads, inputs |-> tasks,
          next |-> 1, running |-> <<>>, done |-> <<>>, error |-> "none"])

NoRequests == [threads |-> 1, inputs |-> <<>>, next |-> 1, running |-> <<>>, done |-> <<>>,
               error |-> "none"]

\* Requests are still to be started.
Starting == pool.error = "none" /\ pool.next <= Len(pool.inputs)

\* The driver takes any finished request while it waits for a free thread, and
\* the oldest one when none is left to start.
MayCollect(i) == pool.running[i].ready /\ (i = 1 \/ Starting)

\* The reads that follow the list of a dataset's routines come next.
Following(task, routines) ==
  [k \in DOMAIN routines |-> Task("routine", task.project, task.dataset, routines[k][3])]

Tagged(at, values) == [k \in DOMAIN values |-> [at |-> at, what |-> values[k]]]

Collected(i) ==
  LET r == pool.running[i]
      task == pool.inputs[r.at]
      rest == [pool EXCEPT !.running = RemoveAt(@, i)]
  IN  CASE ~r.result.ok ->
             [rest EXCEPT !.error = IF @ = "none" THEN r.result.code ELSE @]
        [] r.result.ok /\ pool.error # "none" -> rest
        [] OTHER -> Filled(
             IF task.kind = "routines"
             THEN [rest EXCEPT !.inputs = SubSeq(@, 1, pool.next - 1)
                                            \o Following(task, r.result.value)
                                            \o SubSeq(@, pool.next, Len(@))]
             ELSE [rest EXCEPT !.done = @ \o Tagged(r.at, r.result.value)])

RoundOver == pool.running = <<>> /\ ~Starting

Elements == [i \in DOMAIN pool.done |-> pool.done[i].what]

\* Faulty variant: tables come in the order of the answers.
InOrderOfAnswers == [i \in DOMAIN pool.done |-> pool.done[i].what]

\* The elements in the order of the requests, not of the answers; a request of
\* SQLColumns gives one at most.
InOrder ==
  LET places == Selected([k \in DOMAIN pool.inputs |-> k],
                         {pool.done[i].at : i \in DOMAIN pool.done})
      Given(k) == CHOOSE e \in Range(pool.done) : e.at = k
  IN  [i \in DOMAIN places |-> Given(places[i]).what]

(***************************************************************************)
(* The end of a call.                                                      *)
(***************************************************************************)
\* Columns of the functions that describe their result in the IRD.
Width == [projects |-> 5, schemas |-> 5, types |-> 5, tables |-> 5, columns |-> 18,
          primaryKeys |-> 6, foreignKeys |-> 14, statistics |-> 13, specialColumns |-> 8]

\* Records are overwritten; those beyond the result's width stay.
PopulateIrd(ird, fn) ==
  LET longest == IF Len(ird) > Width[fn] THEN Len(ird) ELSE Width[fn]
  IN  [i \in 1..longest |-> IF i <= Width[fn] THEN fn ELSE ird[i]]

Limited(rows, max_rows) ==
  IF max_rows > 0 /\ max_rows < Len(rows) THEN SubSeq(rows, 1, max_rows) ELSE rows

Ended(c, code, refused) ==
  /\ call' = [call EXCEPT !.args = c, !.stage = "idle"]
  /\ pool' = NoRequests
  /\ answer' = [code |-> code, refused |-> refused]
  /\ UNCHANGED <<store, config>>

ReturnRows(c, rows) ==
  /\ Ended(c, SUCCESS, FALSE)
  /\ stmt' = [stmt EXCEPT
       !.state = "executedWithRs", !.result = Limited(rows, c.max_rows),
       !.ird = IF c.fn \in DOMAIN Width THEN PopulateIrd(@, c.fn) ELSE @]

ReturnError(c, refused) == Ended(c, ERROR, refused) /\ UNCHANGED stmt

\* SQLColumns has a row schema only where it has rows.
ReturnColumns(c, tables) ==
  LET rows == FlattenSeq([i \in DOMAIN tables |-> ProcessTableResults(c, tables[i])])
  IN  IF rows = <<>> THEN ReturnError(c, FALSE) ELSE ReturnRows(c, rows)

Round(c, stage, projects, max_threads, tasks) ==
  /\ call' = [call EXCEPT !.args = c, !.stage = stage, !.projects = projects]
  /\ pool' = ExecuteParallelTasks(max_threads, tasks)
  /\ UNCHANGED <<store, config, stmt, answer>>

(***************************************************************************)
(* SQLTables.                                                              *)
(***************************************************************************)
\* The lists of all catalogs, schemas and types are asked for with "%".
Enumeration(c) ==
  CASE ~c.metadata_id /\ c.catalog = "%" /\ c.schema = "" /\ c.table = "" -> "projects"
    [] ~c.metadata_id /\ c.catalog = "" /\ c.schema = "%" /\ c.table = "" -> "schemas"
    [] ~c.metadata_id /\ <<c.catalog, c.schema, c.table>> = <<"", "", "">>
         /\ c.types = {"%"} -> "types"
    [] OTHER -> "tables"

\* Additional projects that are not yet listed are validated one by one.
AppendAdditionalProjectsIfMissing(c, projects) ==
  LET additional == config.dsn.additional
      new == Selected(additional, Range(additional) \ Range(projects))
  IN  Round(c, "validate", projects, 1,
            [i \in DOMAIN new |-> Task("validate", new[i], "", "")])

DefaultDataset == config.dsn.default_dataset

TablesArgs(c) ==
  LET schema == ToCharStr(c.schema, "%")
      a == [c EXCEPT
              !.catalog = ToCharStr(@, CurrentCatalog), !.table = ToCharStr(@, "%"),
              !.schema = IF ~c.metadata_id /\ schema = "%" /\ DefaultDataset # ""
                         THEN EscapeOdbcPattern(DefaultDataset) ELSE schema]
  IN  [a EXCEPT !.fn = Enumeration(a)]

NullIdentifier(c) == c.metadata_id /\ NULL \in {c.catalog, c.schema, c.table}

SQLTables(c) ==
  LET a == TablesArgs(c)
      allowed == config.dsn.allowed
      filter == IF a.fn = "tables" THEN a.catalog ELSE "%"
      literal == LiteralFromOdbcPattern(filter, a.metadata_id)
  IN  /\ c.fn = "tables"
      /\ CASE NullIdentifier(c) -> ReturnError(a, TRUE)
           [] ~NullIdentifier(c) /\ a.fn = "types" ->
                ReturnRows(a, [i \in DOMAIN kAllTableTypes |->
                                 <<"", "", "", kAllTableTypes[i]>>])
           [] OTHER ->
                CASE literal # NoLiteral ->
                       AppendAdditionalProjectsIfMissing(a,
                         IF allowed = <<>> THEN <<literal>>
                         ELSE FilterAllowedProjects(allowed, literal, TRUE))
                  [] literal = NoLiteral /\ allowed # <<>> ->
                       AppendAdditionalProjectsIfMissing(a,
                         FilterAllowedProjects(allowed, filter, FALSE))
                  [] OTHER -> Round(a, "projects", <<>>, 1,
                                    <<Task("projects", "", "", "")>>)

ProjectsListed ==
  /\ call.stage = "projects" /\ RoundOver /\ pool.error = "none"
  /\ AppendAdditionalProjectsIfMissing(call.args, Elements)

ProjectsValidated ==
  LET c == call.args
      projects == call.projects \o Elements
      dataset == LiteralFromOdbcPattern(c.schema, c.metadata_id)
      ForEach(kind, d) == [i \in DOMAIN projects |-> Task(kind, projects[i], d, "")]
  IN  /\ call.stage = "validate" /\ RoundOver
      /\ CASE c.fn = "projects" ->
                ReturnRows(c, [i \in DOMAIN projects |-> <<projects[i], "", "", "">>])
           [] c.fn = "tables" /\ dataset # NoLiteral ->
                Round(c, "tables", projects, config.max_threads, ForEach("tables", dataset))
           [] OTHER ->
                Round(c, "datasets", projects, config.max_threads, ForEach("datasets", ""))

TablesListed ==
  /\ call.stage = "tables" /\ call.args.fn = "tables" /\ RoundOver /\ pool.error = "none"
  /\ ReturnRows(call.args, Elements)

(***************************************************************************)
(* SQLColumns.                                                             *)
(***************************************************************************)
ColumnsArgs(c) ==
  LET schema == ToCharStr(c.schema, "%")
      a == [c EXCEPT !.catalog = ToCharStr(@, CurrentCatalog),
                     !.schema = IF ~c.metadata_id /\ schema = "%" /\ DefaultDataset # ""
                                THEN DefaultDataset ELSE schema,
                     !.table = ToCharStr(@, "%"), !.column = ToCharStr(@, "%")]
      Sanitized(name) == SanitizeIdentifierArgument(name, c.metadata_id)
  IN  [a EXCEPT !.schema = Sanitized(@), !.table = Sanitized(@), !.column = Sanitized(@)]

\* The catalog given is a name, and nothing is empty.
ValidateColumnParameters(c, a) ==
  /\ ~(c.metadata_id /\ NULL \in {c.schema, c.table})
  /\ ~IsSearchPatternArgument(a.catalog)
  /\ "" \notin {a.catalog, a.schema, a.table}

\* The lists of tables of the datasets, in parallel.
ListTables(c, datasets) ==
  IF config.max_threads <= 0 THEN ReturnError(c, TRUE)
  ELSE Round(c, "tables", <<>>, config.max_threads,
             [i \in DOMAIN datasets |->
                Task("tables", datasets[i][1], datasets[i][2], "")])

SQLColumns(c) ==
  LET a == ColumnsArgs(c)
      refused == ~ValidateColumnParameters(c, a)
      named == ~a.metadata_id /\ ~IsSearchPatternArgument(a.schema)
  IN  /\ c.fn = "columns"
      /\ CASE refused -> ReturnError(a, TRUE)
           [] ~refused /\ FastPath(a) ->
                Round(a, "table", <<>>, 1, <<Task("table", a.catalog, a.schema, a.table)>>)
           [] ~refused /\ ~FastPath(a) /\ named ->
                ListTables(a, <<<<a.catalog, a.schema>>>>)
           [] OTHER ->
                Round(a, "datasets", <<>>, 1, <<Task("datasets", a.catalog, "", "")>>)

ColumnTablesListed ==
  /\ call.stage = "tables" /\ call.args.fn = "columns"
  /\ RoundOver /\ pool.error = "none"
  /\ \E tables \in {FlattenSeq(InOrder)} :
       Round(call.args, "table", <<>>, config.max_threads,
             [i \in DOMAIN tables |->
                Task("table", tables[i][1], tables[i][2], tables[i][3])])

(***************************************************************************)
(* SQLProcedures and SQLProcedureColumns.                                  *)
(***************************************************************************)
ProceduresArgs(c) ==
  LET a == [c EXCEPT !.catalog = ToCharStr(@, CurrentCatalog),
                     !.schema = ToCharStr(@, "%"), !.table = ToCharStr(@, "%"),
                     !.column = ToCharStr(@, "")]
      Sanitized(name) == SanitizeIdentifierArgument(name, c.metadata_id)
  IN  IF c.fn = "procedures" THEN a
      ELSE [a EXCEPT !.schema = Sanitized(@), !.table = Sanitized(@), !.column = Sanitized(@)]

\* Names of datasets and routines are required.
ValidateProcedureColumnParameters(c, a) ==
  /\ {NULL, ""} \cap {c.schema, c.table} = {}
  /\ a.catalog # "" /\ ~IsSearchPatternArgument(a.catalog)

SQLProcedures(c) ==
  LET a == ProceduresArgs(c)
  IN  /\ c.fn \in {"procedures", "procedureColumns"}
      /\ IF ~ValidateProcedureColumnParameters(c, a) THEN ReturnError(a, TRUE)
         ELSE Round(a, "datasets", <<>>, 1, <<Task("datasets", a.catalog, "", "")>>)

\* SQLProcedures shows the first routine only.
ProcessProcedures(routines) ==
  CASE routines = <<>> -> <<>>
    [] routines # <<>> /\ routines[1] = NoLiteral ->
         <<[routine |-> <<"", "", "">>, type |-> "UNKNOWN", outputs |-> 0, inputs |-> 0]>>
    [] OTHER -> <<FetchBQSQLProcedureData(routines[1])>>

RoutinesRead ==
  LET c == call.args
      read == Elements
  IN  /\ call.stage = "routines" /\ RoundOver /\ pool.error = "none"
      /\ ReturnRows(c, IF c.fn = "procedures" THEN ProcessProcedures(read)
                       ELSE FlattenSeq([i \in DOMAIN read |->
                              ProcessProcedureColumnResults(c, read[i])]))

\* What follows the datasets of the projects in question.
DatasetsListed ==
  LET c == call.args
      found == Elements
      ForEach(kind, name) ==
        [i \in DOMAIN found |-> Task(kind, found[i][1], found[i][2], name)]
  IN  /\ call.stage = "datasets" /\ RoundOver /\ pool.error = "none"
      /\ CASE c.fn = "schemas" ->
                ReturnRows(c, [i \in DOMAIN found |-> <<"", found[i][2], "", "">>])
           [] c.fn = "tables" ->
                Round(c, "tables", <<>>, config.max_threads, ForEach("tables", ""))
           [] c.fn = "columns" -> ListTables(c, found)
           [] OTHER -> Round(c, "routines", <<>>, 1, ForEach("routines", c.table))

(***************************************************************************)
(* SQLPrimaryKeys, SQLForeignKeys and SQLStatistics read one table.        *)
(***************************************************************************)
ReadTable(c, table) ==
  Round(c, "table", <<>>, 1, <<Task("table", c.catalog, c.schema, table)>>)

NamesArgs(c) ==
  [c EXCEPT !.catalog = ToCharStr(@, CurrentCatalog),
            !.fk_catalog = ToCharStr(@, CurrentCatalog),
            !.schema = ToCharStr(@, ""), !.table = ToCharStr(@, ""),
            !.fk_schema = ToCharStr(@, ""), !.fk_table = ToCharStr(@, "")]

SQLPrimaryKeys(c) ==
  LET a == NamesArgs(c)
  IN  /\ c.fn = "primaryKeys"
      /\ IF "" \in {a.catalog, a.schema, a.table} THEN ReturnError(a, TRUE)
         ELSE ReadTable(a, a.table)

\* Both sides name one catalog and one dataset, and some table is named.
ForeignKeysRefused(a) ==
  \/ "" = a.catalog /\ "" = a.fk_catalog
  \/ "" \notin {a.catalog, a.fk_catalog} /\ a.catalog # a.fk_catalog
  \/ "" = a.schema /\ "" = a.fk_schema
  \/ "" \notin {a.schema, a.fk_schema} /\ a.schema # a.fk_schema
  \/ "" = a.table /\ "" = a.fk_table

FetchForeignKeysFromDataSource(c) ==
  LET a == NamesArgs(c)
      b == [a EXCEPT !.catalog = IF @ # "" THEN @ ELSE a.fk_catalog,
                     !.schema = IF @ # "" THEN @ ELSE a.fk_schema]
      exact == a.fk_table # "" /\ ~HasPercent(a.fk_table) /\ ~HasPercent(a.table)
  IN  CASE ForeignKeysRefused(a) -> ReturnError(a, TRUE)
        [] ~ForeignKeysRefused(a) /\ exact -> ReadTable(b, b.fk_table)
        [] OTHER -> Round(b, "keys", <<>>, 1, <<Task("keys", b.catalog, b.schema, "")>>)

SQLForeignKeys(c) == c.fn = "foreignKeys" /\ FetchForeignKeysFromDataSource(c)

SQLStatistics(c) ==
  LET a == NamesArgs(c)
      b == [a EXCEPT !.schema = IF @ = "" THEN DefaultDataset ELSE @]
      unresolvable == a.table = "" \/ HasPercent(a.table) \/ HasBackslash(a.table)
  IN  /\ c.fn = "statistics"
      /\ CASE c.table = NULL \/ ~c.valid -> ReturnError(b, TRUE)
           [] c.table # NULL /\ c.valid /\ unresolvable -> ReturnRows(b, <<>>)
           [] OTHER -> ReadTable(b, b.table)

TablesRead ==
  LET c == call.args
      read == Elements
  IN  /\ call.stage = "table" /\ RoundOver /\ pool.error = "none"
      /\ CASE c.fn = "columns" -> \E tables \in {InOrder} : ReturnColumns(c, tables)
           [] c.fn # "columns" /\ read = <<>> -> ReturnRows(c, <<>>)
           [] OTHER -> ReturnRows(c,
                CASE c.fn = "primaryKeys" -> FetchPKResultSetFromTableMetaData(read[1])
                  [] c.fn = "foreignKeys" -> FetchForeignKeysFromTableMetadata(c, read[1])
                  [] c.fn = "statistics" -> FetchStatisticsResultSet(read[1]))

\* FetchBQData has described its own query in the IRD before (see Reply).
KeysRead ==
  /\ call.stage = "keys" /\ RoundOver /\ pool.error = "none"
  /\ ReturnRows(call.args, Elements)

(***************************************************************************)
(* SQLSpecialColumns has no rows; SQLGetTypeInfo asks nobody.              *)
(***************************************************************************)
SQLSpecialColumns(c) ==
  /\ c.fn = "specialColumns"
  /\ IF c.valid THEN ReturnRows(c, <<>>) ELSE ReturnError(c, TRUE)

SQLGetTypeInfo(c) ==
  c.fn = "typeInfo" /\ ReturnRows(c, TypeInfoRows(c.data_type))

(***************************************************************************)
(* The steps.                                                              *)
(***************************************************************************)
Idle == call.stage = "idle"

Visible(s) == {x \in s.tables : x[1] \in s.open /\ <<x[1], x[2]>> \in s.datasets}

\* The application calls a function: it has closed the last result.
Call(c) ==
  /\ Idle /\ stmt.state # "executedWithRs" /\ budget.calls > 0
  /\ \/ SQLTables(c) \/ SQLColumns(c) \/ SQLProcedures(c) \/ SQLPrimaryKeys(c)
     \/ SQLForeignKeys(c) \/ SQLStatistics(c) \/ SQLSpecialColumns(c) \/ SQLGetTypeInfo(c)
  /\ budget' = [budget EXCEPT !.calls = @ - 1]
  /\ seen' = [asked |-> c, always |-> Visible(store), ever |-> Visible(store),
              failed |-> FALSE, doubtful |-> {}]

\* A query that FetchBQData runs on a statement without a job makes its job the
\* statement's and describes the query's columns.
QueryColumns == [routines |-> 3, keys |-> 14]

FetchBQData(task, given) ==
  IF task.kind \in DOMAIN QueryColumns /\ ~stmt.job /\ given.ok
  THEN stmt' = [stmt EXCEPT !.job = TRUE,
                            !.ird = [i \in 1..QueryColumns[task.kind] |-> "query"]]
  ELSE UNCHANGED stmt

Request(i) == pool.inputs[pool.running[i].at]

\* BigQuery answers the i-th request under way.
Respond(i, given) ==
  LET task == Request(i)
  IN  /\ ~pool.running[i].ready
      /\ pool' = [pool EXCEPT !.running[i].ready = TRUE,
                              !.running[i].result = TaskResult(call.args, task, given)]
      /\ seen' = IF task.kind = "validate" /\ ~given.ok
                 THEN [seen EXCEPT !.doubtful = @ \cup {task.project}]
                 ELSE [seen EXCEPT !.failed = @ \/ given.code = "other"]
      /\ UNCHANGED <<store, config, call, answer>>

Reply(i) ==
  LET task == Request(i)
  IN  Respond(i, Answered(task)) /\ FetchBQData(task, Answered(task)) /\ UNCHANGED budget

ReplyFails(i) ==
  /\ budget.failures > 0
  /\ Respond(i, Error("other")) /\ UNCHANGED stmt
  /\ budget' = [budget EXCEPT !.failures = @ - 1]

Collect(i) ==
  /\ MayCollect(i)
  /\ pool' = Collected(i)
  /\ UNCHANGED <<store, config, stmt, call, answer, seen, budget>>

RequestsFailed ==
  /\ ~Idle /\ RoundOver /\ pool.error # "none"
  /\ ReturnError(call.args, FALSE)

Advance ==
  /\ \/ ProjectsListed \/ ProjectsValidated \/ DatasetsListed \/ TablesListed
     \/ ColumnTablesListed \/ TablesRead \/ RoutinesRead \/ KeysRead \/ RequestsFailed
  /\ UNCHANGED <<seen, budget>>

\* SQLFreeStmt(SQL_CLOSE) or SQLCloseCursor.
CloseCursor ==
  /\ Idle /\ stmt.state = "executedWithRs"
  /\ stmt' = [stmt EXCEPT !.state = IF stmt.job THEN "prepared" ELSE "notPrepared",
                          !.result = <<>>]
  /\ UNCHANGED <<store, config, call, pool, answer, seen, budget>>

\* Somebody changes BigQuery while a call is in progress.
StoreChanges(s) ==
  /\ ~Idle /\ budget.changes > 0
  /\ store' = s
  /\ budget' = [budget EXCEPT !.changes = @ - 1]
  /\ seen' = [seen EXCEPT !.always = @ \cap Visible(s), !.ever = @ \cup Visible(s)]
  /\ UNCHANGED <<config, stmt, call, pool, answer>>

DropTable(x) == x \in store.tables /\ StoreChanges([store EXCEPT !.tables = @ \ {x}])
CreateTable(x) == /\ x \notin store.tables /\ <<x[1], x[2]>> \in store.datasets
                  /\ StoreChanges([store EXCEPT !.tables = @ \cup {x}])
DropDataset(x) == x \in store.datasets /\ StoreChanges([store EXCEPT !.datasets = @ \ {x}])
DropRoutine(x) == x \in store.routines /\ StoreChanges([store EXCEPT !.routines = @ \ {x}])
RevokeProject(p) == p \in store.open /\ StoreChanges([store EXCEPT !.open = @ \ {p}])

Init ==
  /\ store = [open |-> Range(ProjectSeq),
              datasets |-> {<<x[1], x[2]>> : x \in DOMAIN TableInfo \cup DOMAIN RoutineInfo},
              tables |-> FirstTables, routines |-> DOMAIN RoutineInfo]
  /\ config \in [dsn : Dsns, max_threads : ThreadLimits]
  /\ stmt = [state |-> "notPrepared", result |-> <<>>, ird |-> <<>>, job |-> FALSE]
  /\ call = [args |-> CHOOSE c \in Calls : TRUE, stage |-> "idle", projects |-> <<>>]
  /\ pool = NoRequests
  /\ answer = [code |-> "none", refused |-> FALSE]
  /\ seen = [asked |-> CHOOSE c \in Calls : TRUE, always |-> {}, ever |-> {},
             failed |-> FALSE, doubtful |-> {}]
  /\ budget = [calls |-> MaxCalls, changes |-> MaxChanges, failures |-> MaxFailures]

Environment ==
  \/ \E x \in DOMAIN TableInfo : DropTable(x) \/ CreateTable(x)
  \/ \E x \in store.datasets : DropDataset(x)
  \/ \E x \in store.routines : DropRoutine(x)
  \/ \E p \in store.open : RevokeProject(p)

Driver == Advance \/ \E i \in DOMAIN pool.running : Collect(i)
Server == \E i \in DOMAIN pool.running : Reply(i)

Next ==
  \/ \E c \in Calls : Call(c)
  \/ Driver \/ Server
  \/ \E i \in DOMAIN pool.running : ReplyFails(i)
  \/ CloseCursor \/ Environment

\* The driver's thread and the request threads run, and BigQuery answers every
\* request in the end, well or with an error.
Spec == Init /\ [][Next]_vars /\ WF_vars(Driver) /\ WF_vars(Server)

(***************************************************************************)
(* Properties.                                                             *)
(***************************************************************************)
Stages == {"idle", "projects", "validate", "datasets", "tables", "table", "routines", "keys"}

\* The state of the statement, of the call and of its requests has its shape:
\* an idle driver has no requests, and no round exceeds its threads.
TypeOK ==
  /\ store.open \subseteq Range(ProjectSeq)
  /\ store.tables \subseteq DOMAIN TableInfo /\ store.routines \subseteq DOMAIN RoutineInfo
  /\ stmt.state \in {"notPrepared", "prepared", "executedWithRs"}
  /\ stmt.state # "executedWithRs" => stmt.result = <<>>
  /\ call.stage \in Stages /\ answer.code \in {"none", SUCCESS, ERROR}
  /\ Len(pool.running) <= pool.threads
  /\ Idle => RoundOver

\* What the arguments of a call ask for, read as ODBC defines them: an identifier
\* is compared without case, a pattern as LIKE compares it.
Named(arg, name, metadata_id) == FullMatch(name, ToCharStr(arg, "%"), metadata_id)

CatalogAsked(q, p) ==
  IF q.catalog = NULL THEN p = CurrentCatalog ELSE Named(q.catalog, p, q.metadata_id)

UsesDefault(q) == ~q.metadata_id /\ q.schema \in {NULL, "%"} /\ DefaultDataset # ""

\* Allowed projects are told apart without case if the catalog is a name.
ProjectAsked(q, p) ==
  LET allowed == config.dsn.allowed
      literal == LiteralFromOdbcPattern(ToCharStr(q.catalog, CurrentCatalog), q.metadata_id)
  IN  IF allowed # <<>> /\ literal # NoLiteral
      THEN p \in Range(allowed) /\ ToUpper(p) = ToUpper(literal)
      ELSE CatalogAsked(q, p) /\ (allowed = <<>> \/ p \in Range(allowed))

TablesWanted(q, x) ==
  /\ ProjectAsked(q, x[1]) \/ x[1] \in Range(config.dsn.additional)
  /\ IF UsesDefault(q) THEN x[2] = DefaultDataset ELSE Named(q.schema, x[2], q.metadata_id)
  /\ Named(q.table, x[3], q.metadata_id)
  /\ q.types = {"%"} \/ NormalizeRestTableType(TableInfo[x].type) \in q.types

ColumnsWanted(q, x) ==
  /\ CatalogAsked(q, x[1])
  /\ IF UsesDefault(q) THEN x[2] = DefaultDataset ELSE Named(q.schema, x[2], q.metadata_id)
  /\ Named(q.table, x[3], q.metadata_id)

\* Every column is asked for; an empty name of a column is taken for "%".
EveryColumn(q) == ~q.metadata_id /\ q.column \in {NULL, "", "%"}

\* The columns of the table x that are asked for.
FieldsWanted(q, x) ==
  LET fields == TableInfo[x].columns
  IN  IF EveryColumn(q) THEN fields
      ELSE Selected(fields, {f \in Range(fields) : Named(q.column, f.name, q.metadata_id)})

(***************************************************************************)
(* Where the driver departs from that.                                     *)
(***************************************************************************)
\* BigQuery is asked for a project, and by SQLTables for a dataset, in the case
\* in which the identifier is given, and has no such object in another case;
\* configured projects are compared by the driver itself.
InItsCase(q, x) ==
  q.metadata_id =>
    /\ \/ x[1] = ToCharStr(q.catalog, CurrentCatalog)
       \/ q.fn = "tables" /\ x[1] \in Range(config.dsn.allowed) \cup Range(config.dsn.additional)
    /\ q.fn = "tables" => x[2] = q.schema

\* SQLColumns reads the default dataset as a pattern, unlike SQLTables, which takes
\* care that "the configured default dataset is an exact identifier"
\* (odbc_driver_metadata.cc:620): it lists tables of other datasets as well.
DefaultAsPattern(q, x) ==
  /\ UsesDefault(q) /\ FullMatch(x[2], DefaultDataset, FALSE)
  /\ CatalogAsked(q, x[1]) /\ Named(q.table, x[3], FALSE)

\* Of several columns that match, SQLColumns shows the first one.
LaterMatchesLost(q, x) == ~EveryColumn(q) /\ Len(FieldsWanted(q, x)) > 1

\* A call has just returned rows for the function, unlimited.
Returned(fn) == /\ Idle /\ stmt.state = "executedWithRs" /\ answer.code = SUCCESS
                /\ call.args.fn = fn /\ call.args.max_rows = 0

\* SQLTables lists every table that is asked for and stays visible during the
\* call, once, whatever the rounds, the threads and the order of the answers;
\* it lists nothing that was not asked for or never was visible.  Tables of an
\* additional project whose validation failed may be missing.  SQLColumns
\* lists, in the same way, the columns asked for of the tables asked for, but
\* for the three departures above.
ExactListing ==
  LET q == seen.asked
      rows == stmt.result
      TableOf(r) == <<r[1], r[2], r[3]>>
      Of(x) == Selected(rows, {r \in Range(rows) : r.table = x})
      Columns(x) == [i \in DOMAIN Of(x) |-> Of(x)[i].column]
      Names(fields) == [i \in DOMAIN fields |-> fields[i].name]
  IN  /\ Returned("tables") =>
           /\ \A x \in seen.always :
                TablesWanted(q, x) /\ InItsCase(q, x) /\ x[1] \notin seen.doubtful =>
                  Cardinality({i \in DOMAIN rows : TableOf(rows[i]) = x}) = 1
           /\ \A i \in DOMAIN rows : /\ TableOf(rows[i]) \in seen.ever
                                     /\ TablesWanted(q, TableOf(rows[i]))
      /\ Returned("columns") =>
           /\ \A x \in seen.always :
                ColumnsWanted(q, x) /\ InItsCase(q, x) /\ ~LaterMatchesLost(q, x) =>
                  Columns(x) = Names(FieldsWanted(q, x))
           /\ \A i \in DOMAIN rows :
                LET x == rows[i].table
                IN  /\ x \in seen.ever
                    /\ ColumnsWanted(q, x) \/ DefaultAsPattern(q, x)
                    /\ \E f \in Range(FieldsWanted(q, x)) : f.name = rows[i].column

\* SQLColumns gives its rows in the order of BigQuery's lists and of the columns
\* of a table, in whatever order the requests are answered.
ColumnsInOrder ==
  LET Place(seq, name) == CHOOSE i \in DOMAIN seq : seq[i] = name
      Key(r) == <<Place(DatasetSeq, r.table[2]), Place(TableSeq, r.table[3]), r.ordinal>>
      Before(a, b) == \E k \in 1..3 : a[k] < b[k] /\ \A l \in 1..(k - 1) : a[l] = b[l]
      rows == stmt.result
  IN  (Idle /\ stmt.state = "executedWithRs" /\ call.args.fn = "columns") =>
        \A i \in DOMAIN rows : i > 1 => Before(Key(rows[i - 1]), Key(rows[i]))

\* A request that failed is never hidden behind a successful answer (but for
\* the validation of an additional project), and objects that vanish or are
\* closed to the caller while a list is made do not fail it: SQLTables then
\* fails for no other reason than its arguments or a failed request, and
\* SQLColumns only if nothing that it looks for was there all the time.
FailuresReported ==
  LET explained == answer.refused \/ seen.failed
      q == seen.asked
  IN  Idle =>
        /\ answer.code = SUCCESS => ~seen.failed
        /\ answer.code = ERROR /\ q.fn = "tables" => explained
        /\ answer.code = ERROR /\ q.fn = "columns" /\ ~explained =>
             \A x \in seen.always :
               ColumnsWanted(q, x) /\ InItsCase(q, x) => FieldsWanted(q, x) = <<>>

\* A column is described alike by SQLColumns, by SQLGetTypeInfo and by the IRD
\* of a query on it: the same SQL type, and for types of fixed size the same
\* size unless the table declares one.  FLOAT64 has 53 bits in the one and 15
\* digits in the other.
DescribedAlike ==
  (Idle /\ call.args.fn = "columns" /\ stmt.state = "executedWithRs") =>
    \A i \in DOMAIN stmt.result :
      LET row == stmt.result[i]
          f == CHOOSE c \in Range(TableInfo[row.table].columns) : c.name = row.column
          ird == IrdRecord(f)
          info == TypeInfoOf(IF IsRepeated(f) THEN "ARRAY" ELSE ConvertDSType(f.type))
          fixed == row.data_type \notin {"SQL_VARCHAR", "SQL_VARBINARY", "SQL_DOUBLE"}
                   /\ f.precision = 0 /\ f.max_length = 0
      IN  /\ row.data_type = ird.concise_type /\ row.data_type = info.data_type
          /\ fixed => row.column_size = ird.length /\ row.column_size = info.col_size
          /\ row.sql_data_type = "SQL_DATETIME" <=> row.sql_datetime_sub # None

\* Every call returns: no misconfigured number of threads and no error leaves
\* the driver waiting for a request that nobody sends.
CallEnds == ~Idle ~> Idle

=============================================================================
