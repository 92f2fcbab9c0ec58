------------------------------- MODULE CatalogMC -------------------------------
(* Two projects, three datasets and five tables for TLC, with names that are *)
(* patterns of each other ("d_" matches "d1", "d_" and "d2").                *)
EXTENDS Catalog

Field(name, type) ==
  [name |-> name, type |-> type, mode |-> "NULLABLE", precision |-> 0, scale |-> 0,
   max_length |-> 0]
Sized(f, precision, scale, length) ==
  [f EXCEPT !.precision = precision, !.scale = scale, !.max_length = length]
Of(f, mode) == [f EXCEPT !.mode = mode]

Orders ==
  <<Of(Field("id", "INTEGER"), "REQUIRED"), Field("name", "STRING"),
    Sized(Field("code", "STRING"), 0, 0, 5), Field("ok", "BOOLEAN"),
    Field("price", "NUMERIC"), Sized(Field("tax", "NUMERIC"), 10, 2, 0),
    Sized(Field("n", "NUMERIC"), 4, 0, 0), Field("big", "BIGNUMERIC"),
    Field("x", "FLOAT"), Field("raw", "BYTES")>>
Events ==
  <<Field("day", "DATE"), Field("at", "TIMESTAMP"), Field("dt", "DATETIME"),
    Field("t", "TIME"), Of(Field("tags", "INTEGER"), "REPEATED"),
    Field("rec", "RECORD"), Field("doc", "JSON"), Field("geo", "GEOGRAPHY"),
    Field("gap", "INTERVAL"), Field("span", "RANGE")>>

Info(type, columns) ==
  [type |-> type, columns |-> columns, primary_key |-> <<>>, foreign_keys |-> <<>>,
   num_rows |-> 7]

Customers == [Info("BASE_TABLE", <<Field("id", "INT64"), Field("name", "STRING")>>)
                EXCEPT !.primary_key = <<"name", "gone", "id">>]
Keyed == [Info("CLONE", Orders) EXCEPT
            !.foreign_keys = <<[table |-> "v", columns |-> <<"x">>],
                               [table |-> "t", columns |-> <<"id", "name">>]>>]

Objects ==
  (<<"p", "d1", "t">> :> Customers) @@ (<<"p", "d1", "u">> :> Keyed) @@
  (<<"p", "d_", "t">> :> Info("TABLE", Events)) @@
  (<<"p", "d2", "v">> :> Info("MATERIALIZED_VIEW", <<Field("a", "DATE")>>)) @@
  (<<"q", "d1", "t">> :> Info("VIEW", <<Field("a", "INT64")>>))

AtFirst == DOMAIN Objects \ {<<"p", "d2", "v">>}

RoutineTable ==
  (<<"p", "d1", "f">> :> [type |-> "FUNCTION", fields |->
      <<Of(Field("", "INT64"), "OUT"), Of(Field("x", "STRING"), "IN")>>]) @@
  (<<"p", "d1", "g">> :> [type |-> "PROCEDURE", fields |->
      <<Of(Field("x", "DATE"), "IN"), Of(Field("y", "FLOAT64"), "INOUT")>>])

AllNames ==
  {"p", "q", "d1", "d_", "d2", "u", "v", "f", "g", "x", "y", "id", "name", "code", "ok", "price",
   "tax", "n", "big", "raw", "day", "at", "dt", "t", "tags", "rec", "doc", "geo", "gap", "span",
   "a"}
OneLetter == {"p", "q", "t", "u", "v", "f", "g", "x", "y", "n", "a"}
Pattern(matches, literal, escaped) ==
  [matches |-> matches, literal |-> literal, escaped |-> escaped,
   percent |-> FALSE, backslash |-> FALSE]
PatternTable ==
  ("%" :> [Pattern(AllNames, NoLiteral, "\\%") EXCEPT !.percent = TRUE]) @@
  ("d_" :> Pattern({"d1", "d_", "d2"}, NoLiteral, "d\\_")) @@
  ("_" :> Pattern(OneLetter, NoLiteral, "\\_")) @@
  ("d\\_" :> [Pattern({"d_"}, "d_", "d\\\\\\_") EXCEPT !.backslash = TRUE])

Capitals == ("p" :> "P") @@ ("t" :> "T") @@ ("d1" :> "D1") @@ ("id" :> "ID") @@ ("f" :> "F")

Base == [fn |-> "tables", catalog |-> NULL, schema |-> NULL, table |-> NULL,
         column |-> NULL, types |-> {"%"}, metadata_id |-> FALSE, max_rows |-> 0,
         fk_catalog |-> NULL, fk_schema |-> NULL, fk_table |-> NULL,
         valid |-> TRUE, data_type |-> "SQL_ALL_TYPES"]
Asks(fn, catalog, schema, table) ==
  [Base EXCEPT !.fn = fn, !.catalog = catalog, !.schema = schema, !.table = table]
Exactly(c) == [c EXCEPT !.metadata_id = TRUE]
Columned(c, name) == [c EXCEPT !.column = name]

TablesCalls ==
  {Base, Asks("tables", "%", "%", "%"), Asks("tables", "_", "d1", "_"),
   Asks("tables", "p", "d_", "t"), Asks("tables", "p", "d\\_", NULL),
   Asks("tables", "%", "", ""), Asks("tables", "", "%", ""), Asks("tables", "", "", ""),
   Exactly(Asks("tables", "p", "d1", "T")), Exactly(Asks("tables", "p", NULL, "T")),
   Exactly(Asks("tables", "P", "d1", "t")), Exactly(Asks("tables", "p", "D1", "t")),
   [Base EXCEPT !.types = {"TABLE", "VIEW"}, !.catalog = "%", !.max_rows = 1]}

ColumnsCalls ==
  {Asks("columns", NULL, NULL, NULL), Asks("columns", "p", "d1", "t"),
   Asks("columns", "p", "d1", "%"), Asks("columns", "p", "d2", "v"),
   Asks("columns", "p", "d_", "t"), Asks("columns", "p", "d1", ""),
   Columned(Asks("columns", "p", "d1", "%"), "_"),
   Exactly(Columned(Asks("columns", "p", "D1", "T"), "ID")),
   Columned(Asks("columns", "p", "d_", "t"), "_"),
   Exactly(Columned(Asks("columns", "P", "d1", "t"), "id")),
   Exactly(Asks("columns", "p", NULL, "t")), Asks("columns", "%", "d1", "t")}

OtherCalls ==
  {Asks("primaryKeys", NULL, "d1", "t"), Asks("primaryKeys", "p", "d1", "v"),
   Asks("primaryKeys", "p", "", "t"),
   [Asks("foreignKeys", NULL, "d1", "") EXCEPT !.fk_table = "u"],
   [Asks("foreignKeys", NULL, "d1", "t") EXCEPT !.fk_table = "u"],
   [Asks("foreignKeys", NULL, "d1", "t") EXCEPT !.fk_table = "v"],
   Asks("foreignKeys", NULL, "d1", "_"),
   [Asks("foreignKeys", NULL, "d1", "t") EXCEPT !.fk_schema = "d2"],
   Asks("statistics", NULL, "d1", "t"), Asks("statistics", NULL, NULL, "t"),
   Asks("statistics", NULL, "d1", "%"), Asks("statistics", NULL, "d1", NULL),
   Asks("procedures", NULL, "%", "%"), Asks("procedures", NULL, "d1", "g"),
   Asks("procedures", NULL, NULL, "%"),
   Asks("procedureColumns", NULL, "d1", "%"),
   Columned(Asks("procedureColumns", NULL, "d_", "_"), "x"),
   Exactly(Asks("procedureColumns", "p", "d1", "f")),
   Asks("specialColumns", NULL, "d1", "t"),
   [Asks("specialColumns", NULL, "d1", "t") EXCEPT !.valid = FALSE],
   [Asks("typeInfo", NULL, NULL, NULL) EXCEPT !.data_type = "SQL_NUMERIC"],
   Asks("typeInfo", NULL, NULL, NULL)}

AllCalls == TablesCalls \cup ColumnsCalls \cup OtherCalls

Dsn(allowed, additional, dataset) ==
  [allowed |-> allowed, additional |-> additional, default_dataset |-> dataset]
Configurations == {Dsn(<<>>, <<>>, ""), Dsn(<<"p">>, <<"q">>, "d_")}
MCProjects == <<"p", "q">>
MCDatasets == <<"d1", "d_", "d2">>
MCTables == <<"t", "u", "v">>
MCRoutines == <<"f", "g">>

\* Named once more, so that TLC evaluates each table only once.
MCTableInfo == Objects
MCFirst == AtFirst
MCRoutineInfo == RoutineTable
MCPatterns == PatternTable
MCUpper == Capitals
MCCalls == AllCalls
MCDsns == Configurations
=============================================================================
