------------------------------ MODULE ColumnTypes ------------------------------
(***************************************************************************)
(* How the driver describes a column, in the four places where it does:    *)
(* SQLColumns and SQLProcedureColumns (a row per column), SQLGetTypeInfo   *)
(* (a row per type) and the implementation row descriptor (IRD) of a       *)
(* query.  Each has tables of its own; the module holds them side by side. *)
(*                                                                         *)
(* A column of BigQuery is a record                                        *)
(*    [name, type, mode, precision, scale, max_length]                     *)
(* where 0 means that no precision, scale or length is declared.  A type   *)
(* is BigQuery's spelling.  SQL types are their ODBC names.  None stands   *)
(* for an absent optional value (a NULL in the result).                    *)
(***************************************************************************)
EXTENDS Integers, Sequences

CONSTANT DefaultStringColumnLength   \* Dsn::default_string_column_length

ASSUME DefaultStringColumnLengthAssumption ==
  DefaultStringColumnLength \in Nat \ {0}

None == -1

\* The size the header gives a column when the caller passes none.
kDefaultColumnSize == 16384

Synonyms == [INTEGER |-> "INT64", BOOLEAN |-> "BOOL", FLOAT |-> "FLOAT64",
             DECIMAL |-> "NUMERIC", RECORD |-> "STRUCT"]

\* The types that the REST interface gives a column.
RestTypes ==
  {"STRING", "BYTES", "INTEGER", "INT64", "FLOAT", "FLOAT64", "NUMERIC", "BIGNUMERIC",
   "BOOLEAN", "BOOL", "TIMESTAMP", "DATE", "TIME", "DATETIME", "GEOGRAPHY", "RECORD",
   "STRUCT", "JSON", "INTERVAL", "RANGE"}

ConvertDSType(type) ==
  IF type \in DOMAIN Synonyms THEN Synonyms[type] ELSE type

TextTypes == {"STRING", "BYTES", "INTERVAL", "STRUCT", "JSON", "GEOGRAPHY"}

\* The SQL type of a column; an array is a text.
GetSQLDataType(type, isArray) ==
  LET named == [INT64 |-> "SQL_BIGINT", BOOL |-> "SQL_BIT",
                FLOAT64 |-> "SQL_DOUBLE", NUMERIC |-> "SQL_NUMERIC",
                BIGNUMERIC |-> "SQL_NUMERIC", BYTES |-> "SQL_VARBINARY",
                DATE |-> "SQL_TYPE_DATE", TIME |-> "SQL_TYPE_TIME",
                DATETIME |-> "SQL_TYPE_TIMESTAMP",
                TIMESTAMP |-> "SQL_TYPE_TIMESTAMP"]
      t == ConvertDSType(type)
  IN  IF ~isArray /\ t \in DOMAIN named THEN named[t] ELSE "SQL_VARCHAR"

Datetimes == {"SQL_TYPE_DATE", "SQL_TYPE_TIME", "SQL_TYPE_TIMESTAMP"}

\* The verbose type that SQLColumns adds to the concise one, and its subcode.
VerboseType(data_type) ==
  IF data_type \in Datetimes THEN "SQL_DATETIME" ELSE data_type

GetSQLDateTimeSub(data_type) ==
  CASE data_type = "SQL_TYPE_DATE"      -> 1
    [] data_type = "SQL_TYPE_TIME"      -> 2
    [] data_type = "SQL_TYPE_TIMESTAMP" -> 3
    [] OTHER                            -> None

(***************************************************************************)
(* SQLColumns and SQLProcedureColumns.                                     *)
(***************************************************************************)
Metadata(precision, buf_len, scale, radix, octets) ==
  [precision |-> precision, buf_len |-> buf_len, scale |-> scale,
   radix |-> radix, char_octet_len |-> octets]

\* Faulty variant: the size of an INT64 counts its sign.
NumberMetadataSigned ==
  [INT64      |-> Metadata(20, 20, 0, 10, None),
   BOOL       |-> Metadata(1, 1, None, None, None),
   NUMERIC    |-> Metadata(38, 40, 9, 10, None),
   BIGNUMERIC |-> Metadata(77, 79, 38, 10, None),
   FLOAT64    |-> Metadata(53, 8, 9, 2, None)]

NumberMetadata ==
  [INT64      |-> Metadata(19, 20, 0, 10, None),
   BOOL       |-> Metadata(1, 1, None, None, None),
   NUMERIC    |-> Metadata(38, 40, 9, 10, None),
   BIGNUMERIC |-> Metadata(77, 79, 38, 10, None),
   FLOAT64    |-> Metadata(53, 8, 9, 2, None)]

TimeMetadata ==
  [TIME      |-> Metadata(15, 6, 6, None, None),
   DATE      |-> Metadata(10, 6, None, None, None),
   TIMESTAMP |-> Metadata(26, 16, 6, 2, None),
   DATETIME  |-> Metadata(26, 16, 6, 2, None)]

GetFixedColumnMetadata(type, column_size) ==
  LET t == ConvertDSType(type)
  IN  CASE t \in TextTypes ->
             Metadata(column_size, column_size, None, 10, column_size)
        [] t = "ARRAY" ->
             Metadata(column_size, column_size, None, None, column_size)
        [] t = "RANGE" -> Metadata(256, 256, 0, 0, 256)
        [] t \in DOMAIN NumberMetadata -> NumberMetadata[t]
        [] t \in DOMAIN TimeMetadata -> TimeMetadata[t]

IsRepeated(f) == f.mode = "REPEATED"

FixedFor(f, column_size) ==
  GetFixedColumnMetadata(IF IsRepeated(f) THEN "ARRAY" ELSE f.type, column_size)

GetColSize(f, column_size) ==
  CASE f.precision > 0  -> f.precision
    [] f.precision = 0 /\ f.max_length > 0 -> f.max_length
    [] OTHER -> FixedFor(f, column_size).precision

GetBufferLen(f, column_size) ==
  CASE f.max_length > 0 -> f.max_length
    [] f.max_length = 0 /\ f.precision > 0 -> f.precision + 2
    [] OTHER -> FixedFor(f, column_size).buf_len

GetCharOctetLen(f, column_size) ==
  IF f.max_length > 0 THEN f.max_length
                      ELSE FixedFor(f, column_size).char_octet_len

GetDecimalDigits(f, column_size) ==
  IF f.scale > 0 THEN f.scale ELSE FixedFor(f, column_size).scale

GetRadix(f, column_size) ==
  CASE f.scale > 0 /\ f.precision > 0 -> 10
    [] f.scale = 0 /\ f.precision > 0 -> 2
    [] OTHER -> FixedFor(f, column_size).radix

\* The row of SQLColumns for the column f of a table, at the given position.
CreateResultSetDSRow(table, f, field_pos) ==
  LET size == DefaultStringColumnLength
      data_type == GetSQLDataType(f.type, IsRepeated(f))
  IN  [table |-> table, column |-> f.name, data_type |-> data_type,
       type_name |-> IF IsRepeated(f) THEN "ARRAY" ELSE
                     IF ConvertDSType(f.type) \in {"INT64", "BOOL"}
                     THEN ConvertDSType(f.type) ELSE f.type,
       column_size |-> GetColSize(f, size),
       buffer_length |-> GetBufferLen(f, size),
       decimal_digits |-> GetDecimalDigits(f, size),
       radix |-> GetRadix(f, size),
       nullable |-> f.mode # "REQUIRED" /\ ~IsRepeated(f),
       sql_data_type |-> VerboseType(data_type),
       sql_datetime_sub |-> GetSQLDateTimeSub(data_type),
       char_octet_length |-> GetCharOctetLen(f, size),
       ordinal |-> field_pos]

\* The row of SQLProcedureColumns for the parameter f of a routine: the size
\* configured for texts is not used.
CreateProcedureColumnResultSetDSRow(routine, f) ==
  LET fixed == GetFixedColumnMetadata(f.type, kDefaultColumnSize)
      data_type == GetSQLDataType(f.type, FALSE)
  IN  [routine |-> routine, column |-> f.name, data_type |-> data_type,
       column_type |-> CASE f.mode = "OUT" -> 4
                         [] f.mode = "INOUT" -> 2
                         [] OTHER -> 1,
       column_size |-> fixed.precision,
       sql_data_type |-> VerboseType(data_type),
       sql_datetime_sub |-> GetSQLDateTimeSub(data_type),
       char_octet_length |-> IF f.mode = "OUT" THEN 16384
                             ELSE fixed.char_octet_len]

(***************************************************************************)
(* SQLGetTypeInfo.                                                         *)
(***************************************************************************)
TypeInfo(name, data_type, col_size, maximum_scale, radix) ==
  [type_name |-> name, data_type |-> data_type, col_size |-> col_size,
   maximum_scale |-> maximum_scale, radix |-> radix]

ExactTypes ==
  [INT64      |-> TypeInfo("INT64", "SQL_BIGINT", 19, 0, 10),
   BOOL       |-> TypeInfo("BOOL", "SQL_BIT", 1, 0, 10),
   NUMERIC    |-> TypeInfo("NUMERIC", "SQL_NUMERIC", 38, 9, 10),
   BIGNUMERIC |-> TypeInfo("BIGNUMERIC", "SQL_NUMERIC", 77, 38, 10)]

DateTypes ==
  [DATE |-> TypeInfo("DATE", "SQL_TYPE_DATE", 10, 0, 10)]

FloatTypes ==
  [FLOAT64 |-> TypeInfo("FLOAT64", "SQL_DOUBLE", 53, 0, 2)]

ClockTypes ==
  [TIME      |-> TypeInfo("TIME", "SQL_TYPE_TIME", 15, 0, 2),
   TIMESTAMP |-> TypeInfo("TIMESTAMP", "SQL_TYPE_TIMESTAMP", 26, 6, 2),
   DATETIME  |-> TypeInfo("DATETIME", "SQL_TYPE_TIMESTAMP", 26, 0, 2)]

StringTypes ==
  [t \in {"STRING", "ARRAY", "STRUCT"} |->
     TypeInfo(t, "SQL_VARCHAR", 16384, 0, 2)]

DocumentTypes ==
  [t \in {"INTERVAL", "JSON", "GEOGRAPHY", "RANGE"} |->
     TypeInfo(t, "SQL_VARCHAR", 16384, 0, 2)]

BytesTypes == [BYTES |-> TypeInfo("BYTES", "SQL_VARBINARY", 16384, 0, 2)]

TypeInfoOf(t) ==
  CASE t \in DOMAIN ExactTypes    -> ExactTypes[t]
    [] t \in DOMAIN DateTypes     -> DateTypes[t]
    [] t \in DOMAIN FloatTypes    -> FloatTypes[t]
    [] t \in DOMAIN ClockTypes    -> ClockTypes[t]
    [] t \in DOMAIN StringTypes   -> StringTypes[t]
    [] t \in DOMAIN DocumentTypes -> DocumentTypes[t]
    [] t \in DOMAIN BytesTypes    -> BytesTypes[t]

\* The types under each SQL type code, in the order of their names.
kSqlToBqDataTypes ==
  [SQL_BIT            |-> <<"BOOL">>,
   SQL_BIGINT         |-> <<"INT64">>,
   SQL_VARBINARY      |-> <<"BYTES">>,
   SQL_NUMERIC        |-> <<"BIGNUMERIC", "NUMERIC">>,
   SQL_DOUBLE         |-> <<"FLOAT64">>,
   SQL_VARCHAR        |-> <<"ARRAY", "GEOGRAPHY", "INTERVAL", "JSON", "RANGE",
                            "STRING", "STRUCT">>,
   SQL_TYPE_DATE      |-> <<"DATE">>,
   SQL_TYPE_TIME      |-> <<"TIME">>,
   SQL_TYPE_TIMESTAMP |-> <<"DATETIME", "TIMESTAMP">>]

\* The order of the type codes.
TypeCodes == <<"SQL_BIT", "SQL_BIGINT", "SQL_VARBINARY", "SQL_NUMERIC", "SQL_DOUBLE",
               "SQL_VARCHAR", "SQL_TYPE_DATE", "SQL_TYPE_TIME", "SQL_TYPE_TIMESTAMP">>

AllTypes ==
  LET f[i \in 0..Len(TypeCodes)] ==
        IF i = 0 THEN <<>> ELSE f[i - 1] \o kSqlToBqDataTypes[TypeCodes[i]]
  IN  f[Len(TypeCodes)]

\* The rows of SQLGetTypeInfo; an unknown type has none.
TypesUnder(data_type) ==
  CASE data_type = "SQL_ALL_TYPES" -> AllTypes
    [] data_type \in DOMAIN kSqlToBqDataTypes -> kSqlToBqDataTypes[data_type]
    [] OTHER -> <<>>

TypeInfoRows(data_type) ==
  [i \in 1..Len(TypesUnder(data_type)) |-> TypeInfoOf(TypesUnder(data_type)[i])]

(***************************************************************************)
(* The IRD.                                                                *)
(***************************************************************************)
\* The type information behind a descriptor record; a spelling that the map
\* lacks is described as a STRING.
GetTypeInfoFromBQType(sql_type, bq_type, is_array) ==
  LET known == {"INTEGER", "BOOLEAN", "FLOAT", "STRUCT", "RECORD"}
      listed == \E i \in DOMAIN kSqlToBqDataTypes[sql_type] :
                  kSqlToBqDataTypes[sql_type][i] = bq_type
  IN  CASE is_array -> TypeInfoOf("ARRAY")
        [] ~is_array /\ bq_type \in known -> TypeInfoOf(ConvertDSType(bq_type))
        [] ~is_array /\ bq_type \notin known /\ listed -> TypeInfoOf(bq_type)
        [] OTHER -> TypeInfoOf("STRING")

\* The descriptor record of a column of a query; sizes that the table declares
\* are overwritten with those of the type.
IrdRecord(f) ==
  LET sql_type == GetSQLDataType(f.type, IsRepeated(f))
      info == GetTypeInfoFromBQType(sql_type, f.type, IsRepeated(f))
      col_size == IF sql_type \in {"SQL_VARCHAR", "SQL_VARBINARY"}
                  THEN DefaultStringColumnLength ELSE info.col_size
      exact == info.type_name \in {"BIGNUMERIC", "INT64", "NUMERIC"}
  IN  [concise_type |-> sql_type, type_name |-> info.type_name,
       length |-> IF sql_type = "SQL_DOUBLE" THEN 15 ELSE col_size,
       radix |-> IF exact THEN 10 ELSE
                 IF info.type_name = "FLOAT64" THEN 2 ELSE 0,
       nullable |-> ~IsRepeated(f)]

=============================================================================
