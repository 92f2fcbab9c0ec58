------------------------------ MODULE GetData ------------------------------
(***************************************************************************)
(* SQLGetData (odbc_sql_results.cc) on the rows of a result, with SQLFetch *)
(* between them and columns bound with SQLBindCol.                         *)
(*                                                                         *)
(* A value whose text is longer than the buffer is converted once, into    *)
(* translated_data, and handed out in pieces. translated is that cache:     *)
(* offset, the bytes handed out; size, data.size(); good, how many of them  *)
(* are of the value; kind, what they are; type and col, of the call that    *)
(* filled it.                                                              *)
(*                                                                         *)
(* reading is what the application has of the column it reads: end, the     *)
(* bytes of the pieces so far, and done, whether it was told that this was  *)
(* all.                                                                    *)
(***************************************************************************)
EXTENDS DataTranslation, Sequences, FiniteSets

CONSTANTS
  Rows,            \* the rows of the result, sequences of values
  Buffers,         \* lengths of the buffers for CHAR, WCHAR and BINARY
  Asked,           \* C types SQLGetData is called with
  Bindable,        \* columns that SQLBindCol is called for
  Bindings         \* C types and buffer lengths they are bound with

\* A row is read column by column; every row has the columns of the first.
ASSUME GetDataAssumption ==
  /\ Rows \in Seq(Seq(BqValue))
  /\ \A r \in 1 .. Len(Rows), k \in 1 .. Len(Rows[1]) :
       k <= Len(Rows[r]) /\ WellFormed(Rows[r][k])
  /\ \A b \in Buffers : b \in Nat /\ b >= 2 * WireWcharSize
  /\ Asked \subseteq CTypes \cup {"DEFAULT"}
  /\ Bindable \subseteq 1 .. Len(Rows[1])
  /\ Bindings \subseteq [type : CTypes, b : Nat, row : {0}]

VARIABLES
  cursor,          \* the row SQLGetData reads, 0: before the first
  translated,      \* ResultSet::translated_data
  bound,           \* bound columns, with the row their buffer shows
  reading,         \* what the application has of a value
  reply            \* the answer to the last call

vars == <<cursor, translated, bound, reading, reply>>

Columns == 1 .. Len(Rows[1])
NoTotal == -4
NoData == Answer("NO_DATA", "none", 0, 0)
Empty == [offset |-> 0, size |-> 0, good |-> 0, kind |-> "none", type |-> "none", col |-> 0]
NotRead == [col |-> 0, type |-> "none", end |-> 0, done |-> FALSE]
Unbound == [type |-> "none", b |-> 0, row |-> 0]

Init ==
  /\ cursor = 0
  /\ translated = Empty
  /\ bound = [col \in Bindable |-> Unbound]
  /\ reading = NotRead
  /\ reply = [call |-> "none", col |-> 0, type |-> "none", b |-> 0, answer |-> NoData,
              from |-> 0, to |-> 0, done |-> FALSE, end |-> 0]

Replied(call, col, c, b, answer, from, to) ==
  reply' = [call |-> call, col |-> col, type |-> c, b |-> b, answer |-> answer,
            from |-> from, to |-> to, done |-> reading.done, end |-> reading.end]

(* What a value is when all of it was handed over, in bytes of C type c. *)
Unit(c) == IF c = "WCHAR" THEN WireWcharSize ELSE 1
FullText(v, c) ==
  CASE c = "BINARY" /\ v.type = "BYTES" -> v.chars
    [] c = "BINARY" /\ v.type = "RANGE" /\ v.reads # "date" -> v.text + 1
    [] c = "WCHAR" /\ v.type \in {"STRING", "JSON", "STRUCT", "ARRAY", "GEOGRAPHY"} -> v.chars
    [] OTHER -> v.text
Whole(v, c, answer) ==
  \/ answer.kind \in {"value", "null"}
  \/ answer.kind = "text" /\ answer.n = FullText(v, c)

Value(col) == Rows[cursor][col]
Resolved(col, c) == IF c = "DEFAULT" THEN GetDefaultCType(Value(col).type) ELSE c
BuffersFor(c) == IF c \in LengthSensitive THEN Buffers ELSE {SizeOf(c)}

\* The offset belongs to the column of the last call.
OffsetOf(col) == IF translated.col = col THEN translated.offset ELSE 0
Chunked == {"STRING", "BYTES", "JSON", "STRUCT", "ARRAY"}
Cached(v, c, b) == v.size > b \div Unit(c) /\ v.type \in Chunked

\* Faulty variant: the buffer for the text is counted in characters.
FillingBytes(v, c) == GetColumnData(v, c, v.size + 1, TRUE)

\* The conversion of the whole value into a buffer made for its text, and what
\* is cached of it: as many bytes as the conversion says it wrote, whether it
\* did or not.
Filling(v, c) == GetColumnData(v, c, (v.size + 1) * Unit(c), TRUE)
Filled(col, c) ==
  LET a == Filling(Value(col), c)
  IN [offset |-> 0, size |-> a.len, kind |-> a.kind, type |-> c, col |-> col,
      good |-> IF a.kind = "text" THEN a.n * Unit(c)
               ELSE IF a.kind = "none" THEN 0 ELSE a.len]
Current(col, c) ==
  IF OffsetOf(col) = 0 THEN Filled(col, c)
  ELSE translated

\* The application has the bytes before end of a value, and whether it was told
\* that they are all.
Has(col, c, end, done) ==
  reading' = [col |-> col, type |-> c, end |-> end, done |-> done]
SoFar(col, c) == IF reading.col = col /\ reading.type = c THEN reading.end ELSE 0
Told(col, c) == reading.col = col /\ reading.type = c /\ reading.done

GetDataAtEnd(col, c) ==
  /\ cursor > Len(Rows)
  /\ Has(col, c, 0, FALSE)
  /\ Replied("getData", col, c, 0, NoData, 0, 0)
  /\ UNCHANGED <<cursor, translated, bound>>

\* A value that fits, or that is not handed out in pieces. The cache is not
\* read again while its offset is 0.
GetDataDirect(col, c, b, ind) ==
  LET a == GetColumnData(Value(col), c, b, ind)
  IN /\ OffsetOf(col) = 0 /\ ~Cached(Value(col), c, b)
     /\ translated' = [Empty EXCEPT !.col = col]
     /\ Has(col, c, 0, FALSE)
     /\ Replied("getData", col, c, b, a, 0, 0)
     /\ UNCHANGED <<cursor, bound>>

\* The C type of the pieces may not change.
GetDataTypeChanged(col, c, b) ==
  /\ OffsetOf(col) # 0 /\ translated.type # c
  /\ Replied("getData", col, c, b, Refused("HY000", Value(col)), 0, 0)
  /\ UNCHANGED <<cursor, translated, bound, reading>>

InPieces(col, c, b) ==
  IF OffsetOf(col) = 0 THEN Cached(Value(col), c, b) ELSE translated.type = c

\* What a buffer takes of the cache, a terminator beside it but for BINARY, and
\* where the next piece begins.
Copied(c, b) ==
  CASE c = "BINARY" -> b
    [] c = "WCHAR" -> ((b \div WireWcharSize) - 1) * WireWcharSize
    [] OTHER -> b - 1
\* Faulty variant: the terminator is counted.
AdvanceWithTerminator(c, b) == b

Advance(c, b) ==
  CASE c = "BINARY" -> b
    [] c = "WCHAR" -> ((b \div WireWcharSize) - 1) * WireWcharSize
    [] OTHER -> b - 1

GetDataPiece(col, c, b) ==
  LET t == Current(col, c)
      to == t.offset + Copied(c, b)
  IN /\ InPieces(col, c, b)
     /\ t.size - t.offset >= b
     /\ translated' = [t EXCEPT !.offset = t.offset + Advance(c, b)]
     /\ Has(col, c, to, FALSE)
     /\ reply' = [call |-> "piece", col |-> col, type |-> c, b |-> b,
                  answer |-> Answer("01004", t.kind, 0, NoTotal),
                  from |-> t.offset, to |-> to,
                  done |-> Told(col, c), end |-> SoFar(col, c)]
     /\ UNCHANGED <<cursor, bound>>

\* The rest of the cache fits. The offset stays: the next call gets it again.
GetDataRest(col, c, b) ==
  LET t == Current(col, c)
  IN /\ InPieces(col, c, b)
     /\ t.offset # 0 /\ t.size - t.offset < b
     /\ translated' = t
     /\ Has(col, c, t.size, TRUE)
     /\ reply' = [call |-> "rest", col |-> col, type |-> c, b |-> b,
                  answer |-> Answer("ok", t.kind, t.good \div Unit(c), t.size),
                  from |-> t.offset, to |-> t.size,
                  done |-> Told(col, c), end |-> SoFar(col, c)]
     /\ UNCHANGED <<cursor, bound>>

\* What was cached fits, after all, into the buffer, which was cleared: the
\* answer of the conversion is passed on without the value.
GetDataCleared(col, c, b) ==
  LET t == Current(col, c)
      a == Filling(Value(col), c)
  IN /\ InPieces(col, c, b)
     /\ t.offset = 0 /\ t.size < b
     /\ translated' = t
     /\ Has(col, c, 0, FALSE)
     /\ Replied("getData", col, c, b, Answer(a.state, "none", 0, a.len), 0, 0)
     /\ UNCHANGED <<cursor, bound>>

SQLGetData ==
  \E col \in Columns, asked \in Asked :
    \/ cursor > Len(Rows) /\ GetDataAtEnd(col, asked)
    \/ /\ cursor \in 1 .. Len(Rows)
       /\ LET c == Resolved(col, asked)
          IN \E b \in BuffersFor(c) :
               \/ \E ind \in {TRUE, Value(col).type # "NULL"} : GetDataDirect(col, c, b, ind)
               \/ GetDataTypeChanged(col, c, b)
               \/ GetDataPiece(col, c, b)
               \/ GetDataRest(col, c, b)
               \/ GetDataCleared(col, c, b)

(* Bound columns. *)

SQLBindCol ==
  \E col \in Bindable, new \in Bindings \cup {Unbound} :
    /\ bound' = [bound EXCEPT ![col] = [new EXCEPT !.row = 0]]
    /\ Replied("bind", col, new.type, new.b, Answer("ok", "none", 0, 0), 0, 0)
    /\ UNCHANGED <<cursor, translated, reading>>

\* The bound columns of a row are converted one by one, to the first whose
\* conversion does not answer SQL_SUCCESS.
Converted(col) == GetColumnData(Rows[cursor'][col], bound[col].type, bound[col].b, TRUE)
IsBound(col) == bound[col].type # "none"
\* Faulty variant: only the first bound column is written.
WriteDSRowEarly ==
  LET notOk == {col \in Bindable : IsBound(col) /\ Converted(col).state # "ok"}
      reached == {col \in Bindable : IsBound(col) /\ \A k \in Bindable : col <= k}
  IN /\ bound' = [col \in Bindable |->
                    IF col \in reached /\ Converted(col).kind # "none"
                    THEN [bound[col] EXCEPT !.row = cursor'] ELSE bound[col]]
     /\ LET a == IF notOk = {} THEN Answer("ok", "none", 0, 0)
                 ELSE Converted(CHOOSE col \in notOk : \A k \in notOk : col <= k)
        IN Replied("fetch", 0, "none", 0, Answer(a.state, "none", 0, 0), 0, 0)

WriteDSRow ==
  LET notOk == {col \in Bindable : IsBound(col) /\ Converted(col).state # "ok"}
      reached == {col \in Bindable : IsBound(col) /\ \A k \in notOk : col <= k}
  IN /\ bound' = [col \in Bindable |->
                    IF col \in reached /\ Converted(col).kind # "none"
                    THEN [bound[col] EXCEPT !.row = cursor'] ELSE bound[col]]
     /\ LET a == IF notOk = {} THEN Answer("ok", "none", 0, 0)
                 ELSE Converted(CHOOSE col \in notOk : \A k \in notOk : col <= k)
        IN Replied("fetch", 0, "none", 0, Answer(a.state, "none", 0, 0), 0, 0)

Forgotten == [Empty EXCEPT !.col = translated.col]

SQLFetch ==
  /\ cursor' = IF cursor <= Len(Rows) THEN cursor + 1 ELSE cursor
  /\ translated' = Forgotten
  /\ reading' = NotRead
  /\ \/ cursor' <= Len(Rows) /\ WriteDSRow
     \/ /\ cursor' > Len(Rows)
        /\ Replied("fetch", 0, "none", 0, NoData, 0, 0)
        /\ UNCHANGED bound

\* Orientations other than SQL_FETCH_NEXT are refused, after the pieces of the
\* value were forgotten.
SQLFetchScrollRefused ==
  /\ translated' = Forgotten
  /\ reading' = NotRead
  /\ Replied("fetch", 0, "none", 0, Answer("HY106", "none", 0, 0), 0, 0)
  /\ UNCHANGED <<cursor, bound>>

Next == SQLGetData \/ SQLBindCol \/ SQLFetch \/ SQLFetchScrollRefused

Spec == Init /\ [][Next]_vars

(* Properties. *)

\* The pieces of a value follow one another: none is skipped, and none comes
\* twice before SQLGetData has answered SQL_SUCCESS (the last one is handed out
\* again after that), whatever buffers they are read with. Only of the types
\* with a length: a STRING asked for as a number comes in pieces of the number.
PiecesInOrder ==
  reply.call \in {"piece", "rest"} /\ reply.type \in LengthSensitive =>
    /\ reply.done \/ reply.from = reply.end
    /\ reply.call = "piece" => reply.to > reply.from

Succeeded(c) ==
  reply.call \in {"getData", "rest"} /\ reply.answer.state = "ok" /\ reply.type = c
AllOfIt == Whole(Value(reply.col), reply.type, reply.answer)
Of(types) == Value(reply.col).type \in types

\* SQL_SUCCESS for SQL_C_CHAR, of one buffer or of the last of several, means
\* that the application has the whole text. Not so for STRUCT (wrapped text that
\* does not fit its cache), GEOGRAPHY (the answer of the copy is lost) and a
\* DATE or TIME in a buffer without room for the terminator.
WholeCharText ==
  Succeeded("CHAR") /\ ~Of({"STRUCT", "GEOGRAPHY", "DATE", "TIME"}) => AllOfIt

\* SQLGetData cleared the buffer and answered SQL_SUCCESS: the text has more bytes
\* than the buffer has room for characters, but not more characters, so that what
\* was cached fits (odbc_sql_results.cc:839).
ClearedByMistake ==
  /\ reply.call = "getData" /\ Cached(Value(reply.col), "WCHAR", reply.b)
  /\ Value(reply.col).chars < Value(reply.col).size

\* The same for SQL_C_WCHAR, but for the cleared buffer, STRUCT (which does not fit
\* its cache), NUMERIC (the answer of the copy is lost), a fraction of FLOAT64 (six
\* digits of it) or of TIME (none) and BOOL (written as wchar_t).
WholeWideText ==
  /\ Succeeded("WCHAR") /\ ~Of({"STRUCT", "NUMERIC", "BIGNUMERIC", "FLOAT64", "BOOL"})
  /\ ~ClearedByMistake
  /\ Of({"TIME"}) => Value(reply.col).frac = 0
  => AllOfIt

\* A number asked for as an integer is refused, answered with 01S07 when only its
\* fraction is missing, or exact: SQL_SUCCESS is said of values of the C type only.
\* Not so of a FLOAT64 that is one past a limit of 64 bits, which passes the
\* comparison of doubles (data_translation.h:54); of a NUMERIC whose fraction a
\* double loses, or of which a 64-bit integer is asked for, the fraction is lost
\* without a word; SQL_C_TINYINT of a NUMERIC is read without a sign. A STRING is
\* worse and is left out.
IsOne(v, c) ==
  LET w == 8 * SizeOf(c)
  IN /\ v.frac = 0
     /\ IF c \in Unsigned THEN v.bits <= w /\ (v.neg => v.bits = 0)
        ELSE v.bits < w \/ (v.neg /\ v.bits = w /\ v.edge = "power")
FractionLost(v, c) ==
  v.type \in {"NUMERIC", "BIGNUMERIC"} /\ (v.tiny \/ c \in {"SBIGINT", "UBIGINT", "TINYINT"})
OnePastDouble(v, c) == v.type = "FLOAT64" /\ PastTheLimit(v, c)
IntegersExact ==
  /\ reply.call = "getData" /\ reply.type \in Integral /\ cursor <= Len(Rows)
  /\ Of({"INT64", "FLOAT64", "NUMERIC", "BIGNUMERIC", "BOOL"})
  /\ ~OnePastDouble(Value(reply.col), reply.type)
  => LET a == reply.answer
         v == Value(reply.col)
     IN /\ a.state = "ok" /\ ~FractionLost(v, reply.type)
           => a.kind = "value" /\ IsOne(v, reply.type)
        /\ a.state = "01S07" =>
             /\ a.kind = "cut" /\ v.frac > 0
             /\ reply.type # "TINYINT" => IsOne([v EXCEPT !.frac = 0], reply.type)

\* The conversion whose answer is lost, so that an untouched buffer is a success.
AnswerLost(col) ==
  bound[col].type = "WCHAR" /\ Rows[cursor][col].type \in {"NUMERIC", "BIGNUMERIC"}

\* After SQLFetch answered SQL_SUCCESS every bound buffer shows the row that
\* SQLGetData reads, and after SQLFetch of any answer none shows a later one; but
\* for a NUMERIC that is bound to a buffer for wide characters.
BoundRow ==
  \A col \in Bindable :
    /\ bound[col].row <= cursor
    /\ reply.call = "fetch" /\ reply.answer.state = "ok" /\ IsBound(col) /\ cursor > 0
       => bound[col].row = cursor \/ AnswerLost(col)

=============================================================================
