---------------------------- MODULE GetDataProofs ----------------------------
(***************************************************************************)
(* Proofs about GetData, for every result, whatever its values, for every  *)
(* choice of buffers and C types and for SQLWCHAR of 2 and of 4 bytes.     *)
(* First what the conversions of DataTranslation answer, then the cache    *)
(* that SQLGetData hands out in pieces, then the properties.               *)
(***************************************************************************)
EXTENDS GetData, WellFoundedInduction, TLAPS

-----------------------------------------------------------------------------
(* The conversions.                                                        *)

\* The conversion each type of BigQuery goes to.
LEMMA Dispatch ==
  ASSUME NEW v \in BqValue, NEW c, NEW b, NEW ind \in BOOLEAN
  PROVE  LET a == GetColumnData(v, c, b, ind) IN
         /\ v.type = "NULL" => a \in {Refused("22002", v), Answer("ok", "null", 0, -1)}
         /\ v.type \in {"INT64", "FLOAT64"} => a = ConvertFromArithmeticDSValue(v, c, b)
         /\ v.type \in {"NUMERIC", "BIGNUMERIC"} => a = ConvertFromNumericDSValue(v, c, b)
         /\ v.type = "STRING" => a = ConvertFromStringDSValue(v, c, b)
         /\ v.type = "DATE" => a = ConvertFromDateDSValue(v, c, b)
         /\ v.type = "TIME" => a = ConvertFromTimeDSValue(v, c, b)
         /\ v.type = "JSON" => a = ConvertFromJsonDSValue(v, c, b)
         /\ v.type = "STRUCT" => a = ConvertFromStructDSValue(v, c, b)
         /\ v.type \in {"TIMESTAMP", "DATETIME"} => a = ConvertFromTimestampDSValue(v, c, b)
         /\ v.type = "INTERVAL" => a = ConvertFromIntervalDSValue(v, c, b)
         /\ v.type = "GEOGRAPHY" => a = ConvertFromGeographyDSValue(v, c, b)
         /\ v.type = "BYTES" => a = ConvertFromBytesDSValue(v, c, b)
         /\ v.type = "ARRAY" => a = ConvertFromArrayDSValue(v, c, b)
         /\ v.type = "BOOL" => a = ConvertFromBooleanDSValue(v, c, b)
         /\ v.type = "RANGE" => a = ConvertFromRangeDSValue(v, c, b)
  BY DEF GetColumnData, ConvertFromDatetimeDSValue

\* What SQL_SUCCESS promises at the least: that the buffer was written.
Written(a) == a.state = "ok" => a.kind # "none"

\* The copies of a text and the stores of a value that the conversions end in
\* write when they answer SQL_SUCCESS.
LEMMA CopiesWrite ==
  /\ \A n, b : Written(StringValueToOutputBufferResponse(n, b))
  /\ \A n, b : Written(OutOfRangeIfCut(StringValueToOutputBufferResponse(n, b)))
  /\ \A v, n, cap, least : Written(WStrToOutputBufferResponse(v, n, cap, least))
  /\ \A v, n, b : Written(Wide(v, n, b))
  /\ \A c, kind : kind # "none" => Written(Stored(c, kind))
  /\ \A v, s : s # "ok" => Written(Refused(s, v))
  /\ \A v : Written(Unsupported(v))
  /\ \A v, c : Exactness(v, c) # "none"
<1> USE DEF Answer, Written, Refused, Stored
<1>1. \A n, b : Written(StringValueToOutputBufferResponse(n, b))
  BY DEF StringValueToOutputBufferResponse
<1>2. \A n, b : Written(OutOfRangeIfCut(StringValueToOutputBufferResponse(n, b)))
  BY DEF StringValueToOutputBufferResponse, OutOfRangeIfCut
<1>3. \A v, n, cap, least : Written(WStrToOutputBufferResponse(v, n, cap, least))
  BY DEF WStrToOutputBufferResponse
<1>4. \A v, n, b : Written(Wide(v, n, b))
  BY <1>3 DEF Wide
<1>5. \A v, c : Exactness(v, c) # "none"
  BY DEF Exactness
<1> QED
  BY <1>1, <1>2, <1>3, <1>4, <1>5 DEF Unsupported

LEMMA NumbersWrite ==
  /\ \A v, c : Written(ConvertNumeric(v, c))
  /\ \A v, c : Written(FromDigits(v, c))
  /\ \A v : Written(ToBit(v))
  /\ \A v : Written(GetNumericDetailsFromStr(v))
  /\ \A v, b : Written(NumericToBinary(v, b))
  /\ \A v, c : Written(NumericToInterval(v, c))
<1>1. \A v, c : Written(ConvertNumeric(v, c))
  BY CopiesWrite DEF ConvertNumeric, Stored, Answer, Written
<1>2. \A v, c : Written(FromDigits(v, c))
  BY CopiesWrite DEF FromDigits
<1>3. \A v : Written(ToBit(v))
  BY CopiesWrite DEF ToBit, Answer, Written
<1>4. \A v : Written(GetNumericDetailsFromStr(v))
  BY CopiesWrite DEF GetNumericDetailsFromStr, Stored, Answer, Written
<1>5. \A v, b : Written(NumericToBinary(v, b))
  BY CopiesWrite DEF NumericToBinary, Answer, Written
<1>6. \A v, c : Written(NumericToInterval(v, c))
  BY CopiesWrite DEF NumericToInterval
<1> QED
  BY <1>1, <1>2, <1>3, <1>4, <1>5, <1>6

LEMMA TextsWrite ==
  /\ \A v, c, b : Written(ArithmeticToText(v, c, b))
  /\ \A v, c : Written(StringToInterval(v, c))
  /\ \A v, c : Written(StringToDatetime(v, c))
  /\ \A v, c : Written(StringToTiny(v, c))
  /\ \A v, c : Written(StringToNumber(v, c))
<1>1. \A v, c, b : Written(ArithmeticToText(v, c, b))
  BY CopiesWrite
     DEF ArithmeticToText, WStrToOutputBufferResponse, OutOfRangeIfCut, Refused, Answer, Written
<1>2. \A v, c : Written(StringToInterval(v, c))
  BY CopiesWrite DEF StringToInterval
<1>3. \A v, c : Written(StringToDatetime(v, c))
  BY CopiesWrite DEF StringToDatetime
<1>4. \A v, c : Written(StringToTiny(v, c))
  BY CopiesWrite DEF StringToTiny
<1>5. \A v, c : Written(StringToNumber(v, c))
  BY CopiesWrite, NumbersWrite DEF StringToNumber, Answer, Written
<1> QED
  BY <1>1, <1>2, <1>3, <1>4, <1>5

\* SQL_SUCCESS with an untouched buffer: only NUMERIC as wide characters.
LEMMA UntouchedNumeric ==
  ASSUME NEW v \in BqValue, NEW c, NEW b, NEW ind \in BOOLEAN,
         ~Written(GetColumnData(v, c, b, ind))
  PROVE  v.type \in {"NUMERIC", "BIGNUMERIC"} /\ c = "WCHAR"
<1> DEFINE a == GetColumnData(v, c, b, ind)
<1>1. CASE v.type = "NULL"
  BY <1>1, Dispatch, CopiesWrite DEF Answer, Written
<1>2. CASE v.type \in {"INT64", "FLOAT64"}
  <2>1. Written(ConvertFromArithmeticDSValue(v, c, b))
    BY CopiesWrite, NumbersWrite, TextsWrite DEF ConvertFromArithmeticDSValue
  <2> QED BY <1>2, <2>1, Dispatch
<1>3. CASE v.type \in {"NUMERIC", "BIGNUMERIC"}
  <2>1. c # "WCHAR" => Written(ConvertFromNumericDSValue(v, c, b))
    BY CopiesWrite, NumbersWrite DEF ConvertFromNumericDSValue
  <2> QED BY <1>3, <2>1, Dispatch
<1>4. CASE v.type = "STRING"
  <2>1. Written(ConvertFromStringDSValue(v, c, b))
    BY CopiesWrite, TextsWrite DEF ConvertFromStringDSValue
  <2> QED BY <1>4, <2>1, Dispatch
<1>5. CASE v.type \in {"DATE", "TIME"}
  <2>1. \A n : Written(FormattedText(n, b))
    BY DEF FormattedText, Answer, Written
  <2>2. \A s, kind : kind # "none" => Written(StructToBinary(s, kind, b))
    BY CopiesWrite DEF StructToBinary, Answer, Written
  <2>3. Written(ConvertFromDateDSValue(v, c, b))
    BY <2>1, <2>2, CopiesWrite DEF ConvertFromDateDSValue
  <2>4. Written(ConvertFromTimeDSValue(v, c, b))
    BY <2>1, <2>2, CopiesWrite DEF ConvertFromTimeDSValue
  <2> QED BY <1>5, <2>3, <2>4, Dispatch
<1>6. CASE v.type \in {"JSON", "STRUCT", "ARRAY", "GEOGRAPHY"}
  <2>1. \A n : Written(ConvertStringToJsonOutputBuffer(v, n, c, b))
    BY CopiesWrite DEF ConvertStringToJsonOutputBuffer
  <2>2. Written(ConvertFromArrayDSValue(v, c, b))
    BY CopiesWrite DEF ConvertFromArrayDSValue, Answer, Written
  <2>3. Written(ConvertFromGeographyDSValue(v, c, b))
    BY CopiesWrite
       DEF ConvertFromGeographyDSValue, StringValueToOutputBufferResponse, Answer, Written
  <2> QED
    BY <1>6, <2>1, <2>2, <2>3, Dispatch DEF ConvertFromJsonDSValue, ConvertFromStructDSValue
<1>7. CASE v.type \in {"TIMESTAMP", "DATETIME"}
  <2>1. \A room, unit : Written(TimestampText(v, room, unit))
    BY CopiesWrite DEF TimestampText, Answer, Written
  <2>2. Written(TimestampToPart(v, c))
    BY CopiesWrite DEF TimestampToPart, Stored, Answer, Written
  <2>3. Written(ConvertFromTimestampDSValue(v, c, b))
    BY <2>1, <2>2, CopiesWrite DEF ConvertFromTimestampDSValue
  <2> QED BY <1>7, <2>3, Dispatch
<1>8. CASE v.type = "INTERVAL"
  <2>1. Written(IntervalText(v, b)) /\ \A room : Written(WStrIntervalBufferResponse(v, room))
    BY CopiesWrite DEF IntervalText, WStrIntervalBufferResponse, Answer, Written
  <2>2. Written(HandleIntervalArthmeticConversion(v, c))
    BY CopiesWrite DEF HandleIntervalArthmeticConversion
  <2>3. Written(ConvertFromIntervalDSValue(v, c, b))
    BY <2>1, <2>2, CopiesWrite DEF ConvertFromIntervalDSValue
  <2> QED BY <1>8, <2>3, Dispatch
<1>9. CASE v.type \in {"BYTES", "BOOL", "RANGE"}
  <2>1. Written(ConvertFromBytesDSValue(v, c, b))
    BY CopiesWrite DEF ConvertFromBytesDSValue, ConvertBytesToBinary, ConvertBytesToChar,
       ConvertBytesToWChar, Answer, Written
  <2>2. Written(ConvertFromBooleanDSValue(v, c, b))
    BY CopiesWrite DEF ConvertFromBooleanDSValue, Answer, Written
  <2>3. Written(ConvertFromRangeDSValue(v, c, b))
    BY CopiesWrite DEF ConvertFromRangeDSValue
  <2> QED BY <1>9, <2>1, <2>2, <2>3, Dispatch
<1> QED
  BY <1>1, <1>2, <1>3, <1>4, <1>5, <1>6, <1>7, <1>8, <1>9 DEF BqValue, Types

\* What SQL_SUCCESS promises of a text of n units: that all of it is in the
\* buffer.
Complete(a, n) ==
  a.state = "ok" => a.kind \in {"value", "null"} \/ (a.kind = "text" /\ a.n = n)

LEMMA CopiesComplete ==
  /\ \A n, b : b # 0 => Complete(StringValueToOutputBufferResponse(n, b), n)
  /\ \A v, n, cap, least : Complete(WStrToOutputBufferResponse(v, n, cap, least), n)
  /\ \A v, n, b : Complete(Wide(v, n, b), n)
  /\ \A v, s, n : s # "ok" => Complete(Refused(s, v), n)
  /\ \A v, n : Complete(Unsupported(v), n)
<1> USE DEF Answer, Complete, Refused
<1>1. \A n, b : b # 0 => Complete(StringValueToOutputBufferResponse(n, b), n)
  BY DEF StringValueToOutputBufferResponse
<1>2. \A v, n, cap, least : Complete(WStrToOutputBufferResponse(v, n, cap, least), n)
  BY DEF WStrToOutputBufferResponse
<1>3. \A v, n, b : Complete(Wide(v, n, b), n)
  BY <1>2 DEF Wide
<1> QED
  BY <1>1, <1>2, <1>3 DEF Unsupported

\* A text asked for as SQL_C_CHAR is all there when the answer is SQL_SUCCESS.
LEMMA CharTextComplete ==
  ASSUME NEW v \in BqValue, WellFormed(v), NEW b \in Nat, b # 0, NEW ind \in BOOLEAN,
         v.type \notin {"STRUCT", "GEOGRAPHY", "DATE", "TIME"}
  PROVE  Complete(GetColumnData(v, "CHAR", b, ind), v.text)
<1>1. CASE v.type = "NULL"
  <2>1. Complete(Answer("ok", "null", 0, -1), v.text)
    BY DEF Answer, Complete
  <2>2. Complete(Refused("22002", v), v.text)
    BY CopiesComplete
  <2> QED BY <1>1, <2>1, <2>2, Dispatch
<1>2. CASE v.type \in {"INT64", "FLOAT64"}
  <2>1. Complete(ArithmeticToText(v, "CHAR", b), v.text)
    BY CopiesComplete DEF ArithmeticToText, OutOfRangeIfCut, Complete,
       StringValueToOutputBufferResponse, Answer
  <2>2. ConvertFromArithmeticDSValue(v, "CHAR", b) = ArithmeticToText(v, "CHAR", b)
    BY DEF ConvertFromArithmeticDSValue, Integral, Floating, Tiny
  <2> QED BY <1>2, <2>1, <2>2, Dispatch
<1>3. CASE v.type \in {"NUMERIC", "BIGNUMERIC"}
  <2>1. ConvertFromNumericDSValue(v, "CHAR", b) = StringValueToOutputBufferResponse(v.text, b)
    BY DEF ConvertFromNumericDSValue, Integral, Floating
  <2> QED BY <1>3, <2>1, Dispatch, CopiesComplete
<1>4. CASE v.type = "STRING"
  <2>1. ConvertFromStringDSValue(v, "CHAR", b) = StringValueToOutputBufferResponse(v.size, b)
    BY DEF ConvertFromStringDSValue, Tiny
  <2> QED BY <1>4, <2>1, Dispatch, CopiesComplete DEF WellFormed
<1>5. CASE v.type \in {"JSON", "ARRAY"}
  BY <1>5, Dispatch, CopiesComplete DEF ConvertFromJsonDSValue,
     ConvertStringToJsonOutputBuffer, ConvertFromArrayDSValue, WellFormed
<1>6. CASE v.type \in {"TIMESTAMP", "DATETIME"}
  <2>1. \A room, unit : Complete(TimestampText(v, room, unit), v.text)
    BY DEF TimestampText, Refused, Answer, Complete
  <2> QED BY <1>6, <2>1, Dispatch DEF ConvertFromTimestampDSValue
<1>7. CASE v.type = "INTERVAL"
  <2>1. Complete(IntervalText(v, b), v.text)
    BY DEF IntervalText, Answer, Complete
  <2> QED BY <1>7, <2>1, Dispatch, CopiesComplete DEF ConvertFromIntervalDSValue
<1>8. CASE v.type \in {"BYTES", "BOOL", "RANGE"}
  <2>1. v.type = "BYTES" => Complete(ConvertFromBytesDSValue(v, "CHAR", b), v.text)
    BY DEF ConvertFromBytesDSValue, ConvertBytesToChar, Answer, Complete, WellFormed
  <2>2. v.type = "BOOL" => Complete(ConvertFromBooleanDSValue(v, "CHAR", b), v.text)
    <3>1. ConvertFromBooleanDSValue(v, "CHAR", b)
          = IF b < v.size THEN Answer("01004", "text", b - 1, v.size)
            ELSE Answer("ok", "text", v.size, v.size)
      BY DEF ConvertFromBooleanDSValue, Integral, Floating
    <3> QED BY <3>1 DEF Answer, Complete, WellFormed
  <2>3. Complete(ConvertFromRangeDSValue(v, "CHAR", b), v.text)
    BY CopiesComplete DEF ConvertFromRangeDSValue
  <2> QED BY <1>8, <2>1, <2>2, <2>3, Dispatch
<1> QED
  BY <1>1, <1>2, <1>3, <1>4, <1>5, <1>6, <1>7, <1>8 DEF BqValue, Types

\* A text asked for as SQL_C_WCHAR, the same.
LEMMA WideTextComplete ==
  ASSUME NEW v \in BqValue, WellFormed(v), NEW b \in Nat, NEW ind \in BOOLEAN,
         v.type \notin {"STRUCT", "NUMERIC", "BIGNUMERIC", "FLOAT64", "BOOL"},
         v.type = "TIME" => v.frac = 0
  PROVE  Complete(GetColumnData(v, "WCHAR", b, ind), FullText(v, "WCHAR"))
<1>0. FullText(v, "WCHAR") = IF v.type \in {"STRING", "JSON", "STRUCT", "ARRAY", "GEOGRAPHY"}
                             THEN v.chars ELSE v.text
  BY DEF FullText
<1>1. CASE v.type = "NULL"
  <2>1. Complete(Answer("ok", "null", 0, -1), FullText(v, "WCHAR"))
    BY DEF Answer, Complete
  <2>2. Complete(Refused("22002", v), FullText(v, "WCHAR"))
    BY CopiesComplete
  <2> QED BY <1>1, <2>1, <2>2, Dispatch
<1>2. CASE v.type = "INT64"
  <2>1. Complete(ArithmeticToText(v, "WCHAR", b), v.text)
    <3>1. v.frac = 0
      BY <1>2 DEF WellFormed
    <3>2. OutOfRangeIfCut(WStrToOutputBufferResponse(v, v.text, b, b)).state = "ok"
          => WStrToOutputBufferResponse(v, v.text, b, b).state = "ok"
      BY DEF OutOfRangeIfCut, WStrToOutputBufferResponse, Answer, Refused
    <3> QED
      BY <3>1, <3>2, CopiesComplete DEF ArithmeticToText, OutOfRangeIfCut, Complete,
         WStrToOutputBufferResponse, Answer, Refused
  <2>2. ConvertFromArithmeticDSValue(v, "WCHAR", b) = ArithmeticToText(v, "WCHAR", b)
    BY DEF ConvertFromArithmeticDSValue, Integral, Floating, Tiny
  <2> QED BY <1>0, <1>2, <2>1, <2>2, Dispatch
<1>4. CASE v.type = "STRING"
  <2>1. ConvertFromStringDSValue(v, "WCHAR", b) = Wide(v, v.chars, b)
    BY DEF ConvertFromStringDSValue, Tiny
  <2> QED BY <1>0, <1>4, <2>1, Dispatch, CopiesComplete
<1>5. CASE v.type \in {"DATE", "TIME"}
  <2>1. v.type = "DATE" => ConvertFromDateDSValue(v, "WCHAR", b) = Wide(v, v.text, b)
    BY DEF ConvertFromDateDSValue, WellFormed
  <2>2. v.type = "TIME" => ConvertFromTimeDSValue(v, "WCHAR", b) = Wide(v, v.text, b)
    BY DEF ConvertFromTimeDSValue, WellFormed
  <2> QED BY <1>0, <1>5, <2>1, <2>2, Dispatch, CopiesComplete
<1>6. CASE v.type \in {"JSON", "ARRAY", "GEOGRAPHY"}
  BY <1>0, <1>6, Dispatch, CopiesComplete DEF ConvertFromJsonDSValue,
     ConvertStringToJsonOutputBuffer, ConvertFromArrayDSValue,
     ConvertFromGeographyDSValue
<1>7. CASE v.type \in {"TIMESTAMP", "DATETIME"}
  <2>1. \A room, unit : Complete(TimestampText(v, room, unit), v.text)
    BY DEF TimestampText, Refused, Answer, Complete
  <2> QED BY <1>0, <1>7, <2>1, Dispatch DEF ConvertFromTimestampDSValue
<1>8. CASE v.type = "INTERVAL"
  <2>1. \A room : Complete(WStrIntervalBufferResponse(v, room), v.text)
    BY DEF WStrIntervalBufferResponse, Refused, Answer, Complete
  <2> QED BY <1>0, <1>8, <2>1, Dispatch, CopiesComplete DEF ConvertFromIntervalDSValue
<1>9. CASE v.type \in {"BYTES", "RANGE"}
  <2>1. v.type = "BYTES" => Complete(ConvertFromBytesDSValue(v, "WCHAR", b), v.text)
    BY DEF ConvertFromBytesDSValue, ConvertBytesToWChar, Answer, Complete, WellFormed
  <2>2. Complete(ConvertFromRangeDSValue(v, "WCHAR", b), v.text)
    BY CopiesComplete DEF ConvertFromRangeDSValue
  <2> QED BY <1>0, <1>9, <2>1, <2>2, Dispatch
<1> QED
  BY <1>1, <1>2, <1>4, <1>5, <1>6, <1>7, <1>8, <1>9 DEF BqValue, Types

\* The limits, compared as doubles, let integers of the C type pass, and one more
\* of 64 bits.
LEMMA LimitsHold ==
  ASSUME NEW v \in BqValue, NEW c \in Integral, WithinLimits(v, c), ~PastTheLimit(v, c)
  PROVE  IsOne([v EXCEPT !.frac = 0], c)
<1> DEFINE w == 8 * SizeOf(c)
           u == [v EXCEPT !.frac = 0]
<1>1. v.bits \in Nat /\ v.frac \in Nat /\ v.neg \in BOOLEAN
  BY DEF BqValue
<1>2. u.frac = 0 /\ u.bits = v.bits /\ u.neg = v.neg /\ u.edge = v.edge
  BY DEF BqValue
<1>3. c # "DOUBLE" /\ c # "FLOAT"
  BY DEF Integral
<1>4. w \in {8, 16, 32, 64} /\ (w = 64 <=> c \in {"SBIGINT", "UBIGINT"})
  BY DEF SizeOf, Integral, Tiny
<1>5. Width(c) = w
  BY DEF Width
<1>6. CASE c \in Unsigned
  <2>1. (v.neg => v.bits = 0) /\ UpTo(v, w)
    BY <1>3, <1>5, <1>6 DEF WithinLimits
  <2>2. v.bits <= w
    <3>1. SUFFICES ASSUME ~(v.bits <= w) PROVE FALSE
      OBVIOUS
    <3>2. w >= 63 /\ v.bits = w + 1 /\ v.edge = "power" /\ v.frac = 0
      BY <1>1, <1>4, <2>1, <3>1 DEF UpTo
    <3>3. c = "UBIGINT" /\ v.bits = 65
      BY <1>4, <1>6, <3>2 DEF Unsigned
    <3>4. ~v.neg
      BY <2>1, <3>3
    <3> QED BY <3>2, <3>3, <3>4 DEF PastTheLimit
  <2> QED BY <1>2, <1>6, <2>1, <2>2 DEF IsOne
<1>7. CASE c \notin Unsigned /\ v.neg
  <2>1. SignedFits(v, w)
    BY <1>3, <1>5, <1>7 DEF WithinLimits
  <2> QED BY <1>2, <1>7, <2>1 DEF IsOne, SignedFits
<1>8. CASE c \notin Unsigned /\ ~v.neg
  <2>1. UpTo(v, w - 1)
    BY <1>3, <1>5, <1>8 DEF WithinLimits
  <2>2. v.bits < w
    <3>1. SUFFICES ASSUME ~(v.bits < w) PROVE FALSE
      OBVIOUS
    <3>2. w - 1 >= 63 /\ v.bits = (w - 1) + 1 /\ v.edge = "power" /\ v.frac = 0
      BY <1>1, <1>4, <2>1, <3>1 DEF UpTo
    <3>3. c = "SBIGINT" /\ v.bits = 64
      BY <1>4, <1>8, <3>2 DEF Unsigned
    <3> QED BY <1>8, <3>2, <3>3 DEF PastTheLimit
  <2> QED BY <1>2, <1>8, <2>2 DEF IsOne
<1> QED BY <1>6, <1>7, <1>8

\* A number asked for as an integer is exact when the answer is SQL_SUCCESS, and
\* short of its fraction, and of nothing else, when it is 01S07.
ExactInteger(v, c, a) ==
  /\ a.state = "ok" /\ ~FractionLost(v, c) => a.kind = "value" /\ IsOne(v, c)
  /\ a.state = "01S07" =>
       /\ a.kind = "cut" /\ v.frac > 0
       /\ c # "TINYINT" => IsOne([v EXCEPT !.frac = 0], c)

\* What ConvertNumeric answers of a number that is not past a limit: a number with
\* a fraction that a double loses is taken for its integral part.
LEMMA NumericExact ==
  ASSUME NEW v \in BqValue, WellFormed(v), NEW c \in Integral, ~PastTheLimit(AsDouble(v), c),
         v.type \in {"INT64", "FLOAT64", "NUMERIC", "BIGNUMERIC"}
  PROVE  ExactInteger(v, c, ConvertNumeric(v, c))
<1> DEFINE d == AsDouble(v)
           s == CheckLimitsArithmetic(d, c)
<1>1. d \in BqValue /\ v.frac \in Nat
  BY DEF AsDouble, BqValue
<1>2. [d EXCEPT !.frac = 0] = [v EXCEPT !.frac = 0]
  BY DEF AsDouble, BqValue
<1>3. d.frac = IF v.tiny THEN 0 ELSE v.frac
  BY DEF AsDouble, BqValue
<1>4. ~PastTheLimit(v, c)
  BY <1>3 DEF AsDouble, PastTheLimit
<1>5. c # "FLOAT" /\ c # "DOUBLE"
  BY DEF Integral
<1>6. CASE s = "22003"
  BY <1>6 DEF ConvertNumeric, ExactInteger, Refused, Answer
<1>7. CASE s # "22003"
  <2>1. WithinLimits(d, c) /\ s = IF d.frac > 0 THEN "01S07" ELSE "ok"
    BY <1>7 DEF CheckLimitsArithmetic
  <2>2. IsOne([v EXCEPT !.frac = 0], c)
    BY <1>1, <1>2, <2>1, LimitsHold
  <2>3. ConvertNumeric(v, c) = [Stored(c, Exactness(v, c)) EXCEPT !.state = s]
    BY <1>4, <1>7 DEF ConvertNumeric
  <2>4. ConvertNumeric(v, c).state = s /\ ConvertNumeric(v, c).kind = Exactness(v, c)
    BY <2>3 DEF Stored, Answer
  <2>5. Exactness(v, c) = IF v.frac > 0 THEN "cut" ELSE "value"
    BY <1>5 DEF Exactness
  <2>6. CASE v.frac > 0
    <3>1. s = "01S07" => v.frac > 0
      BY <2>6
    <3>2. s = "ok" => FractionLost(v, c)
      BY <1>3, <2>1, <2>6 DEF FractionLost, WellFormed
    <3> QED BY <2>2, <2>4, <2>5, <2>6, <3>2, <1>7 DEF ExactInteger
  <2>7. CASE v.frac = 0
    <3>1. s = "ok"
      BY <1>3, <2>1, <2>7
    <3>2. [v EXCEPT !.frac = 0] = v
      BY <2>7 DEF BqValue
    <3> QED BY <2>2, <2>4, <2>5, <2>7, <3>1, <3>2 DEF ExactInteger
  <2> QED BY <1>1, <2>6, <2>7
<1> QED BY <1>6, <1>7

LEMMA IntegerExact ==
  ASSUME NEW v \in BqValue, WellFormed(v), NEW c \in Integral, NEW b, NEW ind \in BOOLEAN,
         v.type \in {"INT64", "FLOAT64", "NUMERIC", "BIGNUMERIC", "BOOL"},
         ~OnePastDouble(v, c)
  PROVE  ExactInteger(v, c, GetColumnData(v, c, b, ind))
<1>1. SizeOf(c) \in Nat /\ SizeOf(c) >= 1
  BY DEF SizeOf, Integral, Tiny
<1>2. v.bits \in Nat /\ v.frac \in Nat /\ v.neg \in BOOLEAN
  BY DEF BqValue
<1>3. c \notin Floating /\ c \notin {"CHAR", "WCHAR", "BIT", "NUMERIC", "BINARY",
                                    "INTERVAL_DAY", "DOUBLE", "FLOAT"}
  BY DEF Floating, Integral
<1>4. \A k : ExactInteger(v, k, Unsupported(v)) /\ ExactInteger(v, k, Refused("22003", v))
  BY DEF ExactInteger, Unsupported, Refused, Answer
<1>6. CASE v.type \in {"INT64", "FLOAT64"}
  <2>1. ConvertFromArithmeticDSValue(v, c, b) \in {ConvertNumeric(v, c), Unsupported(v)}
    BY <1>3 DEF ConvertFromArithmeticDSValue
  <2>2. ~PastTheLimit(v, c) /\ ~v.tiny
    BY <1>2, <1>6 DEF OnePastDouble, PastTheLimit, WellFormed
  <2>3. ~PastTheLimit(AsDouble(v), c)
    BY <2>2 DEF AsDouble
  <2> QED BY <1>4, <1>6, <2>1, <2>3, NumericExact, Dispatch
<1>7. CASE v.type \in {"NUMERIC", "BIGNUMERIC"}
  <2>1. CASE c \in {"SBIGINT", "UBIGINT"}
    <3>1. ConvertFromNumericDSValue(v, c, b) = FromDigits(v, c)
      BY <1>3, <2>1 DEF ConvertFromNumericDSValue, Integral, Floating
    <3>2. FromDigits(v, c).state # "01S07"
      BY DEF FromDigits, Refused, Stored, Answer
    <3> QED BY <1>7, <2>1, <3>1, <3>2, Dispatch DEF ExactInteger, FractionLost
  <2>2. CASE c = "TINYINT"
    <3>1. ConvertFromNumericDSValue(v, c, b) = ConvertNumeric(v, "UTINYINT")
      BY <2>2 DEF ConvertFromNumericDSValue, Integral, Floating
    <3>2. "UTINYINT" \in Integral /\ ~PastTheLimit(AsDouble(v), "UTINYINT")
      BY DEF Integral, PastTheLimit
    <3>3. ExactInteger(v, "UTINYINT", ConvertNumeric(v, "UTINYINT"))
      BY <1>7, <3>2, NumericExact
    <3>4. FractionLost(v, "TINYINT")
      BY <1>7 DEF FractionLost
    <3> QED BY <1>7, <2>2, <3>1, <3>3, <3>4, Dispatch DEF ExactInteger
  <2>3. CASE c \notin {"SBIGINT", "UBIGINT", "TINYINT"}
    <3>1. ConvertFromNumericDSValue(v, c, b) = ConvertNumeric(v, c)
      BY <1>3, <2>3 DEF ConvertFromNumericDSValue
    <3>2. ~PastTheLimit(AsDouble(v), c)
      BY <2>3 DEF PastTheLimit
    <3> QED BY <1>7, <3>1, <3>2, NumericExact, Dispatch
  <2> QED BY <2>1, <2>2, <2>3
<1>8. CASE v.type = "BOOL"
  <2>1. ConvertFromBooleanDSValue(v, c, b) = Stored(c, "value")
    BY <1>3 DEF ConvertFromBooleanDSValue
  <2>2. IsOne(v, c)
    BY <1>1, <1>2, <1>8 DEF IsOne, WellFormed
  <2> QED BY <1>8, <2>1, <2>2, Dispatch DEF ExactInteger, Stored, Answer
<1> QED BY <1>6, <1>7, <1>8

-----------------------------------------------------------------------------
(* The cache. Its text is the value's for every type that is handed out in  *)
(* pieces but STRUCT.                                                       *)

LEMMA FillingText ==
  ASSUME NEW v \in BqValue, WellFormed(v), v.type \in Chunked \ {"STRUCT"}
  PROVE  /\ Filling(v, "CHAR") = Answer("ok", "text", v.size, v.size)
         /\ LET n == IF v.type = "BYTES" THEN v.size ELSE v.chars
            IN Filling(v, "WCHAR") = Answer("ok", "text", n, n * WireWcharSize)
<1>0. v.size \in Nat /\ v.chars \in Nat /\ WireWcharSize \in {2, 4}
  BY WireWcharAssumption DEF BqValue
<1>1. Filling(v, "CHAR") = GetColumnData(v, "CHAR", v.size + 1, TRUE)
  <2>1. (v.size + 1) * Unit("CHAR") = v.size + 1
    BY <1>0 DEF Unit
  <2> QED BY <2>1 DEF Filling
<1>2. Filling(v, "WCHAR") = GetColumnData(v, "WCHAR", (v.size + 1) * WireWcharSize, TRUE)
  BY DEF Filling, Unit
<1>3. StringValueToOutputBufferResponse(v.size, v.size + 1)
      = Answer("ok", "text", v.size, v.size)
  BY <1>0 DEF StringValueToOutputBufferResponse
<1>4. ((v.size + 1) * WireWcharSize) \div WireWcharSize = v.size + 1
  BY <1>0, Z3
<1>5. \A n \in 0 .. v.size : Wide(v, n, (v.size + 1) * WireWcharSize)
                             = Answer("ok", "text", n, n * WireWcharSize)
  <2>1. TAKE n \in 0 .. v.size
  <2>2. Wide(v, n, (v.size + 1) * WireWcharSize)
        = WStrToOutputBufferResponse(v, n, v.size + 1, n + 1)
    BY <1>4 DEF Wide
  <2>3. n = 0 => 0 = n * WireWcharSize
    BY <1>0
  <2> QED BY <1>0, <2>2, <2>3 DEF WStrToOutputBufferResponse
<1>6. CASE v.type = "STRING"
  <2>1. ConvertFromStringDSValue(v, "CHAR", v.size + 1)
        = StringValueToOutputBufferResponse(v.size, v.size + 1)
    BY DEF ConvertFromStringDSValue, Tiny
  <2>2. \A b : ConvertFromStringDSValue(v, "WCHAR", b) = Wide(v, v.chars, b)
    BY DEF ConvertFromStringDSValue, Tiny
  <2>3. v.chars \in 0 .. v.size
    BY <1>0, <1>6 DEF WellFormed
  <2> QED BY <1>1, <1>2, <1>3, <1>5, <1>6, <2>1, <2>2, <2>3, Dispatch
<1>7. CASE v.type \in {"JSON", "ARRAY"}
  <2>1. \A b : /\ ConvertFromJsonDSValue(v, "CHAR", b)
                  = StringValueToOutputBufferResponse(v.size, b)
               /\ ConvertFromJsonDSValue(v, "WCHAR", b) = Wide(v, v.chars, b)
    BY DEF ConvertFromJsonDSValue, ConvertStringToJsonOutputBuffer
  <2>2. \A b : /\ ConvertFromArrayDSValue(v, "CHAR", b)
                  = StringValueToOutputBufferResponse(v.size, b)
               /\ ConvertFromArrayDSValue(v, "WCHAR", b) = Wide(v, v.chars, b)
    BY DEF ConvertFromArrayDSValue
  <2>3. v.chars \in 0 .. v.size
    BY <1>0, <1>7 DEF WellFormed
  <2> QED BY <1>1, <1>2, <1>3, <1>5, <1>7, <2>1, <2>2, <2>3, Dispatch
<1>8. CASE v.type = "BYTES"
  <2>1. ConvertFromBytesDSValue(v, "CHAR", v.size + 1) = Answer("ok", "text", v.size, v.size)
    BY <1>0 DEF ConvertFromBytesDSValue, ConvertBytesToChar
  <2>2. \A b : ConvertFromBytesDSValue(v, "WCHAR", b) = ConvertBytesToWChar(v, b)
    BY DEF ConvertFromBytesDSValue
  <2>3. ~((v.size + 1) * WireWcharSize < v.size * WireWcharSize)
    BY <1>0
  <2>4. ConvertBytesToWChar(v, (v.size + 1) * WireWcharSize)
        = Answer("ok", "text", v.size, v.size * WireWcharSize)
    BY <2>3 DEF ConvertBytesToWChar
  <2>5. Filling(v, "WCHAR") = ConvertFromBytesDSValue(v, "WCHAR", (v.size + 1) * WireWcharSize)
    BY <1>2, <1>8, Dispatch
  <2>6. Filling(v, "CHAR") = ConvertFromBytesDSValue(v, "CHAR", v.size + 1)
    BY <1>1, <1>8, Dispatch
  <2> QED BY <1>8, <2>1, <2>2, <2>4, <2>5, <2>6
<1> QED
  BY <1>6, <1>7, <1>8 DEF Chunked

\* What is cached of such a value is all of its text.
LEMMA FilledText ==
  ASSUME NEW col, NEW v, v = Value(col), v \in BqValue, WellFormed(v),
         v.type \in Chunked \ {"STRUCT"},
         NEW c \in {"CHAR", "WCHAR"}
  PROVE  /\ Filled(col, c).kind = "text"
         /\ Filled(col, c).good \div Unit(c) = FullText(v, c)
         /\ Filled(col, c).size =
              (IF c = "WCHAR" /\ v.type # "BYTES" THEN v.chars ELSE v.size) * Unit(c)
<1>0. v.size \in Nat /\ v.chars \in Nat /\ WireWcharSize \in {2, 4}
  BY WireWcharAssumption DEF BqValue
<1>1. \A n \in Nat : (n * 1) \div 1 = n
  OBVIOUS
<1>2. \A n \in Nat : (n * WireWcharSize) \div WireWcharSize = n
  BY <1>0
<1>3. FullText(v, c) = IF c = "WCHAR" /\ v.type # "BYTES" THEN v.chars ELSE v.text
  BY DEF FullText, Chunked
<1>4. v.text = v.size
  BY DEF WellFormed, Chunked
<1>5. CASE c = "CHAR"
  BY <1>0, <1>1, <1>3, <1>4, <1>5, FillingText DEF Filled, Unit, Answer
<1>6. CASE c = "WCHAR"
  BY <1>0, <1>2, <1>3, <1>4, <1>6, FillingText DEF Filled, Unit, Answer
<1> QED BY <1>5, <1>6

\* Such a value is never cached and then found to fit: but for a text with
\* characters of several bytes, as wide characters.
LEMMA CachedIsLonger ==
  ASSUME NEW col, NEW v, v = Value(col), v \in BqValue, WellFormed(v),
         v.type \in Chunked \ {"STRUCT"},
         NEW c \in {"CHAR", "WCHAR"}, NEW b \in Nat,
         Cached(v, c, b), c = "WCHAR" => v.type = "BYTES" \/ v.chars = v.size
  PROVE  ~(Filled(col, c).size < b)
<1>0. v.size \in Nat /\ WireWcharSize \in {2, 4}
  BY WireWcharAssumption DEF BqValue
<1>1. Filled(col, c).size = v.size * Unit(c)
  BY FilledText
<1>2. v.size > b \div Unit(c)
  BY DEF Cached
<1>3. CASE c = "CHAR"
  BY <1>0, <1>1, <1>2, <1>3 DEF Unit
<1>4. CASE c = "WCHAR"
  BY <1>0, <1>1, <1>2, <1>4 DEF Unit
<1> QED BY <1>3, <1>4

-----------------------------------------------------------------------------
(* What the calls are made with.                                           *)

LEMMA ColumnValue ==
  ASSUME cursor \in 1 .. Len(Rows), NEW col \in Columns
  PROVE  Value(col) \in BqValue /\ WellFormed(Value(col))
<1>1. Rows \in Seq(Seq(BqValue))
  BY GetDataAssumption
<1>2. Rows[cursor] \in Seq(BqValue) /\ Rows[1] \in Seq(BqValue)
  BY <1>1
<1>3. col \in 1 .. Len(Rows[cursor]) /\ WellFormed(Rows[cursor][col])
  BY <1>1, <1>2, GetDataAssumption DEF Columns
<1> QED BY <1>2, <1>3 DEF Value

LEMMA CallTypes ==
  ASSUME cursor \in 1 .. Len(Rows), NEW col \in Columns, NEW asked \in Asked
  PROVE  Resolved(col, asked) \in CTypes
<1>1. asked \in CTypes \cup {"DEFAULT"}
  BY GetDataAssumption
<1>2. \A type : GetDefaultCType(type) \in CTypes
  BY DEF GetDefaultCType, CTypes, Integral, Floating, LengthSensitive
<1> QED BY <1>1, <1>2 DEF Resolved

\* A buffer takes a piece of at least one unit, and the next piece begins where
\* it ends.
LEMMA Progress ==
  ASSUME NEW c \in CTypes, NEW b \in BuffersFor(c)
  PROVE  /\ b \in Nat /\ b # 0
         /\ Advance(c, b) \in Nat /\ Copied(c, b) = Advance(c, b)
         /\ c \in LengthSensitive => Advance(c, b) > 0
<1>0. WireWcharSize \in {2, 4}
  BY WireWcharAssumption
<1>1. CASE c \in LengthSensitive
  <2>1. b \in Nat /\ b >= 2 * WireWcharSize
    BY <1>1, GetDataAssumption DEF BuffersFor
  <2>2. b \div WireWcharSize >= 2 /\ b \div WireWcharSize \in Nat
    BY <1>0, <2>1
  <2>3. ((b \div WireWcharSize) - 1) * WireWcharSize \in Nat \ {0}
    BY <1>0, <2>2
  <2> QED BY <1>0, <2>1, <2>3 DEF Advance, Copied
<1>2. CASE c \notin LengthSensitive
  <2>1. b = SizeOf(c)
    BY <1>2 DEF BuffersFor
  <2>2. SizeOf(c) \in Nat /\ SizeOf(c) >= 1
    BY DEF SizeOf
  <2>3. c # "BINARY" /\ c # "WCHAR"
    BY <1>2 DEF LengthSensitive
  <2> QED BY <1>2, <2>1, <2>2, <2>3 DEF Advance, Copied
<1> QED BY <1>1, <1>2

-----------------------------------------------------------------------------
(* The inductive invariant. The answer to a call is judged by the cache it   *)
(* was handed out of, so the properties need what the cache is: of a column  *)
(* of the current row, of a type that comes in pieces, and, but for how far  *)
(* it was read, what converting the whole value into it leaves; and the      *)
(* application has read as far as the offset, or was told that it has all.   *)

Shape ==
  /\ cursor \in 0 .. Len(Rows) + 1
  /\ translated = [offset |-> translated.offset, size |-> translated.size,
                   good |-> translated.good, kind |-> translated.kind,
                   type |-> translated.type, col |-> translated.col]
  /\ translated.offset \in Nat
  /\ bound \in [Bindable -> [type : CTypes \cup {"none"}, b : Nat, row : Nat]]

CacheOfRow ==
  translated.offset # 0 =>
    /\ cursor \in 1 .. Len(Rows) /\ translated.col \in Columns
    /\ Value(translated.col).type \in Chunked
    /\ translated = [Filled(translated.col, translated.type)
                       EXCEPT !.offset = translated.offset]

Position ==
  /\ translated.offset # 0 =>
       /\ reading.col = translated.col /\ reading.type = translated.type
       /\ reading.done \/ reading.end = translated.offset
  /\ reading.end # 0 => translated.offset # 0

IInv == Shape /\ CacheOfRow /\ Position

LEMMA InitInv == Init => IInv
<1> SUFFICES ASSUME Init PROVE IInv
  OBVIOUS
<1>1. Len(Rows) \in Nat
  BY GetDataAssumption
<1>2. Shape
  BY <1>1 DEF Init, Shape, Empty, Unbound
<1>3. CacheOfRow
  BY DEF Init, CacheOfRow, Empty
<1>4. Position
  BY DEF Init, Position, Empty, NotRead
<1> QED BY <1>2, <1>3, <1>4 DEF IInv

\* The cache that a call reads: made by this call, or the one that is there.
LEMMA CurrentCache ==
  ASSUME IInv, cursor \in 1 .. Len(Rows), NEW col \in Columns, NEW c \in CTypes,
         NEW b, InPieces(col, c, b)
  PROVE  LET t == Current(col, c) IN
         /\ t = [Filled(col, c) EXCEPT !.offset = t.offset]
         /\ t = [offset |-> t.offset, size |-> t.size, good |-> t.good,
                 kind |-> t.kind, type |-> c, col |-> col]
         /\ t.offset \in Nat
         /\ Value(col).type \in Chunked
         /\ t.offset = 0 => OffsetOf(col) = 0 /\ Cached(Value(col), c, b)
         /\ t.offset # 0 => t = translated
         /\ Told(col, c) \/ t.offset = SoFar(col, c)
<1> DEFINE t == Current(col, c)
<1>1. CASE OffsetOf(col) = 0
  <2>1. t = Filled(col, c)
    BY <1>1 DEF Current
  <2>2. Cached(Value(col), c, b)
    BY <1>1 DEF InPieces
  <2>3. SoFar(col, c) = 0
    BY <1>1 DEF SoFar, OffsetOf, IInv, Position
  <2> QED BY <1>1, <2>1, <2>2, <2>3 DEF Filled, Cached
<1>2. CASE OffsetOf(col) # 0
  <2>1. t = translated /\ translated.col = col /\ translated.offset # 0
        /\ translated.type = c
    BY <1>2 DEF Current, InPieces, OffsetOf
  <2> QED BY <2>1 DEF IInv, Shape, CacheOfRow, Position, Told, SoFar
<1> QED BY <1>1, <1>2

-----------------------------------------------------------------------------
(* One call of SQLGetData.                                                 *)

AnswersRight == PiecesInOrder /\ WholeCharText /\ WholeWideText /\ IntegersExact

\* An answer that is no SQL_SUCCESS and no 01S07, and hands out no piece.
LEMMA NothingSaid ==
  ASSUME reply'.call \notin {"piece", "rest"},
         reply'.answer.state \notin {"ok", "01S07"} \/ reply'.call # "getData"
  PROVE  AnswersRight'
BY DEF AnswersRight, PiecesInOrder, WholeCharText, WholeWideText, IntegersExact, Succeeded

LEMMA GetDataAtEndStep ==
  ASSUME IInv, NEW col \in Columns, NEW c, GetDataAtEnd(col, c)
  PROVE  IInv' /\ AnswersRight'
<1> USE DEF GetDataAtEnd
<1>1. translated.offset = 0
  <2>1. ~(cursor \in 1 .. Len(Rows))
    BY GetDataAssumption
  <2> QED BY <2>1 DEF IInv, CacheOfRow
<1>2. Shape'
  BY DEF IInv, Shape
<1>3. CacheOfRow' /\ Position'
  BY <1>1 DEF CacheOfRow, Position, Has
<1>4. AnswersRight'
  BY NothingSaid DEF Replied, NoData, Answer
<1> QED BY <1>2, <1>3, <1>4 DEF IInv

LEMMA GetDataDirectStep ==
  ASSUME IInv, cursor \in 1 .. Len(Rows), NEW col \in Columns, NEW c \in CTypes,
         NEW b \in BuffersFor(c), NEW ind \in BOOLEAN, GetDataDirect(col, c, b, ind)
  PROVE  IInv' /\ AnswersRight'
<1> DEFINE v == Value(col)
           a == GetColumnData(v, c, b, ind)
<1>1. v \in BqValue /\ WellFormed(v) /\ b \in Nat /\ b # 0
  BY ColumnValue, Progress
<1>2. /\ translated' = [Empty EXCEPT !.col = col] /\ cursor' = cursor /\ bound' = bound
      /\ reading'.end = 0
      /\ reply'.call = "getData" /\ reply'.answer = a /\ reply'.type = c
      /\ reply'.col = col
  BY DEF GetDataDirect, Has, Replied
<1>3. Shape' /\ CacheOfRow' /\ Position'
  BY <1>2 DEF IInv, Shape, CacheOfRow, Position, Empty
<1>4. Value(reply.col)' = v
  BY <1>2 DEF Value
<1>5. PiecesInOrder'
  BY <1>2 DEF PiecesInOrder
<1>6. WholeCharText'
  <2>1. SUFFICES ASSUME c = "CHAR", a.state = "ok",
                        v.type \notin {"STRUCT", "GEOGRAPHY", "DATE", "TIME"}
                 PROVE  Whole(v, "CHAR", a)
    BY <1>2, <1>4 DEF WholeCharText, Succeeded, Of, AllOfIt
  <2>2. Complete(a, v.text)
    BY <1>1, <2>1, CharTextComplete
  <2> QED BY <2>1, <2>2 DEF Whole, Complete, FullText
<1>7. WholeWideText'
  <2>1. SUFFICES ASSUME c = "WCHAR", a.state = "ok",
                        v.type \notin {"STRUCT", "NUMERIC", "BIGNUMERIC", "FLOAT64", "BOOL"},
                        v.type = "TIME" => v.frac = 0
                 PROVE  Whole(v, "WCHAR", a)
    BY <1>2, <1>4 DEF WholeWideText, Succeeded, Of, AllOfIt
  <2>2. Complete(a, FullText(v, "WCHAR"))
    BY <1>1, <2>1, WideTextComplete
  <2> QED BY <2>1, <2>2 DEF Whole, Complete
<1>8. IntegersExact'
  <2>1. SUFFICES ASSUME c \in Integral,
                        v.type \in {"INT64", "FLOAT64", "NUMERIC", "BIGNUMERIC", "BOOL"},
                        ~OnePastDouble(v, c)
                 PROVE  ExactInteger(v, c, a)
    BY <1>2, <1>4 DEF IntegersExact, Of, ExactInteger
  <2> QED BY <1>1, <2>1, IntegerExact
<1> QED BY <1>3, <1>5, <1>6, <1>7, <1>8 DEF IInv, AnswersRight

LEMMA GetDataTypeChangedStep ==
  ASSUME IInv, NEW col \in Columns, NEW c, NEW b, GetDataTypeChanged(col, c, b)
  PROVE  IInv' /\ AnswersRight'
<1>1. UNCHANGED <<cursor, translated, bound, reading>>
  BY DEF GetDataTypeChanged
<1>2. Shape' /\ Position'
  BY <1>1 DEF IInv, Shape, Position
<1>3. CacheOfRow'
  BY <1>1 DEF IInv, CacheOfRow, Filled, Value
<1>4. AnswersRight'
  BY NothingSaid DEF GetDataTypeChanged, Replied, Refused, Answer
<1> QED BY <1>2, <1>3, <1>4 DEF IInv

\* A cache of the current row, read to some offset, is one again.
LEMMA CacheStays ==
  ASSUME IInv, cursor \in 1 .. Len(Rows), cursor' = cursor, bound' = bound,
         NEW col \in Columns, NEW c \in CTypes, NEW b, InPieces(col, c, b),
         NEW to \in Nat, translated' = [Current(col, c) EXCEPT !.offset = to]
  PROVE  Shape' /\ CacheOfRow'
<1> DEFINE t == Current(col, c)
<1>1. /\ t = [Filled(col, c) EXCEPT !.offset = t.offset]
      /\ t = [offset |-> t.offset, size |-> t.size, good |-> t.good,
              kind |-> t.kind, type |-> c, col |-> col]
      /\ Value(col).type \in Chunked
  BY CurrentCache
<1>2. translated' = [offset |-> to, size |-> t.size, good |-> t.good,
                     kind |-> t.kind, type |-> c, col |-> col]
  BY <1>1
<1>3. Shape'
  BY <1>2 DEF IInv, Shape
<1>4. translated' = [Filled(col, c) EXCEPT !.offset = to]
  BY <1>1 DEF Filled
<1>5. Filled(col, c)' = Filled(col, c)
  BY DEF Filled, Value
<1>6. translated'.col = col /\ translated'.type = c /\ translated'.offset = to
  BY <1>2
<1>7. CacheOfRow'
  BY <1>1, <1>4, <1>5, <1>6 DEF CacheOfRow, Value
<1> QED BY <1>3, <1>7

LEMMA GetDataPieceStep ==
  ASSUME IInv, cursor \in 1 .. Len(Rows), NEW col \in Columns, NEW c \in CTypes,
         NEW b \in BuffersFor(c), GetDataPiece(col, c, b)
  PROVE  IInv' /\ AnswersRight'
<1> DEFINE t == Current(col, c)
           to == t.offset + Copied(c, b)
<1>1. InPieces(col, c, b)
  BY DEF GetDataPiece
<1>2. /\ t.offset \in Nat /\ t.type = c /\ t.col = col
      /\ Told(col, c) \/ t.offset = SoFar(col, c)
  BY <1>1, CurrentCache
<1>3. to \in Nat /\ to = t.offset + Advance(c, b) /\ (c \in LengthSensitive => to > t.offset)
  BY <1>2, Progress
<1>4. /\ translated' = [t EXCEPT !.offset = to] /\ cursor' = cursor /\ bound' = bound
      /\ reading' = [col |-> col, type |-> c, end |-> to, done |-> FALSE]
      /\ reply'.call = "piece" /\ reply'.type = c /\ reply'.from = t.offset
      /\ reply'.to = to /\ reply'.done = Told(col, c) /\ reply'.end = SoFar(col, c)
      /\ reply'.answer.state = "01004"
  BY <1>3 DEF GetDataPiece, Has, Answer
<1>5. Shape' /\ CacheOfRow'
  BY <1>1, <1>3, <1>4, CacheStays
<1>6. Position'
  <2>1. translated'.offset = to /\ translated'.type = c /\ translated'.col = col
    BY <1>1, <1>4, CurrentCache
  <2> QED BY <1>4, <2>1 DEF Position
<1>7. PiecesInOrder'
  BY <1>2, <1>3, <1>4 DEF PiecesInOrder
<1>8. WholeCharText' /\ WholeWideText' /\ IntegersExact'
  BY <1>4 DEF WholeCharText, WholeWideText, IntegersExact, Succeeded
<1> QED BY <1>5, <1>6, <1>7, <1>8 DEF IInv, AnswersRight

LEMMA GetDataRestStep ==
  ASSUME IInv, cursor \in 1 .. Len(Rows), NEW col \in Columns, NEW c \in CTypes,
         NEW b \in BuffersFor(c), GetDataRest(col, c, b)
  PROVE  IInv' /\ AnswersRight'
<1> DEFINE t == Current(col, c)
           v == Value(col)
<1>1. InPieces(col, c, b)
  BY DEF GetDataRest
<1>2. /\ t = translated /\ t.offset # 0 /\ t.offset \in Nat /\ t.type = c /\ t.col = col
      /\ t = [Filled(col, c) EXCEPT !.offset = t.offset]
      /\ Told(col, c) \/ t.offset = SoFar(col, c)
      /\ v.type \in Chunked
  BY <1>1, CurrentCache DEF GetDataRest
<1>3. /\ translated' = t /\ cursor' = cursor /\ bound' = bound
      /\ reading' = [col |-> col, type |-> c, end |-> t.size, done |-> TRUE]
      /\ reply'.call = "rest" /\ reply'.type = c /\ reply'.from = t.offset
      /\ reply'.done = Told(col, c) /\ reply'.end = SoFar(col, c) /\ reply'.col = col
      /\ reply'.answer = Answer("ok", t.kind, t.good \div Unit(c), t.size)
  BY DEF GetDataRest, Has
<1>4. Shape' /\ CacheOfRow'
  BY <1>2, <1>3 DEF IInv, Shape, CacheOfRow, Filled, Value
<1>5. Position'
  BY <1>2, <1>3 DEF Position
<1>6. PiecesInOrder'
  BY <1>2, <1>3 DEF PiecesInOrder
<1>7. Value(reply.col)' = v
  BY <1>3 DEF Value
<1>8. v.type # "STRUCT" /\ c \in {"CHAR", "WCHAR"} => Whole(v, c, reply'.answer)
  <2>1. SUFFICES ASSUME v.type # "STRUCT", c \in {"CHAR", "WCHAR"}
                 PROVE  Whole(v, c, reply'.answer)
    OBVIOUS
  <2>2. v \in BqValue /\ WellFormed(v)
    BY ColumnValue
  <2>3. Filled(col, c).kind = "text" /\ Filled(col, c).good \div Unit(c) = FullText(v, c)
    BY <1>2, <2>1, <2>2, FilledText
  <2>4. t.kind = Filled(col, c).kind /\ t.good = Filled(col, c).good
    BY <1>2 DEF Filled
  <2> QED BY <1>3, <2>3, <2>4 DEF Whole, Answer
<1>9. WholeCharText' /\ WholeWideText'
  BY <1>3, <1>7, <1>8 DEF WholeCharText, WholeWideText, Succeeded, Of, AllOfIt
<1>10. IntegersExact'
  BY <1>3 DEF IntegersExact
<1> QED BY <1>4, <1>5, <1>6, <1>9, <1>10 DEF IInv, AnswersRight

LEMMA GetDataClearedStep ==
  ASSUME IInv, cursor \in 1 .. Len(Rows), NEW col \in Columns, NEW c \in CTypes,
         NEW b \in BuffersFor(c), GetDataCleared(col, c, b)
  PROVE  IInv' /\ AnswersRight'
<1> DEFINE t == Current(col, c)
           v == Value(col)
<1>1. InPieces(col, c, b) /\ t.offset = 0 /\ t.size < b
  BY DEF GetDataCleared
<1>2. /\ t = [Filled(col, c) EXCEPT !.offset = 0]
      /\ t = [offset |-> 0, size |-> t.size, good |-> t.good,
              kind |-> t.kind, type |-> c, col |-> col]
      /\ v.type \in Chunked /\ Cached(v, c, b)
  BY <1>1, CurrentCache
<1>3. /\ translated' = t /\ cursor' = cursor /\ bound' = bound
      /\ reading' = [col |-> col, type |-> c, end |-> 0, done |-> FALSE]
      /\ reply'.call = "getData" /\ reply'.type = c /\ reply'.col = col /\ reply'.b = b
  BY DEF GetDataCleared, Has, Replied
<1>4. Shape' /\ CacheOfRow' /\ Position'
  BY <1>2, <1>3 DEF IInv, Shape, CacheOfRow, Position
<1>5. Value(reply.col)' = v
  BY <1>3 DEF Value
<1>6. v.type # "STRUCT" /\ c \in {"CHAR", "WCHAR"} =>
        c = "WCHAR" /\ v.type # "BYTES" /\ v.chars # v.size
  <2>1. SUFFICES ASSUME v.type # "STRUCT", c \in {"CHAR", "WCHAR"},
                        c = "WCHAR" => v.type = "BYTES" \/ v.chars = v.size
                 PROVE  FALSE
    OBVIOUS
  <2>2. v \in BqValue /\ WellFormed(v) /\ b \in Nat
    BY ColumnValue, Progress
  <2>3. ~(Filled(col, c).size < b)
    BY <1>2, <2>1, <2>2, CachedIsLonger
  <2>4. t.size = Filled(col, c).size
    BY <1>2 DEF Filled
  <2> QED BY <1>1, <2>3, <2>4
<1>7. WholeCharText' /\ WholeWideText'
  <2>1. WholeCharText'
    BY <1>3, <1>5, <1>6 DEF WholeCharText, Succeeded, Of
  <2>2. c = "WCHAR" /\ v.type # "STRUCT" => ClearedByMistake'
    <3>1. SUFFICES ASSUME c = "WCHAR", v.type # "STRUCT" PROVE ClearedByMistake'
      OBVIOUS
    <3>2. v \in BqValue /\ WellFormed(v)
      BY ColumnValue
    <3>3. v.chars \in Nat /\ v.size \in Nat /\ v.chars # v.size /\ v.chars <= v.size
      BY <1>2, <1>6, <3>1, <3>2 DEF BqValue, WellFormed, Chunked
    <3>4. Cached(v, "WCHAR", b)
      BY <1>2, <3>1
    <3> QED BY <1>3, <1>5, <3>3, <3>4 DEF ClearedByMistake, Cached
  <2> QED BY <1>3, <1>5, <2>1, <2>2 DEF WholeWideText, Succeeded, Of
<1>8. IntegersExact'
  BY <1>2, <1>3, <1>5 DEF IntegersExact, Of, Chunked
<1>9. PiecesInOrder'
  BY <1>3 DEF PiecesInOrder
<1> QED BY <1>4, <1>7, <1>8, <1>9 DEF IInv, AnswersRight

LEMMA SQLGetDataStep ==
  ASSUME IInv, SQLGetData
  PROVE  IInv' /\ AnswersRight'
<1>1. PICK col \in Columns, asked \in Asked :
        \/ cursor > Len(Rows) /\ GetDataAtEnd(col, asked)
        \/ /\ cursor \in 1 .. Len(Rows)
           /\ \E b \in BuffersFor(Resolved(col, asked)) :
                \/ \E ind \in {TRUE, Value(col).type # "NULL"} :
                     GetDataDirect(col, Resolved(col, asked), b, ind)
                \/ GetDataTypeChanged(col, Resolved(col, asked), b)
                \/ GetDataPiece(col, Resolved(col, asked), b)
                \/ GetDataRest(col, Resolved(col, asked), b)
                \/ GetDataCleared(col, Resolved(col, asked), b)
  BY Zenon DEF SQLGetData
<1>2. CASE cursor > Len(Rows) /\ GetDataAtEnd(col, asked)
  BY <1>2, GetDataAtEndStep
<1>3. CASE cursor \in 1 .. Len(Rows)
           /\ \E b \in BuffersFor(Resolved(col, asked)) :
                \/ \E ind \in {TRUE, Value(col).type # "NULL"} :
                     GetDataDirect(col, Resolved(col, asked), b, ind)
                \/ GetDataTypeChanged(col, Resolved(col, asked), b)
                \/ GetDataPiece(col, Resolved(col, asked), b)
                \/ GetDataRest(col, Resolved(col, asked), b)
                \/ GetDataCleared(col, Resolved(col, asked), b)
  <2>1. Resolved(col, asked) \in CTypes
    BY <1>3, CallTypes
  <2>2. \A ind \in {TRUE, Value(col).type # "NULL"} : ind \in BOOLEAN
    OBVIOUS
  <2> QED
    BY <1>3, <2>1, <2>2, GetDataDirectStep, GetDataTypeChangedStep, GetDataPieceStep,
       GetDataRestStep, GetDataClearedStep
<1> QED BY <1>1, <1>2, <1>3

-----------------------------------------------------------------------------
(* Bound columns and SQLFetch.                                             *)

LEMMA SQLBindColStep ==
  ASSUME IInv, BoundRow, SQLBindCol
  PROVE  IInv' /\ AnswersRight' /\ BoundRow'
<1>1. PICK col \in Bindable, new \in Bindings \cup {Unbound} :
        /\ bound' = [bound EXCEPT ![col] = [new EXCEPT !.row = 0]]
        /\ Replied("bind", col, new.type, new.b, Answer("ok", "none", 0, 0), 0, 0)
        /\ UNCHANGED <<cursor, translated, reading>>
  BY DEF SQLBindCol
<1>2. [new EXCEPT !.row = 0] \in [type : CTypes \cup {"none"}, b : Nat, row : {0}]
  BY <1>1, GetDataAssumption DEF Unbound
<1>3. reply'.call = "bind"
  BY <1>1 DEF Replied
<1>4. Shape'
  BY <1>1, <1>2 DEF IInv, Shape
<1>5. CacheOfRow' /\ Position'
  BY <1>1 DEF IInv, CacheOfRow, Position, Filled, Value
<1>6. AnswersRight'
  BY <1>3, NothingSaid
<1>7. BoundRow'
  <2>1. \A k \in Bindable : bound'[k].row = bound[k].row \/ bound'[k].row = 0
    BY <1>1, <1>2 DEF IInv, Shape
  <2>2. cursor' = cursor /\ cursor \in Nat
    BY <1>1, GetDataAssumption DEF IInv, Shape
  <2> QED BY <1>3, <2>1, <2>2 DEF BoundRow
<1> QED BY <1>4, <1>5, <1>6, <1>7 DEF IInv

\* The first of the columns whose conversion is no success exists.
Less == {ss \in Nat \X Nat : ss[1] < ss[2]}
LEMMA LeastNat ==
  ASSUME NEW T, T \subseteq Nat, T # {}
  PROVE  \E x \in T : \A y \in T : x <= y
<1>1. IsWellFoundedOn(Less, Nat)
  BY NatLessThanWellFounded, Zenon DEF OpToRel, Less
<1>2. PICK x \in T : \A y \in T : ~(<<y, x>> \in Less)
  BY <1>1, WFMin, Zenon
<1>3. ASSUME NEW y \in T
      PROVE  x <= y
  <2>1. x \in Nat /\ y \in Nat
    OBVIOUS
  <2>2. y < x => <<y, x>> \in Less
    BY <2>1 DEF Less
  <2> QED BY <1>2, <2>1, <2>2
<1> QED BY <1>3

\* The row that SQLFetch writes: when it is answered with SQL_SUCCESS every
\* bound column was reached.
LEMMA WriteDSRowStep ==
  ASSUME IInv, BoundRow, cursor' \in 1 .. Len(Rows), cursor' >= cursor, WriteDSRow
  PROVE  /\ bound' \in [Bindable -> [type : CTypes \cup {"none"}, b : Nat, row : Nat]]
         /\ reply'.call = "fetch"
         /\ BoundRow'
<1> DEFINE notOk == {col \in Bindable : IsBound(col) /\ Converted(col).state # "ok"}
           reached == {col \in Bindable : IsBound(col) /\ \A k \in notOk : col <= k}
           first == CHOOSE col \in notOk : \A k \in notOk : col <= k
           a == IF notOk = {} THEN Answer("ok", "none", 0, 0) ELSE Converted(first)
<1>1. /\ bound' = [col \in Bindable |->
                     IF col \in reached /\ Converted(col).kind # "none"
                     THEN [bound[col] EXCEPT !.row = cursor'] ELSE bound[col]]
      /\ reply'.call = "fetch" /\ reply'.answer.state = a.state
  BY DEF WriteDSRow, Replied, Answer
<1>2. Bindable \subseteq Nat /\ cursor' \in Nat /\ cursor \in Nat
  BY GetDataAssumption DEF IInv, Shape
<1>3. \A col \in Bindable : bound[col] \in [type : CTypes \cup {"none"}, b : Nat, row : Nat]
  BY DEF IInv, Shape
<1>4. bound' \in [Bindable -> [type : CTypes \cup {"none"}, b : Nat, row : Nat]]
  BY <1>1, <1>2, <1>3
<1>5. ASSUME NEW col \in Bindable
      PROVE  bound'[col].row <= cursor' /\ bound'[col].type = bound[col].type
             /\ bound'[col].b = bound[col].b
  <2>1. bound[col].row <= cursor
    BY DEF BoundRow
  <2> QED BY <1>1, <1>2, <1>3, <2>1
<1>6. a.state = "ok" => notOk = {}
  <2>1. SUFFICES ASSUME notOk # {}
                 PROVE  Converted(first).state # "ok"
    OBVIOUS
  <2>2. \E col \in notOk : \A k \in notOk : col <= k
    BY <1>2, <2>1, LeastNat, Zenon
  <2>3. first \in notOk
    BY <2>2, Zenon
  <2> QED BY <2>3
<1>7. ASSUME NEW col \in Bindable, a.state = "ok", IsBound(col)'
      PROVE  bound'[col].row = cursor' \/ AnswerLost(col)'
  <2>1. IsBound(col) /\ col \in reached /\ Converted(col).state = "ok"
    BY <1>5, <1>6, <1>7 DEF IsBound
  <2>2. CASE Converted(col).kind # "none"
    BY <1>1, <1>3, <2>1, <2>2
  <2>3. CASE Converted(col).kind = "none"
    <3>1. ~Written(Converted(col))
      BY <2>1, <2>3 DEF Written
    <3>2. Rows[cursor'][col] \in BqValue
      <4>1. Rows \in Seq(Seq(BqValue)) /\ col \in 1 .. Len(Rows[1])
        BY GetDataAssumption
      <4>2. Rows[cursor'] \in Seq(BqValue) /\ col <= Len(Rows[cursor'])
        BY <4>1, GetDataAssumption
      <4> QED BY <1>2, <4>1, <4>2
    <3>3. Rows[cursor'][col].type \in {"NUMERIC", "BIGNUMERIC"} /\ bound[col].type = "WCHAR"
      <4>1. \A v \in BqValue : \A c, b : \A ind \in BOOLEAN : ~Written(GetColumnData(v, c, b, ind))
              => v.type \in {"NUMERIC", "BIGNUMERIC"} /\ c = "WCHAR"
        BY UntouchedNumeric
      <4> DEFINE ind == TRUE
      <4>2. ind \in BOOLEAN
        OBVIOUS
      <4>3. ~Written(GetColumnData(Rows[cursor'][col], bound[col].type, bound[col].b, ind))
        BY <3>1 DEF Converted
      <4> HIDE DEF ind
      <4> QED BY <3>2, <4>1, <4>2, <4>3
    <3> QED BY <1>5, <3>3 DEF AnswerLost
  <2> QED BY <2>2, <2>3
<1>8. BoundRow'
  BY <1>1, <1>5, <1>7 DEF BoundRow
<1> QED BY <1>1, <1>4, <1>8

LEMMA ForgottenCache ==
  ASSUME translated' = Forgotten, reading' = NotRead
  PROVE  /\ CacheOfRow' /\ Position'
         /\ translated' = [offset |-> translated'.offset, size |-> translated'.size,
                           good |-> translated'.good, kind |-> translated'.kind,
                           type |-> translated'.type, col |-> translated'.col]
         /\ translated'.offset \in Nat
BY DEF Forgotten, Empty, NotRead, CacheOfRow, Position

LEMMA SQLFetchStep ==
  ASSUME IInv, BoundRow, SQLFetch
  PROVE  IInv' /\ AnswersRight' /\ BoundRow'
<1>1. /\ cursor \in 0 .. Len(Rows) + 1 /\ Len(Rows) \in Nat
      /\ bound \in [Bindable -> [type : CTypes \cup {"none"}, b : Nat, row : Nat]]
  BY GetDataAssumption DEF IInv, Shape
<1>2. /\ cursor' \in 1 .. Len(Rows) + 1 /\ cursor' >= cursor
      /\ translated' = Forgotten /\ reading' = NotRead
  BY <1>1 DEF SQLFetch
<1>3. CASE cursor' <= Len(Rows) /\ WriteDSRow
  <2>1. /\ bound' \in [Bindable -> [type : CTypes \cup {"none"}, b : Nat, row : Nat]]
        /\ reply'.call = "fetch" /\ BoundRow'
    BY <1>1, <1>2, <1>3, WriteDSRowStep
  <2>2. IInv'
    BY <1>2, <2>1, ForgottenCache DEF IInv, Shape
  <2> QED BY <2>1, <2>2, NothingSaid
<1>4. CASE /\ cursor' > Len(Rows)
           /\ Replied("fetch", 0, "none", 0, NoData, 0, 0)
           /\ UNCHANGED bound
  <2>1. reply'.call = "fetch" /\ reply'.answer.state = "NO_DATA" /\ bound' = bound
    BY <1>4 DEF Replied, NoData, Answer
  <2>2. IInv'
    BY <1>1, <1>2, <2>1, ForgottenCache DEF IInv, Shape
  <2>3. BoundRow'
    BY <1>1, <1>2, <2>1 DEF BoundRow
  <2> QED BY <2>1, <2>2, <2>3, NothingSaid
<1> QED BY <1>3, <1>4 DEF SQLFetch

LEMMA SQLFetchScrollRefusedStep ==
  ASSUME IInv, BoundRow, SQLFetchScrollRefused
  PROVE  IInv' /\ AnswersRight' /\ BoundRow'
<1>1. /\ translated' = Forgotten /\ reading' = NotRead
      /\ cursor' = cursor /\ bound' = bound
      /\ reply'.call = "fetch" /\ reply'.answer.state = "HY106"
  BY DEF SQLFetchScrollRefused, Replied, Answer
<1>2. IInv'
  BY <1>1, ForgottenCache DEF IInv, Shape
<1>3. BoundRow'
  BY <1>1 DEF BoundRow
<1> QED BY <1>1, <1>2, <1>3, NothingSaid

LEMMA SQLGetDataLeaves ==
  ASSUME SQLGetData
  PROVE  bound' = bound /\ cursor' = cursor /\ reply'.call # "fetch"
<1> DEFINE Left == bound' = bound /\ cursor' = cursor /\ reply'.call # "fetch"
<1>1. \A col, c : GetDataAtEnd(col, c) => Left
  BY DEF GetDataAtEnd, Replied
<1>2. \A col, c, b, ind : GetDataDirect(col, c, b, ind) => Left
  BY DEF GetDataDirect, Replied
<1>3. \A col, c, b : GetDataTypeChanged(col, c, b) => Left
  BY DEF GetDataTypeChanged, Replied
<1>4. \A col, c, b : GetDataPiece(col, c, b) => Left
  BY DEF GetDataPiece
<1>5. \A col, c, b : GetDataRest(col, c, b) => Left
  BY DEF GetDataRest
<1>6. \A col, c, b : GetDataCleared(col, c, b) => Left
  BY DEF GetDataCleared, Replied
<1> HIDE DEF Left
<1>7. Left
  BY <1>1, <1>2, <1>3, <1>4, <1>5, <1>6, Zenon DEF SQLGetData
<1> QED BY <1>7 DEF Left

LEMMA StepInv ==
  ASSUME IInv, AnswersRight, BoundRow, [Next]_vars
  PROVE  IInv' /\ AnswersRight' /\ BoundRow'
<1>1. CASE SQLGetData
  <2>1. IInv' /\ AnswersRight'
    BY <1>1, SQLGetDataStep
  <2>2. bound' = bound /\ cursor' = cursor /\ reply'.call # "fetch"
    BY <1>1, SQLGetDataLeaves
  <2>3. BoundRow'
    BY <2>2 DEF BoundRow
  <2> QED BY <2>1, <2>3
<1>2. CASE SQLBindCol
  BY <1>2, SQLBindColStep
<1>3. CASE SQLFetch
  BY <1>3, SQLFetchStep
<1>4. CASE SQLFetchScrollRefused
  BY <1>4, SQLFetchScrollRefusedStep
<1>5. CASE UNCHANGED vars
  <2>1. UNCHANGED <<cursor, translated, bound, reading, reply>>
    BY <1>5 DEF vars
  <2>2. IInv'
    BY <2>1 DEF IInv, Shape, CacheOfRow, Position, Filled, Value
  <2>3. PiecesInOrder' /\ WholeCharText' /\ BoundRow'
    BY <2>1 DEF AnswersRight, PiecesInOrder, WholeCharText, Succeeded, Of, AllOfIt, Value,
       BoundRow, IsBound, AnswerLost
  <2>4. WholeWideText'
    BY <2>1 DEF AnswersRight, WholeWideText, Succeeded, Of, AllOfIt, Value, ClearedByMistake
  <2>5. IntegersExact'
    BY <2>1 DEF AnswersRight, IntegersExact, Of, Value
  <2> QED BY <2>2, <2>3, <2>4, <2>5 DEF AnswersRight
<1> QED BY <1>1, <1>2, <1>3, <1>4, <1>5 DEF Next

LEMMA InitRight == Init => AnswersRight /\ BoundRow
<1> SUFFICES ASSUME Init PROVE AnswersRight /\ BoundRow
  OBVIOUS
<1>1. reply.call = "none"
  BY DEF Init
<1>2. BoundRow
  BY <1>1 DEF Init, BoundRow, Unbound
<1>3. AnswersRight
  BY <1>1 DEF AnswersRight, PiecesInOrder, WholeCharText, WholeWideText, IntegersExact,
     Succeeded
<1> QED BY <1>2, <1>3

LEMMA Invariant == Spec => [](IInv /\ AnswersRight /\ BoundRow)
<1>1. Init => IInv /\ AnswersRight /\ BoundRow
  BY InitInv, InitRight
<1>2. IInv /\ AnswersRight /\ BoundRow /\ [Next]_vars => (IInv /\ AnswersRight /\ BoundRow)'
  BY StepInv
<1> QED BY <1>1, <1>2, PTL DEF Spec

-----------------------------------------------------------------------------

\* The pieces of a value that SQLGetData hands out follow one another, and every
\* one has something in it.
THEOREM InOrder == Spec => []PiecesInOrder
<1>1. AnswersRight => PiecesInOrder
  BY DEF AnswersRight
<1> QED BY <1>1, Invariant, PTL

\* SQL_SUCCESS for SQL_C_CHAR means that the application has the whole text, in
\* one buffer or in the pieces it collected.
THEOREM CharTextWhole == Spec => []WholeCharText
<1>1. AnswersRight => WholeCharText
  BY DEF AnswersRight
<1> QED BY <1>1, Invariant, PTL

\* SQL_SUCCESS for SQL_C_WCHAR means the same, for SQLWCHAR of 2 and of 4 bytes.
THEOREM WideTextWhole == Spec => []WholeWideText
<1>1. AnswersRight => WholeWideText
  BY DEF AnswersRight
<1> QED BY <1>1, Invariant, PTL

\* A number asked for as an integer is exact, or only its fraction is missing
\* and the answer says so, or it is refused.
THEOREM IntegersAreExact == Spec => []IntegersExact
<1>1. AnswersRight => IntegersExact
  BY DEF AnswersRight
<1> QED BY <1>1, Invariant, PTL

\* After SQLFetch has answered SQL_SUCCESS the bound buffers show the row that
\* SQLGetData reads, and no buffer ever shows a later one.
THEOREM BoundRowShown == Spec => []BoundRow
BY Invariant, PTL
=============================================================================
