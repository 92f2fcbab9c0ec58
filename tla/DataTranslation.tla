-------------------------- MODULE DataTranslation --------------------------
(***************************************************************************)
(* What the conversions of data_translation.cc make of a value of BigQuery *)
(* in a buffer of the application: a SQLSTATE, how much of the value is in  *)
(* the buffer, and the length that is reported.                            *)
(*                                                                         *)
(* A value is a record of what the conversions tell apart:                 *)
(*   type    its BigQuery type, or "NULL"                                  *)
(*   size    ds_val.size(), bytes                                          *)
(*   text    the length of its text form, bytes                            *)
(*   chars   the length of the text in wide characters, fewer than the     *)
(*           bytes when a character has several; of BYTES, the number of   *)
(*           bytes that the base64 text stands for                         *)
(*   reads   what a text reads as: "number", "date", "time", "timestamp",  *)
(*           "interval", "other"; whether an interval has one field        *)
(*           ("single"), adjacent ones ("several") or is one the driver    *)
(*           does not represent ("mixed"); whether a timestamp is at       *)
(*           midnight; whether the ends of a range are dates               *)
(*   neg, bits, frac, digits  a number's sign, the bits of its magnitude   *)
(*           before the point, its fractional digits (a time's: whether it *)
(*           has fractions), its integral digits                           *)
(*   edge    whether that magnitude is 2^(bits-1), "power", 2^bits - 1,    *)
(*           "ones", or neither                                            *)
(*   tiny    whether a double loses the fraction (and ends up at the       *)
(*           integral part: a number that a double rounds up to the next   *)
(*           integer is not represented, nor an infinity)                  *)
(*                                                                         *)
(* An answer says in kind what the buffer holds: n units of the "text",    *)
(* the "value", the value "cut" (a fraction, a time or a field is gone) or *)
(* "rounded", something "wrong", or what it held before ("none").          *)
(***************************************************************************)
EXTENDS Integers

CONSTANTS
  WireWcharSize,   \* bytes of a SQLWCHAR
  CastSaturates    \* a double that is cast to an integer type it is out of the
                   \* range of, undefined in C++, becomes the nearest integer
                   \* (as on ARM); otherwise one that differs from it (as on x86)
ASSUME WireWcharAssumption == WireWcharSize \in {2, 4}
ASSUME CastAssumption == CastSaturates \in BOOLEAN

Integral == {"STINYINT", "TINYINT", "UTINYINT", "SHORT", "USHORT", "LONG",
             "ULONG", "SBIGINT", "UBIGINT"}
Unsigned == {"UTINYINT", "USHORT", "ULONG", "UBIGINT"}
Tiny == {"STINYINT", "TINYINT", "UTINYINT"}
Floating == {"FLOAT", "DOUBLE"}
LengthSensitive == {"CHAR", "WCHAR", "BINARY"}
CTypes == Integral \cup Floating \cup LengthSensitive \cup
  {"BIT", "NUMERIC", "DATE", "TIME", "TIMESTAMP", "INTERVAL_DAY",
   "INTERVAL_DAY_TO_SECOND"}

SizeOf(c) ==
  CASE c \in Tiny \cup {"BIT"} -> 1 [] c \in {"SHORT", "USHORT"} -> 2
    [] c \in {"LONG", "ULONG", "FLOAT"} -> 4
    [] c \in {"SBIGINT", "UBIGINT", "DOUBLE"} -> 8
    [] c \in {"DATE", "TIME"} -> 6 [] c = "TIMESTAMP" -> 16
    [] c = "NUMERIC" -> 19 [] OTHER -> 28

Types == {"NULL", "INT64", "FLOAT64", "NUMERIC", "BIGNUMERIC", "STRING", "DATE", "TIME",
          "JSON", "STRUCT", "TIMESTAMP", "DATETIME", "INTERVAL", "GEOGRAPHY", "BYTES",
          "ARRAY", "BOOL", "RANGE"}

BqValue ==
  [type : Types, size : Nat, text : Nat, chars : Nat,
   reads : {"number", "date", "time", "timestamp", "interval", "single", "several",
            "mixed", "midnight", "other"},
   neg : BOOLEAN, bits : Nat, frac : Nat, digits : Nat,
   edge : {"power", "ones", "neither"}, tiny : BOOLEAN]

\* What the fields of one value have to do with each other.
WellFormed(v) ==
  /\ v.type \in {"STRING", "BYTES", "JSON", "ARRAY", "GEOGRAPHY", "BOOL"} => v.text = v.size
  /\ v.type \in {"STRING", "JSON", "ARRAY", "GEOGRAPHY"} => v.chars <= v.size
  /\ v.type \in {"INT64", "BOOL"} => v.frac = 0
  /\ v.type = "INT64" => v.bits < 64 \/ (v.neg /\ v.bits = 64 /\ v.edge = "power")
  /\ v.tiny => v.frac > 0 /\ v.type \in {"NUMERIC", "BIGNUMERIC", "STRING"}
  /\ v.type = "BOOL" => ~v.neg /\ v.bits <= 1
  /\ v.type = "DATE" => v.text = 10
  /\ v.type = "TIME" /\ v.frac = 0 => v.text = 8

Answer(state, kind, n, len) ==
  [state |-> state, kind |-> kind, n |-> n, len |-> len]

\* Nothing is written; the length is still the one of the value in the driver.
Refused(state, v) == Answer(state, "none", 0, v.size)
Unsupported(v) == Refused("HY000", v)
Stored(c, kind) == Answer("ok", kind, SizeOf(c), SizeOf(c))

\* Faulty variant: a buffer without room for the terminator is enough.
NoRoomForTerminator(n, b) ==
  IF n = 0 \/ b = 0 THEN Answer("ok", "text", 0, 0)
  ELSE IF n <= b THEN Answer("ok", "text", IF n < b THEN n ELSE b - 1, n)
  ELSE Answer("01004", "text", b - 1, b - 1)

\* A text of n bytes into a buffer of b bytes.
StringValueToOutputBufferResponse(n, b) ==
  IF n = 0 \/ b = 0 THEN Answer("ok", "text", 0, 0)
  ELSE IF n < b THEN Answer("ok", "text", n, n)
  ELSE Answer("01004", "text", b - 1, b - 1)

\* n wide characters into a buffer for cap of them. Its callers ask for
\* n + 1 characters at least, so that most never cut the text.
WStrToOutputBufferResponse(v, n, cap, least) ==
  IF n = 0 THEN Answer("ok", "text", 0, 0)
  ELSE IF cap > n THEN Answer("ok", "text", n, n * WireWcharSize)
  ELSE IF least <= cap THEN Answer("01004", "text", cap - 1, cap * WireWcharSize)
  ELSE Refused("22003", v)
Wide(v, n, b) == WStrToOutputBufferResponse(v, n, b \div WireWcharSize, n + 1)

(* Numbers. *)

Width(c) == 8 * SizeOf(c)

\* The integral part of a number in so many bits: as a signed integer, and in
\* the integer type c.
SignedFits(v, w) == v.bits < w \/ (v.neg /\ v.bits = w /\ v.edge = "power")
Fits(v, c) ==
  IF c \in Unsigned THEN ~v.neg /\ v.bits <= Width(c) ELSE SignedFits(v, Width(c))

\* The number as a double.
AsDouble(v) == IF v.tiny THEN [v EXCEPT !.frac = 0] ELSE v

\* A number that is not negative against 2^w - 1, as doubles: of 63 and 64 bits
\* the limit becomes 2^w, and 2^w itself passes.
UpTo(v, w) ==
  \/ v.bits < w
  \/ v.bits = w /\ (v.edge = "ones" /\ w < 63 => v.frac = 0)
  \/ w >= 63 /\ v.bits = w + 1 /\ v.edge = "power" /\ v.frac = 0

\* Faulty variant: a sign is not looked at.
WithinLimitsUnsigned(v, c) ==
  CASE c = "DOUBLE" -> TRUE
    [] c = "FLOAT" -> v.bits <= 128
    [] OTHER -> UpTo(v, Width(c))

\* Between the limits of type c, compared as doubles (of FLOAT, 2^128 stands for
\* the largest one). A negative fraction is below the limits of an unsigned type.
WithinLimits(v, c) ==
  CASE c = "DOUBLE" -> TRUE
    [] c = "FLOAT" -> v.bits <= 128
    [] c \in Unsigned -> (v.neg => v.bits = 0 /\ v.frac = 0) /\ UpTo(v, Width(c))
    [] c \in Integral \ Unsigned /\ v.neg ->
         SignedFits(v, Width(c)) /\ (v.bits = Width(c) => v.frac = 0)
    [] OTHER -> UpTo(v, Width(c) - 1)

CheckLimitsArithmetic(v, c) ==
  IF ~WithinLimits(v, c) THEN "22003"
  ELSE IF c \in Integral /\ v.frac > 0 THEN "01S07" ELSE "ok"

\* 2^63 as SQL_C_SBIGINT, 2^64 as SQL_C_UBIGINT: within the limits, as a double.
PastTheLimit(v, c) ==
  /\ c \in {"SBIGINT", "UBIGINT"} /\ ~v.neg /\ v.edge = "power" /\ v.frac = 0
  /\ v.bits = (IF c = "SBIGINT" THEN 64 ELSE 65)

\* What is left of a number in C type c, when it is in range.
Exactness(v, c) ==
  IF c \in Integral /\ v.frac > 0 THEN "cut"
  ELSE IF (c = "FLOAT" /\ v.bits > 24) \/ (c = "DOUBLE" /\ v.bits > 53)
       THEN "rounded" ELSE "value"

\* The test for a fraction compares the double with what it was cast to.
ConvertNumeric(v, c) ==
  LET s == CheckLimitsArithmetic(AsDouble(v), c)
  IN CASE s = "22003" -> Refused(s, v)
       [] s # "22003" /\ PastTheLimit(v, c) ->
            [Stored(c, "wrong") EXCEPT !.state = IF CastSaturates THEN "ok" ELSE "01S07"]
       [] OTHER -> [Stored(c, Exactness(v, c)) EXCEPT !.state = s]

\* std::stoll and std::stoull read up to the point.
FromDigits(v, c) ==
  IF ~Fits(v, c) THEN Refused("22003", v) ELSE Stored(c, Exactness(v, c))

\* The length stays the one of the value in the driver.
ToBit(v) ==
  IF v.bits <= 1 /\ AsDouble(v).frac = 0 /\ (v.neg => v.bits = 0)
  THEN Answer("ok", IF v.frac > 0 THEN "cut" ELSE "value", 1, v.size)
  ELSE Refused("22003", v)

\* SQL_NUMERIC_STRUCT: at most 38 digits, 9 of them fractional; the digits go
\* through an unsigned long long; the scale is bounded so that the digits
\* before and after the point are 16, the digits are not.
MaxNumericLen == 16
GetNumericDetailsFromStr(v) ==
  LET f == IF v.frac > 9 THEN 9 ELSE v.frac
  IN IF v.digits + f > 38 THEN Refused("22003", v)
     ELSE IF v.digits + f > 19 THEN Refused("22018", v)
     ELSE [Stored("NUMERIC", IF f > 0 /\ v.digits + f > MaxNumericLen THEN "wrong"
                             ELSE IF v.frac > f THEN "cut" ELSE "value")
             EXCEPT !.state = IF v.frac > f THEN "01S07" ELSE "ok"]

\* The buffer is told too short for CHAR only after it was written.
OutOfRangeIfCut(answer) ==
  IF answer.state = "01004" THEN [answer EXCEPT !.state = "22003"] ELSE answer

\* As wide characters it is std::to_string, with six digits after the point.
ArithmeticToText(v, c, b) ==
  IF c = "CHAR" THEN OutOfRangeIfCut(StringValueToOutputBufferResponse(v.text, b))
  ELSE [OutOfRangeIfCut(WStrToOutputBufferResponse(v, v.text, b, b))
          EXCEPT !.kind = IF v.frac > 6 THEN "rounded" ELSE @]

\* INT64 and FLOAT64.
ConvertFromArithmeticDSValue(v, c, b) ==
  CASE c \in (Integral \ Tiny) \cup Floating -> ConvertNumeric(v, c)
    [] c \in {"CHAR", "WCHAR"} -> ArithmeticToText(v, c, b)
    [] c = "BIT" -> ToBit(v)
    [] c = "NUMERIC" -> Stored(c, IF v.bits > 64 THEN "wrong"
                                  ELSE IF v.frac > 0 THEN "cut" ELSE "value")
    [] OTHER -> Unsupported(v)

\* The bytes of the number, as an int32_t, low byte first.
NumericToBinary(v, b) ==
  LET n == CASE SignedFits(v, 8) -> 1
             [] SignedFits(v, 16) /\ ~SignedFits(v, 8) -> 2
             [] SignedFits(v, 24) /\ ~SignedFits(v, 16) -> 3
             [] OTHER -> 4
  IN IF b < n THEN Refused("22003", v)
     ELSE Answer("ok", IF ~SignedFits(v, 32) THEN "wrong"
                       ELSE IF v.frac > 0 THEN "cut" ELSE "value", n, n)

\* A cast to 32 bits without a sign, which are not checked.
NumericToInterval(v, c) ==
  Stored(c, IF (v.neg /\ v.bits > 0) \/ v.bits > 32 THEN "wrong"
            ELSE IF v.frac > 0 THEN "cut" ELSE "value")

\* NUMERIC and BIGNUMERIC. For WCHAR the answer of the copy is not looked at.
ConvertFromNumericDSValue(v, c, b) ==
  CASE c = "NUMERIC" -> GetNumericDetailsFromStr(v)
    [] c = "CHAR" -> StringValueToOutputBufferResponse(v.text, b)
    [] c = "WCHAR" -> [Wide(v, v.text, b) EXCEPT !.state = "ok"]
    [] c \in {"SBIGINT", "UBIGINT"} -> FromDigits(v, c)
    [] c = "TINYINT" -> ConvertNumeric(v, "UTINYINT")
    [] c \in (Integral \ {"SBIGINT", "UBIGINT", "TINYINT"}) \cup Floating -> ConvertNumeric(v, c)
    [] c = "BIT" -> ToBit(v)
    [] c = "BINARY" -> NumericToBinary(v, b)
    [] c = "INTERVAL_DAY" -> NumericToInterval(v, c)
    [] OTHER -> Unsupported(v)

(* Texts. *)

\* sscanf and streams take the fields they look for and leave what follows.
StringToInterval(v, c) ==
  IF c = "INTERVAL_DAY"
  THEN CASE v.reads = "other" -> Refused("22003", v)
         [] v.reads = "number" -> Stored(c, IF v.frac > 0 THEN "cut" ELSE "value")
         [] v.reads = "interval" -> Stored(c, "cut")
         [] OTHER -> Stored(c, "wrong")
  ELSE IF v.reads = "interval" THEN Stored(c, "value") ELSE Refused("22003", v)

StringToDatetime(v, c) ==
  CASE c = "DATE" /\ v.reads = "date" -> Stored(c, "value")
    [] c = "DATE" /\ v.reads = "timestamp" -> Stored(c, "cut")
    [] \/ c = "TIME" /\ v.reads = "time"
       \/ c = "TIMESTAMP" /\ v.reads = "timestamp" ->
         Stored(c, IF v.frac > 0 THEN "cut" ELSE "value")
    [] OTHER -> Refused("22003", v)

\* std::stoi and std::stoul, then a cast to one byte.
StringToTiny(v, c) ==
  IF c = "UTINYINT" /\ v.neg THEN Refused("22003", v)
  ELSE IF v.reads = "other" THEN Refused("22018", v)
  ELSE IF ~(IF c = "UTINYINT" THEN v.bits <= 64 ELSE SignedFits(v, 32)) THEN Refused("22003", v)
  ELSE Stored(c, IF v.reads # "number" \/ ~Fits(v, c) THEN "wrong"
                 ELSE IF v.frac > 0 THEN "cut" ELSE "value")

\* Every type that is left reads the text as a double first, BINARY as well.
StringToNumber(v, c) ==
  IF v.reads # "number" THEN Refused("HY000", v)
  ELSE CASE c \in {"SBIGINT", "UBIGINT"} -> FromDigits(v, c)
         [] c = "BIT" -> ToBit(v)
         [] c = "BINARY" -> Answer("ok", "text", v.size, v.size)
         [] c = "NUMERIC" -> GetNumericDetailsFromStr(v)
         [] OTHER -> ConvertNumeric(v, c)

ConvertFromStringDSValue(v, c, b) ==
  CASE c = "CHAR" -> StringValueToOutputBufferResponse(v.size, b)
    [] c = "WCHAR" -> Wide(v, v.chars, b)
    [] c \in {"INTERVAL_DAY", "INTERVAL_DAY_TO_SECOND"} -> StringToInterval(v, c)
    [] c \in {"DATE", "TIME", "TIMESTAMP"} -> StringToDatetime(v, c)
    [] c \in Tiny -> StringToTiny(v, c)
    [] OTHER -> StringToNumber(v, c)

\* JSON and STRUCT; a STRUCT of the REST API is wrapped in {"v":...}, which
\* v.text counts and v.size does not.
ConvertStringToJsonOutputBuffer(v, n, c, b) ==
  CASE c \in {"CHAR", "BINARY"} -> StringValueToOutputBufferResponse(n, b)
    [] c = "WCHAR" -> Wide(v, v.chars, b)
    [] OTHER -> Unsupported(v)
ConvertFromJsonDSValue(v, c, b) == ConvertStringToJsonOutputBuffer(v, v.size, c, b)
ConvertFromStructDSValue(v, c, b) == ConvertStringToJsonOutputBuffer(v, v.text, c, b)

ConvertFromArrayDSValue(v, c, b) ==
  CASE c = "CHAR" -> StringValueToOutputBufferResponse(v.size, b)
    [] c = "WCHAR" -> Wide(v, v.chars, b)
    [] c = "BINARY" -> IF b < v.size THEN Answer("01004", "text", b - 1, b - 1)
                       ELSE Answer("ok", "text", v.size, v.size)
    [] OTHER -> Unsupported(v)

\* The answer of the copy is kept in a variable of the inner block.
ConvertFromGeographyDSValue(v, c, b) ==
  CASE c \in {"CHAR", "BINARY"} ->
         [StringValueToOutputBufferResponse(v.size, b) EXCEPT !.state = "ok"]
    [] c = "WCHAR" -> Wide(v, v.chars, b)
    [] OTHER -> Unsupported(v)

ConvertBytesToBinary(v, b) ==
  IF b < v.chars THEN Answer("01004", "text", b, b)
  ELSE Answer("ok", "text", v.chars, v.chars)
ConvertBytesToChar(v, b) ==
  IF b < v.size + 1 THEN Answer("01004", "text", b - 1, b)
  ELSE Answer("ok", "text", v.size, v.size)
ConvertBytesToWChar(v, b) ==
  IF b < v.size * WireWcharSize
  THEN Answer("01004", "text", (b \div WireWcharSize) - 1, v.size * WireWcharSize)
  ELSE Answer("ok", "text", v.size, v.size * WireWcharSize)
ConvertFromBytesDSValue(v, c, b) ==
  CASE c = "BINARY" -> ConvertBytesToBinary(v, b)
    [] c = "CHAR" -> ConvertBytesToChar(v, b)
    [] c = "WCHAR" -> ConvertBytesToWChar(v, b)
    [] OTHER -> Unsupported(v)

\* Both ends are written as dates or timestamps; an end that is neither (an
\* unbounded one) is answered with 01004 and nothing.
ConvertFromRangeDSValue(v, c, b) ==
  IF v.reads = "other" THEN Refused("01004", v)
  ELSE CASE c = "CHAR" -> StringValueToOutputBufferResponse(v.text, b)
         [] c = "BINARY" ->
              StringValueToOutputBufferResponse(v.text + (IF v.reads = "date" THEN 0 ELSE 1), b)
         [] c = "WCHAR" -> Wide(v, v.text, b)
         [] OTHER -> Unsupported(v)

(* Dates, times, intervals and truth values. *)

\* A text of n characters whose room is counted without the terminator; a
\* shorter buffer gets a placeholder, "HH:MM:SS" or "YYYY-MM-DD".
FormattedText(n, b) ==
  IF b < n THEN Answer("01004", "wrong", b - 1, b)
  ELSE Answer("ok", "text", IF b = n THEN n - 1 ELSE n, n)
StructToBinary(c, kind, b) ==
  IF b < SizeOf(c) THEN Answer("01004", "cut", b, b) ELSE Stored(c, kind)

\* The fraction is never kept.
ConvertFromTimeDSValue(v, c, b) ==
  LET kind == IF v.frac > 0 THEN "cut" ELSE "value"
  IN CASE c = "CHAR" -> FormattedText(8, b)
       [] c \in {"TIME", "TIMESTAMP"} -> Stored(c, kind)
       [] c = "WCHAR" -> Wide(v, 8, b)
       [] c = "BINARY" -> StructToBinary("TIME", kind, b)
       [] OTHER -> Unsupported(v)

ConvertFromDateDSValue(v, c, b) ==
  CASE c \in {"DATE", "TIMESTAMP"} -> Stored(c, "value")
    [] c = "CHAR" -> FormattedText(10, b)
    [] c = "BINARY" -> StructToBinary("DATE", "value", b)
    [] c = "WCHAR" -> Wide(v, 10, b)
    [] OTHER -> Unsupported(v)

\* Of a timestamp's text the 19 characters of date and time must fit.
TimestampText(v, room, unit) ==
  IF room > v.text THEN Answer("ok", "text", v.text, v.text * unit)
  ELSE IF room >= 20 THEN Answer("01004", "text", room - 1, room * unit)
  ELSE Refused("22003", v)

\* A date without its time, a time without its fraction.
TimestampToPart(v, c) ==
  CASE (c = "DATE" /\ v.reads # "midnight") \/ (c = "TIME" /\ v.frac > 0) ->
         [Stored(c, "cut") EXCEPT !.state = "01S07"]
    [] OTHER -> Stored(c, IF v.frac > 0 THEN "cut" ELSE "value")

\* TIMESTAMP; DATETIME is converted in the same way.
ConvertFromTimestampDSValue(v, c, b) ==
  CASE c = "CHAR" -> TimestampText(v, b, 1)
    [] c = "WCHAR" -> TimestampText(v, b \div WireWcharSize, WireWcharSize)
    [] c = "BINARY" -> IF b >= SizeOf("TIMESTAMP") THEN Stored("TIMESTAMP", "value")
                       ELSE Refused("22003", v)
    [] c \in {"DATE", "TIME"} -> TimestampToPart(v, c)
    [] c = "TIMESTAMP" -> Stored(c, "value")
    [] OTHER -> Unsupported(v)
ConvertFromDatetimeDSValue(v, c, b) == ConvertFromTimestampDSValue(v, c, b)

\* The value of the only field, cast to 32 bits without a sign, as the bound of
\* SQLBIGINT is; of several fields, 0.
HandleIntervalArthmeticConversion(v, c) ==
  IF v.reads = "several" THEN Stored(c, "wrong")
  ELSE IF v.neg THEN IF c \in {"ULONG", "SBIGINT"} THEN Stored(c, "wrong")
                     ELSE Refused("22003", v)
  ELSE IF ~Fits(v, c) THEN Refused("22003", v)
  ELSE Stored(c, "value")

\* The text is copied whole when the buffer is longer than its digits.
IntervalText(v, b) ==
  IF b > v.digits
  THEN Answer(IF b > 30 THEN "ok" ELSE "01004", "text", v.text, v.text)
  ELSE Answer("22003", "wrong", b - 1, v.size)
WStrIntervalBufferResponse(v, room) ==
  CASE room > v.text -> Answer("ok", "text", v.text, v.text * WireWcharSize)
    [] room <= v.text /\ room > v.digits ->
         Answer("01004", "text", room - 1, room * WireWcharSize)
    [] OTHER -> Refused("22003", v)

\* Fields that ConvertStringToIntervalStruct finds a C type for.
Represented(v) == v.reads \in {"single", "several"}

ConvertFromIntervalDSValue(v, c, b) ==
  IF ~Represented(v) THEN Refused("HY000", v)
  ELSE CASE c = "CHAR" -> IntervalText(v, b)
         [] c = "WCHAR" -> WStrIntervalBufferResponse(v, b \div WireWcharSize)
         [] c \in {"STINYINT", "UTINYINT", "SHORT", "USHORT", "ULONG", "SBIGINT"} ->
              HandleIntervalArthmeticConversion(v, c)
         [] c = "NUMERIC" ->
              Stored(c, IF v.reads = "several" \/ v.neg THEN "wrong" ELSE "value")
         [] c \in {"INTERVAL_DAY", "INTERVAL_DAY_TO_SECOND"} -> Stored(c, "value")
         [] OTHER -> Unsupported(v)

\* Wide characters are written as wchar_t, of 4 bytes.
ConvertFromBooleanDSValue(v, c, b) ==
  CASE c = "CHAR" -> IF b < v.size THEN Answer("01004", "text", b - 1, v.size)
                     ELSE Answer("ok", "text", v.size, v.size)
    [] c = "WCHAR" ->
         LET kind == IF WireWcharSize = 4 THEN "text" ELSE "wrong"
         IN IF b \div 4 < v.size + 1 THEN Answer("01004", kind, (b \div 4) - 1, v.size * 4)
            ELSE Answer("ok", kind, v.size, v.size * 4)
    [] c = "BINARY" -> IF b < 1 THEN Answer("01004", "none", 0, 1)
                       ELSE Answer("ok", "value", 1, 1)
    [] c \in Integral \cup Floating \cup {"BIT", "NUMERIC"} -> Stored(c, "value")
    [] OTHER -> Unsupported(v)

\* The conversion of a value into a buffer of b bytes for C type c; ind: the
\* application gave the address of an indicator.
GetColumnData(v, c, b, ind) ==
  CASE v.type = "NULL" /\ ~ind -> Refused("22002", v)
    [] v.type = "NULL" /\ ind -> Answer("ok", "null", 0, -1)
    [] v.type \in {"INT64", "FLOAT64"} -> ConvertFromArithmeticDSValue(v, c, b)
    [] v.type \in {"NUMERIC", "BIGNUMERIC"} -> ConvertFromNumericDSValue(v, c, b)
    [] v.type = "STRING" -> ConvertFromStringDSValue(v, c, b)
    [] v.type = "DATE" -> ConvertFromDateDSValue(v, c, b)
    [] v.type = "TIME" -> ConvertFromTimeDSValue(v, c, b)
    [] v.type = "JSON" -> ConvertFromJsonDSValue(v, c, b)
    [] v.type = "STRUCT" -> ConvertFromStructDSValue(v, c, b)
    [] v.type = "TIMESTAMP" -> ConvertFromTimestampDSValue(v, c, b)
    [] v.type = "DATETIME" -> ConvertFromDatetimeDSValue(v, c, b)
    [] v.type = "INTERVAL" -> ConvertFromIntervalDSValue(v, c, b)
    [] v.type = "GEOGRAPHY" -> ConvertFromGeographyDSValue(v, c, b)
    [] v.type = "BYTES" -> ConvertFromBytesDSValue(v, c, b)
    [] v.type = "ARRAY" -> ConvertFromArrayDSValue(v, c, b)
    [] v.type = "BOOL" -> ConvertFromBooleanDSValue(v, c, b)
    [] v.type = "RANGE" -> ConvertFromRangeDSValue(v, c, b)

\* SQL_C_DEFAULT: the C type of the SQL type that PopulateIrd gives the column.
GetDefaultCType(type) ==
  CASE type = "INT64" -> "SBIGINT" [] type = "FLOAT64" -> "DOUBLE"
    [] type = "BOOL" -> "BIT" [] type \in {"NUMERIC", "BIGNUMERIC"} -> "NUMERIC"
    [] type = "BYTES" -> "BINARY" [] type = "DATE" -> "DATE" [] type = "TIME" -> "TIME"
    [] type \in {"DATETIME", "TIMESTAMP"} -> "TIMESTAMP" [] OTHER -> "CHAR"
=============================================================================
