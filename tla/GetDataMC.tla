----------------------------- MODULE GetDataMC -----------------------------
(* An instance of GetData for TLC: a row of every type and of the texts that *)
(* read as something, and a second one of other values and NULL.            *)
EXTENDS GetData

V(type, size, text, chars) ==
  [type |-> type, size |-> size, text |-> text, chars |-> chars, reads |-> "other",
   neg |-> FALSE, bits |-> 0, frac |-> 0, digits |-> 1, edge |-> "neither", tiny |-> FALSE]
Number(v, neg, bits, digits, frac) ==
  [v EXCEPT !.reads = "number", !.neg = neg, !.bits = bits, !.digits = digits, !.frac = frac]
Edge(v, edge) == [v EXCEPT !.edge = edge]
Reads(v, what, frac) == [v EXCEPT !.reads = what, !.frac = frac]
Null == V("NULL", 0, 0, 0)

Table ==
  << << V("STRING", 5, 5, 5),
        V("STRING", 7, 7, 4),                                     \* 4 characters
        Number(V("STRING", 12, 12, 12), FALSE, 31, 10, 1),        \* 1234567890.5
        Reads(V("STRING", 10, 10, 10), "date", 0),
        Reads(V("STRING", 21, 21, 21), "timestamp", 1),
        V("BYTES", 12, 12, 9),
        V("JSON", 12, 12, 4),                                     \* 4 characters
        V("STRUCT", 6, 12, 12),
        V("ARRAY", 9, 9, 9),
        Edge(Number(V("INT64", 8, 10, 10), FALSE, 32, 10, 0), "ones"), \* 4294967295
        Number(V("FLOAT64", 8, 9, 9), FALSE, 2, 1, 7),            \* 2.1234567
        Number(V("NUMERIC", 6, 6, 6), FALSE, 9, 3, 2),            \* 300.25
        Number(V("BIGNUMERIC", 40, 40, 40), FALSE, 130, 40, 0),
        V("DATE", 10, 10, 10),
        V("TIME", 8, 8, 8),
        Reads(V("TIMESTAMP", 26, 26, 26), "timestamp", 6),
        Reads(V("INTERVAL", 12, 2, 2), "single", 0),
        V("GEOGRAPHY", 10, 10, 6),                                \* 6 characters
        V("BOOL", 4, 4, 4),
        Reads(V("RANGE", 24, 24, 24), "date", 0),
        Edge(Number(V("FLOAT64", 8, 19, 19), FALSE, 64, 19, 0), "power"), \* 2^63
        Edge(Number(V("INT64", 8, 20, 20), TRUE, 64, 19, 0), "power"),    \* -2^63
        Edge(Number(V("NUMERIC", 5, 5, 5), FALSE, 8, 3, 1), "ones"),      \* 255.5
        Edge(Number(V("FLOAT64", 8, 4, 4), TRUE, 8, 3, 0), "power") >>,   \* -128
     << Null,
        V("STRING", 9, 9, 3),                                     \* 3 characters
        Number(V("STRING", 2, 2, 2), TRUE, 3, 1, 0),              \* -7
        Reads(V("STRING", 8, 8, 8), "time", 0),
        Reads(V("STRING", 10, 10, 10), "interval", 0),
        V("BYTES", 4, 4, 2),
        V("JSON", 16, 16, 9),                                     \* 9 characters
        V("STRUCT", 4, 10, 10),
        V("ARRAY", 11, 11, 4),                                    \* 4 characters
        Number(V("INT64", 8, 3, 3), TRUE, 5, 2, 0),               \* -17
        Number(V("FLOAT64", 8, 40, 40), FALSE, 130, 40, 0),         \* 1E+39
        Number(V("NUMERIC", 3, 3, 3), FALSE, 8, 3, 0),            \* 200
        Number(V("BIGNUMERIC", 20, 20, 20), TRUE, 20, 7, 12),
        Null,
        [V("TIME", 15, 15, 15) EXCEPT !.frac = 1],
        Reads(V("TIMESTAMP", 19, 19, 19), "midnight", 0),
        Reads(V("INTERVAL", 18, 11, 11), "several", 0),
        V("GEOGRAPHY", 3, 3, 3),
        V("BOOL", 5, 5, 5),
        V("RANGE", 22, 22, 22),
        Edge(Number(V("FLOAT64", 8, 20, 20), FALSE, 65, 20, 0), "power"), \* 2^64
        Edge(Number(V("INT64", 8, 4, 4), TRUE, 8, 3, 0), "power"),        \* -128
        [Edge(Number(V("NUMERIC", 20, 20, 20), FALSE, 32, 10, 9), "ones")
           EXCEPT !.tiny = TRUE],                                 \* 4294967295.000000001
        Edge(Number(V("FLOAT64", 8, 6, 6), TRUE, 8, 3, 1), "power") >> >> \* -128.5

MCRows == Table
MCBuffers == {4, 10, 32}
MCAsked == (CTypes \ {"USHORT", "LONG"}) \cup {"DEFAULT"}
MCBindable == {1, 12}
MCBindings == {[type |-> "CHAR", b |-> 6, row |-> 0], [type |-> "WCHAR", b |-> 8, row |-> 0]}

\* A call of SQLGetData that hands out no piece leaves nothing but the number of
\* its column: it is followed for one column and type only, and not at all with
\* columns bound; of the types of fixed length one is read on, in pieces;
\* a value that was read to its end is read once more.
Followed ==
  /\ reply.call = "getData" =>
       reply.col = 12 /\ reply.type = "SBIGINT" /\ reply.answer.kind = "value"
  /\ reply.call \in {"piece", "rest"} => reply.type \in LengthSensitive \cup {"DOUBLE"}
  /\ ~reply.done
  /\ reply.call \in {"getData", "piece", "rest"} => \A col \in Bindable : ~IsBound(col)
=============================================================================
