--------------------------- MODULE RowFetchProofs ---------------------------
(***************************************************************************)
(* Proofs about RowFetch, for every set of results, every number and size  *)
(* of their pages, every rowset size and every SQL_ATTR_MAX_ROWS: rows     *)
(* come in order, SQL_NO_DATA comes at the end only, and over REST the     *)
(* cursor is on the last row the application got.                          *)
(***************************************************************************)
EXTENDS RowFetch, TLAPS

\* How many of the rows at hand the application has got.
Consumed ==
  LET k == IF Idle THEN rs.cursor + 1 ELSE rs.cursor
  IN  IF k < 0 THEN 0 ELSE IF k > rs.size THEN rs.size ELSE k

Left == Consumed < rs.size

\* Where FetchNextResultSet goes on, and the last row before that place.
Ahead == IF stream # Nowhere THEN stream ELSE token
There(m) == IF m.page > Len(Upto[m.of]) THEN Total(m.of) ELSE Upto[m.of][m.page]

\* The last row at hand, or the last one seen when there is none at hand.
LastOf == IF Left THEN rs.of ELSE seen.of
LastRow == IF Left THEN rs.first + rs.size ELSE seen.n

\* Nothing follows that row, or the next page does, unless the limit cut it.
Covered ==
  open =>
    /\ rs.of \in Source
    /\ LastOf \in Source
    /\ \/ seen.cut
       \/ LastRow = Total(LastOf)
       \/ Ahead # Nowhere /\ Ahead.of = LastOf /\ LastRow = There(Ahead)

\* Of a result opened with no position of another one left on the statement.
OneResult ==
  open /\ seen.clean =>
    /\ rs.of = seen.of
    /\ Left => \/ seen.n = rs.first + Consumed
               \/ seen.cut /\ seen.n <= rs.first + Consumed
    /\ stream # Nowhere => token = Nowhere
    /\ Ahead # Nowhere =>
         /\ Ahead.of = seen.of
         /\ LastRow = There(Ahead) \/ (seen.cut /\ LastRow <= There(Ahead))

\* What a fetch has done when it is at each place of WriteRowset.
Calling ==
  /\ ~open => Idle
  /\ ~Idle => reply = "none"
  /\ call.pc = "write" => rs.cursor < rs.size
  /\ call.pc = "write" /\ rs.cursor < 0 => call.written = 0
  /\ call.pc = "page" => rs.cursor >= rs.size
  /\ call.pc = "leave" => call.written > 0
  /\ call.pc \in {"page", "leave"} /\ call.written > 0 =>
       rs.cursor \in 1 .. rs.size /\ seen.n = rs.first + rs.cursor
  /\ stream # Nowhere => htapi
  /\ ~Idle => call.rowset > 0

Complete == seen.of \in Source /\ (seen.cut \/ seen.n = Total(seen.of))

\* The cursor is further before the rows than the first fetch leaves it: the
\* stream has ended, or a batch was left half converted, inside a rowset.
StreamOver ==
  /\ open => rs.cursor >= IF Idle THEN -2 ELSE -1
  /\ open /\ (IF Idle THEN rs.cursor = -2 ELSE rs.cursor = -1) =>
       ~seen.whole \/ (rs.size = 0 /\ Complete)

IInv ==
  /\ TypeOK /\ Calling /\ StreamOver
  /\ Covered /\ OneResult
  /\ NoDataMeansAll /\ CursorOnLastRow

-----------------------------------------------------------------------------
(* Pages.                                                                  *)

\* The ends of the pages of a result.
LEMMA PageEnds ==
  ASSUME RowFetchAssumption, NEW s \in Source
  PROVE  /\ Len(Upto[s]) \in Nat \ {0}
         /\ \A p \in 1 .. Len(Upto[s]) : Upto[s][p] \in Nat
         /\ Total(s) \in Nat
         /\ \A p \in 1 .. Len(Upto[s]) : Begin(s, p) \in Nat /\ Begin(s, p) <= Upto[s][p]
         /\ \A p \in 2 .. Len(Upto[s]) :
              Begin(s, p) = Upto[s][p - 1] /\ Begin(s, p) < Upto[s][p]
         /\ Upto[s][1] = 0 => Len(Upto[s]) = 1
<1>1. /\ Upto[s] \in Seq(Nat) /\ Len(Upto[s]) > 0
      /\ Len(Upto[s]) > 1 =>
           \A p \in DOMAIN Upto[s] : Begin(s, p) < Upto[s][p]
  BY DEF RowFetchAssumption
<1>2. /\ Len(Upto[s]) \in Nat \ {0} /\ DOMAIN Upto[s] = 1 .. Len(Upto[s])
      /\ \A p \in 1 .. Len(Upto[s]) : Upto[s][p] \in Nat
  BY <1>1
<1>3. \A p \in 1 .. Len(Upto[s]) : Begin(s, p) \in Nat
  BY <1>2 DEF Begin
<1>4. \A p \in 1 .. Len(Upto[s]) : Begin(s, p) <= Upto[s][p]
  <2>1. CASE Len(Upto[s]) > 1
    BY <1>1, <1>2, <1>3, <2>1
  <2>2. CASE Len(Upto[s]) = 1
    <3>1. \A p \in 1 .. Len(Upto[s]) : p = 1 /\ Upto[s][p] >= 0
      BY <1>2, <2>2
    <3> QED  BY <3>1 DEF Begin
  <2> QED  BY <1>2, <2>1, <2>2
<1>5. Total(s) \in Nat
  BY <1>2 DEF Total
<1>6. \A p \in 2 .. Len(Upto[s]) :
        Begin(s, p) = Upto[s][p - 1] /\ Begin(s, p) < Upto[s][p]
  BY <1>1, <1>2 DEF Begin
<1>7. Upto[s][1] = 0 => Len(Upto[s]) = 1
  <2>1. Begin(s, 1) = 0 /\ 1 \in DOMAIN Upto[s]
    BY <1>2 DEF Begin
  <2>2. ASSUME Len(Upto[s]) > 1 PROVE Upto[s][1] # 0
    <3>1. Begin(s, 1) < Upto[s][1]
      BY <1>1, <2>1, <2>2
    <3> QED  BY <2>1, <3>1
  <2> QED  BY <1>2, <2>2
<1> QED  BY <1>2, <1>3, <1>4, <1>5, <1>6, <1>7

\* The last row before a place to go on at.
LEMMA Places ==
  ASSUME RowFetchAssumption, NEW s \in Source, NEW p \in Nat \ {0}
  PROVE  LET m == [of |-> s, page |-> p]
         IN  /\ There(m) \in Nat
             /\ p <= Len(Upto[s]) => There(m) = Upto[s][p]
             /\ p >= Len(Upto[s]) => There(m) = Total(s)
BY PageEnds DEF There, Total

\* A page is as long as SQL_ATTR_MAX_ROWS leaves it.
LEMMA RowsAtHand ==
  ASSUME TypeOK, NEW s, NEW first \in Nat, NEW last \in Nat, first <= last
  PROVE  /\ Rows(s, first, last).of = s /\ Rows(s, first, last).first = first
         /\ Rows(s, first, last).cursor = -1
         /\ Rows(s, first, last).size \in Nat
         /\ first + Rows(s, first, last).size <= last
         /\ first + Rows(s, first, last).size < last => maxRows > 0
         /\ first < last => Rows(s, first, last).size > 0
         /\ Rows(s, first, last)
              = [of |-> s, first |-> first, size |-> Rows(s, first, last).size, cursor |-> -1]
BY DEF TypeOK, Rows, Truncated

\* A batch that the row limit has not cut yet.
LEMMA BatchShape ==
  ASSUME RowFetchAssumption, NEW s \in Source, NEW p \in 1 .. Len(Upto[s])
  PROVE  /\ Batch(s, p) \in [of : Source \cup {NoSource}, first : Nat, size : Nat, cursor : Int]
         /\ Batch(s, p).of = s /\ Batch(s, p).first = Begin(s, p)
         /\ Batch(s, p).cursor = -1
         /\ Batch(s, p).size \in Nat
         /\ Batch(s, p).first + Batch(s, p).size = Upto[s][p]
         /\ p > 1 => Batch(s, p).size > 0 /\ Begin(s, p) = Upto[s][p - 1]
<1> DEFINE a == Begin(s, p)
           z == Upto[s][p]
<1>1. /\ a \in Nat /\ z \in Nat /\ a <= z
      /\ p > 1 => a < z /\ a = Upto[s][p - 1]
  <2>1. Len(Upto[s]) \in Nat /\ (p > 1 => p \in 2 .. Len(Upto[s]))
    BY PageEnds
  <2> QED  BY <2>1, PageEnds
<1>2. Batch(s, p) = [of |-> s, first |-> a, size |-> z - a, cursor |-> -1]
  BY DEF Batch
<1> HIDE DEF a, z
<1>3. z - a \in Nat /\ a + (z - a) = z /\ (p > 1 => z - a > 0)
  BY <1>1
<1>4. /\ Batch(s, p) \in [of : Source \cup {NoSource}, first : Nat, size : Nat, cursor : Int]
      /\ Batch(s, p).of = s /\ Batch(s, p).first = a
      /\ Batch(s, p).cursor = -1 /\ Batch(s, p).size = z - a
  BY <1>1, <1>2, <1>3
<1> QED  BY <1>1, <1>3, <1>4 DEF a, z

-----------------------------------------------------------------------------
(* Opening a result.                                                       *)

LEMMA OpensKeeps ==
  ASSUME IInv, RowFetchAssumption, Idle, NEW s \in Source, NEW last \in Nat,
         NEW clean \in BOOLEAN,
         Opens(s, Rows(s, 0, last), clean),
         scripted' \in BOOLEAN,
         token' \in [of : Source \cup {NoSource}, page : Nat],
         stream' \in [of : Source \cup {NoSource}, page : Nat],
         token' # Nowhere =>
           token'.of \in Source /\ token'.page \in 1 .. Len(Upto[token'.of]) - 1,
         stream' # Nowhere =>
           stream'.of \in Source /\ stream'.page \in 1 .. Ended(stream'.of) /\ htapi,
         \/ last = Total(s)
         \/ Ahead' # Nowhere /\ Ahead'.of = s /\ last = There(Ahead'),
         clean =>
           /\ stream' # Nowhere => token' = Nowhere
           /\ Ahead' # Nowhere => Ahead'.of = s /\ last = There(Ahead')
  PROVE  IInv'
<1> USE DEF IInv
<1> DEFINE z == Rows(s, 0, last).size
<1>1. /\ z \in Nat /\ z <= last /\ (z < last => maxRows > 0) /\ (0 < last => z > 0)
      /\ Rows(s, 0, last) = [of |-> s, first |-> 0, size |-> z, cursor |-> -1]
  <2>1. 0 \in Nat /\ 0 <= last
    OBVIOUS
  <2>2. /\ z \in Nat /\ 0 + z <= last /\ (0 + z < last => maxRows > 0)
        /\ (0 < last => z > 0)
        /\ Rows(s, 0, last) = [of |-> s, first |-> 0, size |-> z, cursor |-> -1]
    BY <2>1, RowsAtHand
  <2> QED  BY <2>2
<1> HIDE DEF z
<1>2. /\ rs' = [of |-> s, first |-> 0, size |-> z, cursor |-> -1]
      /\ open' = TRUE /\ reply' = "none" /\ call' = call /\ call.pc = "idle"
      /\ seen' = [of |-> s, n |-> 0, cut |-> maxRows > 0, clean |-> clean, whole |-> TRUE]
      /\ UNCHANGED <<maxRows, htapi>>
  BY <1>1 DEF Opens, Idle, settings
<1>3. TypeOK'
  BY <1>1, <1>2 DEF TypeOK
<1>4. Calling'
  BY <1>2 DEF Calling, Idle
<1>5. StreamOver' /\ NoDataMeansAll' /\ CursorOnLastRow'
  BY <1>2 DEF StreamOver, NoDataMeansAll, CursorOnLastRow, Idle
<1>6. Consumed' = 0 /\ (Left' <=> z > 0)
  BY <1>1, <1>2 DEF Consumed, Left, Idle
<1>7. LastOf' = s /\ LastRow' = z
  BY <1>1, <1>2, <1>6 DEF LastOf, LastRow
<1>8. z = last \/ seen'.cut
  <2>1. seen'.cut <=> maxRows > 0
    BY <1>2
  <2> QED  BY <1>1, <2>1
<1>9. Covered'
  BY <1>2, <1>7, <1>8 DEF Covered, There
<1>10. OneResult'
  <2>1. Left' => seen'.n = rs'.first + Consumed'
    BY <1>2, <1>6
  <2>2. seen'.clean /\ Ahead' # Nowhere =>
          LastRow' = There(Ahead') \/ (seen'.cut /\ LastRow' <= There(Ahead'))
    BY <1>1, <1>2, <1>7, <1>8
  <2> QED  BY <1>2, <2>1, <2>2 DEF OneResult, There
<1> QED  BY <1>3, <1>4, <1>5, <1>9, <1>10

\* The token of a page.
LEMMA AfterPage ==
  ASSUME RowFetchAssumption, NEW s \in Source, NEW p \in 1 .. Len(Upto[s])
  PROVE  /\ After(s, p) \in [of : Source \cup {NoSource}, page : Nat]
         /\ After(s, p) # Nowhere =>
              /\ After(s, p).of = s /\ After(s, p).page = p
              /\ p \in 1 .. Len(Upto[s]) - 1
              /\ There(After(s, p)) = Upto[s][p]
         /\ After(s, p) = Nowhere => Upto[s][p] = Total(s)
<1>1. Len(Upto[s]) \in Nat \ {0} /\ s # NoSource
  BY PageEnds DEF RowFetchAssumption
<1> QED  BY <1>1 DEF After, Nowhere, There, Total

\* SQLExecute, SQLExecDirect, the catalog functions and SQLMoreResults.
LEMMA OpenKeeps ==
  ASSUME IInv, RowFetchAssumption, Open
  PROVE  IInv'
<1> USE DEF IInv
<1>1. PICK s \in Source : \/ ExecuteRest(s) \/ ExecuteHtapi(s) \/ ExecuteScript(s)
                          \/ ExecuteFails(s) \/ Catalog(s) \/ MoreResultsNext(s)
  BY DEF Open
<1>2. /\ Len(Upto[s]) \in Nat \ {0} /\ 1 \in 1 .. Len(Upto[s])
      /\ Upto[s][1] \in Nat /\ Total(s) \in Nat
      /\ Page(s, 1) = Rows(s, 0, Upto[s][1])
  BY PageEnds DEF Page, Begin
<1>3. /\ token \in [of : Source \cup {NoSource}, page : Nat]
      /\ stream \in [of : Source \cup {NoSource}, page : Nat]
      /\ token # Nowhere => token.of \in Source /\ token.page \in 1 .. Len(Upto[token.of]) - 1
      /\ stream # Nowhere =>
           stream.of \in Source /\ stream.page \in 1 .. Ended(stream.of) /\ htapi
      /\ scripted \in BOOLEAN
  BY DEF TypeOK, Calling
<1>4. Nowhere \in [of : Source \cup {NoSource}, page : Nat]
  BY DEF Nowhere
<1>5. /\ After(s, 1) \in [of : Source \cup {NoSource}, page : Nat]
      /\ After(s, 1) # Nowhere =>
           /\ After(s, 1).of = s /\ After(s, 1).page = 1
           /\ After(s, 1).page \in 1 .. Len(Upto[s]) - 1
           /\ There(After(s, 1)) = Upto[s][1]
      /\ After(s, 1) = Nowhere => Upto[s][1] = Total(s)
  BY <1>2, AfterPage
<1>6. CASE ExecuteRest(s)
  <2>1. /\ Opens(s, Rows(s, 0, Upto[s][1]), stream = Nowhere)
        /\ token' = After(s, 1) /\ UNCHANGED <<scripted, stream>> /\ Idle
        /\ htapi => Len(Upto[s]) = 1
    BY <1>2, <1>6 DEF ExecuteRest, Executes, ByRest
  <2>2. stream # Nowhere => After(s, 1) = Nowhere
    <3>1. ASSUME stream # Nowhere PROVE ~(1 < Len(Upto[s]))
      <4>1. htapi
        BY <1>3, <3>1
      <4>2. Len(Upto[s]) = 1
        BY <2>1, <4>1
      <4> QED  BY <4>2
    <3> QED  BY <3>1 DEF After
  <2>3. Ahead' = IF stream # Nowhere THEN stream ELSE After(s, 1)
    BY <2>1 DEF Ahead
  <2>4. \/ Upto[s][1] = Total(s)
        \/ Ahead' # Nowhere /\ Ahead'.of = s /\ Upto[s][1] = There(Ahead')
    BY <1>5, <2>2, <2>3
  <2>5. stream = Nowhere => /\ stream' # Nowhere => token' = Nowhere
                            /\ Ahead' # Nowhere => Ahead'.of = s /\ Upto[s][1] = There(Ahead')
    BY <1>5, <2>1, <2>3
  <2>6. (stream = Nowhere) \in BOOLEAN
    OBVIOUS
  <2> QED  BY <1>2, <1>3, <1>5, <2>1, <2>4, <2>5, <2>6, OpensKeeps
<1>7. CASE ExecuteHtapi(s)
  <2>1. /\ Opens(s, Rows(s, 0, Upto[s][1]), TRUE) /\ Idle
        /\ token' = Nowhere /\ stream' = [of |-> s, page |-> 1]
        /\ scripted' = scripted /\ htapi
    BY <1>2, <1>7 DEF ExecuteHtapi, Executes, ByHtapi
  <2>2. stream' # Nowhere /\ 1 \in 1 .. Ended(s)
    BY <1>2, <2>1 DEF Nowhere, Ended
  <2>3. Ahead' = [of |-> s, page |-> 1] /\ There(Ahead') = Upto[s][1]
    BY <1>2, <2>1, <2>2 DEF Ahead, There
  <2> QED  BY <1>2, <1>3, <1>4, <2>1, <2>2, <2>3, OpensKeeps
<1>8. CASE ExecuteScript(s)
  <2>1. /\ Opens(s, Rows(s, 0, Total(s)), stream = Nowhere /\ token' = Nowhere)
        /\ Idle /\ scripted' = TRUE /\ stream' = stream
        /\ token' = token \/ \E last \in Source : token' = After(last, 1)
    BY <1>8 DEF ExecuteScript, Executes
  <2>2. /\ token' \in [of : Source \cup {NoSource}, page : Nat]
        /\ token' # Nowhere =>
             token'.of \in Source /\ token'.page \in 1 .. Len(Upto[token'.of]) - 1
    <3>1. CASE token' = token
      BY <1>3, <3>1
    <3>2. ASSUME NEW last \in Source, token' = After(last, 1)
          PROVE  /\ token' \in [of : Source \cup {NoSource}, page : Nat]
                 /\ token' # Nowhere => /\ token'.of \in Source
                                        /\ token'.page \in 1 .. Len(Upto[token'.of]) - 1
      <4>1. 1 \in 1 .. Len(Upto[last])
        BY PageEnds
      <4> QED  BY <3>2, <4>1, AfterPage
    <3> QED  BY <2>1, <3>1, <3>2
  <2>3. stream = Nowhere /\ token' = Nowhere => Ahead' = Nowhere
    BY <2>1 DEF Ahead
  <2>4. (stream = Nowhere /\ token' = Nowhere) \in BOOLEAN /\ TRUE \in BOOLEAN
    OBVIOUS
  <2> QED  BY <1>2, <1>3, <2>1, <2>2, <2>3, <2>4, OpensKeeps
<1>9. CASE Catalog(s) \/ MoreResultsNext(s)
  <2>1. /\ Opens(s, Rows(s, 0, Total(s)), stream = Nowhere /\ token = Nowhere)
        /\ Idle /\ UNCHANGED <<scripted, token, stream>>
    BY <1>9 DEF Catalog, MoreResultsNext
  <2>2. stream = Nowhere /\ token = Nowhere => Ahead' = Nowhere
    BY <2>1 DEF Ahead
  <2>3. (stream = Nowhere /\ token = Nowhere) \in BOOLEAN
    OBVIOUS
  <2> QED  BY <1>2, <1>3, <2>1, <2>2, <2>3, OpensKeeps
<1>10. CASE ExecuteFails(s)
  <2>1. /\ open' = FALSE /\ reply' = "ERROR" /\ call' = call /\ call.pc = "idle"
        /\ UNCHANGED <<scripted, maxRows, htapi, seen>>
        /\ rs' \in {rs, NoRows, Batch(s, 1)}
    BY <1>10 DEF ExecuteFails, Executes, Idle, settings, TypeOK
  <2>2. token' = token \/ token' = After(s, 1)
    BY <1>10 DEF ExecuteFails
  <2>3. \/ stream' = stream
        \/ htapi /\ stream' \in {[of |-> s, page |-> Ended(s)], [of |-> s, page |-> 1]}
    BY <1>10 DEF ExecuteFails, ByHtapi
  <2>4. Ended(s) \in Nat /\ Ended(s) \in 1 .. Ended(s) /\ 1 \in 1 .. Ended(s)
    BY <1>2 DEF Ended
  <2>5. /\ stream' \in [of : Source \cup {NoSource}, page : Nat]
        /\ stream' # Nowhere =>
             stream'.of \in Source /\ stream'.page \in 1 .. Ended(stream'.of) /\ htapi
    BY <1>3, <2>3, <2>4
  <2>6. /\ token' \in [of : Source \cup {NoSource}, page : Nat]
        /\ token' # Nowhere =>
             token'.of \in Source /\ token'.page \in 1 .. Len(Upto[token'.of]) - 1
    BY <1>3, <1>5, <2>2
  <2>7. TypeOK'
    <3>1. rs' \in [of : Source \cup {NoSource}, first : Nat, size : Nat, cursor : Int]
      <4>1. /\ rs \in [of : Source \cup {NoSource}, first : Nat, size : Nat, cursor : Int]
            /\ NoRows \in [of : Source \cup {NoSource}, first : Nat, size : Nat, cursor : Int]
        BY DEF TypeOK, NoRows
      <4>2. Batch(s, 1) \in [of : Source \cup {NoSource}, first : Nat, size : Nat, cursor : Int]
        BY <1>2, BatchShape
      <4> QED  BY <2>1, <4>1, <4>2
    <3> QED  BY <2>1, <2>5, <2>6, <3>1 DEF TypeOK
  <2>8. Calling'
    BY <2>1, <2>5 DEF Calling, Idle
  <2> QED
    BY <2>1, <2>7, <2>8
    DEF StreamOver, Covered, OneResult, NoDataMeansAll, CursorOnLastRow
<1> QED  BY <1>1, <1>6, <1>7, <1>8, <1>9, <1>10

\* SQLMoreResults after the last child job, SQLCloseCursor, SQLSetStmtAttr.
LEMMA RestKeeps ==
  ASSUME IInv, RowFetchAssumption,
         MoreResultsEnd \/ CloseCursor \/ (\E n \in MaxRowsValues : SetMaxRows(n))
  PROVE  IInv'
<1> USE DEF IInv
<1>1. CASE MoreResultsEnd \/ CloseCursor
  <2>1. /\ open' = FALSE /\ reply' = reply /\ call' = call /\ call.pc = "idle"
        /\ UNCHANGED <<token, maxRows, htapi, seen>>
        /\ scripted' \in {FALSE, scripted}
        /\ stream' \in {Nowhere, stream} /\ rs' \in {rs, NoRows}
    BY <1>1 DEF MoreResultsEnd, CloseCursor, Idle, settings
  <2>2. TypeOK'
    <3>1. NoRows \in [of : Source \cup {NoSource}, first : Nat, size : Nat, cursor : Int]
      BY DEF NoRows
    <3>2. Nowhere \in [of : Source \cup {NoSource}, page : Nat]
      BY DEF Nowhere
    <3>3. rs' \in [of : Source \cup {NoSource}, first : Nat, size : Nat, cursor : Int]
      BY <2>1, <3>1 DEF TypeOK
    <3>4. /\ stream' \in [of : Source \cup {NoSource}, page : Nat]
          /\ stream' # Nowhere =>
               stream'.of \in Source /\ stream'.page \in 1 .. Ended(stream'.of)
      BY <2>1, <3>2 DEF TypeOK
    <3>5. scripted' \in BOOLEAN /\ open' \in BOOLEAN
      BY <2>1 DEF TypeOK
    <3> QED  BY <2>1, <3>3, <3>4, <3>5 DEF TypeOK
  <2>3. Calling'
    BY <2>1 DEF Calling, Idle
  <2> QED
    BY <2>1, <2>2, <2>3
    DEF StreamOver, Covered, OneResult, NoDataMeansAll, CursorOnLastRow
<1>2. ASSUME NEW n \in MaxRowsValues, SetMaxRows(n)
      PROVE  IInv'
  <2>1. /\ maxRows' = n /\ n \in Nat
        /\ UNCHANGED <<htapi, open, scripted, rs, token, stream, call, seen, reply>>
    BY <1>2 DEF SetMaxRows, RowFetchAssumption
  <2>2. TypeOK'
    BY <2>1 DEF TypeOK
  <2>3. Calling' /\ StreamOver' /\ NoDataMeansAll' /\ CursorOnLastRow'
    BY <2>1 DEF Calling, StreamOver, Complete, NoDataMeansAll, CursorOnLastRow, Idle
  <2>4. /\ Consumed' = Consumed /\ Left' = Left /\ Ahead' = Ahead
        /\ LastOf' = LastOf /\ LastRow' = LastRow
    BY <2>1 DEF Consumed, Left, Ahead, LastOf, LastRow, Idle
  <2>5. Covered' /\ OneResult'
    BY <2>1, <2>4 DEF Covered, OneResult, There
  <2> QED  BY <2>2, <2>3, <2>5
<1> QED  BY <1>1, <1>2

-----------------------------------------------------------------------------
(* A fetch.                                                                *)

\* SQLFetch: the cursor moves on, nothing else does.
LEMMA FetchKeeps ==
  ASSUME IInv, RowFetchAssumption, Fetch
  PROVE  IInv'
<1> USE DEF IInv
<1>1. PICK n \in RowsetSizes : SQLFetch(n)
  BY DEF Fetch
<1>2. /\ rs \in [of : Source \cup {NoSource}, first : Nat, size : Nat, cursor : Int]
      /\ rs.cursor >= -2 /\ n \in Nat \ {0} /\ open /\ call.pc = "idle"
      /\ rs.cursor = -2 => ~seen.whole \/ (rs.size = 0 /\ Complete)
  BY <1>1 DEF TypeOK, SQLFetch, StreamOver, Idle, RowFetchAssumption
<1> DEFINE c == IF rs.cursor > rs.size THEN rs.cursor ELSE rs.cursor + 1
<1>3. /\ rs' = [rs EXCEPT !.cursor = c]
      /\ rs'.of = rs.of /\ rs'.first = rs.first /\ rs'.size = rs.size /\ rs'.cursor = c
      /\ rs' \in [of : Source \cup {NoSource}, first : Nat, size : Nat, cursor : Int]
      /\ c \in Int /\ c >= -1
  <2>1. rs' = Advanced(rs)
    BY <1>1 DEF SQLFetch
  <2>2. rs = [rs EXCEPT !.cursor = rs.cursor]
    BY <1>2
  <2>3. Advanced(rs) = [rs EXCEPT !.cursor = c]
    BY <1>2, <2>2 DEF Advanced
  <2>4. c \in Int /\ c >= -1
    BY <1>2
  <2> HIDE DEF c
  <2> QED  BY <1>2, <2>1, <2>3, <2>4
<1> HIDE DEF c
<1>4. /\ call' = [pc |-> NextPc(rs', 0, n), rowset |-> n, written |-> 0]
      /\ reply' = "none"
      /\ UNCHANGED <<open, scripted, token, stream, maxRows, htapi, seen>>
  BY <1>1 DEF SQLFetch, settings
<1>5. NextPc(rs', 0, n) = IF c >= rs.size THEN "page" ELSE "write"
  BY <1>2, <1>3 DEF NextPc
<1>6. /\ call'.pc = (IF c >= rs.size THEN "page" ELSE "write")
      /\ call'.written = 0 /\ call'.rowset = n
  BY <1>4, <1>5
<1>7. ~Idle'
  BY <1>6 DEF Idle
<1>8. TypeOK'
  BY <1>2, <1>3, <1>4, <1>5 DEF TypeOK
<1>9. Calling'
  BY <1>2, <1>3, <1>4, <1>6, <1>7 DEF Calling
<1>10. StreamOver'
  <2>1. c = -1 => rs.cursor = -2
    BY <1>2 DEF c
  <2> QED  BY <1>2, <1>3, <1>4, <1>7, <2>1 DEF StreamOver, Complete
<1>11. Consumed' = Consumed
  <2>1. Consumed = IF rs.cursor + 1 < 0 THEN 0
                   ELSE IF rs.cursor + 1 > rs.size THEN rs.size ELSE rs.cursor + 1
    BY <1>2 DEF Consumed, Idle
  <2>2. Consumed' = IF c < 0 THEN 0 ELSE IF c > rs.size THEN rs.size ELSE c
    BY <1>3, <1>7 DEF Consumed
  <2> QED  BY <1>2, <2>1, <2>2 DEF c
<1>12. /\ Left' = Left /\ Ahead' = Ahead /\ LastOf' = LastOf /\ LastRow' = LastRow
  BY <1>3, <1>4, <1>11 DEF Left, Ahead, LastOf, LastRow
<1>13. Covered' /\ OneResult'
  BY <1>3, <1>4, <1>11, <1>12 DEF Covered, OneResult, There
<1>14. NoDataMeansAll' /\ CursorOnLastRow'
  BY <1>4 DEF NoDataMeansAll, CursorOnLastRow
<1> QED  BY <1>8, <1>9, <1>10, <1>13, <1>14

\* What a step within a fetch finds.
LEMMA InFetch ==
  ASSUME IInv, ~Idle
  PROVE  /\ open /\ reply = "none"
         /\ rs \in [of : Source \cup {NoSource}, first : Nat, size : Nat, cursor : Int]
         /\ seen \in [of : Source \cup {NoSource}, n : Nat, cut : BOOLEAN, clean : BOOLEAN, whole : BOOLEAN]
         /\ call \in [pc : {"idle", "write", "page", "leave"}, rowset : Nat, written : Nat]
         /\ rs.cursor >= -1
         /\ Consumed = IF rs.cursor < 0 THEN 0
                       ELSE IF rs.cursor > rs.size THEN rs.size ELSE rs.cursor
BY DEF IInv, Calling, TypeOK, StreamOver, Consumed

\* WriteDSRow.
LEMMA WriteKeeps ==
  ASSUME IInv, RowFetchAssumption, WriteRow
  PROVE  IInv'
<1> USE DEF IInv
<1>1. /\ call.pc = "write" /\ rs.cursor >= 0 /\ rs.cursor < rs.size /\ ~Idle
      /\ call.rowset > 0
  BY DEF WriteRow, Calling, Idle
<1>2. /\ open /\ reply = "none"
      /\ rs \in [of : Source \cup {NoSource}, first : Nat, size : Nat, cursor : Int]
      /\ seen \in [of : Source \cup {NoSource}, n : Nat, cut : BOOLEAN, clean : BOOLEAN, whole : BOOLEAN]
      /\ call \in [pc : {"idle", "write", "page", "leave"}, rowset : Nat, written : Nat]
      /\ Consumed = rs.cursor
  BY <1>1, InFetch
<1> DEFINE c == rs.cursor + 1
<1> DEFINE w == call.written + 1
<1>3. /\ rs' = [rs EXCEPT !.cursor = c]
      /\ rs'.of = rs.of /\ rs'.first = rs.first /\ rs'.size = rs.size /\ rs'.cursor = c
      /\ rs' \in [of : Source \cup {NoSource}, first : Nat, size : Nat, cursor : Int]
  <2>1. rs' = [rs EXCEPT !.cursor = rs.cursor + 1] /\ c \in Int
    BY <1>2 DEF WriteRow
  <2> QED  BY <1>2, <2>1
<1>4. /\ seen'.of = rs.of /\ seen'.n = rs.first + c
      /\ seen'.cut = seen.cut /\ seen'.clean = seen.clean
      /\ seen' \in [of : Source \cup {NoSource}, n : Nat, cut : BOOLEAN, clean : BOOLEAN, whole : BOOLEAN]
  <2>1. seen' = [seen EXCEPT !.of = rs.of, !.n = rs.first + rs.cursor + 1]
    BY DEF WriteRow
  <2>2. /\ rs.first + rs.cursor + 1 = rs.first + c
        /\ rs.first + c \in Nat /\ rs.of \in Source \cup {NoSource}
    BY <1>1, <1>2
  <2> QED  BY <1>2, <2>1, <2>2
<1>c. c = rs.cursor + 1 /\ c \in Nat /\ c > 0 /\ c <= rs.size /\ w = call.written + 1 /\ w \in Nat /\ w > 0
  BY <1>1, <1>2
<1> HIDE DEF c, w
<1>5. UNCHANGED <<open, scripted, token, stream, maxRows, htapi, reply>>
  BY DEF WriteRow, settings
<1>6. /\ call'.pc = NextPc(rs', w, call.rowset) /\ call'.written = w
      /\ call'.rowset = call.rowset
      /\ call' = [call EXCEPT !.pc = NextPc(rs', w, call.rowset), !.written = w]
  BY <1>2, <1>c DEF WriteRow, w
<1>7. /\ NextPc(rs', w, call.rowset) \in {"leave", "page", "write"}
      /\ NextPc(rs', w, call.rowset) = "page" => c >= rs.size
      /\ NextPc(rs', w, call.rowset) = "write" => c < rs.size
  BY <1>2, <1>3, <1>c DEF NextPc
<1>8. ~Idle'
  BY <1>6, <1>7 DEF Idle
<1>9. TypeOK'
  <2>1. call' \in [pc : {"idle", "write", "page", "leave"}, rowset : Nat, written : Nat]
    BY <1>2, <1>6, <1>7, <1>c
  <2> QED  BY <1>3, <1>4, <1>5, <2>1 DEF TypeOK
<1>10. Calling'
  <2>1. /\ open' /\ reply' = "none" /\ (stream' # Nowhere => htapi')
        /\ call'.rowset > 0
    BY <1>1, <1>2, <1>5, <1>6 DEF Calling
  <2>2. /\ call'.pc = "write" => rs'.cursor < rs'.size /\ ~(rs'.cursor < 0)
        /\ call'.pc = "page" => rs'.cursor >= rs'.size
        /\ call'.written > 0
    BY <1>3, <1>6, <1>7, <1>c
  <2>3. rs'.cursor \in 1 .. rs'.size /\ seen'.n = rs'.first + rs'.cursor
    BY <1>2, <1>3, <1>4, <1>c
  <2> QED  BY <1>8, <2>1, <2>2, <2>3 DEF Calling
<1>11. StreamOver'
  <2>1. rs'.cursor >= -1 /\ rs'.cursor # -1
    BY <1>3, <1>c
  <2> QED  BY <1>8, <2>1 DEF StreamOver
<1>12. /\ Consumed' = c /\ Left /\ (Left' <=> c < rs.size)
       /\ Ahead' = Ahead /\ LastOf' = rs.of /\ LastRow' = rs.first + rs.size
       /\ LastOf = rs.of /\ LastRow = rs.first + rs.size
  <2>1. Consumed' = c /\ Left /\ (Left' <=> c < rs.size)
    BY <1>1, <1>2, <1>3, <1>8, <1>c DEF Consumed, Left
  <2>2. Ahead' = Ahead /\ LastOf = rs.of /\ LastRow = rs.first + rs.size
    BY <1>5, <2>1 DEF Ahead, LastOf, LastRow
  <2>3. LastOf' = rs.of /\ LastRow' = rs.first + rs.size
    BY <1>1, <1>2, <1>3, <1>4, <1>c, <2>1 DEF LastOf, LastRow
  <2> QED  BY <2>1, <2>2, <2>3
<1>13. Covered'
  BY <1>3, <1>4, <1>5, <1>12 DEF Covered, There
<1>14. OneResult'
  BY <1>2, <1>3, <1>4, <1>5, <1>12, <1>c DEF OneResult, There
<1>15. NoDataMeansAll' /\ CursorOnLastRow'
  BY <1>2, <1>5 DEF NoDataMeansAll, CursorOnLastRow
<1> QED  BY <1>9, <1>10, <1>11, <1>13, <1>14, <1>15

\* A token stands for a page that another one follows; there is no stream
\* without HTAPI.
Marks ==
  /\ token \in [of : Source \cup {NoSource}, page : Nat]
  /\ stream \in [of : Source \cup {NoSource}, page : Nat]
  /\ token # Nowhere =>
       token.of \in Source /\ token.page \in 1 .. Len(Upto[token.of]) - 1
  /\ stream # Nowhere =>
       stream.of \in Source /\ stream.page \in 1 .. Ended(stream.of) /\ htapi

LEMMA MarksHold ==
  ASSUME IInv
  PROVE  /\ Marks
         /\ UNCHANGED <<token, stream, htapi>> => Marks'
<1>1. Marks
  BY DEF IInv, TypeOK, Calling, Marks
<1> QED  BY <1>1 DEF Marks

\* What the end of WriteRowset leaves: the cursor is stepped back if there is
\* a row to step back to.
LEMMA ReturnShape ==
  ASSUME IInv, ~Idle, NEW r, NEW code \in {"SUCCESS", "NO_DATA", "ERROR"}, NEW b,
         r \in [of : Source \cup {NoSource}, first : Nat, size : Nat, cursor : Int],
         Return(r, code),
         b = IF call.written > 0 THEN r.cursor - 1 ELSE r.cursor,
         scripted' = scripted, maxRows' = maxRows, htapi' = htapi,
         open' \in {open, FALSE}, Marks',
         seen' \in [of : Source \cup {NoSource}, n : Nat, cut : BOOLEAN, clean : BOOLEAN, whole : BOOLEAN]
  PROVE  /\ rs'.of = r.of /\ rs'.first = r.first /\ rs'.size = r.size /\ rs'.cursor = b
         /\ Idle' /\ reply' = code /\ b \in Int
         /\ TypeOK' /\ Calling'
         /\ Consumed' = IF b + 1 < 0 THEN 0
                        ELSE IF b + 1 > r.size THEN r.size ELSE b + 1
<1> USE DEF IInv
<1>1. call \in [pc : {"idle", "write", "page", "leave"}, rowset : Nat, written : Nat]
  BY InFetch
<1>2. b \in Int
  BY <1>1
<1>3. rs' = [r EXCEPT !.cursor = b]
  <2>1. r = [r EXCEPT !.cursor = r.cursor]
    OBVIOUS
  <2> QED  BY <2>1 DEF Return, SteppedBack
<1>4. /\ rs'.of = r.of /\ rs'.first = r.first /\ rs'.size = r.size /\ rs'.cursor = b
      /\ rs' \in [of : Source \cup {NoSource}, first : Nat, size : Nat, cursor : Int]
  BY <1>2, <1>3
<1>5. call' = IdleCall /\ reply' = code /\ Idle'
  BY DEF Return, IdleCall, Idle
<1>6. IdleCall \in [pc : {"idle", "write", "page", "leave"}, rowset : Nat, written : Nat]
  BY DEF IdleCall
<1>7. TypeOK'
  BY <1>4, <1>5, <1>6 DEF TypeOK, Marks
<1>8. Calling'
  BY <1>5 DEF Calling, IdleCall, Marks
<1>9. Consumed' = IF b + 1 < 0 THEN 0
                  ELSE IF b + 1 > r.size THEN r.size ELSE b + 1
  BY <1>4, <1>5 DEF Consumed
<1> QED  BY <1>2, <1>4, <1>5, <1>7, <1>8, <1>9

\* A row that cannot be converted is passed over only if it is the first of
\* its rowset.
LEMMA RowFailsKeeps ==
  ASSUME IInv, RowFetchAssumption, RowFails
  PROVE  IInv'
<1> USE DEF IInv
<1>1. /\ call.pc = "write" /\ rs.cursor >= 0 /\ rs.cursor < rs.size /\ ~Idle
  BY DEF RowFails, Calling, Idle
<1>2. /\ open
      /\ rs \in [of : Source \cup {NoSource}, first : Nat, size : Nat, cursor : Int]
      /\ seen \in [of : Source \cup {NoSource}, n : Nat, cut : BOOLEAN, clean : BOOLEAN, whole : BOOLEAN]
      /\ call \in [pc : {"idle", "write", "page", "leave"}, rowset : Nat, written : Nat]
      /\ Consumed = rs.cursor
  BY <1>1, InFetch
<1> DEFINE b == IF call.written > 0 THEN rs.cursor - 1 ELSE rs.cursor
<1>3. /\ Return(rs, "ERROR")
      /\ UNCHANGED <<open, scripted, token, stream, maxRows, htapi>>
  BY DEF RowFails, settings
<1>4. /\ seen'.cut = seen.cut /\ seen'.clean = seen.clean
      /\ seen' \in [of : Source \cup {NoSource}, n : Nat, cut : BOOLEAN, clean : BOOLEAN, whole : BOOLEAN]
      /\ call.written > 0 => seen'.of = seen.of /\ seen'.n = seen.n
      /\ ~(call.written > 0) => seen'.of = rs.of /\ seen'.n = rs.first + rs.cursor + 1
  <2>1. seen' = IF call.written > 0 THEN seen
                ELSE [seen EXCEPT !.of = rs.of, !.n = rs.first + rs.cursor + 1]
    BY DEF RowFails
  <2>2. rs.first + rs.cursor + 1 \in Nat /\ rs.of \in Source \cup {NoSource}
    BY <1>1, <1>2
  <2> QED  BY <1>2, <2>1, <2>2
<1>5. /\ rs'.of = rs.of /\ rs'.first = rs.first /\ rs'.size = rs.size /\ rs'.cursor = b
      /\ Idle' /\ reply' = "ERROR" /\ b \in Int /\ TypeOK' /\ Calling'
      /\ Consumed' = IF b + 1 < 0 THEN 0 ELSE IF b + 1 > rs.size THEN rs.size ELSE b + 1
  <2> HIDE DEF b
  <2>1. b = IF call.written > 0 THEN rs.cursor - 1 ELSE rs.cursor
    BY DEF b
  <2>2. Marks'
    BY <1>3, MarksHold
  <2> QED  BY <1>1, <1>2, <1>3, <1>4, <2>1, <2>2, ReturnShape
<1>6. b >= -1 /\ Consumed' = IF call.written > 0 THEN rs.cursor ELSE rs.cursor + 1
  BY <1>1, <1>2, <1>5
<1>7. StreamOver'
  BY <1>5, <1>6 DEF StreamOver
<1>8. /\ Ahead' = Ahead
      /\ LastOf = rs.of /\ LastRow = rs.first + rs.size
      /\ LastOf' = rs.of /\ LastRow' = rs.first + rs.size
  <2>1. Ahead' = Ahead
    BY <1>3 DEF Ahead
  <2>2. Left /\ LastOf = rs.of /\ LastRow = rs.first + rs.size
    BY <1>1, <1>2 DEF Left, LastOf, LastRow
  <2>3. ~Left' => ~(call.written > 0) /\ rs.cursor + 1 = rs.size
    BY <1>1, <1>2, <1>5, <1>6 DEF Left
  <2>4. ~Left' => seen'.of = rs.of /\ seen'.n = rs.first + rs.size
    BY <1>2, <1>4, <2>3
  <2> QED  BY <1>5, <2>1, <2>2, <2>4 DEF LastOf, LastRow
<1>9. Covered'
  BY <1>2, <1>3, <1>4, <1>5, <1>8 DEF Covered, There
<1>10. OneResult'
  <2>1. ASSUME seen.clean PROVE seen'.of = rs.of
    BY <1>2, <1>4, <2>1 DEF OneResult
  <2>2. ASSUME seen.clean, call.written > 0
        PROVE  \/ seen'.n = rs.first + Consumed'
               \/ seen.cut /\ seen'.n <= rs.first + Consumed'
    BY <1>1, <1>2, <1>4, <1>6, <2>2 DEF OneResult, Left
  <2>3. ~(call.written > 0) => seen'.n = rs.first + Consumed'
    BY <1>2, <1>4, <1>6
  <2> QED  BY <1>2, <1>3, <1>4, <1>5, <1>8, <2>1, <2>2, <2>3 DEF OneResult, There
<1>11. NoDataMeansAll' /\ CursorOnLastRow'
  BY <1>5 DEF NoDataMeansAll, CursorOnLastRow
<1> QED  BY <1>5, <1>7, <1>9, <1>10, <1>11

\* A rowset that ends with the rows at hand as they are: it is full, the fetch
\* finds nothing more, or the cursor is still before the first row of nothing.
LEMMA LeaveKeeps ==
  ASSUME IInv, RowFetchAssumption, NoRowAtCursor \/ LeaveRowset \/ NoPageLeft
  PROVE  IInv'
<1> USE DEF IInv
<1>1. ~Idle
  BY DEF NoRowAtCursor, LeaveRowset, NoPageLeft, WantsPage, Idle
<1>2. /\ open
      /\ rs \in [of : Source \cup {NoSource}, first : Nat, size : Nat, cursor : Int]
      /\ seen \in [of : Source \cup {NoSource}, n : Nat, cut : BOOLEAN, clean : BOOLEAN, whole : BOOLEAN]
      /\ call \in [pc : {"idle", "write", "page", "leave"}, rowset : Nat, written : Nat]
      /\ rs.cursor >= -1
      /\ Consumed = IF rs.cursor < 0 THEN 0
                    ELSE IF rs.cursor > rs.size THEN rs.size ELSE rs.cursor
  BY <1>1, InFetch
<1>3. PICK code \in {"SUCCESS", "NO_DATA"} :
        /\ Return(rs, code)
        /\ code = "SUCCESS" <=> call.written > 0
  BY DEF NoRowAtCursor, LeaveRowset, NoPageLeft, NoMoreRows, Calling
<1>4. /\ UNCHANGED <<open, scripted, token, stream, maxRows, htapi, seen>>
  BY DEF NoRowAtCursor, LeaveRowset, NoPageLeft, settings
<1> DEFINE b == IF call.written > 0 THEN rs.cursor - 1 ELSE rs.cursor
<1>5. b = IF call.written > 0 THEN rs.cursor - 1 ELSE rs.cursor
  OBVIOUS
<1> HIDE DEF b
<1>6. /\ rs'.of = rs.of /\ rs'.first = rs.first /\ rs'.size = rs.size /\ rs'.cursor = b
      /\ Idle' /\ reply' = code /\ b \in Int /\ TypeOK' /\ Calling'
      /\ Consumed' = IF b + 1 < 0 THEN 0 ELSE IF b + 1 > rs.size THEN rs.size ELSE b + 1
  <2>1. Marks'
    BY <1>4, MarksHold
  <2> QED  BY <1>1, <1>2, <1>3, <1>4, <1>5, <2>1, ReturnShape
\* With rows written, the cursor has passed the last of them; without, there
\* is no row left and nothing follows.
<1>7. call.written > 0 => rs.cursor \in 1 .. rs.size /\ seen.n = rs.first + rs.cursor
  <2>1. NoRowAtCursor => call.written = 0
    BY DEF NoRowAtCursor, Calling
  <2>2. LeaveRowset \/ NoPageLeft => call.pc \in {"page", "leave"}
    BY DEF LeaveRowset, NoPageLeft, WantsPage
  <2> QED  BY <1>2, <2>1, <2>2 DEF Calling
<1>8. ~(call.written > 0) =>
        /\ ~seen.whole \/ Complete
        /\ rs.cursor >= rs.size \/ rs.cursor = -1
  <2>1. CASE NoRowAtCursor
    <3>1. rs.cursor = -1
      BY <1>2, <2>1 DEF NoRowAtCursor
    <3> QED  BY <1>1, <1>2, <3>1 DEF StreamOver
  <2>2. CASE NoPageLeft
    <3>1. rs.cursor >= rs.size /\ stream = Nowhere /\ token = Nowhere
      BY <2>2 DEF NoPageLeft, WantsPage, WasHtapiEnabled, Calling
    <3>2. ~Left /\ Ahead = Nowhere
      BY <1>2, <3>1 DEF Left, Ahead
    <3>3. LastOf = seen.of /\ LastRow = seen.n
      BY <3>2 DEF LastOf, LastRow
    <3>4. LastOf \in Source /\ (seen.cut \/ LastRow = Total(LastOf))
      BY <1>2, <3>2 DEF Covered
    <3>5. Complete
      BY <3>3, <3>4 DEF Complete
    <3> QED  BY <3>1, <3>5
  <2>3. LeaveRowset => call.written > 0
    BY DEF LeaveRowset, Calling
  <2> QED  BY <2>1, <2>2, <2>3
<1>9. Consumed' = Consumed
  <2>1. CASE call.written > 0
    BY <1>2, <1>5, <1>6, <1>7, <2>1
  <2>2. CASE ~(call.written > 0)
    BY <1>2, <1>5, <1>6, <1>8, <2>2
  <2> QED  BY <2>1, <2>2
<1>10. /\ Left' = Left /\ Ahead' = Ahead /\ LastOf' = LastOf /\ LastRow' = LastRow
  BY <1>4, <1>6, <1>9 DEF Left, Ahead, LastOf, LastRow
<1>11. Covered' /\ OneResult'
  BY <1>4, <1>6, <1>9, <1>10 DEF Covered, OneResult, There
<1>12. StreamOver'
  <2>1. b >= -1
    BY <1>2, <1>5, <1>7
  <2> QED  BY <1>6, <2>1 DEF StreamOver
<1>13. NoDataMeansAll'
  <2>1. CASE call.written > 0
    BY <1>3, <1>6, <2>1 DEF NoDataMeansAll
  <2>2. CASE ~(call.written > 0)
    BY <1>4, <1>8, <2>2 DEF NoDataMeansAll, Complete, RowFetchAssumption
  <2> QED  BY <2>1, <2>2
<1>14. CursorOnLastRow'
  <2>1. CASE call.written > 0
    <3>1. rs'.cursor \in 0 .. rs'.size - 1 /\ rs'.first + rs'.cursor + 1 = seen'.n
      <4>1. b = rs.cursor - 1 /\ rs.cursor \in 1 .. rs.size /\ seen.n = rs.first + rs.cursor
        BY <1>5, <1>7, <2>1
      <4>2. b \in 0 .. rs.size - 1 /\ rs.first + b + 1 = seen.n
        <5>1. rs.cursor \in Int /\ rs.size \in Nat /\ rs.first \in Nat
          BY <1>2
        <5> QED  BY <4>1, <5>1
      <4> QED  BY <1>4, <1>6, <4>2
    <3> QED  BY <3>1 DEF CursorOnLastRow
  <2>2. CASE ~(call.written > 0)
    BY <1>3, <1>6, <2>2 DEF CursorOnLastRow
  <2> QED  BY <2>1, <2>2
<1> QED  BY <1>6, <1>11, <1>12, <1>13, <1>14

\* Rows with another length and cursor.
LEMMA Emptied ==
  ASSUME NEW r \in [of : Source \cup {NoSource}, first : Nat, size : Nat, cursor : Int],
         NEW z \in Nat, NEW m \in Int
  PROVE  LET q == [r EXCEPT !.size = z, !.cursor = m]
         IN  /\ q \in [of : Source \cup {NoSource}, first : Nat, size : Nat, cursor : Int]
             /\ q.of = r.of /\ q.first = r.first /\ q.size = z /\ q.cursor = m
OBVIOUS

\* ReadNextResultsFromStream at the end of the stream.
LEMMA StreamEndsKeeps ==
  ASSUME IInv, RowFetchAssumption, StreamEnds
  PROVE  IInv'
<1> USE DEF IInv
<1>1. ~Idle /\ stream # Nowhere /\ call.pc = "page"
  BY DEF StreamEnds, WantsBatch, WasHtapiEnabled, Idle
<1>2. /\ open
      /\ rs \in [of : Source \cup {NoSource}, first : Nat, size : Nat, cursor : Int]
      /\ seen \in [of : Source \cup {NoSource}, n : Nat, cut : BOOLEAN, clean : BOOLEAN, whole : BOOLEAN]
      /\ call \in [pc : {"idle", "write", "page", "leave"}, rowset : Nat, written : Nat]
      /\ Consumed = IF rs.cursor < 0 THEN 0
                    ELSE IF rs.cursor > rs.size THEN rs.size ELSE rs.cursor
  BY <1>1, InFetch
<1>3. stream.of \in Source /\ stream.page \in 1 .. Ended(stream.of) /\ htapi
  BY <1>1, MarksHold DEF Marks
<1>4. There(stream) = Total(stream.of)
  <2>1. stream.page >= Len(Upto[stream.of])
    BY DEF StreamEnds
  <2> QED  BY <1>3, <2>1, PageEnds DEF There, Total, Ended
<1>5. ~Left /\ Ahead = stream
  BY <1>1, <1>2 DEF Left, Ahead, Calling
<1>6. Complete
  BY <1>2, <1>4, <1>5 DEF Covered, LastOf, LastRow, Complete
<1> DEFINE r == [rs EXCEPT !.size = 0, !.cursor = -1]
<1>7. /\ r \in [of : Source \cup {NoSource}, first : Nat, size : Nat, cursor : Int]
      /\ r.of = rs.of /\ r.first = rs.first /\ r.size = 0 /\ r.cursor = -1
  <2>1. 0 \in Nat /\ -1 \in Int
    OBVIOUS
  <2> QED  BY <1>2, <2>1, Emptied
<1>8. PICK code \in {"SUCCESS", "NO_DATA"} : Return(r, code)
  BY DEF StreamEnds, NoMoreRows
<1>9. /\ UNCHANGED <<open, scripted, token, maxRows, htapi, seen>>
      /\ stream' = Nowhere
  BY DEF StreamEnds, settings
<1> DEFINE b == IF call.written > 0 THEN r.cursor - 1 ELSE r.cursor
<1>10. b = IF call.written > 0 THEN r.cursor - 1 ELSE r.cursor
  OBVIOUS
<1>11. b \in {-1, -2}
  BY <1>7
<1> HIDE DEF b, r
<1>12. /\ rs'.of = rs.of /\ rs'.size = 0 /\ rs'.cursor = b
       /\ Idle' /\ reply' = code /\ TypeOK' /\ Calling' /\ Consumed' = 0
  <2>1. Marks'
    BY <1>9, MarksHold DEF Marks, Nowhere
  <2>2. /\ rs'.of = r.of /\ rs'.size = r.size /\ rs'.cursor = b
        /\ Idle' /\ reply' = code /\ TypeOK' /\ Calling'
        /\ Consumed' = IF b + 1 < 0 THEN 0
                       ELSE IF b + 1 > r.size THEN r.size ELSE b + 1
    BY <1>1, <1>2, <1>7, <1>8, <1>9, <1>10, <2>1, ReturnShape
  <2> QED  BY <1>7, <1>11, <2>2
<1>13. Complete' = Complete
  BY <1>9 DEF Complete
<1>14. ~Left' /\ Ahead' = token /\ LastOf' = seen.of /\ LastRow' = seen.n
  BY <1>9, <1>12 DEF Left, Ahead, LastOf, LastRow
<1>15. Covered'
  BY <1>2, <1>6, <1>9, <1>12, <1>14 DEF Covered, Complete
<1>16. OneResult'
  BY <1>1, <1>2, <1>9, <1>12, <1>14 DEF OneResult
<1>17. StreamOver'
  BY <1>6, <1>11, <1>12, <1>13 DEF StreamOver
<1>18. NoDataMeansAll'
  BY <1>6, <1>13 DEF NoDataMeansAll, Complete, RowFetchAssumption
<1>19. CursorOnLastRow'
  BY <1>3, <1>9 DEF CursorOnLastRow
<1> QED  BY <1>12, <1>15, <1>16, <1>17, <1>18, <1>19

\* A batch of the stream is lost, or the stream has broken.
LEMMA ReadFailsKeeps ==
  ASSUME IInv, RowFetchAssumption, ReadFails
  PROVE  IInv'
<1> USE DEF IInv
<1>1. ~Idle /\ stream # Nowhere /\ call.pc = "page"
  BY DEF ReadFails, WantsBatch, WasHtapiEnabled, Idle
<1>2. /\ open
      /\ rs \in [of : Source \cup {NoSource}, first : Nat, size : Nat, cursor : Int]
      /\ seen \in [of : Source \cup {NoSource}, n : Nat, cut : BOOLEAN, clean : BOOLEAN, whole : BOOLEAN]
      /\ call \in [pc : {"idle", "write", "page", "leave"}, rowset : Nat, written : Nat]
      /\ rs.cursor >= -1
      /\ Consumed = IF rs.cursor < 0 THEN 0
                    ELSE IF rs.cursor > rs.size THEN rs.size ELSE rs.cursor
  BY <1>1, InFetch
<1> DEFINE s == stream.of
<1>3. /\ s \in Source /\ stream.page \in 1 .. Ended(s) /\ htapi
      /\ stream = [of |-> s, page |-> stream.page]
  BY <1>1, MarksHold DEF Marks
<1>4. Len(Upto[s]) \in Nat \ {0} /\ Ended(s) = Len(Upto[s]) + 1 /\ s # NoSource
  BY <1>3, PageEnds DEF Ended, RowFetchAssumption
<1>5. PICK p \in 1 .. Ended(s), n \in Nat :
        /\ stream' = [of |-> s, page |-> p]
        /\ There(stream') = n
        /\ seen' = IF seen.of = s THEN [seen EXCEPT !.n = n] ELSE seen
  <2>1. CASE /\ stream.page < Len(Upto[s])
             /\ stream' = [stream EXCEPT !.page = @ + 1]
             /\ Lost(s, Upto[s][stream.page + 1])
    <3> DEFINE p == stream.page + 1
    <3>1. p \in 1 .. Ended(s) /\ p \in 1 .. Len(Upto[s])
      BY <1>3, <1>4, <2>1
    <3>2. Upto[s][p] \in Nat
      BY <1>3, <3>1, PageEnds
    <3>3. stream' = [of |-> s, page |-> p]
      BY <1>3, <2>1
    <3>4. There(stream') = Upto[s][p]
      BY <1>3, <1>4, <3>1, <3>3 DEF There
    <3> QED  BY <2>1, <3>1, <3>2, <3>3, <3>4 DEF Lost
  <2>2. CASE /\ stream' = [stream EXCEPT !.page = Ended(s)]
             /\ Lost(s, Total(s))
    <3>1. stream' = [of |-> s, page |-> Ended(s)] /\ Ended(s) \in 1 .. Ended(s)
      BY <1>3, <1>4, <2>2
    <3>2. There(stream') = Total(s) /\ Total(s) \in Nat
      BY <1>3, <1>4, <3>1, PageEnds DEF There
    <3> QED  BY <2>2, <3>1, <3>2 DEF Lost
  <2> QED  BY <2>1, <2>2 DEF ReadFails
<1>6. /\ seen'.of = seen.of /\ seen'.cut = seen.cut /\ seen'.clean = seen.clean
      /\ seen'.n = IF seen.of = s THEN n ELSE seen.n
      /\ seen' \in [of : Source \cup {NoSource}, n : Nat, cut : BOOLEAN, clean : BOOLEAN, whole : BOOLEAN]
  BY <1>2, <1>5
<1>7. /\ Return(rs, "ERROR")
      /\ UNCHANGED <<open, scripted, token, maxRows, htapi>>
  BY DEF ReadFails, settings
<1> HIDE DEF s
<1> DEFINE b == IF call.written > 0 THEN rs.cursor - 1 ELSE rs.cursor
<1>8. b = IF call.written > 0 THEN rs.cursor - 1 ELSE rs.cursor
  OBVIOUS
<1> HIDE DEF b
<1>9. /\ rs'.of = rs.of /\ rs'.first = rs.first /\ rs'.size = rs.size /\ rs'.cursor = b
      /\ Idle' /\ reply' = "ERROR" /\ b \in Int /\ TypeOK' /\ Calling'
      /\ Consumed' = IF b + 1 < 0 THEN 0 ELSE IF b + 1 > rs.size THEN rs.size ELSE b + 1
  <2>1. Marks'
    BY <1>3, <1>4, <1>5, <1>7, MarksHold DEF Marks
  <2> QED  BY <1>1, <1>2, <1>6, <1>7, <1>8, <2>1, ReturnShape
<1>10. rs.cursor >= rs.size /\ b + 1 >= rs.size
  BY <1>1, <1>2, <1>8 DEF Calling
<1>11. /\ ~Left /\ ~Left' /\ Ahead = stream /\ Ahead' = stream' /\ stream' # Nowhere
       /\ LastOf = seen.of /\ LastRow = seen.n /\ LastOf' = seen.of /\ LastRow' = seen'.n
  <2>1. ~Left /\ ~Left'
    BY <1>2, <1>9, <1>10 DEF Left
  <2>2. stream' # Nowhere
    BY <1>4, <1>5 DEF Nowhere
  <2> QED  BY <1>1, <1>6, <2>1, <2>2 DEF Ahead, LastOf, LastRow
<1>12. stream'.of = s /\ s = stream.of
  BY <1>5 DEF s
<1>13. Covered'
  <2>1. CASE seen.of = s
    BY <1>2, <1>5, <1>6, <1>7, <1>9, <1>11, <1>12, <2>1 DEF Covered
  <2>2. CASE seen.of # s
    BY <1>2, <1>6, <1>7, <1>9, <1>11, <1>12, <2>2 DEF Covered
  <2> QED  BY <2>1, <2>2
<1>14. OneResult'
  <2>1. seen.clean => seen.of = s /\ rs.of = seen.of /\ token = Nowhere
    BY <1>1, <1>2, <1>11, <1>12 DEF OneResult
  <2>2. There(Ahead)' = There(Ahead')
    BY DEF There
  <2> QED  BY <1>5, <1>6, <1>7, <1>9, <1>11, <1>12, <2>1, <2>2 DEF OneResult
<1>15. StreamOver'
  <2>1. b >= -1
    BY <1>2, <1>9, <1>10
  <2> QED  BY <1>9, <2>1 DEF StreamOver
<1>16. NoDataMeansAll' /\ CursorOnLastRow'
  BY <1>9 DEF NoDataMeansAll, CursorOnLastRow
<1> QED  BY <1>9, <1>13, <1>14, <1>15, <1>16

\* A batch is left half converted: it is at hand, all of it before the cursor.
LEMMA HalfConvertedKeeps ==
  ASSUME IInv, RowFetchAssumption, BatchHalfConverted
  PROVE  IInv'
<1> USE DEF IInv
<1>1. ~Idle /\ stream # Nowhere /\ call.pc = "page"
  BY DEF BatchHalfConverted, WantsBatch, WasHtapiEnabled, Idle
<1>2. /\ open
      /\ rs \in [of : Source \cup {NoSource}, first : Nat, size : Nat, cursor : Int]
      /\ seen \in [of : Source \cup {NoSource}, n : Nat, cut : BOOLEAN, clean : BOOLEAN, whole : BOOLEAN]
      /\ call \in [pc : {"idle", "write", "page", "leave"}, rowset : Nat, written : Nat]
      /\ Consumed = IF rs.cursor < 0 THEN 0
                    ELSE IF rs.cursor > rs.size THEN rs.size ELSE rs.cursor
  BY <1>1, InFetch
<1> DEFINE s == stream.of
           p == stream.page + 1
           r == Batch(s, p)
<1>3. /\ s \in Source /\ stream.page \in Nat \ {0} /\ htapi
      /\ stream = [of |-> s, page |-> stream.page] /\ s # NoSource
  BY <1>1, MarksHold DEF Marks, RowFetchAssumption
<1>4. /\ Len(Upto[s]) \in Nat /\ p \in 1 .. Len(Upto[s]) /\ p > 1
      /\ p - 1 = stream.page /\ p \in 1 .. Ended(s) /\ stream.page <= Len(Upto[s])
  <2>1. stream.page < Len(Upto[s]) /\ Len(Upto[s]) \in Nat
    BY <1>3, PageEnds DEF BatchHalfConverted
  <2> QED  BY <1>3, <2>1 DEF Ended
<1>5. /\ r \in [of : Source \cup {NoSource}, first : Nat, size : Nat, cursor : Int]
      /\ r.of = s /\ r.cursor = -1 /\ r.size > 0
      /\ r.first + r.size = Upto[s][p] /\ r.first = Upto[s][stream.page]
  BY <1>3, <1>4, BatchShape
<1>6. /\ stream' = [of |-> s, page |-> p] /\ stream' # Nowhere
      /\ There(stream') = Upto[s][p] /\ There(stream) = Upto[s][stream.page]
  <2>1. stream' = [of |-> s, page |-> p]
    BY <1>3 DEF BatchHalfConverted
  <2> QED  BY <1>3, <1>4, <2>1 DEF There, Nowhere
<1>7. /\ seen'.of = seen.of /\ seen'.n = seen.n /\ seen'.cut = seen.cut
      /\ seen'.clean = seen.clean /\ seen'.whole = FALSE
      /\ seen' \in [of : Source \cup {NoSource}, n : Nat, cut : BOOLEAN, clean : BOOLEAN, whole : BOOLEAN]
  <2>1. seen' = [seen EXCEPT !.whole = FALSE]
    BY DEF BatchHalfConverted
  <2> QED  BY <1>2, <2>1
<1>8. /\ Return(r, "ERROR")
      /\ UNCHANGED <<open, scripted, token, maxRows, htapi>>
  BY DEF BatchHalfConverted, settings
<1>9. s = stream.of
  OBVIOUS
<1> HIDE DEF s, p, r
<1> DEFINE b == IF call.written > 0 THEN r.cursor - 1 ELSE r.cursor
<1>10. /\ b = IF call.written > 0 THEN r.cursor - 1 ELSE r.cursor
       /\ b \in {-1, -2}
  BY <1>5
<1> HIDE DEF b
<1>11. /\ rs'.of = s /\ rs'.first = r.first /\ rs'.size = r.size /\ rs'.cursor = b
       /\ Idle' /\ reply' = "ERROR" /\ TypeOK' /\ Calling' /\ Consumed' = 0
  <2>1. Marks'
    BY <1>3, <1>4, <1>6, <1>8, MarksHold DEF Marks
  <2>2. /\ rs'.of = r.of /\ rs'.first = r.first /\ rs'.size = r.size /\ rs'.cursor = b
        /\ Idle' /\ reply' = "ERROR" /\ TypeOK' /\ Calling'
        /\ Consumed' = IF b + 1 < 0 THEN 0
                       ELSE IF b + 1 > r.size THEN r.size ELSE b + 1
    BY <1>1, <1>2, <1>5, <1>7, <1>8, <1>10, <2>1, ReturnShape
  <2> QED  BY <1>5, <1>10, <2>2
<1>12. /\ ~Left /\ Left' /\ Ahead = stream /\ Ahead' = stream'
       /\ LastOf = seen.of /\ LastRow = seen.n
       /\ LastOf' = s /\ LastRow' = There(stream')
  <2>1. ~Left
    BY <1>1, <1>2 DEF Left, Calling
  <2>2. Left'
    BY <1>5, <1>11 DEF Left
  <2>3. Ahead = stream /\ Ahead' = stream'
    BY <1>1, <1>6 DEF Ahead
  <2>4. LastOf = seen.of /\ LastRow = seen.n
    BY <2>1 DEF LastOf, LastRow
  <2>5. LastOf' = rs'.of /\ LastRow' = rs'.first + rs'.size
    BY <2>2 DEF LastOf, LastRow
  <2> QED  BY <1>5, <1>6, <1>11, <2>1, <2>2, <2>3, <2>4, <2>5
<1>13. There(Ahead)' = There(Ahead')
  BY DEF There
<1>14. Covered'
  BY <1>3, <1>6, <1>11, <1>12, <1>13 DEF Covered
<1>15. OneResult'
  <2>1. ASSUME seen.clean
        PROVE  /\ seen.of = s /\ token = Nowhere
               /\ seen.n = r.first \/ (seen.cut /\ seen.n <= r.first)
    BY <1>1, <1>2, <1>5, <1>6, <1>9, <1>12, <2>1 DEF OneResult
  <2>2. r.first + 0 = r.first
    BY <1>5
  <2>3. seen.clean => \/ seen'.n = rs'.first + Consumed'
                      \/ seen'.cut /\ seen'.n <= rs'.first + Consumed'
    BY <1>7, <1>11, <2>1, <2>2
  <2>4. stream'.of = s
    BY <1>6
  <2> QED  BY <1>7, <1>8, <1>11, <1>12, <1>13, <2>1, <2>3, <2>4 DEF OneResult
<1>16. StreamOver'
  BY <1>7, <1>10, <1>11 DEF StreamOver
<1>17. NoDataMeansAll' /\ CursorOnLastRow'
  BY <1>11 DEF NoDataMeansAll, CursorOnLastRow
<1> QED  BY <1>11, <1>14, <1>15, <1>16, <1>17

\* A page that cannot be fetched closes the cursor.
LEMMA FetchPageFailsKeeps ==
  ASSUME IInv, RowFetchAssumption, FetchPageFails
  PROVE  IInv'
<1> USE DEF IInv
<1>1. ~Idle /\ token # Nowhere
  BY DEF FetchPageFails, WantsPage, Idle
<1>2. /\ rs \in [of : Source \cup {NoSource}, first : Nat, size : Nat, cursor : Int]
      /\ seen \in [of : Source \cup {NoSource}, n : Nat, cut : BOOLEAN, clean : BOOLEAN, whole : BOOLEAN]
  BY <1>1, InFetch
<1> DEFINE r == [rs EXCEPT !.size = 0]
<1>3. r \in [of : Source \cup {NoSource}, first : Nat, size : Nat, cursor : Int]
  BY <1>2
<1>4. /\ Return(r, "ERROR") /\ open' = FALSE
      /\ token' \in {token, After(token.of, token.page + 1)}
      /\ UNCHANGED <<scripted, stream, maxRows, htapi, seen>>
  BY DEF FetchPageFails, settings
<1> HIDE DEF r
<1>5. Marks'
  <2>1. token.of \in Source /\ token.page + 1 \in 1 .. Len(Upto[token.of])
    BY <1>1, MarksHold, PageEnds DEF Marks
  <2>2. /\ After(token.of, token.page + 1) \in [of : Source \cup {NoSource}, page : Nat]
        /\ After(token.of, token.page + 1) # Nowhere =>
             /\ After(token.of, token.page + 1).of = token.of
             /\ After(token.of, token.page + 1).page \in 1 .. Len(Upto[token.of]) - 1
    BY <2>1, AfterPage
  <2> QED  BY <1>4, <2>1, <2>2, MarksHold DEF Marks
<1>6. TypeOK' /\ Calling' /\ reply' = "ERROR"
  BY <1>1, <1>2, <1>3, <1>4, <1>5, ReturnShape
<1> QED
  BY <1>4, <1>6 DEF StreamOver, Covered, OneResult, NoDataMeansAll, CursorOnLastRow

\* The rows of a page with the cursor on the first one.
LEMMA AtFirstRow ==
  ASSUME NEW s, NEW first, NEW z, NEW m, NEW n
  PROVE  [[of |-> s, first |-> first, size |-> z, cursor |-> m] EXCEPT !.cursor = n]
           = [of |-> s, first |-> first, size |-> z, cursor |-> n]
OBVIOUS

\* A page or a batch arrives: its rows follow the last one seen.
LEMMA ArriveKeeps ==
  ASSUME IInv, RowFetchAssumption, ReadBatch \/ FetchPage
  PROVE  IInv'
<1> USE DEF IInv
<1>1. ~Idle /\ call.pc = "page" /\ Ahead # Nowhere
  BY DEF ReadBatch, FetchPage, WantsBatch, WantsPage, WasHtapiEnabled, Idle, Ahead
<1>2. /\ open /\ reply = "none"
      /\ rs \in [of : Source \cup {NoSource}, first : Nat, size : Nat, cursor : Int]
      /\ seen \in [of : Source \cup {NoSource}, n : Nat, cut : BOOLEAN, clean : BOOLEAN, whole : BOOLEAN]
      /\ call \in [pc : {"idle", "write", "page", "leave"}, rowset : Nat, written : Nat]
      /\ Consumed = IF rs.cursor < 0 THEN 0
                    ELSE IF rs.cursor > rs.size THEN rs.size ELSE rs.cursor
  BY <1>1, InFetch
<1> DEFINE s == Ahead.of
<1> DEFINE p == Ahead.page + 1
<1>3. /\ s \in Source /\ p \in 2 .. Len(Upto[s]) /\ Ahead.page \in 1 .. Len(Upto[s])
      /\ Len(Upto[s]) \in Nat
      /\ Ahead = [of |-> s, page |-> Ahead.page]
  <2>1. CASE ReadBatch
    <3>1. Ahead = stream /\ stream # Nowhere /\ stream.page < Len(Upto[stream.of])
      BY <2>1 DEF ReadBatch, WantsBatch, WasHtapiEnabled, Ahead
    <3> QED  BY <3>1, MarksHold, PageEnds DEF Marks, Ended
  <2>2. CASE FetchPage
    <3>1. Ahead = token /\ token # Nowhere
      BY <2>2 DEF FetchPage, WantsPage, WasHtapiEnabled, Ahead
    <3>2. /\ token \in [of : Source \cup {NoSource}, page : Nat]
          /\ token.of \in Source /\ token.page \in 1 .. Len(Upto[token.of]) - 1
      BY <3>1, MarksHold DEF Marks
    <3>3. Len(Upto[token.of]) \in Nat
      BY <3>2, PageEnds
    <3> QED  BY <3>1, <3>2, <3>3
  <2> QED  BY <2>1, <2>2
<1>4. Arrives(s, p)
  BY DEF ReadBatch, FetchPage, WantsBatch, WantsPage, WasHtapiEnabled, Ahead
<1>5. \/ stream # Nowhere /\ stream' = [of |-> s, page |-> p] /\ token' = token
      \/ stream = Nowhere /\ stream' = Nowhere /\ token' = After(s, p)
  <2>1. CASE ReadBatch
    <3>1. Ahead = stream /\ stream # Nowhere
      BY <2>1 DEF ReadBatch, WantsBatch, WasHtapiEnabled, Ahead
    <3>2. stream' = [stream EXCEPT !.page = @ + 1] /\ token' = token
      BY <2>1 DEF ReadBatch
    <3> QED  BY <1>3, <3>1, <3>2
  <2>2. CASE FetchPage
    BY <2>2 DEF FetchPage, WantsPage, WasHtapiEnabled, Ahead
  <2> QED  BY <2>1, <2>2
<1>6. /\ Upto[s][p] \in Nat /\ Upto[s][p - 1] \in Nat /\ Upto[s][p - 1] < Upto[s][p]
      /\ Begin(s, p) = Upto[s][p - 1] /\ p - 1 = Ahead.page
  <2>1. p \in 1 .. Len(Upto[s]) /\ p - 1 \in 1 .. Len(Upto[s]) /\ p - 1 = Ahead.page
    BY <1>3
  <2> QED  BY <1>3, <2>1, PageEnds
<1> DEFINE first == Upto[s][p - 1]
<1> DEFINE last == Upto[s][p]
<1> DEFINE z == Page(s, p).size
<1>7. /\ z \in Nat /\ z > 0 /\ first + z <= last
      /\ first + z < last => maxRows > 0
      /\ Page(s, p) = [of |-> s, first |-> first, size |-> z, cursor |-> -1]
  BY <1>6, RowsAtHand DEF Page
<1>8. /\ There(Ahead) = first
      /\ There([of |-> s, page |-> p]) = last
  BY <1>3, <1>6 DEF There
<1>9. /\ s # NoSource
      /\ After(s, p) \in [of : Source \cup {NoSource}, page : Nat]
      /\ After(s, p) # Nowhere =>
           /\ After(s, p).of = s /\ After(s, p).page \in 1 .. Len(Upto[s]) - 1
           /\ There(After(s, p)) = last
      /\ After(s, p) = Nowhere => last = Total(s)
  <2>1. p \in 1 .. Len(Upto[s])
    BY <1>3
  <2> QED  BY <1>3, <2>1, AfterPage DEF RowFetchAssumption
<1>10. first \in Nat /\ last \in Nat /\ p \in Nat /\ p \in 1 .. Ended(s)
  BY <1>3, <1>6 DEF Ended
<1>11. s = Ahead.of
  OBVIOUS
<1> HIDE DEF s, p, first, last, z
<1>12. /\ rs' = [of |-> s, first |-> first, size |-> z, cursor |-> 0]
       /\ call' = [call EXCEPT !.pc = "write"] /\ call'.pc = "write"
       /\ call'.written = call.written /\ call'.rowset = call.rowset
       /\ open' = TRUE /\ ~Idle'
       /\ UNCHANGED <<scripted, maxRows, htapi, reply>>
  <2>1. /\ rs' = [Page(s, p) EXCEPT !.cursor = 0]
        /\ call' = [call EXCEPT !.pc = "write"] /\ open' = TRUE
        /\ UNCHANGED <<scripted, maxRows, htapi, reply>>
    BY <1>4 DEF Arrives, settings
  <2>2. rs' = [of |-> s, first |-> first, size |-> z, cursor |-> 0]
    BY <1>7, <2>1, AtFirstRow
  <2>3. /\ call'.pc = "write" /\ call'.written = call.written
        /\ call'.rowset = call.rowset
    BY <1>2, <2>1
  <2> QED  BY <2>1, <2>2, <2>3 DEF Idle
<1>13. /\ seen'.of = seen.of /\ seen'.n = seen.n /\ seen'.clean = seen.clean
       /\ seen'.cut <=> (seen.cut \/ maxRows > 0)
       /\ seen' \in [of : Source \cup {NoSource}, n : Nat, cut : BOOLEAN, clean : BOOLEAN, whole : BOOLEAN]
  <2>1. seen' = [seen EXCEPT !.cut = seen.cut \/ maxRows > 0]
    BY <1>4 DEF Arrives
  <2> QED  BY <1>2, <2>1
<1>14. Marks'
  <2>1. CASE stream # Nowhere
    <3>1. stream' = [of |-> s, page |-> p] /\ token' = token
      BY <1>5, <2>1
    <3>2. stream' \in [of : Source \cup {NoSource}, page : Nat]
      BY <1>3, <1>10, <3>1
    <3>3. stream'.of \in Source /\ stream'.page \in 1 .. Ended(stream'.of)
      BY <1>3, <1>10, <3>1
    <3>4. htapi'
      BY <1>12, <2>1, MarksHold DEF Marks
    <3> QED  BY <3>1, <3>2, <3>3, <3>4, MarksHold DEF Marks
  <2>2. CASE stream = Nowhere
    BY <1>3, <1>5, <1>9, <1>12, <2>2, MarksHold DEF Marks
  <2> QED  BY <2>1, <2>2
<1>15. TypeOK'
  <2>1. rs' \in [of : Source \cup {NoSource}, first : Nat, size : Nat, cursor : Int]
    BY <1>3, <1>7, <1>10, <1>12
  <2>2. call' \in [pc : {"idle", "write", "page", "leave"}, rowset : Nat, written : Nat]
    BY <1>2, <1>12
  <2> QED  BY <1>12, <1>13, <1>14, <2>1, <2>2 DEF TypeOK, Marks
<1>16. Calling'
  <2>1. rs'.cursor < rs'.size /\ ~(rs'.cursor < 0)
    BY <1>7, <1>12
  <2>2. call'.rowset > 0
    BY <1>1, <1>12 DEF Calling
  <2> QED  BY <1>2, <1>12, <1>14, <2>1, <2>2 DEF Calling, Marks
<1>17. StreamOver'
  BY <1>12 DEF StreamOver
<1>18. ~Left /\ LastOf = seen.of /\ LastRow = seen.n
  <2>1. ~Left
    BY <1>1, <1>2 DEF Left, Calling
  <2> QED  BY <2>1 DEF LastOf, LastRow
<1>19. Consumed' = 0 /\ Left' /\ LastOf' = s /\ LastRow' = first + z
  <2>1. Consumed' = 0 /\ Left'
    BY <1>7, <1>12 DEF Consumed, Left
  <2> QED  BY <1>12, <2>1 DEF LastOf, LastRow
<1>20. /\ first + z = last \/ seen'.cut
       /\ Ahead' # Nowhere /\ seen.clean => Ahead'.of = s
       /\ \/ Ahead' # Nowhere /\ Ahead'.of = s /\ last = There(Ahead')
          \/ last = Total(s) /\ Ahead' = Nowhere
  <2>1. first + z = last \/ seen'.cut
    BY <1>7, <1>10, <1>13
  <2>2. CASE stream # Nowhere
    <3>1. Ahead' = [of |-> s, page |-> p] /\ Ahead' # Nowhere
      BY <1>5, <1>9, <2>2 DEF Ahead, Nowhere
    <3> QED  BY <1>8, <2>1, <3>1
  <2>3. CASE stream = Nowhere
    <3>1. Ahead' = After(s, p)
      BY <1>5, <2>3 DEF Ahead
    <3> QED  BY <1>9, <2>1, <3>1
  <2> QED  BY <2>2, <2>3
<1>21. Covered'
  <2>1. There(Ahead)' = There(Ahead')
    BY DEF There
  <2>2. seen'.cut \/ LastRow' = last
    BY <1>19, <1>20
  <2> QED  BY <1>3, <1>12, <1>19, <1>20, <2>1, <2>2 DEF Covered
<1>22. OneResult'
  <2>1. There(Ahead)' = There(Ahead')
    BY DEF There
  <2>2. ASSUME seen.clean
        PROVE  /\ seen.of = s
               /\ seen.n = first \/ (seen.cut /\ seen.n <= first)
               /\ stream # Nowhere => token = Nowhere
    BY <1>1, <1>2, <1>8, <1>11, <1>18, <2>2 DEF OneResult
  <2>3. first + z <= last
    BY <1>7
  <2>4. stream' # Nowhere /\ seen.clean => token' = Nowhere
    BY <1>5, <2>2
  <2>5. first + 0 = first
    BY <1>10
  <2>6. Ahead' # Nowhere /\ seen.clean =>
          /\ Ahead'.of = s
          /\ LastRow' = There(Ahead') \/ (seen'.cut /\ LastRow' <= There(Ahead'))
    BY <1>19, <1>20, <2>3
  <2>7. seen.clean => \/ seen'.n = rs'.first + Consumed'
                      \/ seen'.cut /\ seen'.n <= rs'.first + Consumed'
    BY <1>12, <1>13, <1>19, <2>2, <2>5
  <2>8. seen.clean => rs'.of = seen'.of
    BY <1>12, <1>13, <2>2
  <2> QED  BY <1>13, <2>1, <2>2, <2>4, <2>6, <2>7, <2>8 DEF OneResult
<1>23. NoDataMeansAll' /\ CursorOnLastRow'
  BY <1>2, <1>12 DEF NoDataMeansAll, CursorOnLastRow
<1> QED  BY <1>15, <1>16, <1>17, <1>21, <1>22, <1>23

-----------------------------------------------------------------------------
(* The theorems.                                                           *)

LEMMA InitIInv == ASSUME RowFetchAssumption, Init PROVE IInv
<1>1. TypeOK
  <2>1. /\ NoRows \in [of : Source \cup {NoSource}, first : Nat, size : Nat, cursor : Int]
        /\ Nowhere \in [of : Source \cup {NoSource}, page : Nat]
        /\ IdleCall \in [pc : {"idle", "write", "page", "leave"}, rowset : Nat, written : Nat]
    BY DEF NoRows, Nowhere, IdleCall
  <2>2. seen \in [of : Source \cup {NoSource}, n : Nat, cut : BOOLEAN, clean : BOOLEAN, whole : BOOLEAN]
    BY DEF Init
  <2> QED  BY <2>1, <2>2 DEF Init, TypeOK
<1>2. Calling
  BY DEF Init, Calling, Idle, IdleCall
<1> QED
  BY <1>1, <1>2
  DEF IInv, Init, StreamOver, Covered, OneResult, NoDataMeansAll, CursorOnLastRow

LEMMA NextIInv == ASSUME RowFetchAssumption, IInv, [Next]_vars PROVE IInv'
<1>1. CASE UNCHANGED vars
  <2> USE <1>1 DEF vars, settings, IInv
  <2>1. TypeOK' /\ Calling' /\ StreamOver'
    BY DEF TypeOK, Calling, StreamOver, Complete, Idle
  <2>2. /\ Consumed' = Consumed /\ Left' = Left /\ Ahead' = Ahead
        /\ LastOf' = LastOf /\ LastRow' = LastRow
    BY DEF Consumed, Left, Ahead, LastOf, LastRow, Idle
  <2>3. Covered' /\ OneResult'
    BY <2>2 DEF Covered, OneResult, There
  <2>4. NoDataMeansAll' /\ CursorOnLastRow'
    BY DEF NoDataMeansAll, CursorOnLastRow
  <2> QED  BY <2>1, <2>3, <2>4
<1>2. CASE FetchStep
  BY <1>2, WriteKeeps, RowFailsKeeps, LeaveKeeps, StreamEndsKeeps, ReadFailsKeeps,
     HalfConvertedKeeps, FetchPageFailsKeeps, ArriveKeeps
  DEF FetchStep
<1> QED  BY <1>1, <1>2, OpenKeeps, RestKeeps, FetchKeeps DEF Next

LEMMA Invariance == Spec => []IInv
<1>1. RowFetchAssumption
  BY RowFetchAssumption
<1> QED  BY <1>1, InitIInv, NextIInv, PTL DEF Spec

\* The statement's result set, page token and read stream stay well typed.
THEOREM TypeCorrect == Spec => []TypeOK
<1>1. IInv => TypeOK
  BY DEF IInv
<1> QED  BY <1>1, Invariance, PTL

\* WriteRowset copies the rows of the result in order, across pages, rowsets,
\* failures and closed cursors.
THEOREM InOrder == Spec => []RowsInOrder
<1>1. IInv => RowsInOrder
  <2>1. ASSUME IInv, call.pc = "write", rs.cursor >= 0, seen.clean
        PROVE  /\ rs.of = seen.of
               /\ \/ rs.first + rs.cursor = seen.n
                  \/ seen.cut /\ rs.first + rs.cursor > seen.n
    <3>1. ~Idle
      BY <2>1 DEF Idle
    <3>2. /\ open /\ rs.first \in Nat /\ rs.cursor \in Int /\ rs.size \in Nat /\ seen.n \in Nat
          /\ Consumed = IF rs.cursor < 0 THEN 0
                        ELSE IF rs.cursor > rs.size THEN rs.size ELSE rs.cursor
      BY <2>1, <3>1, InFetch
    <3>3. Consumed = rs.cursor /\ Left
      BY <2>1, <3>2 DEF IInv, Calling, Left
    <3> QED  BY <2>1, <3>2, <3>3 DEF IInv, OneResult
  <2> QED  BY <2>1 DEF RowsInOrder
<1> QED  BY <1>1, Invariance, PTL

\* SQL_NO_DATA means that the application got, or was told it lost, every row.
THEOREM NoDataAtTheEnd == Spec => []NoDataMeansAll
<1>1. IInv => NoDataMeansAll
  BY DEF IInv
<1> QED  BY <1>1, Invariance, PTL

\* SQLGetData after a successful SQLFetch over REST reads its last row.
THEOREM CursorAtLastRow == Spec => []CursorOnLastRow
<1>1. IInv => CursorOnLastRow
  BY DEF IInv
<1> QED  BY <1>1, Invariance, PTL
=============================================================================
