------------------------------ MODULE RowFetch ------------------------------
(***************************************************************************)
(* The rows of one statement: the ResultSet it keeps (one page of rows and *)
(* a cursor), the page token of a REST result, the read stream of an HTAPI *)
(* one, and the calls that open, walk and close a result                   *)
(* (odbc_sql_fetch.cc, odbc_sql_execute_utils.cc, odbc_sql_results.cc).    *)
(*                                                                         *)
(* SQLFetch is modelled row by row: WriteRowset copies a rowset to the     *)
(* application's buffers and asks for another page in the middle of it.    *)
(* A row is known by its source and its number.  Pages are told by their   *)
(* ends: page p of source s holds the rows Begin(s, p) + 1 .. Upto[s][p].  *)
(***************************************************************************)
EXTENDS Integers, Sequences

CONSTANTS
  Source,          \* the results an application can open
  Kind,            \* [Source -> {"query", "script", "catalog"}]
  Upto,            \* [Source -> Seq(Nat)], the number of rows up to each page
  NoSource,
  Api,             \* the functions the application calls
  BatchesFail,     \* TRUE: the first batch of an HTAPI stream may be unreadable
  RowsetSizes,     \* values of SQL_ATTR_ROW_ARRAY_SIZE
  MaxRowsValues    \* values the application gives to SQL_ATTR_MAX_ROWS

Begin(s, p) == IF p = 1 THEN 0 ELSE Upto[s][p - 1]

\* The server sends no empty page, except the only one of an empty result.
ASSUME RowFetchAssumption ==
  /\ NoSource \notin Source
  /\ Kind \in [Source -> {"query", "script", "catalog"}]
  /\ Upto \in [Source -> Seq(Nat)]
  /\ \A s \in Source :
       /\ Len(Upto[s]) > 0
       /\ Len(Upto[s]) > 1 =>
            \A p \in DOMAIN Upto[s] : Begin(s, p) < Upto[s][p]
  /\ BatchesFail \in BOOLEAN
  /\ RowsetSizes \subseteq Nat \ {0}
  /\ MaxRowsValues \subseteq Nat

VARIABLES
  open,      \* the state is kStatementExecutedWithRs
  scripted,  \* job data of a script is left on the statement
  rs,        \* result_set_: its rows come from rs.of and start after rs.first
  token,     \* paging_info_: the last page taken of a job, if more follow
  stream,    \* read_rows_stream_ and its iterator: the last batch taken
  maxRows,   \* SQL_ATTR_MAX_ROWS
  htapi,     \* the connection allows HTAPI for large results
  call,      \* the fetch in progress
  seen,      \* the last row delivered or reported lost since the result opened,
             \* whether SQL_ATTR_MAX_ROWS may have cut one of its pages,
             \* whether no position of another result was left when it opened,
             \* and whether none of its batches was left half converted
  reply      \* what the last fetch returned

settings == <<maxRows, htapi>>
vars == <<open, scripted, rs, token, stream, maxRows, htapi, call, seen, reply>>

NoRows == [of |-> NoSource, first |-> 0, size |-> 0, cursor |-> -1]

Nowhere == [of |-> NoSource, page |-> 0]

IdleCall == [pc |-> "idle", rowset |-> 0, written |-> 0]

Init ==
  /\ open = FALSE
  /\ scripted = FALSE
  /\ rs = NoRows
  /\ token = Nowhere
  /\ stream = Nowhere
  /\ maxRows = 0
  /\ htapi \in BOOLEAN
  /\ call = IdleCall
  /\ seen = [of |-> NoSource, n |-> 0, cut |-> FALSE, clean |-> TRUE, whole |-> TRUE]
  /\ reply = "none"

Total(s) == Upto[s][Len(Upto[s])]

\* Where the iterator of a stream is after an error that ended the stream.
Ended(s) == Len(Upto[s]) + 1

\* Faulty variants: the last page has a token; the one before it has none.
AfterAny(s, p) == IF p <= Len(Upto[s]) THEN [of |-> s, page |-> p] ELSE Nowhere

AfterShort(s, p) ==
  IF p + 1 < Len(Upto[s]) THEN [of |-> s, page |-> p] ELSE Nowhere

\* The place a token stands for: none after the last page.
After(s, p) == IF p < Len(Upto[s]) THEN [of |-> s, page |-> p] ELSE Nowhere

\* SQL_ATTR_MAX_ROWS cuts the page at hand: num_rows_fetched_yet stays 0.
Truncated(n) == IF maxRows > 0 /\ maxRows < n THEN maxRows ELSE n

\* Rows first + 1 .. last of a source become the statement's rows.
Rows(s, first, last) ==
  [of |-> s, first |-> first, size |-> Truncated(last - first), cursor |-> -1]

Page(s, p) == Rows(s, Begin(s, p), Upto[s][p])

\* All the rows of a batch, before SQL_ATTR_MAX_ROWS is looked at.
Batch(s, p) ==
  [of |-> s, first |-> Begin(s, p), size |-> Upto[s][p] - Begin(s, p), cursor |-> -1]

-----------------------------------------------------------------------------
(* Opening and closing a result.                                           *)

Idle == call.pc = "idle"

\* clean: no page position of another result is left on the statement.
Opens(s, rows, clean) ==
  /\ rs' = rows
  /\ open' = TRUE
  /\ seen' = [of |-> s, n |-> 0, cut |-> maxRows > 0, clean |-> clean, whole |-> TRUE]
  /\ reply' = "none"
  /\ UNCHANGED <<settings, call>>

\* SQLExecute and SQLExecDirect are refused while a cursor is open (24000).
Executes(s) ==
  /\ "execute" \in Api
  /\ Idle
  /\ ~open

\* A connection that allows HTAPI uses it for results of several pages, and of
\* one page if the job is not complete in time.
ByRest(s) == Kind[s] = "query" /\ (htapi => Len(Upto[s]) = 1)
ByHtapi(s) == Kind[s] = "query" /\ htapi /\ Total(s) > 0

\* FetchBQData over REST: the first page and the token of the next one.
ExecuteRest(s) ==
  /\ Executes(s)
  /\ ByRest(s)
  /\ Opens(s, Page(s, 1), stream = Nowhere)
  /\ token' = After(s, 1)
  /\ UNCHANGED <<scripted, stream>>

\* FetchBQData over HTAPI: the first batch of the stream; the token goes.
ExecuteHtapi(s) ==
  /\ Executes(s)
  /\ ByHtapi(s)
  /\ Opens(s, Page(s, 1), TRUE)
  /\ token' = Nowhere
  /\ stream' = [of |-> s, page |-> 1]
  /\ UNCHANGED scripted

\* A script shows all the rows of its first child job.  If it was prepared
\* (ExecuteScript) the token is left alone; otherwise FetchBQData has stored
\* the token of the script's last statement.
ExecuteScript(s) ==
  /\ Executes(s)
  /\ Kind[s] = "script"
  /\ \/ UNCHANGED token
     \/ \E last \in Source : ByRest(last) /\ token' = After(last, 1)
  /\ Opens(s, Rows(s, 0, Total(s)), stream = Nowhere /\ token' = Nowhere)
  /\ scripted' = TRUE
  /\ UNCHANGED stream

\* An execution may fail before or after it has stored its token, and with
\* HTAPI after it has stored an empty ResultSet and a stream that broke or whose
\* first batch it cannot read or convert.  What it has stored stays.
ExecuteFails(s) ==
  /\ Executes(s)
  /\ Kind[s] = "query"
  /\ \/ /\ token' \in {token, After(s, 1)}
        /\ UNCHANGED <<stream, rs>>
     \/ /\ ByHtapi(s)
        /\ token' = After(s, 1)
        /\ stream' = [of |-> s, page |-> Ended(s)]
        /\ rs' = NoRows
     \/ /\ ByHtapi(s)
        /\ BatchesFail
        /\ token' = After(s, 1)
        /\ stream' = [of |-> s, page |-> 1]
        /\ rs' \in {NoRows, Batch(s, 1)}
  /\ reply' = "ERROR"
  /\ UNCHANGED <<open, scripted, settings, call, seen>>

\* The catalog functions do not look at the state.
Catalog(s) ==
  /\ "catalog" \in Api
  /\ Idle
  /\ Kind[s] = "catalog"
  /\ Opens(s, Rows(s, 0, Total(s)), stream = Nowhere /\ token = Nowhere)
  /\ UNCHANGED <<scripted, token, stream>>

\* SQLMoreResults: no child job is left, or its result has no rows.
MoreResultsEnd ==
  /\ "moreResults" \in Api
  /\ Idle
  /\ open' = FALSE
  /\ scripted' \in {FALSE, scripted}
  /\ UNCHANGED <<rs, token, stream, settings, call, seen, reply>>

\* SQLMoreResults: all the rows of the next child job.
MoreResultsNext(s) ==
  /\ "moreResults" \in Api
  /\ Idle
  /\ scripted
  /\ Kind[s] = "script"
  /\ Opens(s, Rows(s, 0, Total(s)), stream = Nowhere /\ token = Nowhere)
  /\ UNCHANGED <<scripted, token, stream>>

\* SQLCloseCursor, SQLFreeStmt(SQL_CLOSE): the token stays.
CloseCursor ==
  /\ "closeCursor" \in Api
  /\ Idle
  /\ open' = FALSE
  /\ rs' = NoRows
  /\ stream' = Nowhere
  /\ UNCHANGED <<scripted, token, settings, call, seen, reply>>

SetMaxRows(n) ==
  /\ Idle
  /\ n # maxRows
  /\ maxRows' = n
  /\ UNCHANGED <<htapi, open, scripted, rs, token, stream, call, seen, reply>>

-----------------------------------------------------------------------------
(* SQLFetch, SQLFetchScroll(SQL_FETCH_NEXT): one rowset.                   *)

\* Where WriteRowset goes on: after the rows at hand it wants a page.
NextPc(r, written, rowset) ==
  CASE written = rowset    -> "leave"
    [] r.cursor >= r.size  -> "page"
    [] OTHER               -> "write"

\* The cursor is moved before the rows are looked at.  After the end it moves
\* on with every call; the model stops counting one place after the end.
Advanced(r) == IF r.cursor > r.size THEN r ELSE [r EXCEPT !.cursor = @ + 1]

SQLFetch(n) ==
  /\ Idle
  /\ open
  /\ rs' = Advanced(rs)
  /\ call' = [pc |-> NextPc(rs', 0, n), rowset |-> n, written |-> 0]
  /\ reply' = "none"
  /\ UNCHANGED <<open, scripted, token, stream, settings, seen>>

\* Faulty variant: the cursor is left behind the last row.
SteppedBackNever(r) == r

\* A rowset that has rows leaves the cursor on the last one.
SteppedBack(r) ==
  IF call.written > 0 THEN [r EXCEPT !.cursor = @ - 1] ELSE r

Return(r, code) ==
  /\ rs' = SteppedBack(r)
  /\ call' = IdleCall
  /\ reply' = code

\* WriteDSRow puts the row in the application's buffers.
WriteRow ==
  /\ call.pc = "write"
  /\ rs.cursor >= 0
  /\ seen' = [seen EXCEPT !.of = rs.of, !.n = rs.first + rs.cursor + 1]
  /\ rs' = [rs EXCEPT !.cursor = @ + 1]
  /\ LET written == call.written + 1
     IN call' = [call EXCEPT !.pc = NextPc(rs', written, call.rowset),
                             !.written = written]
  /\ UNCHANGED <<open, scripted, token, stream, settings, reply>>

\* Faulty variant: a row that fails in the middle of a rowset is passed over.
RowFailsPassedOver ==
  /\ call.pc = "write"
  /\ rs.cursor >= 0
  /\ seen' = IF call.written > 0 THEN seen
             ELSE [seen EXCEPT !.of = rs.of, !.n = rs.first + rs.cursor + 1]
  /\ Return([rs EXCEPT !.cursor = @ + 1], "ERROR")
  /\ UNCHANGED <<open, scripted, token, stream, settings>>

\* A value of the row cannot be converted.  The error of the first row of a
\* rowset stands for that row; a later one is written again by the next fetch.
RowFails ==
  /\ call.pc = "write"
  /\ rs.cursor >= 0
  /\ seen' = IF call.written > 0 THEN seen
             ELSE [seen EXCEPT !.of = rs.of, !.n = rs.first + rs.cursor + 1]
  /\ Return(rs, "ERROR")
  /\ UNCHANGED <<open, scripted, token, stream, settings>>

\* The cursor is before the first row of nothing.
NoRowAtCursor ==
  /\ call.pc = "write"
  /\ rs.cursor < 0
  /\ Return(rs, IF call.written > 0 THEN "SUCCESS" ELSE "NO_DATA")
  /\ UNCHANGED <<open, scripted, token, stream, settings, seen>>

LeaveRowset ==
  /\ call.pc = "leave"
  /\ Return(rs, "SUCCESS")
  /\ UNCHANGED <<open, scripted, token, stream, settings, seen>>

-----------------------------------------------------------------------------
(* FetchNextResultSet.                                                     *)

WasHtapiEnabled == stream # Nowhere

WantsBatch == call.pc = "page" /\ WasHtapiEnabled

WantsPage == call.pc = "page" /\ ~WasHtapiEnabled

\* The page replaces the rows; the cursor goes from before them to the first.
Arrives(s, p) ==
  /\ rs' = [Page(s, p) EXCEPT !.cursor = 0]
  /\ open' = TRUE
  /\ call' = [call EXCEPT !.pc = "write"]
  /\ seen' = [seen EXCEPT !.cut = @ \/ maxRows > 0]
  /\ UNCHANGED <<scripted, settings, reply>>

\* SQL_NO_DATA from FetchNextResultSet: the rowset ends with what it has.
NoMoreRows(r) == Return(r, IF call.written > 0 THEN "SUCCESS" ELSE "NO_DATA")

\* ReadNextResultsFromStream.
ReadBatch ==
  /\ WantsBatch
  /\ stream.page < Len(Upto[stream.of])
  /\ Arrives(stream.of, stream.page + 1)
  /\ stream' = [stream EXCEPT !.page = @ + 1]
  /\ UNCHANGED token

StreamEnds ==
  /\ WantsBatch
  /\ stream.page >= Len(Upto[stream.of])
  /\ stream' = Nowhere
  /\ NoMoreRows([rs EXCEPT !.size = 0, !.cursor = -1])
  /\ UNCHANGED <<open, scripted, token, settings, seen>>

\* The rows of source s up to number n are reported lost.
Lost(s, n) == seen' = IF seen.of = s THEN [seen EXCEPT !.n = n] ELSE seen

\* A batch that cannot be decoded is lost; a stream that broke has ended.  The
\* rows at hand and the cursor stay.
ReadFails ==
  /\ WantsBatch
  /\ LET s == stream.of
     IN \/ /\ stream.page < Len(Upto[s])
           /\ stream' = [stream EXCEPT !.page = @ + 1]
           /\ Lost(s, Upto[s][stream.page + 1])
        \/ /\ stream.page <= Len(Upto[s])
           /\ stream' = [stream EXCEPT !.page = Ended(s)]
           /\ Lost(s, Total(s))
  /\ Return(rs, "ERROR")
  /\ UNCHANGED <<open, scripted, token, settings>>

\* ProcessRecordBatch overwrites the rows at hand column by column.  At a value
\* it cannot convert it gives up: the cursor is before the first row of a batch
\* in which some columns are new and the others the old rows', and the next
\* fetch takes these rows for good ones.
BatchHalfConverted ==
  /\ WantsBatch
  /\ stream.page < Len(Upto[stream.of])
  /\ stream' = [stream EXCEPT !.page = @ + 1]
  /\ seen' = [seen EXCEPT !.whole = FALSE]
  /\ Return(Batch(stream.of, stream.page + 1), "ERROR")
  /\ UNCHANGED <<open, scripted, token, settings>>

\* FetchNextPageResultSet, FetchNextPageOfQueryResults.
FetchPage ==
  /\ WantsPage
  /\ token # Nowhere
  /\ Arrives(token.of, token.page + 1)
  /\ token' = After(token.of, token.page + 1)
  /\ UNCHANGED stream

\* Faulty variant: the cursor stays open when a page cannot be fetched.
FetchPageFailsOpen ==
  /\ WantsPage
  /\ token # Nowhere
  /\ Return([rs EXCEPT !.size = 0], "ERROR")
  /\ UNCHANGED <<open, scripted, token, stream, settings, seen>>

\* The server, the timeout or the page's contents: the rows are gone, the
\* state is kStatementPrepared and the cursor closed.
FetchPageFails ==
  /\ WantsPage
  /\ token # Nowhere
  /\ Return([rs EXCEPT !.size = 0], "ERROR")
  /\ open' = FALSE
  /\ token' \in {token, After(token.of, token.page + 1)}
  /\ UNCHANGED <<scripted, stream, settings, seen>>

NoPageLeft ==
  /\ WantsPage
  /\ token = Nowhere
  /\ NoMoreRows(rs)
  /\ UNCHANGED <<open, scripted, token, stream, settings, seen>>

-----------------------------------------------------------------------------
(* The specification.                                                      *)

Fetch == \E n \in RowsetSizes : SQLFetch(n)

FetchStep ==
  \/ WriteRow
  \/ RowFails
  \/ NoRowAtCursor
  \/ LeaveRowset
  \/ ReadBatch
  \/ StreamEnds
  \/ ReadFails
  \/ BatchHalfConverted
  \/ FetchPage
  \/ FetchPageFails
  \/ NoPageLeft

Open ==
  \E s \in Source :
    \/ ExecuteRest(s)
    \/ ExecuteHtapi(s)
    \/ ExecuteScript(s)
    \/ ExecuteFails(s)
    \/ Catalog(s)
    \/ MoreResultsNext(s)

Next ==
  \/ Open
  \/ MoreResultsEnd
  \/ CloseCursor
  \/ \E n \in MaxRowsValues : SetMaxRows(n)
  \/ Fetch
  \/ FetchStep

Spec == Init /\ [][Next]_vars

\* A fetch goes on until it returns, and the application fetches on.
FetchingSpec == Spec /\ WF_vars(FetchStep) /\ WF_vars(Fetch)

-----------------------------------------------------------------------------
(* Properties.                                                             *)

\* Every variable holds values of the kind the code keeps in it; a token never
\* stands for the end of a job.
TypeOK ==
  /\ open \in BOOLEAN
  /\ scripted \in BOOLEAN
  /\ rs \in [of : Source \cup {NoSource}, first : Nat, size : Nat, cursor : Int]
  /\ token \in [of : Source \cup {NoSource}, page : Nat]
  /\ stream \in [of : Source \cup {NoSource}, page : Nat]
  /\ token # Nowhere => token.of \in Source /\ token.page \in 1 .. Len(Upto[token.of]) - 1
  /\ stream # Nowhere => stream.of \in Source /\ stream.page \in 1 .. Ended(stream.of)
  /\ maxRows \in Nat
  /\ htapi \in BOOLEAN
  /\ call \in [pc : {"idle", "write", "page", "leave"}, rowset : Nat, written : Nat]
  /\ seen \in [of : Source \cup {NoSource}, n : Nat, cut : BOOLEAN, clean : BOOLEAN,
             whole : BOOLEAN]
  /\ reply \in {"none", "SUCCESS", "NO_DATA", "ERROR"}

\* The row that WriteRowset is about to copy is the one after the last row the
\* application got (or was told it lost), of the result it opened: no row is
\* skipped, shown twice or of another result, whatever pages, failures, rowset
\* sizes and closed cursors came before.  Rows are passed over only where
\* SQL_ATTR_MAX_ROWS cuts a page (ProcessQueryResultsWithMaxRows).  It holds for
\* results opened while the token and the stream of no other result are left,
\* and until a batch is left half converted.
RowsInOrder ==
  (call.pc = "write" /\ rs.cursor >= 0 /\ seen.clean /\ seen.whole) =>
    /\ rs.of = seen.of
    /\ \/ rs.first + rs.cursor = seen.n
       \/ seen.cut /\ rs.first + rs.cursor > seen.n

\* SQL_NO_DATA is answered only when every row was delivered or reported lost,
\* unless SQL_ATTR_MAX_ROWS was there to cut the result.  A batch that is left
\* half converted inside a rowset leaves the cursor at -2, and the next fetch
\* answers SQL_NO_DATA with that batch still to come: it holds until then.
NoDataMeansAll ==
  (reply = "NO_DATA" /\ seen.whole) =>
    /\ seen.of # NoSource
    /\ seen.cut \/ seen.n = Total(seen.of)

\* After a rowset the cursor is on its last row, so that SQLGetData and
\* SQL_ATTR_ROW_NUMBER mean that row and the next fetch the one after it; over
\* REST, since a rowset cut short by the end of a stream leaves it at -2.
CursorOnLastRow ==
  (~htapi /\ open /\ reply = "SUCCESS") =>
    /\ rs.cursor \in 0 .. rs.size - 1
    /\ rs.first + rs.cursor + 1 = seen.n

\* An application that keeps fetching comes to SQL_NO_DATA or to a closed
\* cursor, unless it opens results for ever: no failing row and no page is asked
\* for for ever.
FetchingEnds ==
  []<><<Open>>_vars \/ (open ~> (reply = "NO_DATA" \/ ~open))
=============================================================================
