----------------------------- MODULE RowFetchMC -----------------------------
(* Instances of RowFetch for TLC.                                          *)
EXTENDS RowFetch

CONSTANTS pages, single, empty, child, catalog

MCKind ==
  [s \in Source |->
     CASE s = child -> "script" [] s = catalog -> "catalog" [] OTHER -> "query"]

MCUpto ==
  [s \in Source |->
     CASE s = pages -> <<2, 3, 5>> [] s = empty -> <<0>> [] OTHER -> <<2>>]

AllApi == {"execute", "closeCursor", "moreResults", "catalog"}
=============================================================================
