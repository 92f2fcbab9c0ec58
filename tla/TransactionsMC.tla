--------------------------- MODULE TransactionsMC ---------------------------
(* Instances of Transactions for TLC.                                      *)
EXTENDS Transactions, TLC

\* Sessions and transactions, or neither.
MCDsns == {[sessions |-> TRUE, ignore |-> FALSE],
           [sessions |-> FALSE, ignore |-> TRUE]}

Symmetry == Permutations(Stmt) \cup Permutations(Session)

\* What is told apart of a statement: no guard distinguishes the states that
\* allow SQLExecute, nor those that do not, and a call in progress overwrites
\* the state.
Seen(t) ==
  [stmt[t] EXCEPT !.state =
     CASE ~Idle(t) -> "busy"
       [] Idle(t) /\ @ \in {"Prepared", "ExecutedWithoutRs"} -> "ready"
       [] Idle(t) /\ @ = "ExecutedWithRs" -> "cursor"
       [] OTHER -> "none"]

View ==
  <<conn, call, server, durable, ran, since, history, [t \in Stmt |-> Seen(t)]>>
=============================================================================
