---------------------------- MODULE ParametersMC ----------------------------
(* Instances of Parameters for TLC.                                        *)
EXTENDS Parameters

Ordinary == [ind |-> [s \in Sets |-> "nts"], data |-> "value", size |-> Column]
AtExecution == [ind |-> [s \in Sets |-> "dae"], data |-> "token", size |-> Column]
Announced == [ind |-> [s \in Sets |-> "lenDae"], data |-> "minusOne", size |-> Column]
\* Only the second set asks for data.
Mixed == [ind |-> [s \in Sets |-> IF s = 1 THEN "len" ELSE "dae"],
          data |-> "value", size |-> Column]

\* The same, with an indicator at which SQLParamData does not ask.
LaterOnly == [ind |-> [s \in Sets |-> IF s = 1 THEN "nts" ELSE "dae"],
              data |-> "value", size |-> Column]

MCBindings == {Ordinary, AtExecution, Announced, Mixed, LaterOnly}

MCTexts == {[params |-> 1, select |-> FALSE], [params |-> 2, select |-> TRUE]}

\* Every set succeeds; the first changes no row and the last fails; the answer
\* to the first is lost.
MCServers ==
  {[s \in Sets |-> "ok"],
   [s \in Sets |-> IF s = 1 THEN "noRows" ELSE "error"],
   [s \in Sets |-> IF s = 1 THEN "lost" ELSE "ok"]}

-----------------------------------------------------------------------------
(* Bounds of the exploration.                                              *)

\* The last execution ends the exploration, with the dialogue it opens.
UntilLastResult == given.round = MaxRounds => Len(result.outcome) > 0

\* Each parameter is bound in some of the ways, together in all of them.
BoundAs(i, bindings) ==
  apd[i].is = "bound" => \E b \in bindings : apd[i].ind = b.ind /\ apd[i].data = b.data
BoundInSomeWays ==
  /\ BoundAs(1, {Ordinary, AtExecution, Announced})
  /\ BoundAs(2, {AtExecution, Mixed, LaterOnly})

\* What is bound, what cannot be executed and what cannot be prepared comes
\* before the first execution.
TroubleFirst ==
  given.round > 0 =>
    /\ \A i \in Params : apd'[i].is = "bound" => apd'[i].ind = apd[i].ind
    /\ state' # "StillExecuting"
    /\ query' # query => query' \in Texts

\* SQLCancel is called in a dialogue or after an SQLExecDirect that failed.
CancelsWhenBusy == canceled' /\ ~canceled => dm # "ready" \/ state = "StillExecuting"

\* One SQLPutData in a dialogue that finds traces of an earlier one.
OnePutOnTraces == ~given.fresh => given'.puts <= 1
=============================================================================
