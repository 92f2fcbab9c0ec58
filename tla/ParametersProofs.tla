------------------------- MODULE ParametersProofs -------------------------
(***************************************************************************)
(* Proofs about Parameters: types, what the answers say of the sets, that  *)
(* a dialogue can be carried on, and that the first dialogue of a          *)
(* statement sends what the application gave.                              *)
(***************************************************************************)
EXTENDS Parameters, WellFoundedInduction, NaturalsInduction, TLAPS

-----------------------------------------------------------------------------
(* Least and greatest elements: the loops over parameters and sets choose  *)
(* one that is there.                                                      *)

\* A set of numbers has a least one.
LEMMA LeastOfNats ==
  ASSUME NEW S \in SUBSET Nat, S # {}
  PROVE  \E m \in S : \A k \in S : m <= k
<1>1. PICK m \in S : \A k \in S : <<k, m>> \notin OpToRel(<, Nat)
  BY NatLessThanWellFounded, WFMin, Zenon
<1>2. \A k \in S : ~(k < m)
  BY <1>1, Zenon DEF OpToRel
<1>3. \A k \in S : m <= k
  BY <1>2
<1> QED  BY <1>3

LEMMA MinInSet ==
  ASSUME NEW S \in SUBSET Nat, S # {}
  PROVE  Min(S) \in S
BY LeastOfNats DEF Min

LEMMA MaxInSet ==
  ASSUME NEW n \in Nat, NEW S \in SUBSET (0 .. n), S # {}
  PROVE  Max(S) \in S
<1> DEFINE Mirror == {n - x : x \in S}
<1>1. Mirror \in SUBSET Nat /\ Mirror # {}
  <2>1. \A x \in S : n - x \in Nat
    OBVIOUS
  <2>2. \E x \in S : n - x \in Mirror
    OBVIOUS
  <2> QED  BY <2>1, <2>2
<1>2. PICK m \in Mirror : \A k \in Mirror : m <= k
  BY <1>1, LeastOfNats
<1>3. PICK x \in S : m = n - x
  BY <1>2
<1>4. \A y \in S : x >= y
  BY <1>2, <1>3
<1> QED  BY <1>4 DEF Max

-----------------------------------------------------------------------------
(* One execution.                                                          *)

Record == [is : {"none", "auto", "bound"}, ind : [Sets -> Indicator], data : Data,
           buffer : Seq(Byte)]
Value == [from : {"empty", "bound", "buffer"}, bytes : Seq(Byte)]
Good == {"ok", "noRows"}

\* Building a set needs no data any more once they are buffered.
Refusal(buffered) == IF buffered THEN Failure \ {"NEED_DATA"} ELSE Failure

\* What a parameter comes to: a failure, or a value; a value from a buffer is
\* that of a bound data-at-execution parameter, and none is used before the
\* dialogue.
LEMMA ArgumentKind ==
  ASSUME NEW records \in [Params -> Record], NEW i \in Params, NEW s \in Sets,
         NEW buffered \in BOOLEAN
  PROVE  LET a == Argument(records, i, s, buffered) IN
         \/ \E f \in Refusal(buffered) : a = [fails |-> f]
         \/ \E v \in Value :
              /\ a = [sends |-> v]
              /\ v.from = "buffer" =>
                   /\ buffered
                   /\ records[i].is = "bound"
                   /\ IsDataAtExec(records[i].ind[s])
                   /\ v.bytes = records[i].buffer
<1> DEFINE rec == records[i]
<1> DEFINE needed == IsDataAtExec(rec.ind[s])
<1>1. /\ rec.is \in {"none", "auto", "bound"} /\ rec.buffer \in Seq(Byte)
  BY DEF Record
<1>2. Plain("empty") \in Value /\ Plain("bound") \in Value
  BY DEF Plain, Value
<1>3. [from |-> "buffer", bytes |-> rec.buffer] \in Value
  BY <1>1 DEF Value
<1>4. Argument(records, i, s, buffered) \in
        {[fails |-> f] : f \in Refusal(buffered)}
          \cup {[sends |-> Plain("empty")], [sends |-> Plain("bound")]}
      \/ /\ Argument(records, i, s, buffered) =
              [sends |-> [from |-> "buffer", bytes |-> rec.buffer]]
         /\ buffered /\ rec.is = "bound" /\ needed
  BY <1>1 DEF Argument, Failure, Refusal
<1>5. Plain("empty").from # "buffer" /\ Plain("bound").from # "buffer"
  BY DEF Plain
<1> QED  BY <1>2, <1>3, <1>4, <1>5

\* What a set of parameters comes to: a failure, or a value for each.
LEMMA SetKind ==
  ASSUME NEW records \in [Params -> Record], NEW s \in Sets, NEW buffered \in BOOLEAN,
         NEW q \in [params : 0 .. MaxParams, select : BOOLEAN], ParametersAssumption
  PROVE  LET b == ConstructPositionalQueryParams(records, q, s, buffered) IN
         \/ \E f \in Refusal(buffered) : b = [fails |-> f]
         \/ /\ \E sent \in Seq(Value) : b = [sends |-> sent]
            /\ DOMAIN b.sends = 1 .. q.params
            /\ \A i \in 1 .. q.params :
                 b.sends[i].from = "buffer" =>
                   /\ buffered
                   /\ records[i].is = "bound"
                   /\ IsDataAtExec(records[i].ind[s])
                   /\ b.sends[i].bytes = records[i].buffer
<1> DEFINE arg == [i \in 1 .. q.params |-> Argument(records, i, s, buffered)]
<1> DEFINE failing == {i \in 1 .. q.params : "fails" \in DOMAIN arg[i]}
<1> DEFINE sent == [i \in 1 .. q.params |-> arg[i].sends]
<1>1. q.params \in 0 .. MaxParams /\ MaxParams \in Nat
  BY DEF ParametersAssumption
<1>2. \A i \in 1 .. q.params : i \in Params /\ arg[i] = Argument(records, i, s, buffered)
  BY <1>1 DEF Params
<1>3. \A i \in failing : \E f \in Refusal(buffered) : arg[i] = [fails |-> f]
  BY <1>2, ArgumentKind
<1>4. \A i \in (1 .. q.params) \ failing : \E v \in Value :
        /\ arg[i] = [sends |-> v]
        /\ v.from = "buffer" => /\ buffered
                                /\ records[i].is = "bound"
                                /\ IsDataAtExec(records[i].ind[s])
                                /\ v.bytes = records[i].buffer
  BY <1>2, ArgumentKind
<1>5. ConstructPositionalQueryParams(records, q, s, buffered) =
        IF failing # {} THEN arg[Min(failing)] ELSE [sends |-> sent]
  BY DEF ConstructPositionalQueryParams
<1> HIDE DEF arg, failing
<1>6. CASE failing # {}
  <2>1. failing \in SUBSET Nat
    BY <1>1 DEF failing
  <2>2. Min(failing) \in failing
    BY <1>6, <2>1, MinInSet
  <2> QED  BY <1>3, <1>5, <1>6, <2>2
<1>7. CASE failing = {}
  <2>1. ASSUME NEW i \in 1 .. q.params
        PROVE  /\ sent[i] \in Value
               /\ sent[i].from = "buffer" => /\ buffered
                                             /\ records[i].is = "bound"
                                             /\ IsDataAtExec(records[i].ind[s])
                                             /\ sent[i].bytes = records[i].buffer
    <3>1. PICK v \in Value :
            /\ arg[i] = [sends |-> v]
            /\ v.from = "buffer" => /\ buffered
                                    /\ records[i].is = "bound"
                                    /\ IsDataAtExec(records[i].ind[s])
                                    /\ v.bytes = records[i].buffer
      BY <1>4, <1>7
    <3>2. sent[i] = v
      BY <3>1
    <3> QED  BY <3>1, <3>2
  <2>2. sent \in [1 .. q.params -> Value]
    BY <2>1
  <2>3. sent \in Seq(Value) /\ DOMAIN sent = 1 .. q.params
    BY <1>1, <2>2
  <2> QED  BY <1>5, <1>7, <2>1, <2>3
<1> QED  BY <1>6, <1>7

\* What the sets sent from a buffer is what the buffers have.
SentFromBuffers(o, records, q, buffered) ==
  \A s \in DOMAIN o : \A i \in DOMAIN o[s].sent :
    /\ i \in 1 .. q.params
    /\ o[s].sent[i].from = "buffer" =>
         /\ buffered
         /\ records[i].is = "bound"
         /\ IsDataAtExec(records[i].ind[s])
         /\ o[s].sent[i].bytes = records[i].buffer

\* The outcomes of the sets are well typed, there is at least one, what a set
\* sent from a buffer is what the buffer has, and no set needs data that are
\* buffered.
LEMMA OutcomesKind ==
  ASSUME NEW records \in [Params -> Record], NEW server \in Servers,
         NEW buffered \in BOOLEAN, sets \in Sets,
         NEW q \in [params : 0 .. MaxParams, select : BOOLEAN], ParametersAssumption
  PROVE  LET o == Outcomes(records, q, server, buffered) IN
         /\ o \in Seq(Outcome)
         /\ Len(o) = ArraySize(q) /\ ArraySize(q) \in Sets
         /\ SentFromBuffers(o, records, q, buffered)
         /\ \A s \in DOMAIN o : o[s].of = "NEED_DATA" => ~buffered
<1> DEFINE o == Outcomes(records, q, server, buffered)
<1> DEFINE built(s) == ConstructPositionalQueryParams(records, q, s, buffered)
<1>1. ArraySize(q) \in Sets /\ MaxSets \in Nat
  BY DEF ArraySize, Sets, ParametersAssumption
<1>2. \A s \in 1 .. ArraySize(q) : s \in Sets /\ server[s] \in {"ok", "noRows", "error", "lost"}
  BY <1>1 DEF Sets, ParametersAssumption
<1>3. o = [s \in 1 .. ArraySize(q) |->
             IF "fails" \in DOMAIN built(s) THEN [of |-> built(s).fails, sent |-> <<>>]
             ELSE [of |-> server[s], sent |-> built(s).sends]]
  BY DEF Outcomes
<1>4. \A s \in 1 .. ArraySize(q) :
        \/ \E f \in Refusal(buffered) : built(s) = [fails |-> f]
        \/ /\ \E sent \in Seq(Value) : built(s) = [sends |-> sent]
           /\ DOMAIN built(s).sends = 1 .. q.params
           /\ \A i \in 1 .. q.params :
                built(s).sends[i].from = "buffer" =>
                  /\ buffered
                  /\ records[i].is = "bound"
                  /\ IsDataAtExec(records[i].ind[s])
                  /\ built(s).sends[i].bytes = records[i].buffer
  BY <1>2, SetKind
<1> HIDE DEF o, built
<1>5. ASSUME NEW s \in 1 .. ArraySize(q)
      PROVE  /\ o[s] \in Outcome
             /\ o[s].of = "NEED_DATA" => ~buffered
             /\ \A i \in DOMAIN o[s].sent :
                  /\ i \in 1 .. q.params
                  /\ o[s].sent[i].from = "buffer" =>
                       /\ buffered
                       /\ records[i].is = "bound"
                       /\ IsDataAtExec(records[i].ind[s])
                       /\ o[s].sent[i].bytes = records[i].buffer
  <2>1. CASE \E f \in Refusal(buffered) : built(s) = [fails |-> f]
    <3>1. PICK f \in Refusal(buffered) : built(s) = [fails |-> f]
      BY <2>1
    <3>2. o[s] = [of |-> f, sent |-> <<>>]
      BY <1>3, <3>1
    <3>3. <<>> \in Seq(Value) /\ f \in Failure /\ (f = "NEED_DATA" => ~buffered)
      BY DEF Failure, Refusal
    <3> QED  BY <3>2, <3>3 DEF Outcome, Value
  <2>2. CASE ~\E f \in Refusal(buffered) : built(s) = [fails |-> f]
    <3>1. PICK sent \in Seq(Value) : built(s) = [sends |-> sent]
      BY <1>4, <2>2
    <3>2. o[s] = [of |-> server[s], sent |-> sent] /\ built(s).sends = sent
      BY <1>3, <3>1
    <3>3. server[s] \in Failure \cup Good /\ server[s] # "NEED_DATA"
      BY <1>2 DEF Failure, Good
    <3>4. o[s] \in Outcome
      BY <3>2, <3>3 DEF Outcome, Value, Good
    <3> QED  BY <1>4, <2>2, <3>2, <3>3, <3>4
  <2> QED  BY <2>1, <2>2
<1>6. o \in Seq(Outcome) /\ Len(o) = ArraySize(q)
  <2>1. o \in [1 .. ArraySize(q) -> Outcome]
    BY <1>3, <1>5
  <2>2. ArraySize(q) \in Nat
    BY <1>1 DEF Sets
  <2> QED  BY <2>1, <2>2
<1>7. DOMAIN o = 1 .. ArraySize(q)
  BY <1>3
<1>8. SentFromBuffers(o, records, q, buffered)
  BY <1>5, <1>7 DEF SentFromBuffers
<1>9. \A s \in DOMAIN o : o[s].of = "NEED_DATA" => ~buffered
  BY <1>5, <1>7
<1> QED  BY <1>1, <1>6, <1>8, <1>9 DEF o

\* The answer: a failure, that of a set, only if no set was executed,
\* SQL_SUCCESS only if all were, 01S01 only if some were and some not.
LEMMA ReplyKind ==
  ASSUME NEW outcome \in Seq(Outcome), Len(outcome) # 0, NEW q
  PROVE  LET reply == ReplyTo(q, outcome)
             good == Executed(outcome)
         IN  /\ reply \in Failure \cup {"SUCCESS", "01S01", "NO_DATA"}
             /\ reply \in Failure => good = {} /\ \E s \in DOMAIN outcome : outcome[s].of = reply
             /\ reply = "SUCCESS" => good # {} /\ good = DOMAIN outcome
             /\ reply = "01S01" => good # {} /\ good # DOMAIN outcome
<1> DEFINE good == Executed(outcome)
<1> DEFINE failing == DOMAIN outcome \ good
<1>1. \A s \in failing : outcome[s].of \in Failure
  <2>1. \A s \in DOMAIN outcome : outcome[s] \in Outcome
    OBVIOUS
  <2> QED  BY <2>1 DEF Executed, Outcome
<1>2. good = {} => Max(failing) \in failing
  <2>1. failing \in SUBSET (0 .. Len(outcome)) /\ Len(outcome) \in Nat
    OBVIOUS
  <2>2. 1 \in DOMAIN outcome
    OBVIOUS
  <2>3. good = {} => failing # {}
    BY <2>2
  <2> QED  BY <2>1, <2>3, MaxInSet
<1>3. good \subseteq DOMAIN outcome
  BY DEF Executed
<1>4. ReplyTo(q, outcome) =
        IF good = {} THEN outcome[Max(failing)].of
        ELSE IF ~q.select /\ \A s \in good : outcome[s].of = "noRows" THEN "NO_DATA"
        ELSE IF failing # {} THEN "01S01"
        ELSE "SUCCESS"
  BY DEF ReplyTo
<1> HIDE DEF good, failing
<1>5. CASE good = {}
  <2>1. failing \subseteq DOMAIN outcome
    BY DEF failing
  <2> QED  BY <1>1, <1>2, <1>4, <1>5, <2>1 DEF Failure, good
<1>6. CASE good # {}
  <2>1. failing = {} <=> good = DOMAIN outcome
    BY <1>3 DEF failing
  <2> QED  BY <1>4, <1>6, <2>1 DEF Failure, good
<1> QED  BY <1>5, <1>6

-----------------------------------------------------------------------------
(* The inductive invariant.  SetsRunOnce and SetsReported need that no set *)
(* was executed when data is needed; DialogueContinues that the index is   *)
(* that of a parameter of the text.                                        *)

\* SQLPutData has a parameter to put its data in.
Positioned == state = "NeedsPutData" => index # 0

\* While data is needed the driver knows of no set that was executed, and
\* nothing was sent from a buffer.
NothingRanYet ==
  dm # "ready" =>
    /\ Executed(result.outcome) = {}
    /\ \A s \in Sets : given.ran[s] = 0 \/ s \in given.lost
    /\ \A s \in DOMAIN result.outcome : \A i \in DOMAIN result.outcome[s].sent :
         result.outcome[s].sent[i].from # "buffer"

\* After SQLPutData the driver accepts SQLParamData in any state; the first
\* dialogue stays within the parameters of the text.  The rounds of dialogues
\* are numbered from 1.
CanGoOn ==
  /\ dm = "can" => partial
  /\ dm # "ready" => given.round # 0
  /\ dm # "ready" /\ given.fresh => index <= query.params

\* The histories of an execution.
History ==
  [round : 0 .. MaxRounds, fresh : BOOLEAN, puts : 0 .. MaxPuts,
   asked : SUBSET Params, data : [Params -> Seq(Byte)], other : SUBSET Params,
   ran : [Sets -> Nat], lost : SUBSET Sets]

\* What the driver answers.
Answer ==
  [reply : Failure \cup {"none", "SUCCESS", "01S01", "NO_DATA", "results", "skipped",
                        "HY010", "22001"},
   outcome : Seq(Outcome)]

IInv ==
  /\ TypeOK
  /\ Positioned
  /\ NothingRanYet
  /\ CanGoOn
  /\ SetsRunOnce
  /\ SetsReported
  /\ DialogueContinues

LEMMA InitIInv ==
  ASSUME ParametersAssumption, Init
  PROVE  IInv
<1>1. /\ MaxParams \in Nat /\ MaxSets \in Nat
      /\ MaxPuts \in Nat /\ MaxRounds \in Nat
  BY DEF ParametersAssumption
<1>2. NoRecord \in Record
  BY DEF NoRecord, Record, Indicator, Data
<1>3. apd \in [Params -> Record]
  BY <1>2 DEF Init
<1>4. Nothing \in History
  BY <1>1 DEF Nothing, History
<1>5. NoQuery \in [params : 0 .. MaxParams, select : BOOLEAN]
  BY <1>1 DEF NoQuery
<1>6. NoResult \in Answer
  BY DEF NoResult, Answer
<1>7. TypeOK
  <2>1. /\ state = "NotPrepared" /\ index \in 0 .. MaxParams /\ query = NoQuery
        /\ apdCount \in 0 .. MaxParams /\ sets \in Sets /\ result = NoResult
        /\ dm = "ready" /\ given = Nothing
    BY <1>1 DEF Init
  <2>2. {partial, canceled, prepared} \subseteq BOOLEAN
    BY DEF Init
  <2>3. ipd \in [Params -> Nat]
    BY DEF Init
  <2>4. apd \in [Params -> [is : {"none", "auto", "bound"}, ind : [Sets -> Indicator],
                           data : Data, buffer : Seq(Byte)]]
    BY <1>3 DEF Record
  <2> HIDE DEF Init
  <2> QED  BY <1>4, <1>5, <1>6, <2>1, <2>2, <2>3, <2>4 DEF TypeOK, History, Answer
<1>8. Executed(result.outcome) = {}
  BY DEF Init, NoResult, Executed
<1>9. SetsRunOnce /\ SetsReported
  <2>1. result.reply = "none" /\ \A s \in Sets : given.ran[s] = 0
    BY DEF Init, NoResult, Nothing
  <2> QED  BY <1>8, <2>1 DEF SetsRunOnce, SetsReported
<1>10. Positioned /\ NothingRanYet /\ CanGoOn /\ DialogueContinues
  BY DEF Init, Positioned, NothingRanYet, CanGoOn, DialogueContinues
<1> QED  BY <1>7, <1>9, <1>10 DEF IInv

\* What an execution with the history round leaves.
ExecutionLeaves(round) ==
  /\ state' \in {"NotPrepared", "Prepared", "NeedsParams", "WithRs", "WithoutRs"}
  /\ result' \in Answer
  /\ dm' \in {"ready", "need"}
  /\ dm' = "need" => state' = "NeedsParams"
  /\ given' \in History
  /\ given'.round = round.round /\ given'.fresh = round.fresh
  /\ given'.asked = round.asked /\ given'.data = round.data
  /\ given'.other = round.other
  /\ NothingRanYet' /\ SetsRunOnce' /\ SetsReported'

\* What an execution does to the invariant: which state, result and history it
\* leaves, for every reply.
LEMMA ExecutionKeeps ==
  ASSUME IInv, ParametersAssumption,
         NEW records \in [Params -> Record], NEW server \in Servers,
         NEW buffered \in BOOLEAN,
         NEW q \in [params : 0 .. MaxParams, select : BOOLEAN],
         NEW failureState \in {"NotPrepared", "Prepared"},
         NEW round \in History,
         \A s \in Sets : round.ran[s] = 0 \/ s \in round.lost,
         ActuallyProcessExecute(records, q, server, buffered, failureState, round)
  PROVE  ExecutionLeaves(round)
<1> DEFINE outcome == Outcomes(records, q, server, buffered)
<1> DEFINE good == Executed(outcome)
<1> DEFINE did == good \cup Lost(outcome)
<1> DEFINE ran == [s \in Sets |-> IF s \in did THEN round.ran[s] + 1 ELSE round.ran[s]]
<1>1. PICK reply \in {ReplyTo(q, outcome)} \cup (IF good # {} THEN {"results"} ELSE {}) :
        /\ state' = StateAfter(q, reply, failureState)
        /\ result' = [reply |-> reply, outcome |-> outcome]
        /\ dm' = IF reply = "NEED_DATA" THEN "need" ELSE "ready"
        /\ given' = [round EXCEPT !.ran = ran, !.lost = round.lost \cup Lost(outcome)]
  BY DEF ActuallyProcessExecute
<1>2. /\ outcome \in Seq(Outcome)
      /\ Len(outcome) # 0
      /\ DOMAIN outcome \subseteq Sets
      /\ SentFromBuffers(outcome, records, q, buffered)
      /\ \A s \in DOMAIN outcome : outcome[s].of = "NEED_DATA" => ~buffered
  <2>1. sets \in Sets
    BY DEF IInv, TypeOK, History, Answer
  <2>2. /\ outcome \in Seq(Outcome)
        /\ Len(outcome) = ArraySize(q) /\ ArraySize(q) \in Sets
        /\ SentFromBuffers(outcome, records, q, buffered)
        /\ \A s \in DOMAIN outcome : outcome[s].of = "NEED_DATA" => ~buffered
    BY <2>1, OutcomesKind
  <2> HIDE DEF outcome
  <2>3. Sets \subseteq Nat \ {0}
    BY DEF Sets, ParametersAssumption
  <2>4. DOMAIN outcome \subseteq Sets
    BY <2>2 DEF Sets, ParametersAssumption
  <2> QED  BY <2>2, <2>3, <2>4
<1> HIDE DEF outcome
<1>3. /\ reply \in Failure \cup {"SUCCESS", "01S01", "NO_DATA", "results"}
      /\ reply \in Failure => good = {} /\ \E s \in DOMAIN outcome : outcome[s].of = reply
      /\ reply = "SUCCESS" => good # {} /\ good = DOMAIN outcome
      /\ reply = "01S01" => good # {} /\ good # DOMAIN outcome
  <2>1. CASE reply = ReplyTo(q, outcome)
    BY <1>2, <2>1, ReplyKind
  <2>2. CASE reply = "results"
    BY <2>2 DEF Failure
  <2> QED  BY <1>1, <2>1, <2>2
<1>4. state' \in {"NotPrepared", "Prepared", "NeedsParams", "WithRs", "WithoutRs"}
  BY <1>1 DEF StateAfter
<1>5. result'.outcome = outcome /\ result'.reply = reply
  BY <1>1
<1>6. result' \in Answer
  BY <1>1, <1>2, <1>3 DEF Answer
<1>7. dm' \in {"ready", "need"} /\ (dm' = "need" => state' = "NeedsParams")
  BY <1>1 DEF StateAfter
<1>8. /\ ran \in [Sets -> Nat] /\ given'.ran = ran
      /\ Lost(outcome) \subseteq Sets /\ given'.lost = round.lost \cup Lost(outcome)
      /\ given'.fresh = round.fresh
      /\ given'.round = round.round /\ given'.asked = round.asked
      /\ given'.data = round.data /\ given'.other = round.other
  <2>1. ran \in [Sets -> Nat] /\ Lost(outcome) \subseteq Sets
    BY <1>2 DEF History, Lost
  <2> HIDE DEF ran
  <2> QED  BY <1>1, <2>1 DEF History
<1>9. given' \in History
  <2> HIDE DEF ran
  <2> QED  BY <1>1, <1>8 DEF History
<1>10. \A s \in Sets : round.ran[s] = 0 \/ s \in given'.lost
  BY <1>8
<1>11. NothingRanYet'
  <2>1. dm' # "ready" => good = {} /\ ~buffered
    BY <1>1, <1>2, <1>3 DEF Failure
  <2>2. good = {} => \A s \in Sets : ran[s] = 0 \/ s \in given'.lost
    BY <1>8, <1>10
  <2>3. ~buffered => \A s \in DOMAIN outcome : \A i \in DOMAIN outcome[s].sent :
                       outcome[s].sent[i].from # "buffer"
    BY <1>2 DEF SentFromBuffers
  <2> QED  BY <1>5, <1>8, <2>1, <2>2, <2>3 DEF NothingRanYet
<1>12. SetsRunOnce'
  BY <1>8, <1>10 DEF SetsRunOnce
<1>13. SetsReported'
  BY <1>3, <1>5 DEF SetsReported, Diagnostic, Failure
<1> QED  BY <1>4, <1>6, <1>7, <1>8, <1>9, <1>11, <1>12, <1>13 DEF ExecutionLeaves

\* The history of a new execution.
LEMMA NextRoundKind ==
  ASSUME IInv, ParametersAssumption, given.round < MaxRounds
  PROVE  /\ NextRound \in History
         /\ \A s \in Sets : NextRound.ran[s] = 0
         /\ NextRound.fresh => index = 0 /\ \A i \in Params : apd[i].buffer = <<>>
         /\ NextRound.data = [i \in Params |-> <<>>] /\ NextRound.other = {}
         /\ NextRound.round # 0
<1>1. /\ given.round + 1 \in 0 .. MaxRounds /\ given.round + 1 # 0
      /\ MaxPuts \in Nat
  BY DEF IInv, TypeOK, History, Answer, ParametersAssumption
<1> DEFINE clean == index = 0 /\ \A i \in Params : apd[i].buffer = <<>>
<1>2. clean \in BOOLEAN
  OBVIOUS
<1>3. [i \in Params |-> <<>>] \in [Params -> Seq(Byte)]
  OBVIOUS
<1>4. NextRound = [round |-> given.round + 1, fresh |-> clean, puts |-> 0, asked |-> {},
                   data |-> [i \in Params |-> <<>>], other |-> {},
                   ran |-> [s \in Sets |-> 0], lost |-> {}]
  <2>1. NextRound = [Nothing EXCEPT !.round = given.round + 1, !.fresh = clean]
    BY Zenon DEF NextRound
  <2> HIDE DEF clean
  <2> QED  BY <2>1 DEF Nothing
<1>5. /\ NextRound.fresh = clean
      /\ NextRound.data = [i \in Params |-> <<>>] /\ NextRound.other = {}
      /\ NextRound.ran = [s \in Sets |-> 0]
      /\ NextRound.round = given.round + 1
  BY <1>4
<1>6. NextRound \in History
  <2> HIDE DEF clean
  <2>1. {} \in SUBSET Params /\ {} \in SUBSET Sets /\ [s \in Sets |-> 0] \in [Sets -> Nat]
        /\ 0 \in 0 .. MaxPuts
    BY <1>1
  <2> QED  BY <1>1, <1>2, <1>3, <1>4, <2>1 DEF History
<1> QED  BY <1>1, <1>5, <1>6

\* The calls outside of a dialogue forget the last execution.
LEMMA ForgottenKeeps ==
  ASSUME IInv, ParametersAssumption, Forgotten, dm = "ready", dm' = dm,
         NEW reply \in {"none", "skipped", "error"},
         result' = [reply |-> reply, outcome |-> <<>>]
  PROVE  /\ result' \in Answer
         /\ given' \in History
         /\ NothingRanYet' /\ CanGoOn' /\ SetsRunOnce' /\ SetsReported'
         /\ DialogueContinues'
<1>1. given.round \in 0 .. MaxRounds /\ MaxPuts \in Nat
  BY DEF IInv, TypeOK, History, Answer, ParametersAssumption
<1>2. given' = [Nothing EXCEPT !.round = given.round]
  BY DEF Forgotten
<1>3. given' = [round |-> given.round, fresh |-> TRUE, puts |-> 0, asked |-> {},
                data |-> [i \in Params |-> <<>>], other |-> {},
                ran |-> [s \in Sets |-> 0], lost |-> {}]
  BY <1>2 DEF Nothing
<1>4. given' \in History
  BY <1>1, <1>3 DEF History
<1>5. result' \in Answer
  BY DEF Answer, Failure
<1>6. SetsRunOnce'
  BY <1>3 DEF SetsRunOnce
<1>7. SetsReported'
  <2>1. Executed(<<>>) = {}
    BY DEF Executed
  <2> QED  BY <2>1 DEF SetsReported
<1>8. NothingRanYet' /\ CanGoOn' /\ DialogueContinues'
  BY DEF NothingRanYet, CanGoOn, DialogueContinues
<1> QED  BY <1>4, <1>5, <1>6, <1>7, <1>8

LEMMA SettledKeeps ==
  ASSUME IInv, ParametersAssumption, Settled, dm = "ready", dm' = dm
  PROVE  /\ result' \in Answer
         /\ given' \in History
         /\ NothingRanYet' /\ CanGoOn' /\ SetsRunOnce' /\ SetsReported'
         /\ DialogueContinues'
<1>1. Forgotten /\ result' = [reply |-> "none", outcome |-> <<>>]
  BY DEF Settled, NoResult
<1> QED  BY <1>1, ForgottenKeeps

LEMMA LastRecordKind ==
  ASSUME ParametersAssumption, NEW records
  PROVE  LastRecord(records) \in 0 .. MaxParams
<1> DEFINE there == {0} \cup {i \in Params : records[i].is # "none"}
<1>1. MaxParams \in Nat /\ there \in SUBSET (0 .. MaxParams) /\ there # {}
  BY DEF ParametersAssumption, Params
<1>2. Max(there) \in there
  BY <1>1, MaxInSet
<1> QED  BY <1>1, <1>2 DEF LastRecord

LEMMA RecordTypes ==
  /\ NoRecord \in Record /\ NoRecord.buffer = <<>>
  /\ AutoRecord \in Record /\ AutoRecord.buffer = <<>> /\ AutoRecord.is = "auto"
<1>1. /\ AutoRecord = [is |-> "auto", ind |-> [s \in Sets |-> "none"], data |-> "null",
                       buffer |-> <<>>]
      /\ NoRecord = [is |-> "none", ind |-> [s \in Sets |-> "none"], data |-> "null",
                     buffer |-> <<>>]
  BY DEF AutoRecord, NoRecord
<1> QED  BY <1>1 DEF Record, Indicator, Data

-----------------------------------------------------------------------------
(* One lemma for each call.                                                *)

LEMMA BindKeeps ==
  ASSUME IInv, ParametersAssumption, Bind
  PROVE  IInv'
<1>1. dm = "ready" /\ dm' = dm /\ Settled
      /\ UNCHANGED <<index, partial, canceled, prepared, query, sets>>
  BY DEF Bind, SQLBindParameter, BindRefused, dialogue, text
<1>2. CASE \E i \in Params, b \in Bindings : SQLBindParameter(i, b.ind, b.data, b.size)
  <2>1. PICK i \in Params, b \in Bindings : SQLBindParameter(i, b.ind, b.data, b.size)
    BY <1>2
  <2>2. /\ b.ind \in [Sets -> Indicator] /\ b.data \in Data /\ b.size \in Nat
    BY DEF ParametersAssumption
  <2>3. apd \in [Params -> Record] /\ ipd \in [Params -> Nat]
    BY DEF IInv, TypeOK, History, Answer, Record
  <2>4. [is |-> "bound", ind |-> b.ind, data |-> b.data, buffer |-> apd[i].buffer]
          \in Record
    BY <2>2, <2>3 DEF Record
  <2>5. apd' \in [Params -> Record]
    BY <2>1, <2>3, <2>4 DEF SQLBindParameter
  <2>6. ConfigureIpdRecord(i, b.size) \in Nat
    BY <2>2, <2>3 DEF ConfigureIpdRecord
  <2>7. ipd' \in [Params -> Nat]
    BY <2>1, <2>3, <2>6 DEF SQLBindParameter
  <2>8. apdCount' \in 0 .. MaxParams
    BY <2>1, LastRecordKind DEF SQLBindParameter
  <2>9. state' \in {state, "NeedsParams"}
    BY <2>1 DEF SQLBindParameter
  <2>10. TypeOK'
    BY <1>1, <2>5, <2>7, <2>8, <2>9, SettledKeeps DEF IInv, TypeOK, History, Answer, Record
  <2>11. Positioned'
    BY <1>1, <2>9 DEF IInv, Positioned
  <2> QED  BY <1>1, <2>10, <2>11, SettledKeeps DEF IInv
<1>3. CASE BindRefused
  <2>1. TypeOK'
    BY <1>1, <1>3, SettledKeeps DEF BindRefused, descriptors, IInv, TypeOK, History, Answer
  <2>2. Positioned'
    BY <1>3 DEF BindRefused, Positioned
  <2> QED  BY <1>1, <2>1, <2>2, SettledKeeps DEF IInv
<1> QED  BY <1>2, <1>3 DEF Bind

LEMMA PopulateIpdKind ==
  ASSUME ParametersAssumption, NEW n \in 0 .. MaxParams
  PROVE  PopulateIpd(n) \in [Params -> Nat]
BY DEF PopulateIpd, ParametersAssumption

\* A text that cannot be prepared leaves a query and sizes of their types.
LEMMA PrepareFailsKind ==
  ASSUME IInv, ParametersAssumption, NEW q \in Texts, PrepareFails(q)
  PROVE  query' \in [params : 0 .. MaxParams, select : BOOLEAN] /\ ipd' \in [Params -> Nat]
<1>1. /\ query \in [params : 0 .. MaxParams, select : BOOLEAN] /\ ipd \in [Params -> Nat]
      /\ q \in [params : 0 .. MaxParams, select : BOOLEAN]
  BY DEF IInv, TypeOK, ParametersAssumption
<1>2. PopulateIpd(0) \in [Params -> Nat]
  <2>1. 0 \in 0 .. MaxParams
    BY DEF ParametersAssumption
  <2> QED  BY <2>1, PopulateIpdKind
<1> QED  BY <1>1, <1>2 DEF PrepareFails

LEMMA PrepareKeeps ==
  ASSUME IInv, ParametersAssumption, NEW q \in Texts, SQLPrepare(q)
  PROVE  IInv'
<1>1. dm = "ready" /\ dm' = dm /\ Settled
      /\ UNCHANGED <<index, partial, apd, apdCount, sets>>
  BY DEF SQLPrepare, dialogue
<1>2. q \in [params : 0 .. MaxParams, select : BOOLEAN]
  BY DEF ParametersAssumption
<1>3. query' \in [params : 0 .. MaxParams, select : BOOLEAN] /\ ipd' \in [Params -> Nat]
  <2>1. query \in [params : 0 .. MaxParams, select : BOOLEAN] /\ ipd \in [Params -> Nat]
    BY DEF IInv, TypeOK, History, Answer
  <2>2. CASE PrepareFails(q)
    BY <2>2, PrepareFailsKind
  <2>3. CASE ~PrepareFails(q)
    BY <1>2, <2>1, <2>3, PopulateIpdKind DEF SQLPrepare, PrepareQuery
  <2> QED  BY <2>2, <2>3
<1>4. {partial', canceled', prepared'} \subseteq BOOLEAN
  BY DEF SQLPrepare, dialogue, IInv, TypeOK, History, Answer
<1>5. state' \in {"NotPrepared", "Prepared"}
  BY DEF SQLPrepare
<1>6. TypeOK'
  BY <1>1, <1>3, <1>4, <1>5, SettledKeeps DEF IInv, TypeOK, History, Answer
<1>7. Positioned'
  BY <1>5 DEF Positioned
<1> QED  BY <1>1, <1>6, <1>7, SettledKeeps DEF IInv

LEMMA ResetParamsKeeps ==
  ASSUME IInv, ParametersAssumption, ResetParams
  PROVE  IInv'
<1>1. dm = "ready" /\ dm' = dm /\ Settled
      /\ UNCHANGED <<state, index, partial, canceled, prepared, query, ipd, sets>>
  BY DEF ResetParams, dialogue, text
<1>2. apd' \in [Params -> Record]
  BY RecordTypes DEF ResetParams, IInv, TypeOK, History, Answer, Record
<1>3. apdCount' \in 0 .. MaxParams
  BY LastRecordKind DEF ResetParams
<1>4. TypeOK'
  BY <1>1, <1>2, <1>3, SettledKeeps DEF IInv, TypeOK, History, Answer, Record
<1>5. Positioned'
  BY <1>1 DEF IInv, Positioned
<1> QED  BY <1>1, <1>4, <1>5, SettledKeeps DEF IInv

LEMMA CloseCursorKeeps ==
  ASSUME IInv, ParametersAssumption, CloseCursor
  PROVE  IInv'
<1>1. dm = "ready" /\ dm' = dm /\ Settled /\ state' \in {"NotPrepared", "Prepared"}
      /\ UNCHANGED <<index, partial, canceled, prepared, query, apd, ipd, apdCount, sets>>
  BY DEF CloseCursor, dialogue, text, descriptors
<1>2. TypeOK'
  BY <1>1, SettledKeeps DEF IInv, TypeOK, History, Answer
<1>3. Positioned'
  BY <1>1 DEF Positioned
<1> QED  BY <1>1, <1>2, <1>3, SettledKeeps DEF IInv

\* What an execution leaves is enough for the invariant.
LEMMA AfterExecution ==
  ASSUME IInv, ParametersAssumption, TypeOK',
         state' \in {"NotPrepared", "Prepared", "NeedsParams", "WithRs", "WithoutRs"},
         dm' \in {"ready", "need"},
         dm' = "need" => state' = "NeedsParams",
         given'.fresh => index' <= query'.params,
         given'.round # 0,
         NothingRanYet', SetsRunOnce', SetsReported'
  PROVE  IInv'
<1>1. index' \in Nat /\ query'.params \in Nat
  BY DEF TypeOK, History, Answer, ParametersAssumption
<1>2. Positioned' /\ CanGoOn'
  BY DEF Positioned, CanGoOn
<1>3. DialogueContinues'
  BY <1>1 DEF DialogueContinues, ParamDataRefused
<1> QED  BY <1>2, <1>3 DEF IInv

LEMMA ExecuteKeeps ==
  ASSUME IInv, ParametersAssumption, NEW server \in Servers, SQLExecute(server)
  PROVE  IInv'
<1>1. /\ given.round < MaxRounds
      /\ ActuallyProcessExecute(apd, query, server, FALSE, "Prepared", NextRound)
      /\ UNCHANGED <<index, partial, canceled, prepared, query, apd, ipd, apdCount, sets>>
  BY DEF SQLExecute, dialogue, text, descriptors
<1>2. apd \in [Params -> Record] /\ query \in [params : 0 .. MaxParams, select : BOOLEAN]
  BY DEF IInv, TypeOK, History, Answer, Record
<1>3. ExecutionLeaves(NextRound)
  <2>1. NextRound \in History /\ \A s \in Sets : NextRound.ran[s] = 0
    BY <1>1, NextRoundKind
  <2> QED  BY <1>1, <1>2, <2>1, ExecutionKeeps
<1>4. TypeOK'
  BY <1>1, <1>3 DEF IInv, TypeOK, ExecutionLeaves, History, Answer
<1>5. given'.fresh => index' <= query'.params
  BY <1>1, <1>2, <1>3, NextRoundKind DEF ParametersAssumption, ExecutionLeaves
<1>6. given'.round # 0
  BY <1>1, <1>3, NextRoundKind DEF ExecutionLeaves
<1> QED  BY <1>3, <1>4, <1>5, <1>6, AfterExecution DEF ExecutionLeaves

LEMMA ExecDirectKeeps ==
  ASSUME IInv, ParametersAssumption, NEW q \in Texts, NEW server \in Servers,
         SQLExecDirect(q, server)
  PROVE  IInv'
<1> DEFINE p == IF apd[1].is = "none" THEN [q EXCEPT !.params = 0] ELSE q
<1>1. /\ given.round < MaxRounds
      /\ PrepareQuery(p)
      /\ ActuallyProcessExecute(apd, query', server, FALSE, "NotPrepared", NextRound)
      /\ UNCHANGED <<index, partial, canceled, prepared, apd, apdCount, sets>>
  BY DEF SQLExecDirect, dialogue
<1>2. apd \in [Params -> Record]
  BY DEF IInv, TypeOK, History, Answer, Record
<1>3. p \in [params : 0 .. MaxParams, select : BOOLEAN]
  BY DEF ParametersAssumption
<1> HIDE DEF p
<1>4. query' = p /\ ipd' \in [Params -> Nat]
  BY <1>1, <1>3, PopulateIpdKind DEF PrepareQuery
<1>5. ActuallyProcessExecute(apd, p, server, FALSE, "NotPrepared", NextRound)
  BY <1>1, <1>4
<1>6. ExecutionLeaves(NextRound)
  <2>1. NextRound \in History /\ \A s \in Sets : NextRound.ran[s] = 0
    BY <1>1, NextRoundKind
  <2> QED  BY <1>2, <1>3, <1>5, <2>1, ExecutionKeeps
<1>7. TypeOK'
  BY <1>1, <1>3, <1>4, <1>6 DEF IInv, TypeOK, ExecutionLeaves, History, Answer
<1>8. given'.fresh => index' <= query'.params
  BY <1>1, <1>3, <1>4, <1>6, NextRoundKind DEF ParametersAssumption, ExecutionLeaves
<1>9. given'.round # 0
  BY <1>1, <1>6, NextRoundKind DEF ExecutionLeaves
<1> QED  BY <1>6, <1>7, <1>8, <1>9, AfterExecution DEF ExecutionLeaves

\* The calls that execute nothing.
LEMMA ExecuteSkippedKeeps ==
  ASSUME IInv, ParametersAssumption, SQLExecuteSkipped
  PROVE  IInv'
<1>1. /\ dm = "ready" /\ dm' = dm /\ state' = "Prepared" /\ canceled' = FALSE
      /\ UNCHANGED <<index, partial, prepared, apd, ipd, apdCount, sets>>
  BY DEF SQLExecuteSkipped, dialogue, descriptors
<1>2. query' \in [params : 0 .. MaxParams, select : BOOLEAN]
  BY DEF SQLExecuteSkipped, IInv, TypeOK
<1>3. /\ result' \in Answer /\ given' \in History
      /\ NothingRanYet' /\ CanGoOn' /\ SetsRunOnce' /\ SetsReported' /\ DialogueContinues'
  <2>1. PICK reply \in {"skipped", "error"} : AnsweredWith(reply)
    BY DEF SQLExecuteSkipped
  <2> QED  BY <1>1, <2>1, ForgottenKeeps DEF AnsweredWith
<1>4. TypeOK'
  BY <1>1, <1>2, <1>3 DEF IInv, TypeOK, History, Answer
<1>5. Positioned'
  BY <1>1 DEF Positioned
<1> QED  BY <1>3, <1>4, <1>5 DEF IInv

LEMMA ExecDirectSkippedKeeps ==
  ASSUME IInv, ParametersAssumption, SQLExecDirectSkipped
  PROVE  IInv'
<1>1. /\ dm = "ready" /\ dm' = dm /\ state' = "NotPrepared" /\ canceled' = FALSE
      /\ UNCHANGED <<index, partial, prepared, query, apd, ipd, apdCount, sets>>
  BY DEF SQLExecDirectSkipped, dialogue, descriptors
<1>2. /\ result' \in Answer /\ given' \in History
      /\ NothingRanYet' /\ CanGoOn' /\ SetsRunOnce' /\ SetsReported' /\ DialogueContinues'
  BY <1>1, ForgottenKeeps DEF SQLExecDirectSkipped, AnsweredWith
<1>3. TypeOK'
  BY <1>1, <1>2 DEF IInv, TypeOK, History, Answer
<1>4. Positioned'
  BY <1>1 DEF Positioned
<1> QED  BY <1>2, <1>3, <1>4 DEF IInv

LEMMA ExecDirectFailsKeeps ==
  ASSUME IInv, ParametersAssumption, NEW q \in Texts, SQLExecDirectFails(q)
  PROVE  IInv'
<1>1. /\ dm = "ready" /\ dm' = dm /\ state' = "StillExecuting"
      /\ UNCHANGED <<index, partial, canceled, prepared, apd, apdCount, sets>>
  BY DEF SQLExecDirectFails, dialogue
<1>2. query' \in [params : 0 .. MaxParams, select : BOOLEAN] /\ ipd' \in [Params -> Nat]
  BY PrepareFailsKind DEF SQLExecDirectFails
<1>3. /\ result' \in Answer /\ given' \in History
      /\ NothingRanYet' /\ CanGoOn' /\ SetsRunOnce' /\ SetsReported' /\ DialogueContinues'
  BY <1>1, ForgottenKeeps DEF SQLExecDirectFails, AnsweredWith
<1>4. TypeOK'
  BY <1>1, <1>2, <1>3 DEF IInv, TypeOK, History, Answer
<1>5. Positioned'
  BY <1>1 DEF Positioned
<1> QED  BY <1>3, <1>4, <1>5 DEF IInv

LEMMA ParamDataRefusedKeeps ==
  ASSUME IInv, ParametersAssumption, SQLParamDataRefused
  PROVE  IInv'
<1>1. /\ dm \in {"need", "can"} /\ dm' = "ready"
      /\ result'.reply \in {"HY010", "HY000"} /\ result'.outcome = result.outcome
      /\ UNCHANGED <<state, index, partial, canceled, prepared, query, apd, ipd, apdCount,
                     sets, given>>
  BY DEF SQLParamDataRefused, dialogue, text, descriptors, IInv, TypeOK, History, Answer
<1>2. result' \in Answer
  BY DEF SQLParamDataRefused, IInv, TypeOK, History, Answer, Failure
<1>3. TypeOK'
  BY <1>1, <1>2 DEF IInv, TypeOK, History, Answer
<1>4. Executed(result'.outcome) = {}
  BY <1>1 DEF IInv, NothingRanYet
<1>5. SetsReported'
  BY <1>1, <1>4 DEF SetsReported
<1>6. Positioned' /\ NothingRanYet' /\ CanGoOn' /\ SetsRunOnce' /\ DialogueContinues'
  BY <1>1 DEF IInv, Positioned, NothingRanYet, CanGoOn, SetsRunOnce, DialogueContinues
<1> QED  BY <1>3, <1>5, <1>6 DEF IInv

\* The parameter asked for next is one of the text.
LEMMA NextAskedKind ==
  ASSUME IInv, ParametersAssumption
  PROVE  /\ NextAsked # 0 =>
              /\ NextAsked \in Params /\ NextAsked <= query.params
              /\ index < NextAsked /\ Asks(NextAsked)
              /\ \A i \in Params : index < i /\ i < NextAsked => ~Asks(i)
         /\ NextAsked = 0 =>
              \A i \in Params : index < i /\ i <= query.params => ~Asks(i)
<1> DEFINE asked == {i \in Params : index < i /\ i <= query.params /\ Asks(i)}
<1>1. NextAsked = IF asked = {} THEN 0 ELSE Min(asked)
  BY DEF NextAsked
<1>2. Params \subseteq Nat \ {0} /\ index \in Nat /\ query.params \in Nat
  BY DEF Params, ParametersAssumption, IInv, TypeOK, History, Answer
<1>3. CASE asked = {}
  BY <1>1, <1>3
<1>4. CASE asked # {}
  <2>1. asked \in SUBSET Nat
    BY <1>2
  <2>2. Min(asked) \in asked
    BY <1>4, <2>1, MinInSet
  <2>3. \A k \in asked : Min(asked) <= k
    BY <1>4, <2>1, LeastOfNats DEF Min
  <2>4. NextAsked \in asked /\ NextAsked # 0
    BY <1>1, <1>2, <1>4, <2>2
  <2>5. \A k \in asked : NextAsked <= k
    BY <1>1, <1>4, <2>3
  <2>6. ASSUME NEW i \in Params, index < i, i < NextAsked, Asks(i)
        PROVE  FALSE
    <3>1. i \in asked
      BY <1>2, <2>4, <2>6
    <3> QED  BY <1>2, <2>4, <2>5, <2>6, <3>1
  <2> QED  BY <2>4, <2>6
<1> QED  BY <1>3, <1>4

LEMMA VisitedKind ==
  ASSUME IInv, NEW upto
  PROVE  /\ Visited(upto) \in [Params -> Record]
         /\ \A i \in Params :
              \/ Visited(upto)[i] = apd[i]
              \/ apd[i].is = "none" /\ Visited(upto)[i] = AutoRecord
<1>1. apd \in [Params -> Record]
  BY DEF IInv, TypeOK, History, Answer, Record
<1> QED  BY <1>1, RecordTypes DEF Visited

LEMMA ParamDataAsksKeeps ==
  ASSUME IInv, ParametersAssumption, SQLParamDataAsks
  PROVE  IInv'
<1>1. /\ dm \in {"need", "can"} /\ dm' = "must" /\ state' = "NeedsPutData"
      /\ index' = NextAsked /\ NextAsked # 0 /\ partial' = FALSE
      /\ apd' = Visited(NextAsked)
      /\ given' = [given EXCEPT !.asked = given.asked \cup {NextAsked}]
      /\ UNCHANGED <<canceled, prepared, query, ipd, apdCount, sets, result>>
  BY DEF SQLParamDataAsks, text
<1>2. NextAsked \in Params /\ NextAsked <= query.params
  BY <1>1, NextAskedKind
<1>3. NextAsked \in 0 .. MaxParams
  BY <1>2 DEF Params, ParametersAssumption
<1>4. apd' \in [Params -> Record]
  BY <1>1, VisitedKind
<1>5. /\ given' \in History
      /\ given'.ran = given.ran /\ given'.fresh = given.fresh
      /\ given'.lost = given.lost
  BY <1>1, <1>2 DEF IInv, TypeOK, History, Answer
<1>6. TypeOK'
  BY <1>1, <1>3, <1>4, <1>5 DEF IInv, TypeOK, History, Answer, Record
<1>7. NothingRanYet' /\ SetsRunOnce' /\ SetsReported'
  BY <1>1, <1>5 DEF IInv, NothingRanYet, SetsRunOnce, SetsReported
<1>8. Positioned' /\ CanGoOn' /\ DialogueContinues'
  <2>1. given'.round # 0
    BY <1>1, <1>5 DEF IInv, TypeOK, History, Answer, CanGoOn
  <2>2. NextAsked # 0
    BY <1>1
  <2> QED  BY <1>1, <1>2, <2>1, <2>2 DEF Positioned, CanGoOn, DialogueContinues
<1> QED  BY <1>6, <1>7, <1>8 DEF IInv

LEMMA ParamDataExecutesKeeps ==
  ASSUME IInv, ParametersAssumption, NEW server \in Servers,
         SQLParamDataExecutes(server)
  PROVE  IInv'
<1>1. /\ dm \in {"need", "can"} /\ apd' = Visited(query.params)
      /\ ActuallyProcessExecute(apd', query, server, TRUE, "Prepared", given)
      /\ UNCHANGED <<index, partial, canceled, prepared, query, ipd, apdCount, sets>>
  BY DEF SQLParamDataExecutes, dialogue, text
<1>2. apd' \in [Params -> Record] /\ query \in [params : 0 .. MaxParams, select : BOOLEAN]
  BY <1>1, VisitedKind DEF IInv, TypeOK, History, Answer
<1>3. /\ given \in History
      /\ \A s \in Sets : given.ran[s] = 0 \/ s \in given.lost
  BY <1>1 DEF IInv, TypeOK, NothingRanYet, History, Answer
<1>4. ExecutionLeaves(given)
  BY <1>1, <1>2, <1>3, ExecutionKeeps
<1>5. TypeOK'
  BY <1>1, <1>2, <1>4 DEF IInv, TypeOK, Record, ExecutionLeaves, History, Answer
<1>6. given'.fresh => index' <= query'.params
  BY <1>1, <1>4 DEF IInv, CanGoOn, ExecutionLeaves
<1>7. given'.round # 0
  BY <1>1, <1>4 DEF IInv, CanGoOn, ExecutionLeaves
<1> QED  BY <1>4, <1>5, <1>6, <1>7, AfterExecution DEF ExecutionLeaves

\* What SQLPutData stores is a sequence of bytes, and so is what was given.
LEMMA StoredKind ==
  ASSUME IInv, ParametersAssumption, dm # "ready", given.puts < MaxPuts, index # 0,
         NEW kind \in PutKind, NEW n \in 1 .. 2
  PROVE  /\ index \in Params
         /\ Piece(n) \in Seq(Byte)
         /\ [k \in 1 .. 4 |-> Nul] \in Seq(Byte)
         /\ Stored(kind, n) \in Seq(Byte)
<1>1. /\ given.round \in 1 .. MaxRounds /\ given.puts + 1 \in 1 .. MaxPuts
      /\ index \in Params
  <2>1. /\ given.round \in 0 .. MaxRounds /\ given.puts \in 0 .. MaxPuts
        /\ index \in 0 .. MaxParams /\ given.round # 0
    BY DEF IInv, TypeOK, CanGoOn
  <2> QED  BY <2>1 DEF Params, ParametersAssumption
<1>2. [round |-> given.round, put |-> given.puts + 1] \in Byte /\ Nul \in Byte
  BY <1>1 DEF Byte
<1>3. Piece(n) \in Seq(Byte) /\ [k \in 1 .. 4 |-> Nul] \in Seq(Byte)
  <2>1. Piece(n) \in [1 .. n -> Byte] /\ [k \in 1 .. 4 |-> Nul] \in [1 .. 4 -> Byte]
    BY <1>2 DEF Piece
  <2> QED  BY <2>1
<1>4. apd[index].buffer \in Seq(Byte)
  BY <1>1 DEF IInv, TypeOK, History, Answer
<1>5. apd[index].buffer \o Piece(n) \in Seq(Byte)
  BY <1>3, <1>4
<1> HIDE DEF Piece
<1> QED  BY <1>1, <1>3, <1>4, <1>5 DEF Stored, PutKind

LEMMA PutKeeps ==
  ASSUME IInv, ParametersAssumption, Put
  PROVE  IInv'
<1>1. PICK kind \in PutKinds, n \in 1 .. 2 :
        SQLPutData(kind, n) \/ SQLPutDataRefused(kind, n)
  BY DEF Put
<1>2. kind \in PutKind
  BY DEF ParametersAssumption
<1>3. CASE SQLPutData(kind, n)
  <2> DEFINE data == IF kind = "data" THEN given.data[index] \o Piece(n)
                     ELSE given.data[index]
  <2> DEFINE other == IF kind = "data" THEN given.other ELSE given.other \cup {index}
  <2>1. /\ dm \in {"must", "can"} /\ dm' = "can" /\ partial' = TRUE
        /\ given.puts < MaxPuts /\ state = "NeedsPutData"
        /\ apd' = [apd EXCEPT ![index].buffer = Stored(kind, n)]
        /\ state' \in {state, "NeedsParams"}
        /\ given' = [given EXCEPT !.puts = given.puts + 1, !.data[index] = data,
                                  !.other = other]
        /\ UNCHANGED <<index, canceled, prepared, query, ipd, apdCount, sets, result>>
    BY <1>3 DEF SQLPutData, text
  <2>2. index # 0
    BY <2>1 DEF IInv, Positioned
  <2>3. /\ index \in Params
        /\ Piece(n) \in Seq(Byte)
        /\ [k \in 1 .. 4 |-> Nul] \in Seq(Byte)
        /\ Stored(kind, n) \in Seq(Byte)
    BY <1>2, <2>1, <2>2, StoredKind
  <2>4. apd' \in [Params -> Record]
    <3>1. apd \in [Params -> Record]
      BY DEF IInv, TypeOK, History, Answer, Record
    <3>2. [apd[index] EXCEPT !.buffer = Stored(kind, n)] \in Record
      BY <2>3, <3>1 DEF Record
    <3>3. apd' = [apd EXCEPT ![index] = [apd[index] EXCEPT !.buffer = Stored(kind, n)]]
      BY <2>1, <2>3, <3>1
    <3> QED  BY <3>1, <3>2, <3>3
  <2>5. data \in Seq(Byte)
    <3>1. given.data[index] \in Seq(Byte)
      BY <2>3 DEF IInv, TypeOK, History, Answer
    <3> QED  BY <2>3, <3>1
  <2> HIDE DEF data
  <2>5a. other \in SUBSET Params
    BY <2>3 DEF IInv, TypeOK
  <2> HIDE DEF other
  <2>6. /\ given' \in History
        /\ given'.ran = given.ran /\ given'.fresh = given.fresh
        /\ given'.round = given.round /\ given'.lost = given.lost
    <3>1. given.puts + 1 \in 0 .. MaxPuts
      BY <2>1 DEF IInv, TypeOK, History, Answer, ParametersAssumption
    <3>2. [given.data EXCEPT ![index] = data] \in [Params -> Seq(Byte)]
      BY <2>3, <2>5 DEF IInv, TypeOK, History, Answer
    <3>3. given' = [given EXCEPT !.puts = given.puts + 1,
                                 !.data = [given.data EXCEPT ![index] = data],
                                 !.other = other]
      BY <2>1 DEF IInv, TypeOK, History, Answer
    <3> QED  BY <2>5a, <3>1, <3>2, <3>3 DEF IInv, TypeOK, History, Answer
  <2>7. TypeOK'
    BY <2>1, <2>4, <2>6 DEF IInv, TypeOK, History, Answer, Record
  <2>8. NothingRanYet' /\ SetsRunOnce' /\ SetsReported'
    BY <2>1, <2>6 DEF IInv, NothingRanYet, SetsRunOnce, SetsReported
  <2>9. Positioned' /\ CanGoOn'
    BY <2>1, <2>2, <2>6 DEF IInv, Positioned, CanGoOn
  <2>10. DialogueContinues'
    BY <2>1, <2>9, <2>7 DEF DialogueContinues, ParamDataRefused, CanGoOn, TypeOK,
       History, Answer, ParametersAssumption
  <2> QED  BY <2>7, <2>8, <2>9, <2>10 DEF IInv
<1>4. CASE SQLPutDataRefused(kind, n)
  <2>1. /\ dm \in {"must", "can"} /\ dm' = "ready"
        /\ result'.reply \in {"HY010", "22001"} /\ result'.outcome = result.outcome
        /\ UNCHANGED <<state, index, partial, canceled, prepared, query, apd, ipd, apdCount,
                       sets, given>>
    BY <1>4 DEF SQLPutDataRefused, dialogue, text, descriptors, IInv, TypeOK, History,
       Answer
  <2>2. result' \in Answer
    BY <1>4 DEF SQLPutDataRefused, IInv, TypeOK, History, Answer, Failure
  <2>3. TypeOK'
    BY <2>1, <2>2 DEF IInv, TypeOK, History, Answer
  <2>4. Executed(result'.outcome) = {}
    BY <2>1 DEF IInv, NothingRanYet
  <2>5. SetsReported'
    BY <2>1, <2>4 DEF SetsReported
  <2>6. Positioned' /\ NothingRanYet' /\ CanGoOn' /\ SetsRunOnce' /\ DialogueContinues'
    BY <2>1 DEF IInv, Positioned, NothingRanYet, CanGoOn, SetsRunOnce, DialogueContinues
  <2> QED  BY <2>3, <2>5, <2>6 DEF IInv
<1> QED  BY <1>1, <1>3, <1>4

LEMMA CancelKeeps ==
  ASSUME IInv, SQLCancel
  PROVE  IInv'
<1>1. /\ dm' = "ready" /\ canceled' \in BOOLEAN
      /\ UNCHANGED <<state, index, partial, prepared, query, apd, ipd, apdCount, sets,
                     result, given>>
  BY DEF SQLCancel, dialogue, descriptors, IInv, TypeOK
<1>2. TypeOK'
  BY <1>1 DEF IInv, TypeOK, History, Answer
<1>3. /\ Positioned' /\ NothingRanYet' /\ CanGoOn' /\ SetsRunOnce' /\ SetsReported'
      /\ DialogueContinues'
  BY <1>1 DEF IInv, Positioned, NothingRanYet, CanGoOn, SetsRunOnce, SetsReported,
     DialogueContinues
<1> QED  BY <1>2, <1>3 DEF IInv

LEMMA StutterKeeps ==
  ASSUME IInv, UNCHANGED vars
  PROVE  IInv'
<1>1. UNCHANGED <<state, index, partial, canceled, prepared, query, apd, ipd, apdCount,
                  sets, result, dm, given>>
  BY DEF vars, dialogue, descriptors, text
<1>2. TypeOK'
  BY <1>1 DEF IInv, TypeOK, History, Answer
<1>3. Positioned' /\ NothingRanYet' /\ CanGoOn'
  BY <1>1 DEF IInv, Positioned, NothingRanYet, CanGoOn
<1>4. SetsRunOnce' /\ SetsReported' /\ DialogueContinues'
  BY <1>1 DEF IInv, SetsRunOnce, SetsReported, DialogueContinues, ParamDataRefused
<1> QED  BY <1>2, <1>3, <1>4 DEF IInv

LEMMA StepKeeps ==
  ASSUME IInv, ParametersAssumption, [Next]_vars
  PROVE  IInv'
BY BindKeeps, PrepareKeeps, ResetParamsKeeps, CloseCursorKeeps, ExecuteKeeps,
   ExecuteSkippedKeeps, ExecDirectKeeps, ExecDirectSkippedKeeps, ExecDirectFailsKeeps, ParamDataRefusedKeeps, ParamDataAsksKeeps, ParamDataExecutesKeeps,
   PutKeeps, CancelKeeps, StutterKeeps DEF Next

THEOREM Invariance == Spec => []IInv
<1>1. Init => IInv
  BY InitIInv, ParametersAssumption
<1>2. IInv /\ [Next]_vars => IInv'
  BY StepKeeps, ParametersAssumption
<1> QED  BY <1>1, <1>2, PTL DEF Spec

\* The fields of the statement are of their types, and the index of the dialogue
\* is that of a parameter (SQLParamData, SQLPutData).
THEOREM TypeCorrect == Spec => []TypeOK
<1>1. IInv => TypeOK
  BY DEF IInv
<1> QED  BY <1>1, Invariance, PTL

\* One execution runs each set of parameters at most once, whether or not data
\* was needed in between, except a set whose answer was lost
\* (ActuallyProcessExecute, SQLParamData).
THEOREM EachSetOnce == Spec => []SetsRunOnce
<1>1. IInv => SetsRunOnce
  BY DEF IInv
<1> QED  BY <1>1, Invariance, PTL

\* SQL_SUCCESS means that every set was executed, 01S01 that some were and some
\* not, and a diagnostic of a failure, or SQL_NEED_DATA, that the driver knows of
\* none (ActuallyProcessExecute); SQL_SUCCESS in answer to a cancellation and a
\* failure of the results are told apart.
THEOREM AnswersTellTheSets == Spec => []SetsReported
<1>1. IInv => SetsReported
  BY DEF IInv
<1> QED  BY <1>1, Invariance, PTL

\* After SQL_NEED_DATA the statement is in the state in which SQLParamData and
\* SQLPutData work, and the first dialogue stays within the text's parameters.
THEOREM DialogueGoesOn == Spec => []DialogueContinues
<1>1. IInv => DialogueContinues
  BY DEF IInv
<1> QED  BY <1>1, Invariance, PTL
-----------------------------------------------------------------------------
(* The first dialogue.  What SQLPutData was given otherwise than by its    *)
(* length, and parameters SQLParamData does not ask for because it looks   *)
(* at the indicator of the first set only, are excepted by the property.   *)

\* A record that is not there has no data.
Clean == \A i \in Params : apd[i].is = "none" => apd[i].buffer = <<>>

\* SQLPutData has a bound record to put its data in.
AskedBound ==
  dm \in {"must", "can"} => /\ index \in Params
                            /\ apd[index].is = "bound"

\* The buffers hold what was given by its length alone, and every parameter up to the index that
\* asks was asked for.
Buffered ==
  dm # "ready" /\ given.fresh =>
    \A i \in Params : /\ i \in given.other \/ apd[i].buffer = given.data[i]
                      /\ i <= index /\ Asks(i) => i \in given.asked

FirstInv == Clean /\ AskedBound /\ Buffered /\ FirstDialogueSentAsGiven

LEMMA InitFirstInv ==
  ASSUME ParametersAssumption, Init
  PROVE  FirstInv
<1>1. \A i \in Params : apd[i].is = "none" /\ apd[i].buffer = <<>>
  BY RecordTypes DEF Init, NoRecord
<1>2. dm = "ready" /\ result.outcome = <<>>
  BY DEF Init, NoResult
<1>3. FirstDialogueSentAsGiven
  BY <1>2 DEF FirstDialogueSentAsGiven
<1> QED  BY <1>1, <1>2, <1>3 DEF FirstInv, Clean, AskedBound, Buffered

\* A call outside of a dialogue that executes nothing, and leaves, erases or
\* binds each record.
LEMMA NothingSentKeepsFirst ==
  ASSUME IInv, FirstInv, result'.outcome = <<>>, dm' = "ready",
         \A i \in Params : \/ apd'[i] = apd[i]
                           \/ apd'[i] = NoRecord
                           \/ apd'[i].is = "bound"
  PROVE  FirstInv'
<1>1. NoRecord.is = "none" /\ NoRecord.buffer = <<>>
  BY DEF NoRecord
<1>2. Clean'
  BY <1>1 DEF FirstInv, Clean
<1>3. FirstDialogueSentAsGiven'
  BY DEF FirstDialogueSentAsGiven
<1> QED  BY <1>2, <1>3 DEF FirstInv, AskedBound, Buffered

\* What an execution sends comes from the buffers of the records it was given.
LEMMA ExecutionSends ==
  ASSUME IInv, ParametersAssumption,
         NEW records \in [Params -> Record], NEW server \in Servers,
         NEW buffered \in BOOLEAN,
         NEW q \in [params : 0 .. MaxParams, select : BOOLEAN],
         NEW failureState, NEW round,
         ActuallyProcessExecute(records, q, server, buffered, failureState, round)
  PROVE  SentFromBuffers(result'.outcome, records, q, buffered)
<1>1. result'.outcome = Outcomes(records, q, server, buffered)
  <2> DEFINE o == Outcomes(records, q, server, buffered)
  <2>1. \E reply : result' = [reply |-> reply, outcome |-> o]
    BY DEF ActuallyProcessExecute
  <2> HIDE DEF o
  <2> QED  BY <2>1 DEF o
<1>2. sets \in Sets
  BY DEF IInv, TypeOK
<1> QED  BY <1>1, <1>2, OutcomesKind

\* An execution that has no buffered data starts the dialogue.
LEMMA NewExecutionKeepsFirst ==
  ASSUME IInv, ParametersAssumption, FirstInv, given.round < MaxRounds,
         NEW server \in Servers,
         NEW q \in [params : 0 .. MaxParams, select : BOOLEAN],
         NEW failureState \in {"NotPrepared", "Prepared"},
         ActuallyProcessExecute(apd, q, server, FALSE, failureState, NextRound),
         apd' = apd, index' = index
  PROVE  FirstInv'
<1>1. apd \in [Params -> Record]
  BY DEF IInv, TypeOK, Record
<1>2. ExecutionLeaves(NextRound)
  <2>1. NextRound \in History /\ \A s \in Sets : NextRound.ran[s] = 0
    BY NextRoundKind
  <2>2. CASE failureState = "Prepared"
    <3>1. ActuallyProcessExecute(apd, q, server, FALSE, "Prepared", NextRound)
      BY <2>2
    <3> QED  BY <1>1, <2>1, <3>1, ExecutionKeeps
  <2>3. CASE failureState = "NotPrepared"
    <3>1. ActuallyProcessExecute(apd, q, server, FALSE, "NotPrepared", NextRound)
      BY <2>3
    <3> QED  BY <1>1, <2>1, <3>1, ExecutionKeeps
  <2> QED  BY <2>2, <2>3
<1>3. /\ dm' \in {"ready", "need"}
      /\ given'.fresh = NextRound.fresh /\ given'.data = NextRound.data
  BY <1>2 DEF ExecutionLeaves
<1>4. SentFromBuffers(result'.outcome, apd, q, FALSE)
  BY <1>1, ExecutionSends
<1>5. FirstDialogueSentAsGiven'
  BY <1>4 DEF SentFromBuffers, FirstDialogueSentAsGiven
<1>6. given'.fresh => index' = 0 /\ \A i \in Params : apd'[i].buffer = given'.data[i]
  BY <1>3, NextRoundKind
<1>7. Buffered'
  BY <1>6 DEF Buffered, Params
<1>8. Clean' /\ AskedBound'
  BY <1>3 DEF FirstInv, Clean, AskedBound
<1> QED  BY <1>5, <1>7, <1>8 DEF FirstInv

\* Looking up records changes nothing that is bound or buffered.
LEMMA VisitedKeepsFirst ==
  ASSUME IInv, ParametersAssumption, FirstInv, NEW upto, apd' = Visited(upto)
  PROVE  /\ Clean'
         /\ \A i \in Params :
              /\ apd'[i].buffer = apd[i].buffer
              /\ apd'[i].is = "bound" => apd'[i] = apd[i]
<1>1. \A i \in Params : \/ apd'[i] = apd[i]
                        \/ apd[i].is = "none" /\ apd'[i] = AutoRecord
  BY VisitedKind
<1>2. \A i \in Params : apd[i].is = "none" => apd[i].buffer = <<>>
  BY DEF FirstInv, Clean
<1>3. \A i \in Params : /\ apd'[i].buffer = apd[i].buffer
                        /\ apd'[i].is = "bound" => apd'[i] = apd[i]
  BY <1>1, <1>2, RecordTypes
<1>4. Clean'
  BY <1>1, <1>2, RecordTypes DEF Clean
<1> QED  BY <1>3, <1>4

LEMMA ParamDataAsksKeepsFirst ==
  ASSUME IInv, ParametersAssumption, FirstInv, SQLParamDataAsks
  PROVE  FirstInv'
<1>1. /\ dm # "ready" /\ dm' = "must"
      /\ index' = NextAsked /\ NextAsked # 0
      /\ apd' = Visited(NextAsked)
      /\ given' = [given EXCEPT !.asked = given.asked \cup {NextAsked}]
      /\ result' = result
  BY DEF SQLParamDataAsks
<1>2. /\ NextAsked \in Params /\ index < NextAsked /\ Asks(NextAsked)
      /\ \A i \in Params : index < i /\ i < NextAsked => ~Asks(i)
  BY <1>1, NextAskedKind
<1>3. /\ Clean'
      /\ \A i \in Params : /\ apd'[i].buffer = apd[i].buffer
                           /\ apd'[i].is = "bound" => apd'[i] = apd[i]
  BY <1>1, VisitedKeepsFirst
<1>4. apd'[NextAsked].is = "bound"
  BY <1>1, <1>2 DEF Visited, Asks
<1>5. /\ given'.fresh = given.fresh /\ given'.data = given.data
      /\ given'.asked = given.asked \cup {NextAsked}
      /\ given'.other = given.other
  BY <1>1 DEF IInv, TypeOK
<1>6. Buffered'
  <2>1. \A i \in Params : Asks(i)' => Asks(i)
    BY <1>3 DEF Asks
  <2>2. \A i \in Params : i <= NextAsked => \/ i <= index
                                            \/ index < i /\ i < NextAsked
                                            \/ i = NextAsked
    BY <1>2 DEF IInv, TypeOK, Params, ParametersAssumption
  <2> QED  BY <1>1, <1>2, <1>3, <1>5, <2>1, <2>2 DEF FirstInv, Buffered
<1>7. AskedBound'
  BY <1>1, <1>2, <1>4 DEF AskedBound
<1>8. FirstDialogueSentAsGiven'
  <2>1. \A s \in DOMAIN result'.outcome : \A i \in DOMAIN result'.outcome[s].sent :
          result'.outcome[s].sent[i].from # "buffer"
    BY <1>1 DEF IInv, NothingRanYet
  <2> QED  BY <2>1 DEF FirstDialogueSentAsGiven
<1> QED  BY <1>3, <1>6, <1>7, <1>8 DEF FirstInv

\* A call that only ends the dialogue, or changes nothing.
LEMMA RefusalKeepsFirst ==
  ASSUME FirstInv, dm' = "ready", result'.outcome = result.outcome,
         UNCHANGED <<apd, index, given>>,
         \/ dm = "ready"
         \/ \A s \in DOMAIN result.outcome : \A i \in DOMAIN result.outcome[s].sent :
              result.outcome[s].sent[i].from # "buffer"
  PROVE  FirstInv'
<1>1. FirstDialogueSentAsGiven'
  BY DEF FirstInv, FirstDialogueSentAsGiven, Asks
<1> QED  BY <1>1 DEF FirstInv, Clean, AskedBound, Buffered

LEMMA BindKeepsFirst ==
  ASSUME IInv, ParametersAssumption, FirstInv, Bind
  PROVE  FirstInv'
<1>1. apd \in [Params -> Record] /\ dm' = "ready" /\ result'.outcome = <<>>
  BY DEF Bind, SQLBindParameter, BindRefused, Settled, NoResult, IInv, TypeOK, Record
<1>2. CASE \E i \in Params, b \in Bindings : SQLBindParameter(i, b.ind, b.data, b.size)
  <2>1. PICK j \in Params, b \in Bindings : SQLBindParameter(j, b.ind, b.data, b.size)
    BY <1>2
  <2>2. apd' = [apd EXCEPT ![j] = [is |-> "bound", ind |-> b.ind, data |-> b.data,
                                   buffer |-> apd[j].buffer]]
    BY <2>1 DEF SQLBindParameter
  <2>3. \A i \in Params : \/ apd'[i] = apd[i]
                          \/ apd'[i].is = "bound"
    BY <1>1, <2>2
  <2> QED  BY <1>1, <2>3, NothingSentKeepsFirst
<1>3. CASE BindRefused
  BY <1>1, <1>3, NothingSentKeepsFirst DEF BindRefused, descriptors
<1> QED  BY <1>2, <1>3 DEF Bind

LEMMA ExecDirectKeepsFirst ==
  ASSUME IInv, ParametersAssumption, FirstInv, NEW q \in Texts, NEW server \in Servers,
         SQLExecDirect(q, server)
  PROVE  FirstInv'
<1> DEFINE p == IF apd[1].is = "none" THEN [q EXCEPT !.params = 0] ELSE q
<1>1. /\ given.round < MaxRounds /\ PrepareQuery(p)
      /\ ActuallyProcessExecute(apd, query', server, FALSE, "NotPrepared", NextRound)
      /\ apd' = apd /\ index' = index
  BY DEF SQLExecDirect, dialogue
<1>2. p \in [params : 0 .. MaxParams, select : BOOLEAN]
  BY DEF ParametersAssumption
<1> HIDE DEF p
<1>3. ActuallyProcessExecute(apd, p, server, FALSE, "NotPrepared", NextRound)
  BY <1>1 DEF PrepareQuery
<1> QED  BY <1>1, <1>2, <1>3, NewExecutionKeepsFirst

\* When SQLParamData asks for nothing more, no parameter after the index asks.
LEMMA NextAskedNone ==
  ASSUME IInv, ParametersAssumption, NextAsked = 0, NEW i \in Params,
         i <= query.params, Asks(i)
  PROVE  i <= index
<1> DEFINE asked == {k \in Params : index < k /\ k <= query.params /\ Asks(k)}
<1>1. asked \in SUBSET Nat /\ 0 \notin asked
  BY DEF Params, ParametersAssumption
<1>2. asked = {}
  <2>1. NextAsked = IF asked = {} THEN 0 ELSE Min(asked)
    BY DEF NextAsked
  <2> HIDE DEF asked
  <2> QED  BY <1>1, <2>1, MinInSet
<1>3. ~(index < i)
  BY <1>2
<1> QED  BY <1>3 DEF IInv, TypeOK, Params, ParametersAssumption

LEMMA ParamDataExecutesKeepsFirst ==
  ASSUME IInv, ParametersAssumption, FirstInv, NEW server \in Servers,
         SQLParamDataExecutes(server)
  PROVE  FirstInv'
<1>1. /\ dm # "ready" /\ index' = index /\ NextAsked = 0
      /\ apd' = Visited(query.params)
      /\ ActuallyProcessExecute(apd', query, server, TRUE, "Prepared", given)
  BY DEF SQLParamDataExecutes, dialogue
<1>2. apd' \in [Params -> Record] /\ query \in [params : 0 .. MaxParams, select : BOOLEAN]
  BY <1>1, VisitedKind DEF IInv, TypeOK
<1>3. ExecutionLeaves(given)
  <2>1. given \in History /\ \A s \in Sets : given.ran[s] = 0 \/ s \in given.lost
    BY <1>1 DEF IInv, TypeOK, NothingRanYet, History
  <2> QED  BY <1>1, <1>2, <2>1, ExecutionKeeps
<1>4. /\ dm' \in {"ready", "need"} /\ given'.fresh = given.fresh
      /\ given'.asked = given.asked /\ given'.data = given.data
      /\ given'.other = given.other
  BY <1>3 DEF ExecutionLeaves
<1>5. SentFromBuffers(result'.outcome, apd', query, TRUE)
  BY <1>1, <1>2, ExecutionSends
<1>6. /\ Clean'
      /\ \A i \in Params : /\ apd'[i].buffer = apd[i].buffer
                           /\ apd'[i].is = "bound" => apd'[i] = apd[i]
  BY <1>1, VisitedKeepsFirst
<1>7. \A i \in Params : Asks(i)' => Asks(i)
  BY <1>6 DEF Asks
<1>8. Buffered'
  BY <1>1, <1>4, <1>6, <1>7 DEF FirstInv, Buffered
<1>9. FirstDialogueSentAsGiven'
  <2> SUFFICES ASSUME given'.fresh,
                      NEW s \in DOMAIN result'.outcome,
                      NEW i \in DOMAIN result'.outcome[s].sent,
                      result'.outcome[s].sent[i].from = "buffer",
                      Asks(i)'
               PROVE  /\ i \in given'.asked
                      /\ \/ i \in given'.other
                         \/ result'.outcome[s].sent[i].bytes = given'.data[i]
    BY DEF FirstDialogueSentAsGiven
  <2>1. /\ i \in 1 .. query.params /\ apd'[i].is = "bound"
        /\ result'.outcome[s].sent[i].bytes = apd'[i].buffer
    BY <1>5 DEF SentFromBuffers
  <2>2. i \in Params /\ i <= query.params
    BY <1>2, <2>1 DEF Params, ParametersAssumption
  <2>3. apd'[i] = apd[i] /\ Asks(i)
    BY <1>6, <1>7, <2>1, <2>2
  <2>4. i <= index
    BY <1>1, <2>2, <2>3, NextAskedNone
  <2> QED  BY <1>1, <1>4, <2>1, <2>2, <2>3, <2>4 DEF FirstInv, Buffered
<1>10. AskedBound'
  BY <1>4 DEF AskedBound
<1> QED  BY <1>6, <1>8, <1>9, <1>10 DEF FirstInv

LEMMA PutKeepsFirst ==
  ASSUME IInv, ParametersAssumption, FirstInv, Put
  PROVE  FirstInv'
<1>1. PICK kind \in PutKinds, n \in 1 .. 2 :
        SQLPutData(kind, n) \/ SQLPutDataRefused(kind, n)
  BY DEF Put
<1>2. kind \in PutKind
  BY DEF ParametersAssumption
<1>3. CASE SQLPutData(kind, n)
  <2> DEFINE data == IF kind = "data" THEN given.data[index] \o Piece(n)
                     ELSE given.data[index]
  <2> DEFINE other == IF kind = "data" THEN given.other ELSE given.other \cup {index}
  <2>1. /\ dm # "ready" /\ dm' = "can" /\ index' = index /\ result' = result
        /\ dm \in {"must", "can"}
        /\ apd' = [apd EXCEPT ![index].buffer = Stored(kind, n)]
        /\ given' = [given EXCEPT !.puts = given.puts + 1, !.data[index] = data,
                                  !.other = other]
    BY <1>3 DEF SQLPutData
  <2>2. index \in Params /\ apd[index].is = "bound"
    BY <2>1 DEF FirstInv, AskedBound
  <2>3. apd \in [Params -> Record] /\ given.data \in [Params -> Seq(Byte)]
    BY DEF IInv, TypeOK, Record
  <2>4. \A i \in Params : /\ apd'[i].is = apd[i].is /\ apd'[i].ind = apd[i].ind
                          /\ i # index => apd'[i].buffer = apd[i].buffer
    BY <2>1, <2>2, <2>3 DEF Record
  <2>5. apd'[index].buffer = Stored(kind, n)
    BY <2>1, <2>2, <2>3 DEF Record
  <2> HIDE DEF data
  <2>6. /\ given'.fresh = given.fresh /\ given'.asked = given.asked
        /\ given'.other = other
        /\ \A i \in Params : given'.data[i] = IF i = index THEN data ELSE given.data[i]
    BY <2>1, <2>2, <2>3 DEF IInv, TypeOK
  <2>7. given.fresh => index \in other \/ apd'[index].buffer = data
    <3>1. given.fresh => index \in given.other \/ apd[index].buffer = given.data[index]
      BY <2>1, <2>2 DEF FirstInv, Buffered
    <3>2. CASE kind = "data"
      BY <2>5, <3>1, <3>2 DEF Stored, data, other
    <3>3. CASE kind # "data"
      BY <3>3 DEF other
    <3> QED  BY <3>2, <3>3
  <2>8. \A i \in Params : Asks(i)' <=> Asks(i)
    BY <2>4 DEF Asks
  <2>9. given.other \subseteq other
    BY DEF other
  <2> HIDE DEF other
  <2>10. Buffered'
    BY <2>1, <2>4, <2>6, <2>7, <2>8, <2>9 DEF FirstInv, Buffered
  <2>11. Clean' /\ AskedBound'
    <3>1. Clean'
      BY <2>2, <2>4 DEF FirstInv, Clean
    <3> QED  BY <2>1, <2>2, <2>4, <3>1 DEF AskedBound
  <2>12. FirstDialogueSentAsGiven'
    <3>1. \A s \in DOMAIN result'.outcome : \A i \in DOMAIN result'.outcome[s].sent :
            result'.outcome[s].sent[i].from # "buffer"
      BY <2>1 DEF IInv, NothingRanYet
    <3> QED  BY <3>1 DEF FirstDialogueSentAsGiven
  <2> QED  BY <2>10, <2>11, <2>12 DEF FirstInv
<1>4. CASE SQLPutDataRefused(kind, n)
  BY <1>4, RefusalKeepsFirst DEF SQLPutDataRefused, dialogue, descriptors, IInv, TypeOK,
     NothingRanYet
<1> QED  BY <1>1, <1>3, <1>4

LEMMA FirstStepKeeps ==
  ASSUME IInv, ParametersAssumption, FirstInv, [Next]_vars
  PROVE  FirstInv'
<1>1. CASE Bind
  BY <1>1, BindKeepsFirst
<1>2. CASE \/ \E q \in Texts : SQLPrepare(q)
           \/ ResetParams
           \/ CloseCursor
           \/ SQLExecuteSkipped
           \/ SQLExecDirectSkipped
           \/ \E q \in Texts : SQLExecDirectFails(q)
  <2>1. apd \in [Params -> Record]
    BY DEF IInv, TypeOK, Record
  <2>2. dm' = "ready" /\ \A i \in Params : apd'[i] = apd[i] \/ apd'[i] = NoRecord
    BY <1>2, <2>1 DEF SQLPrepare, ResetParams, CloseCursor, SQLExecuteSkipped,
       SQLExecDirectSkipped, SQLExecDirectFails, descriptors
  <2>3. result'.outcome = <<>>
    BY <1>2 DEF SQLPrepare, ResetParams, CloseCursor, SQLExecuteSkipped,
       SQLExecDirectSkipped, SQLExecDirectFails, Settled, NoResult, AnsweredWith
  <2> QED  BY <2>2, <2>3, NothingSentKeepsFirst
<1>3. CASE \E server \in Servers : SQLExecute(server)
  <2>1. query \in [params : 0 .. MaxParams, select : BOOLEAN]
    BY DEF IInv, TypeOK
  <2> QED  BY <1>3, <2>1, NewExecutionKeepsFirst DEF SQLExecute, dialogue, descriptors
<1>4. CASE \E q \in Texts, server \in Servers : SQLExecDirect(q, server)
  BY <1>4, ExecDirectKeepsFirst
<1>5. CASE SQLParamDataRefused
  BY <1>5, RefusalKeepsFirst DEF SQLParamDataRefused, dialogue, descriptors, IInv, TypeOK,
     NothingRanYet
<1>6. CASE SQLCancel
  BY <1>6, RefusalKeepsFirst DEF SQLCancel, dialogue, descriptors, IInv, NothingRanYet
<1>7. CASE SQLParamDataAsks
  BY <1>7, ParamDataAsksKeepsFirst
<1>8. CASE \E server \in Servers : SQLParamDataExecutes(server)
  BY <1>8, ParamDataExecutesKeepsFirst
<1>9. CASE Put
  BY <1>9, PutKeepsFirst
<1>10. CASE UNCHANGED vars
  <2>1. UNCHANGED <<index, apd, result, dm, given>>
    BY <1>10 DEF vars, dialogue, descriptors
  <2> QED  BY <2>1 DEF FirstInv, Clean, AskedBound, Buffered, Asks,
             FirstDialogueSentAsGiven
<1> QED  BY <1>1, <1>2, <1>3, <1>4, <1>5, <1>6, <1>7, <1>8, <1>9, <1>10 DEF Next

\* In the first dialogue of a statement an execution sends, for every parameter
\* SQLParamData asks for and that was given by its length alone, all that was
\* given for it, in order, and nothing else (SQLParamData, SQLPutData,
\* ConstructPositionalQueryParams).
THEOREM FirstDialogueSent == Spec => []FirstDialogueSentAsGiven
<1>1. Init => IInv /\ FirstInv
  BY InitIInv, InitFirstInv, ParametersAssumption
<1>2. IInv /\ FirstInv /\ [Next]_vars => (IInv /\ FirstInv)'
  BY StepKeeps, FirstStepKeeps, ParametersAssumption
<1>3. FirstInv => FirstDialogueSentAsGiven
  BY DEF FirstInv
<1> QED  BY <1>1, <1>2, <1>3, PTL DEF Spec
=============================================================================
