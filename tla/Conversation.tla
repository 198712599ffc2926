---------------------------- MODULE Conversation ----------------------------
(***************************************************************************)
(* What the model is shown of a Run's log (core/conversation.py), where a  *)
(* compaction may cut it (runtime/compaction.py), and what a thread of     *)
(* Runs carries over (runtime/thread.py).  Pure functions of logs.         *)
(*                                                                         *)
(* A message keeps its role, the place of the record it comes from, and    *)
(* the call ids it asks for or answers; its text is left out.              *)
(***************************************************************************)
EXTENDS Naturals, Sequences, FiniteSets, SequencesExt

Message(role, seq) == [role |-> role, seq |-> seq, asks |-> <<>>, answers |-> {}]

Compactions(records) == {i \in DOMAIN records : records[i].type = "compaction_applied"}

\* Mutation: what is above the cut but older than the summary is gone too.
BoundaryAtSummary(records) ==
  CHOOSE b \in Compactions(records) \cup {0} : \A i \in Compactions(records) : i <= b

\* _compaction: the highest sequence that a summary stands for.
Boundary(records) ==
  LET ends == {records[i].replaced_to_seq : i \in Compactions(records)} \cup {0}
  IN CHOOSE b \in ends : \A e \in ends : e <= b

\* The call was made by a program, as far as the records above the boundary tell.
ByProgram(records, call) ==
  \E k \in Boundary(records) + 1 .. Len(records) :
    /\ records[k].type = "tool_call_started" /\ records[k].call = call
    /\ records[k].by_program

\* Mutation: a program's calls are answered like the model's own.
ResultOfAny(records, i) ==
  <<[Message("result", i) EXCEPT !.answers = {records[i].call}]>>

\* _tool_result.
ResultOf(records, i) ==
  IF ByProgram(records, records[i].call) THEN <<>>
  ELSE <<[Message("result", i) EXCEPT !.answers = {records[i].call}]>>

\* One arm per kind of record.
Said(records, i) ==
  LET rec == records[i] IN
  CASE rec.type \in {"run_admitted", "queue_consumed", "subagent_finished"} -> <<Message("user", i)>>
    [] rec.type = "model_call_finished" -> <<[Message("assistant", i) EXCEPT !.asks = rec.asks]>>
    [] rec.type = "tool_call_finished" -> ResultOf(records, i)
    [] OTHER -> <<>>

Spoken(records) ==
  FlattenSeq([i \in DOMAIN records |-> IF i <= Boundary(records) THEN <<>> ELSE Said(records, i)])

\* build_conversation: the summaries in one message, then what is above them.
BuildConversation(records) ==
  (IF Compactions(records) = {} THEN <<>> ELSE <<Message("summary", 0)>>) \o Spoken(records)

-----------------------------------------------------------------------------

TurnsAbove(records, boundary) ==
  {i \in DOMAIN records : records[i].type = "turn_started" /\ i > boundary}

\* Mutations: one turn less is kept; turns an earlier summary replaced count.
PlanCutKeepingLess(records, boundary, keep) ==
  LET turns == TurnsAbove(records, boundary) IN
  IF Cardinality(turns) <= keep THEN 0
  ELSE (CHOOSE i \in turns : Cardinality({k \in turns : k > i}) = keep - 1) + 1

PlanCutAgain(records, boundary, keep) ==
  LET turns == TurnsAbove(records, 0) IN
  IF Cardinality(turns) <= keep THEN 0
  ELSE (CHOOSE i \in turns : Cardinality({k \in turns : k > i}) = keep - 1) - 1

\* plan_cut, 0 for None: the place before the oldest turn that is kept.
PlanCut(records, boundary, keep) ==
  LET turns == TurnsAbove(records, boundary) IN
  IF Cardinality(turns) <= keep THEN 0
  ELSE LET cut == (CHOOSE i \in turns : Cardinality({k \in turns : k > i}) = keep - 1) - 1
       IN IF cut > boundary THEN cut ELSE 0

\* summarisation_request: the conversation of everything up to the cut.
ToSummarise(records, cut) == BuildConversation(SubSeq(records, 1, cut))

\* load_thread_history.  The Runs of the thread oldest first: the newest is
\* kept whatever it costs, an older one when the newer ones left some budget.
Kept(thread, budget) ==
  {i \in DOMAIN thread :
     LET newer[k \in 0..Len(thread)] == IF k <= i THEN 0 ELSE newer[k - 1] + Len(thread[k])
     IN newer[Len(thread)] < budget}

LoadThreadHistory(thread, budget) ==
  FlattenSeq([i \in DOMAIN thread |->
                IF i \in Kept(thread, budget) THEN BuildConversation(thread[i]) ELSE <<>>])
=============================================================================
