------------------------------- MODULE Context -------------------------------
(***************************************************************************)
(* The agent loop seen from the model: the turns of one Run after another  *)
(* in a thread, what each prompt contains, and the compactions that keep   *)
(* it short (AgentLoop in runtime/agent.py over Conversation).             *)
(*                                                                         *)
(* The loop forgets everything when its Worker dies, and the next Attempt  *)
(* goes on from the log.  While it awaits the model or a tool, a consumer  *)
(* sends a message or an abort, and a background child reports its end.    *)
(* An append absorbs what they wrote, so the loop's state is the fold of   *)
(* the log; Journal and Attempts show the conflicts and the leases.        *)
(***************************************************************************)
EXTENDS RunLog, Conversation

CONSTANTS
  Programs,      \* the calls of run_code, which may make the call Inner
  Inner,
  Safe,          \* the calls whose tools are safe to retry
  HistoryBudget, \* Limits.max_history_records
  MaxMishaps,    \* bound: Workers that die or raise
  Scenes         \* bound: what there is to see, see below

\* One of Scenes: keep_recent_turns, Limits.max_turns, the Runs of the thread,
\* what the model may ask for in one answer, and what else may happen.
Scene(keep, turns, runs, batches, events) ==
  [keep |-> keep, turns |-> turns, runs |-> runs, batches |-> batches, events |-> events]

\* keep_recent_turns is at least 1 (core/spec.py), and the model asks for no call
\* that a program makes.
ASSUME ContextAssumption ==
  /\ MaxMishaps \in Nat
  /\ Inner \in Calls /\ Programs \subseteq Calls \ {Inner}
  /\ Scenes \subseteq [keep : Nat \ {0}, turns : Nat, runs : Nat,
                      batches : SUBSET Seq(Calls \ {Inner}), events : SUBSET STRING]

VARIABLES
  scene,     \* the one of Scenes; it never changes
  thread,    \* the logs of the Runs before this one, oldest first
  log,       \* the record log of the Run
  loop,      \* the Attempt's agent loop
  mishaps

vars == <<scene, thread, log, loop, mishaps>>

\* "todo": the entries or calls still to be seen to.  "read": how much of the
\* log the last prompt was built from.  "why": what a compaction is for.
Off == [phase |-> "off", todo |-> <<>>, cut |-> 0, why |-> None, read |-> 0]

Phases ==
  {"off", "settling", "boundary", "summarising", "compacted", "draining", "asking", "running",
   "executing", "answering", "skipping", "finishing", "failing"}

State == Reduced(log).view
Happens(event) == event \in scene.events
In(phase) == loop.phase = phase

Writes(rec) == Accepts(Started(State), rec) /\ log' = Append(log, rec)
Goes(phase) == loop' = [loop EXCEPT !.phase = phase]

Settlement(state) == [type |-> "run_settled", state |-> state]

CallStarted(c) ==
  [type |-> "tool_call_started", call |-> c, turn |-> State.turn, handle |-> None,
   by_program |-> c = Inner]

CallFinished(c, outcome) ==
  [type |-> "tool_call_finished", call |-> c, outcome |-> outcome, answer |-> None,
   elided |-> FALSE]

rest == <<scene, thread, mishaps>>

-----------------------------------------------------------------------------
(* An Attempt begins *)

Begin ==
  /\ In("off") /\ ~State.settled /\ ~State.suspended
  /\ Writes([type |-> "attempt_started", number |-> State.attempt_count + 1])
  /\ Goes("settling")
  /\ UNCHANGED rest

\* _settle_dangling_calls: run again, or recorded as unknown.
SettleDangling(c) ==
  /\ In("settling") /\ c \in State.open_tool_calls
  /\ Writes(CallFinished(c, IF c \in Safe THEN "ok" ELSE "unknown"))
  /\ UNCHANGED <<rest, loop>>

\* Mutation: the loop goes on at once.
RecoveredAtOnce ==
  /\ In("settling")
  /\ Goes("boundary") /\ UNCHANGED <<rest, log>>

Recovered ==
  /\ In("settling") /\ State.open_tool_calls = {}
  /\ Goes("boundary") /\ UNCHANGED <<rest, log>>

-----------------------------------------------------------------------------
(* Between two turns *)

\* _check_stop_conditions.
Stops == State.abort_seq > 0 \/ State.turn >= scene.turns

StopLoop ==
  /\ In("boundary") /\ Stops
  /\ Writes(Settlement(IF State.abort_seq > 0 THEN "aborted" ELSE "failed"))
  /\ loop' = Off
  /\ UNCHANGED rest

\* The provider counted the last prompt as over the threshold.
OverThreshold ==
  LET answers == {i \in DOMAIN log : log[i].type = "model_call_finished"} IN
  \E i \in answers : (\A k \in answers : k <= i) /\ log[i].large

Cut == PlanCut(log, State.compaction_boundary_seq, scene.keep)

\* _compact_if_over_threshold.
Compact ==
  /\ In("boundary") /\ ~Stops /\ OverThreshold /\ Cut # 0
  /\ loop' = [loop EXCEPT !.phase = "summarising", !.cut = Cut, !.why = "threshold"]
  /\ UNCHANGED <<rest, log>>

\* _compact, once the summary is there.  An overflow is retried by a new turn.
Summarise ==
  /\ In("summarising")
  /\ Writes([type |-> "compaction_applied",
             replaced_from_seq |-> State.compaction_boundary_seq + 1,
             replaced_to_seq |-> loop.cut, currency |-> None])
  /\ Goes(IF loop.why = "threshold" THEN "compacted" ELSE "boundary")
  /\ UNCHANGED rest

\* The summarising call failed or said nothing, or an overflow has no cut.
Fail ==
  /\ In("failing") \/ In("summarising")
  /\ Writes(Settlement("failed"))
  /\ loop' = Off
  /\ UNCHANGED rest

-----------------------------------------------------------------------------
(* A turn *)

OpenTurn ==
  /\ \/ In("compacted")
     \/ In("boundary") /\ ~Stops /\ ~(OverThreshold /\ Cut # 0)
  /\ Writes([type |-> "turn_started", turn |-> State.turn + 1])
  /\ loop' = [loop EXCEPT !.phase = "draining", !.todo = State.pending["steer"]]
  /\ UNCHANGED rest

Drain ==
  /\ In("draining") /\ loop.todo # <<>>
  /\ Writes([type |-> "queue_consumed", entry |-> Head(loop.todo)])
  /\ loop' = [loop EXCEPT !.todo = Tail(@)]
  /\ UNCHANGED rest

Ask ==
  /\ In("draining") /\ loop.todo = <<>>
  /\ Writes([type |-> "model_call_started", turn |-> State.turn])
  /\ loop' = [loop EXCEPT !.phase = "asking", !.read = Len(log)]
  /\ UNCHANGED rest

CallsMade(records) ==
  UNION {InSeq(records[i].asks) : i \in {k \in DOMAIN records : records[k].type = "model_call_finished"}}

Fresh(c) == c \notin CallsMade(log) /\ \A i \in DOMAIN thread : c \notin CallsMade(thread[i])

\* _finish_turn.
Answer ==
  /\ In("asking")
  /\ \E batch \in scene.batches, large \in {FALSE, Happens("large")} :
       /\ \A c \in InSeq(batch) : Fresh(c)
       /\ Writes([type |-> "model_call_finished", turn |-> State.turn, currency |-> None,
                  asks |-> batch, large |-> large])
       /\ loop' = [loop EXCEPT !.phase = IF batch = <<>> THEN "finishing" ELSE "running",
                               !.todo = batch]
  /\ UNCHANGED rest

\* _record_model_failure, for a prompt that was refused as too long.
Overflow ==
  /\ In("asking") /\ Happens("overflow")
  /\ Writes([type |-> "model_call_failed", turn |-> State.turn])
  /\ loop' = [loop EXCEPT !.phase = IF Cut = 0 THEN "failing" ELSE "summarising",
                          !.cut = Cut, !.why = "overflow"]
  /\ UNCHANGED rest

\* The model has nothing left to do; its children may have.
Finish ==
  /\ In("finishing")
  /\ IF \E k \in Children : State.children[k] = "alive"
     THEN Writes([type |-> "suspended", reason |-> "children", call |-> None, step |-> None])
     ELSE Writes(Settlement("completed"))
  /\ loop' = Off
  /\ UNCHANGED rest

-----------------------------------------------------------------------------
(* The calls of a turn, one after another *)

StartCall ==
  /\ In("running")
  /\ Writes(CallStarted(Head(loop.todo)))
  /\ Goes("executing")
  /\ UNCHANGED rest

\* A program calls a tool; a call of another kind may spawn a child.
WithinCall ==
  /\ In("executing")
  /\ \/ /\ Head(loop.todo) \in Programs
        /\ Inner \notin StartedCalls(State) /\ Writes(CallStarted(Inner))
     \/ Inner \in State.open_tool_calls /\ Writes(CallFinished(Inner, "ok"))
     \/ /\ Head(loop.todo) \notin Programs /\ Happens("child")
        /\ \E k \in Children : Writes([type |-> "subagent_spawned", child |-> k])
  /\ UNCHANGED <<rest, loop>>

AfterCall(todo) ==
  IF todo = <<>> THEN "boundary" ELSE IF State.abort_seq > 0 THEN "answering" ELSE "running"

\* After each call the loop looks whether it has been stopped.
FinishCall ==
  /\ In("executing") /\ Inner \notin State.open_tool_calls
  /\ Writes(CallFinished(Head(loop.todo), "ok"))
  /\ loop' = [loop EXCEPT !.todo = Tail(@), !.phase = AfterCall(Tail(loop.todo))]
  /\ UNCHANGED rest

\* _answer_unstarted, once the Run is aborted.
AnswerUnstarted ==
  /\ \/ In("answering") /\ Writes(CallStarted(Head(loop.todo))) /\ Goes("skipping")
     \/ /\ In("skipping") /\ Writes(CallFinished(Head(loop.todo), "error"))
        /\ loop' = [loop EXCEPT !.todo = Tail(@), !.phase = AfterCall(Tail(loop.todo))]
  /\ UNCHANGED rest

-----------------------------------------------------------------------------
(* Everybody else *)

Send ==
  /\ Happens("send") /\ ~State.settled
  /\ \E e \in Entries :
       /\ \A i \in DOMAIN log : log[i].type = "queue_enqueued" => log[i].entry # e
       /\ Writes([type |-> "queue_enqueued", queue |-> "steer", entry |-> e])
  /\ UNCHANGED <<rest, loop>>

Interrupt ==
  /\ Happens("interrupt") /\ ~State.settled /\ State.abort_seq = 0
  /\ Writes([type |-> "abort_requested"])
  /\ UNCHANGED <<rest, loop>>

\* notify_parent, and the wake it ends with.
Notify ==
  /\ ~State.settled
  /\ \/ \E k \in Children : Writes([type |-> "subagent_finished", child |-> k])
     \/ /\ State.suspended /\ \A k \in Children : State.children[k] # "alive"
        /\ Writes([type |-> "resumed", approved |-> None])
  /\ UNCHANGED <<rest, loop>>

Crash ==
  /\ Happens("crash") /\ ~In("off") /\ mishaps < MaxMishaps
  /\ mishaps' = mishaps + 1 /\ loop' = Off
  /\ UNCHANGED <<scene, thread, log>>

\* Mutation: the next loop starts from what the last one held.
RaiseRemembering ==
  /\ Happens("raise") /\ ~In("off") /\ mishaps < MaxMishaps
  /\ mishaps' = mishaps + 1 /\ loop' = [loop EXCEPT !.phase = "off"]
  /\ Writes(Settlement("failed"))
  /\ UNCHANGED <<scene, thread>>

\* An exception reached the Worker (_settle_failure).
Raise ==
  /\ Happens("raise") /\ ~In("off") /\ mishaps < MaxMishaps
  /\ mishaps' = mishaps + 1 /\ loop' = Off
  /\ Writes(Settlement("failed"))
  /\ UNCHANGED <<scene, thread>>

\* dispatch(continues=...), by a consumer that has seen the Run settle.
ContinueThread ==
  /\ State.settled /\ Len(thread) + 1 < scene.runs
  /\ thread' = Append(thread, log)
  /\ log' = <<[type |-> "run_admitted"]>>
  /\ UNCHANGED <<scene, loop, mishaps>>

-----------------------------------------------------------------------------

Init ==
  /\ scene \in Scenes
  /\ thread = <<>>
  /\ log = <<[type |-> "run_admitted"]>>
  /\ loop = Off
  /\ mishaps = 0

LoopStep ==
  \/ Begin \/ (\E c \in Calls : SettleDangling(c)) \/ Recovered
  \/ StopLoop \/ Compact \/ Summarise \/ Fail
  \/ OpenTurn \/ Drain \/ Ask \/ Answer \/ Overflow \/ Finish
  \/ StartCall \/ WithinCall \/ FinishCall \/ AnswerUnstarted

Next == LoopStep \/ Send \/ Interrupt \/ Notify \/ Crash \/ Raise \/ ContinueThread

Spec == Init /\ [][Next]_vars

-----------------------------------------------------------------------------
(* Properties *)

TypeOK ==
  /\ Reduced(log).sound
  /\ loop.phase \in Phases
  /\ loop.read \in 0..Len(log) /\ loop.cut \in 0..Len(log)
  /\ InSeq(loop.todo) \subseteq Calls \cup Entries
  /\ mishaps \in 0..MaxMishaps

Seen == SubSeq(log, 1, loop.read)
Prompt == LoadThreadHistory(thread, HistoryBudget) \o BuildConversation(Seen)

AsksFor(m, c) == c \in InSeq(m.asks)

\* Every tool result the model is shown answers a call that an assistant
\* message above it asks for, and answers it once: no cut separates the two,
\* and a program's own calls stay out (build_conversation, _tool_result).
ResultsHaveTheirQuestion ==
  In("asking") =>
    LET prompt == Prompt IN
    \A i \in DOMAIN prompt : \A c \in prompt[i].answers :
      /\ \E k \in 1..i : AsksFor(prompt[k], c)
      /\ \A k \in DOMAIN prompt : c \in prompt[k].answers => k = i

StartedIn(records) ==
  {records[i].call : i \in {k \in DOMAIN records : records[k].type = "tool_call_started"}}

\* A call that was begun, whoever was killed or stopped in the middle of it,
\* has a result in every later prompt of the Run that shows the call
\* (_settle_dangling_calls, _answer_unstarted).
BegunCallsAreAnswered ==
  In("asking") =>
    LET prompt == BuildConversation(Seen) IN
    \A i \in DOMAIN prompt : \A c \in InSeq(prompt[i].asks) \cap StartedIn(Seen) :
      \E k \in DOMAIN prompt : k > i /\ c \in prompt[k].answers

\* The prompt pairs up, question by answer, wherever it was cut.
PromptIsSound == TypeOK /\ ResultsHaveTheirQuestion /\ BegunCallsAreAnswered

\* The records a summary stands for: those its request showed, and those the
\* summaries in its request stood for.
Told(records) ==
  LET told[n \in 0..Len(records)] ==
        LET upTo == SubSeq(records, 1, n) IN
        {m.seq : m \in InSeq(Spoken(upTo))}
          \cup UNION {told[records[i].replaced_to_seq] : i \in Compactions(upTo)}
  IN told[Len(records)]

Spoke(records) == {i \in DOMAIN records : Said(SubSeq(records, 1, i), i) # <<>>}

\* No prompt has a hole in it: what was said in the Run is in the prompt, or
\* some summary in the prompt was made from it (compaction.py, "a conversation
\* with a hole in it").
NothingIsForgotten == In("asking") => Spoke(Seen) \subseteq Told(Seen)

\* No summary is paid for that would replace nothing: a compaction reaches
\* further than the last one, although a Worker may die on either side of
\* writing it ("crash-safe in both directions", compaction.py).
CompactionsAdvance == In("summarising") => loop.cut > State.compaction_boundary_seq

\* The policy's most recent turns stay verbatim below the summary
\* (CompactionPolicy.keep_recent_turns).
RecentTurnsStay ==
  Compactions(log) # {} =>
    Cardinality(TurnsAbove(log, State.compaction_boundary_seq)) >= scene.keep

\* Cuts go forward and stop short of the recent turns.
CutsAreOrderly == CompactionsAdvance /\ RecentTurnsStay

\* "A model must never receive an assistant message with tool calls whose
\* results are missing" (DESIGN.md section 9).
EveryCallIsAnswered ==
  In("asking") =>
    LET prompt == BuildConversation(Seen) IN
    \A i \in DOMAIN prompt : \A c \in InSeq(prompt[i].asks) :
      \E k \in DOMAIN prompt : k > i /\ c \in prompt[k].answers

\* The same of what a thread carries over.
ThreadCallsAreAnswered ==
  In("asking") =>
    LET prompt == LoadThreadHistory(thread, HistoryBudget) IN
    \A i \in DOMAIN prompt : \A c \in InSeq(prompt[i].asks) :
      \E k \in DOMAIN prompt : k > i /\ c \in prompt[k].answers

\* The results of a batch follow the message that asks for them, with nothing
\* in between.
BatchesStayTogether ==
  In("asking") =>
    LET prompt == BuildConversation(Seen) IN
    \A i \in DOMAIN prompt : \A n \in 1..Len(prompt[i].asks) :
      i + n <= Len(prompt) => prompt[i + n].role = "result"

\* "A summariser reads what the model actually saw" (summarisation_request):
\* nothing that an earlier summary already replaced.
SummariserReadsPrompt ==
  In("summarising") =>
    \A m \in InSeq(ToSummarise(log, loop.cut)) : m.seq > State.compaction_boundary_seq \/ m.seq = 0

\* A compaction for an overflow shortens the prompt ("once there is nothing
\* left to compact this path stops offering itself").
OverflowShortensPrompt ==
  In("summarising") /\ loop.why = "overflow" =>
    \E m \in Spoke(log) : State.compaction_boundary_seq < m /\ m <= loop.cut
=============================================================================
