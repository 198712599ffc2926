-------------------------------- MODULE RunLog --------------------------------
(***************************************************************************)
(* The record log of a Run and the fold that derives the Run's state from  *)
(* it (core/reducer.py).  A record is refused (CorruptLog) when the log    *)
(* could not have been produced by the protocol, and every append folds    *)
(* the record first, so Accepts is also the guard of every write.          *)
(*                                                                         *)
(* A fold is [view, seen, sound]: the RunStateView, the three sets of      *)
(* queue entry ids reduce keeps in locals while it runs, and whether every *)
(* record so far was accepted.  The sequence number of a record is its     *)
(* place in the log.  Payloads, usage, timestamps and the plan are left    *)
(* out: no check of the fold reads them.                                   *)
(***************************************************************************)
EXTENDS Naturals, Sequences

CONSTANTS
  Calls,       \* tool call ids
  ToolOf,      \* ToolOf[c]: the tool call c names, always with the same arguments
  Steps,       \* workflow step ids
  Entries,     \* queue entry ids
  Children,    \* run ids of subagents
  NameOf,      \* NameOf[k]: the name child k is addressed by
  None

Tools == {ToolOf[c] : c \in Calls}
Queues == {"steer", "follow_up", "next_run"}

\* EXTERNAL_RECORD_TYPES: the records that others than the Attempt may write.
External ==
  {"abort_requested", "queue_enqueued", "queue_cancelled", "resumed", "subagent_finished"}

\* Mutation: only the first record is looked at.
FirstExternal(records) == records = <<>> \/ records[1].type \in External

AllExternal(records) == \A i \in DOMAIN records : records[i].type \in External

-----------------------------------------------------------------------------
(* The derived state *)

UnseenStep ==
  [attempt_number |-> 0, completed |-> FALSE, will_retry |-> FALSE, outcome |-> None,
   started_seq |-> 0, completed_seq |-> 0]

EmptyView ==
  [head_seq |-> 0,
   admitted |-> FALSE,
   settled |-> FALSE,
   terminal_state |-> None,
   attempt_count |-> 0,
   resumed_since_attempt |-> FALSE,
   turn |-> 0,
   turn_open |-> FALSE,
   model_call_open |-> FALSE,
   abort_seq |-> 0,                       \* 0: no abort so far
   suspended |-> FALSE,
   suspend_reason |-> None,
   pending_call |-> None,
   approval_decisions |-> [c \in Calls |-> None],
   open_tool_calls |-> {},
   tool_results |-> <<>>,                 \* the calls answered, in log order
   result_handles |-> {},                 \* the calls whose result got a handle
   failure_streaks |-> [t \in Tools |-> 0],
   repeat_counts |-> [t \in Tools |-> [answer |-> None, count |-> 0]],
   suspended_step |-> None,               \* the workflow step that asked
   step_resumes |-> [s \in Steps |-> <<>>],
   steps |-> [s \in Steps |-> UnseenStep],
   step_starts |-> 0,
   workflow_state |-> {},                 \* what the set_state steps have set
   pending |-> [q \in Queues |-> <<>>],   \* entry ids, oldest first
   children |-> [k \in Children |-> "unknown"],
   currency |-> None,
   compaction_boundary_seq |-> 0]

InSeq(s) == {s[i] : i \in DOMAIN s}
Pending(v) == UNION {InSeq(v.pending[q]) : q \in Queues}
SettledCalls(v) == InSeq(v.tool_results)
StartedCalls(v) == v.open_tool_calls \cup SettledCalls(v)

\* The locals of one call of reduce.  A continued fold starts them from the
\* view, which remembers the pending entries only.
SeenFrom(v) == [enqueued |-> Pending(v), cancelled |-> {}, consumed |-> {}]

Started(v) == [view |-> v, seen |-> SeenFrom(v), sound |-> TRUE]
EmptyFold == Started(EmptyView)

-----------------------------------------------------------------------------
(* What each record needs, and what it does: one pair per kind *)

AttemptAccepted(v, rec) == v.admitted /\ rec.number = v.attempt_count + 1

\* A tool call recorded before any turn opened is stamped turn 1.
ToolCallAccepted(v, rec) ==
  /\ rec.call \notin StartedCalls(v)
  /\ rec.turn = (IF v.turn = 0 THEN 1 ELSE v.turn)
  /\ rec.handle # None => rec.handle \in v.result_handles

\* Mutation: a completed step may start again.
StepAcceptedAgain(v, rec) == rec.attempt_number = v.steps[rec.step].attempt_number + 1

StepAccepted(v, rec) ==
  LET s == v.steps[rec.step] IN
  /\ s.completed => s.will_retry
  /\ rec.attempt_number = s.attempt_number + 1

\* Mutation: anything may follow an abort.
EnqueueAcceptedAlways(v, seen, rec) == rec.entry \notin seen.enqueued

\* next_run may follow an abort; the other queues may not.
EnqueueAccepted(v, seen, rec) ==
  /\ rec.queue = "next_run" \/ v.abort_seq = 0
  /\ rec.entry \notin seen.enqueued

SpawnAccepted(v, rec) ==
  /\ v.children[rec.child] = "unknown"
  /\ \A k \in Children : NameOf[k] = NameOf[rec.child] => v.children[k] # "alive"

SuspendAccepted(v, rec) ==
  /\ ~v.suspended
  /\ rec.reason = "approval" /\ rec.call # None => rec.call \in v.open_tool_calls

CompactionAccepted(v, rec) ==
  /\ rec.replaced_from_seq <= rec.replaced_to_seq
  /\ rec.replaced_to_seq <= v.head_seq

CurrencyAccepted(v, rec) == None \in {rec.currency, v.currency} \/ rec.currency = v.currency

RecordAccepted(v, seen, rec) ==
  CASE rec.type = "run_admitted"        -> ~v.admitted
    [] rec.type = "attempt_started"     -> AttemptAccepted(v, rec)
    [] rec.type = "turn_started"        -> ~v.turn_open /\ rec.turn = v.turn + 1
    [] rec.type = "model_call_started"  -> v.turn_open /\ rec.turn = v.turn /\ ~v.model_call_open
    [] rec.type = "model_call_finished" -> v.model_call_open /\ rec.turn = v.turn /\ CurrencyAccepted(v, rec)
    [] rec.type = "model_call_failed"   -> v.model_call_open /\ rec.turn = v.turn
    [] rec.type = "tool_call_started"   -> ToolCallAccepted(v, rec)
    [] rec.type = "tool_call_finished"  -> rec.call \in v.open_tool_calls
    [] rec.type = "step_started"        -> StepAccepted(v, rec)
    [] rec.type = "step_completed"      -> v.steps[rec.step].attempt_number > 0 /\ ~v.steps[rec.step].completed
    [] rec.type = "queue_enqueued"      -> EnqueueAccepted(v, seen, rec)
    [] rec.type \in {"queue_cancelled", "queue_consumed"} ->
         rec.entry \in seen.enqueued \ (seen.cancelled \cup seen.consumed)
    [] rec.type = "subagent_spawned"    -> SpawnAccepted(v, rec)
    [] rec.type = "subagent_messaged"   -> v.children[rec.child] # "unknown"
    [] rec.type = "subagent_finished"   -> v.children[rec.child] = "alive"
    [] rec.type = "suspended"           -> SuspendAccepted(v, rec)
    [] rec.type = "resumed"             -> v.suspended
    [] rec.type = "compaction_applied"  -> CompactionAccepted(v, rec) /\ CurrencyAccepted(v, rec)
    [] OTHER                            -> TRUE   \* abort_requested, run_settled

\* Nothing follows a settlement, except another settlement: reduce's guard
\* is "settled and not isinstance(record, RunSettled)".
Accepts(f, rec) ==
  /\ f.view.settled => rec.type = "run_settled"
  /\ RecordAccepted(f.view, f.seen, rec)

-----------------------------------------------------------------------------

Closed(v) == [v EXCEPT !.turn_open = FALSE, !.model_call_open = FALSE]

\* Mutation: the turn of the Attempt that died stays open.
AfterAttemptOpen(v, rec) ==
  [v EXCEPT !.attempt_count = rec.number, !.resumed_since_attempt = FALSE]

AfterAttempt(v, rec) ==
  [Closed(v) EXCEPT !.attempt_count = rec.number, !.resumed_since_attempt = FALSE]

Priced(v, currency) == IF v.currency = None THEN [v EXCEPT !.currency = currency] ELSE v

\* Only an answer equal to the last one counts as a repeat.
Tallied(tally, answer) ==
  [answer |-> answer, count |-> IF tally.answer = answer THEN tally.count + 1 ELSE 1]

Streak(n, outcome) ==
  CASE outcome = "ok" -> 0
    [] outcome \in {"error", "unknown"} -> n + 1
    [] OTHER -> n

Repeated(v, rec) ==
  IF rec.outcome = "ok"
  THEN [v EXCEPT !.repeat_counts[ToolOf[rec.call]] = Tallied(@, rec.answer)]
  ELSE v

\* Mutation: the call stays open.
AfterToolCallOpen(v, rec) == [Repeated(v, rec) EXCEPT !.tool_results = Append(@, rec.call)]

AfterToolCall(v, rec) ==
  [Repeated(v, rec) EXCEPT
     !.open_tool_calls = @ \ {rec.call},
     !.tool_results = Append(@, rec.call),
     !.result_handles = IF rec.elided THEN @ \cup {rec.call} ELSE @,
     !.failure_streaks[ToolOf[rec.call]] = Streak(@, rec.outcome)]

AfterStepStart(v, rec) ==
  [v EXCEPT
     !.steps[rec.step] =
       [UnseenStep EXCEPT !.attempt_number = rec.attempt_number, !.started_seq = v.head_seq + 1],
     !.step_starts = @ + 1]

\* "sets": the names a set_state step binds, none for every other kind.
AfterStepEnd(v, rec) ==
  [v EXCEPT
     !.steps[rec.step] =
       [@ EXCEPT !.completed = TRUE, !.will_retry = rec.will_retry, !.outcome = rec.outcome,
                 !.completed_seq = v.head_seq + 1],
     !.workflow_state = IF rec.outcome = "completed" THEN @ \cup rec.sets ELSE @]

\* Mutation: the entry stays pending.
WithoutRemoving(v, entry) == v

\* _remove_entry deletes the place it finds; an entry has one place at most.
Removed(queue, entry) ==
  LET at == CHOOSE i \in DOMAIN queue : queue[i] = entry
  IN IF entry \in InSeq(queue)
     THEN [i \in 1..Len(queue) - 1 |-> queue[IF i < at THEN i ELSE i + 1]]
     ELSE queue

Without(v, entry) ==
  [v EXCEPT !.pending = [q \in Queues |-> Removed(v.pending[q], entry)]]

AfterSuspend(v, rec) ==
  [Closed(v) EXCEPT !.suspended = TRUE, !.suspend_reason = rec.reason,
                    !.pending_call = rec.call, !.suspended_step = rec.step]

\* The decision is kept for the call the suspension was about.
Decided(v, rec) ==
  IF v.pending_call # None /\ rec.approved # None
  THEN [v EXCEPT !.approval_decisions[v.pending_call] = rec.approved]
  ELSE v

\* An answer to a workflow step is kept under the step, with its place.
Delivered(v, rec) ==
  IF v.suspended_step = None THEN v
  ELSE [v EXCEPT !.step_resumes[v.suspended_step] =
          Append(@, [reason |-> v.suspend_reason, approved |-> rec.approved,
                     seq |-> v.head_seq + 1])]

\* Mutation: the suspension is not cleared.
AfterResumeSuspended(v, rec) == [Decided(v, rec) EXCEPT !.resumed_since_attempt = TRUE]

AfterResume(v, rec) ==
  [Decided(Delivered(v, rec), rec) EXCEPT
     !.suspended = FALSE, !.suspend_reason = None, !.pending_call = None,
     !.suspended_step = None, !.resumed_since_attempt = TRUE]

AfterCompaction(v, rec) ==
  [Priced(v, rec.currency) EXCEPT
     !.compaction_boundary_seq = IF rec.replaced_to_seq > @ THEN rec.replaced_to_seq ELSE @]

AfterSettle(v, rec) == [Closed(v) EXCEPT !.settled = TRUE, !.terminal_state = rec.state]

AfterRecord(v, rec) ==
  CASE rec.type = "run_admitted"        -> [v EXCEPT !.admitted = TRUE]
    [] rec.type = "attempt_started"     -> AfterAttempt(v, rec)
    [] rec.type = "turn_started"        -> [v EXCEPT !.turn = rec.turn, !.turn_open = TRUE]
    [] rec.type = "model_call_started"  -> [v EXCEPT !.model_call_open = TRUE]
    [] rec.type = "model_call_finished" -> Closed(Priced(v, rec.currency))
    [] rec.type = "model_call_failed"   -> Closed(v)
    [] rec.type = "tool_call_started"   -> [v EXCEPT !.open_tool_calls = @ \cup {rec.call}]
    [] rec.type = "tool_call_finished"  -> AfterToolCall(v, rec)
    [] rec.type = "step_started"        -> AfterStepStart(v, rec)
    [] rec.type = "step_completed"      -> AfterStepEnd(v, rec)
    [] rec.type = "abort_requested"     -> [v EXCEPT !.abort_seq = IF @ = 0 THEN v.head_seq + 1 ELSE @]
    [] rec.type = "queue_enqueued"      -> [v EXCEPT !.pending[rec.queue] = Append(@, rec.entry)]
    [] rec.type \in {"queue_cancelled", "queue_consumed"} -> Without(v, rec.entry)
    [] rec.type = "subagent_spawned"    -> [v EXCEPT !.children[rec.child] = "alive"]
    [] rec.type = "subagent_finished"   -> [v EXCEPT !.children[rec.child] = "finished"]
    [] rec.type = "suspended"           -> AfterSuspend(v, rec)
    [] rec.type = "resumed"             -> AfterResume(v, rec)
    [] rec.type = "compaction_applied"  -> AfterCompaction(v, rec)
    [] rec.type = "run_settled"         -> AfterSettle(v, rec)
    [] OTHER                            -> v      \* subagent_messaged: a count

SeenAfter(seen, rec) ==
  CASE rec.type = "queue_enqueued"  -> [seen EXCEPT !.enqueued = @ \cup {rec.entry}]
    [] rec.type = "queue_cancelled" -> [seen EXCEPT !.cancelled = @ \cup {rec.entry}]
    [] rec.type = "queue_consumed"  -> [seen EXCEPT !.consumed = @ \cup {rec.entry}]
    [] OTHER                        -> seen

Folded(f, rec) ==
  IF f.sound /\ Accepts(f, rec)
  THEN [view |-> [AfterRecord(f.view, rec) EXCEPT !.head_seq = @ + 1],
        seen |-> SeenAfter(f.seen, rec),
        sound |-> TRUE]
  ELSE [f EXCEPT !.sound = FALSE]

-----------------------------------------------------------------------------
(* reduce *)

\* CHOOSE from a singleton: TLC then evaluates each prefix once, also under
\* ENABLED, where it keeps no value of an operator's argument.
FoldFrom(start, records) ==
  LET fold[n \in 0..Len(records)] ==
        IF n = 0 THEN start
        ELSE CHOOSE g \in {Folded(f, records[n]) : f \in {fold[n - 1]}} : TRUE
  IN fold[Len(records)]

Reduced(records) == FoldFrom(EmptyFold, records)

\* reduce(records, prior=v)
ReducedFrom(v, records) == FoldFrom(Started(v), records)
=============================================================================
