------------------------------ MODULE MCJournal ------------------------------
(* Journal on a few calls, steps, entries and children: either what          *)
(* consumers and Attempts write past each other, or the work an Attempt      *)
(* journals and another takes over.                                          *)
EXTENDS Journal, TLC

MCToolOf == [c \in Calls |-> "search"]
MCNameOf == [k \in Children |-> "helper"]

MCSymmetry ==
  Permutations(Attempts) \cup Permutations(Consumers) \cup Permutations(Entries)
    \cup Permutations(Calls) \cup Permutations(Children)

\* What a consumer call, a notifier or a parent may race an Attempt with.
ConsumerTypes ==
  {"attempt_started", "abort_requested", "queue_enqueued", "queue_cancelled",
   "queue_consumed", "subagent_spawned", "subagent_messaged", "subagent_finished",
   "suspended", "resumed", "run_settled"}

\* What an Attempt does, with an abort as the record that reaches it from outside.
WorkTypes ==
  {"attempt_started", "turn_started", "model_call_started", "model_call_finished",
   "model_call_failed", "tool_call_started", "tool_call_finished", "step_started",
   "step_completed", "compaction_applied", "abort_requested", "run_settled"}

MCTraffic ==
  {[types |-> ConsumerTypes, consumers |-> Consumers, length |-> 5]}
    \cup [types : {WorkTypes}, consumers : {{u} : u \in Consumers}, length : {6}]
=============================================================================
