------------------------------- MODULE Journal -------------------------------
(***************************************************************************)
(* Several writers on one Run's log (runtime/journal.py).  A Journal holds *)
(* the state it has folded so far; an append folds the record first, then  *)
(* asks the store for the next sequence, which the store refuses when      *)
(* somebody else has taken it (SeqConflict).  The Journal then reads what  *)
(* it missed, folds it if every record is one that outsiders may write,    *)
(* and tries exactly once more.                                            *)
(*                                                                         *)
(* Each await of the store is a step of its own, so other Journals write   *)
(* between the first try, the read and the second try.  An Attempt keeps   *)
(* its Journal; a consumer call (interrupt, send, resume, a child's        *)
(* notify_parent) opens one, appends one record and drops it.              *)
(***************************************************************************)
EXTENDS RunLog, FiniteSets

CONSTANTS
  Attempts,    \* Journals opened by Worker._attempt
  Consumers,   \* Journals opened by consumer calls
  Traffic,     \* bound: what is written together, by which consumers, in how long a log
  MaxTurns     \* bound: turns, and attempts of one step

ASSUME JournalAssumption ==
  /\ Attempts \cap Consumers = {}
  /\ None \notin Attempts \cup Consumers

VARIABLES
  traffic,   \* which of Traffic is written; it never changes
  log,       \* the store's copy of the log
  author,    \* author[i]: the Journal that wrote log[i] (its attempt_id)
  journal    \* journal[j]: what Journal j knows and is doing

vars == <<traffic, log, author, journal>>

Journals == Attempts \cup Consumers

\* "conflicted": the first try was refused.  "absorbed": what was missed is
\* folded, the second try is due.  "stopped": SeqConflict or CorruptLog
\* left append.
Phases == {"closed", "open", "conflicted", "absorbed", "stopped"}

Closedown == [phase |-> "closed", state |-> EmptyView, began |-> FALSE, record |-> None]

Foreign(j) == SubSeq(log, journal[j].state.head_seq + 1, Len(log))

-----------------------------------------------------------------------------
(* What the callers append, given the state their Journal shows them *)

\* Every send mints an entry id of its own.
Minted ==
  LET writers == {j \in Journals : journal[j].phase \in {"conflicted", "absorbed"}}
      records == InSeq(log) \cup {journal[j].record : j \in writers}
  IN {rec.entry : rec \in {r \in records : r.type = "queue_enqueued"}}

TurnRecords(v) ==
  [type : {"turn_started"}, turn : {v.turn + 1} \cap 1..MaxTurns]
  \cup [type : {"model_call_started"}, turn : {v.turn}]
  \cup [type : {"model_call_finished"}, turn : {v.turn}, currency : {None}]
  \cup [type : {"model_call_failed"}, turn : {v.turn}]

ToolRecords(v) ==
  [type : {"tool_call_started"}, call : Calls, turn : {IF v.turn = 0 THEN 1 ELSE v.turn},
   handle : {None} \cup v.result_handles]
  \cup [type : {"tool_call_finished"}, call : v.open_tool_calls,
        outcome : {"ok", "error"}, answer : {"same"}, elided : BOOLEAN]

StepRecords(v) ==
  {[type |-> "step_started", step |-> s, attempt_number |-> v.steps[s].attempt_number + 1] :
     s \in {t \in Steps : v.steps[t].attempt_number < MaxTurns}}
  \cup [type : {"step_completed"}, step : Steps, will_retry : BOOLEAN, outcome : {"failed"}, sets : {{}}]

RunRecords(v) ==
  [type : {"queue_consumed"}, entry : InSeq(v.pending["steer"]) \cup InSeq(v.pending["follow_up"])]
  \cup [type : {"subagent_spawned", "subagent_messaged"}, child : Children]
  \cup [type : {"suspended"}, reason : {"approval"}, call : v.open_tool_calls, step : {None}]
  \cup [type : {"suspended"}, reason : {"children"}, call : {None}, step : {None}]
  \cup [type : {"resumed"}, approved : {None}]
  \cup [type : {"compaction_applied"}, replaced_from_seq : {1}, replaced_to_seq : {v.head_seq},
        currency : {None}]
  \cup [type : {"run_settled"}, state : IF v.settled THEN {} ELSE {IF v.suspended THEN "aborted" ELSE "completed"}]

AttemptRecords(v) == TurnRecords(v) \cup ToolRecords(v) \cup StepRecords(v) \cup RunRecords(v)

\* interrupt, send, a withdrawn queue entry, resume before and after the
\* expiry of the suspension, notify_parent: each with the check it makes first.
ConsumerRecords(v) ==
  [type : IF v.settled \/ v.abort_seq > 0 THEN {} ELSE {"abort_requested"}]
  \cup [type : IF v.settled THEN {} ELSE {"queue_enqueued"}, queue : {"steer", "next_run"},
        entry : Entries \ Minted]
  \cup [type : {"queue_cancelled"}, entry : Pending(v)]
  \cup [type : IF v.suspended THEN {"resumed"} ELSE {}, approved : {"approved", "denied"}]
  \cup [type : IF v.suspended THEN {"run_settled"} ELSE {}, state : {"abandoned"}]
  \cup [type : IF v.settled THEN {} ELSE {"subagent_finished"},
        child : {k \in Children : v.children[k] = "alive"}]

Candidates(j) ==
  LET v == journal[j].state IN
  IF j \in Consumers THEN ConsumerRecords(v)
  ELSE IF journal[j].began THEN AttemptRecords(v)
  ELSE [type : {"attempt_started"}, number : {v.attempt_count + 1}]

-----------------------------------------------------------------------------

Init ==
  /\ traffic \in Traffic
  /\ log = <<[type |-> "run_admitted"]>>
  /\ author = <<None>>
  /\ journal = [j \in Journals |-> Closedown]

\* Journal.open.  An Attempt that finds the Run settled returns.
Open(j) ==
  /\ journal[j].phase = "closed"
  /\ j \in Attempts \cup traffic.consumers
  /\ j \in Attempts => ~Reduced(log).view.settled
  /\ journal' = [journal EXCEPT ![j] =
                   [Closedown EXCEPT !.phase = "open", !.state = Reduced(log).view]]
  /\ UNCHANGED <<log, author>>

\* A consumer's Journal ends with its call; an Attempt that stopped is over.
Ended(j) == IF j \in Consumers THEN Closedown ELSE [Closedown EXCEPT !.phase = "stopped"]

Stop(j) ==
  /\ journal' = [journal EXCEPT ![j] = Ended(j)]
  /\ UNCHANGED <<log, author>>

\* Mutations: the record to retry is not forgotten; the write is unconditional.
WrittenAndKept(j, rec) ==
  /\ Len(log) = journal[j].state.head_seq
  /\ log' = Append(log, rec)
  /\ author' = Append(author, j)
  /\ journal' = [journal EXCEPT ![j] =
       IF j \in Consumers THEN Closedown
       ELSE [phase |-> "open", state |-> Folded(Started(@.state), rec).view,
             began |-> TRUE, record |-> rec]]

WrittenAnywhere(j, rec) ==
  /\ log' = Append(log, rec)
  /\ author' = Append(author, j)
  /\ journal' = [journal EXCEPT ![j] =
       IF j \in Consumers THEN Closedown
       ELSE [phase |-> "open", state |-> Folded(Started(@.state), rec).view,
             began |-> TRUE, record |-> None]]

\* The store accepted the record at head + 1.
Written(j, rec) ==
  /\ Len(log) = journal[j].state.head_seq
  /\ log' = Append(log, rec)
  /\ author' = Append(author, j)
  /\ journal' = [journal EXCEPT ![j] =
       IF j \in Consumers THEN Closedown
       ELSE [phase |-> "open", state |-> Folded(Started(@.state), rec).view,
             began |-> TRUE, record |-> None]]

\* Mutation: the record is not folded before it is written.
AcceptedUnfolded(j, rec) == TRUE

Accepted(j, rec) == Accepts(Started(journal[j].state), rec)

\* _continue_from copies the dict of tallies but not the tallies, and does
\* not copy approval_decisions: folding a record changes these two in the
\* prior state as well, whether or not the record is then written.
Leaked(v, rec) ==
  LET after == AfterRecord(v, rec) IN
  CASE rec.type = "tool_call_finished" /\ after.repeat_counts[ToolOf[rec.call]].count > 1 ->
         [v EXCEPT !.repeat_counts = after.repeat_counts]
    [] rec.type = "resumed" -> [v EXCEPT !.approval_decisions = after.approval_decisions]
    [] OTHER -> v

\* _append_once, first try.
AppendFirst(j) ==
  /\ journal[j].phase = "open"
  /\ \E rec \in Candidates(j) :
       /\ rec.type \in traffic.types
       /\ Accepted(j, rec)
       /\ Len(log) < traffic.length
       /\ \/ Written(j, rec)
          \/ /\ Len(log) > journal[j].state.head_seq
             /\ journal' = [journal EXCEPT ![j] =
                  [@ EXCEPT !.phase = "conflicted", !.record = rec,
                            !.state = Leaked(journal[j].state, rec)]]
             /\ UNCHANGED <<log, author>>

\* Mutation: only the head is moved.
AbsorbHeadOnly(j, phase) ==
  /\ Foreign(j) # <<>>
  /\ \/ /\ AllExternal(Foreign(j))
        /\ journal' = [journal EXCEPT ![j] =
             [@ EXCEPT !.phase = phase, !.state.head_seq = Len(log)]]
        /\ UNCHANGED <<log, author>>
     \/ ~AllExternal(Foreign(j)) /\ Stop(j)

\* _absorb_external_records, after a conflict and for refresh.
Absorb(j, phase) ==
  /\ Foreign(j) # <<>>
  /\ \/ /\ AllExternal(Foreign(j))
        /\ journal' = [journal EXCEPT ![j] =
             [@ EXCEPT !.phase = phase,
                       !.state = ReducedFrom(journal[j].state, Foreign(j)).view]]
        /\ UNCHANGED <<log, author>>
     \/ ~AllExternal(Foreign(j)) /\ Stop(j)

AbsorbConflict(j) == journal[j].phase = "conflicted" /\ Absorb(j, "absorbed")

\* _append_once, second try.
AppendAgain(j) ==
  /\ journal[j].phase = "absorbed"
  /\ LET rec == journal[j].record IN
     \/ Accepted(j, rec) /\ Written(j, rec)
     \/ /\ \/ ~Accepted(j, rec)
           \/ Len(log) > journal[j].state.head_seq
        /\ Stop(j)

Refresh(j) ==
  /\ j \in Attempts
  /\ journal[j].phase = "open" /\ journal[j].began
  /\ Absorb(j, "open")

Next ==
  /\ \E j \in Journals :
       Open(j) \/ AppendFirst(j) \/ AbsorbConflict(j) \/ AppendAgain(j) \/ Refresh(j)
  /\ UNCHANGED traffic

Spec == Init /\ [][Next]_vars

-----------------------------------------------------------------------------
(* Properties *)

TypeOK ==
  /\ DOMAIN log = 1..Len(author) /\ InSeq(author) \subseteq Journals \cup {None}
  /\ \A j \in Journals :
       /\ journal[j].phase \in Phases
       /\ journal[j].state.head_seq \in 0..Len(log)
       /\ journal[j].record # None => journal[j].phase \in {"conflicted", "absorbed"}

Live(j) == journal[j].phase \notin {"closed", "stopped"}

\* Whatever the writers race, the log stays one a fresh reader can fold:
\* folding before the conditional write, on a state that may be stale, never
\* persists a contradiction (Journal._append_once, _absorb_external_records).
LogStaysSound == Reduced(log).sound

\* The state a Worker carries is the state a fresh Worker derives: after any
\* sequence of appends, conflicts, absorptions and retries it is the fold of
\* the log up to its head.  The two fields _continue_from shares with its
\* argument are left to RepeatsAreCountedOnce.
Unshared(v) ==
  [v EXCEPT !.repeat_counts = EmptyView.repeat_counts,
            !.approval_decisions = EmptyView.approval_decisions]

CarriedStateIsFold ==
  \A j \in Journals : Live(j) =>
    LET v == journal[j].state IN
    Unshared(v) = Unshared(Reduced(SubSeq(log, 1, v.head_seq)).view)

\* The carried tallies of repeated calls agree with the log too.
RepeatsAreCountedOnce ==
  \A j \in Journals : journal[j].phase = "open" =>
    LET v == journal[j].state IN
    v.repeat_counts = Reduced(SubSeq(log, 1, v.head_seq)).view.repeat_counts

\* Once another Attempt has written, an Attempt never writes again: their
\* records are never interleaved, although each may hold a Journal (the
\* SeqConflict rule of _absorb_external_records).
AttemptsNeverInterleave ==
  \A i, k, m \in DOMAIN author :
    i < k /\ k < m /\ author[i] \in Attempts /\ author[m] = author[i]
      => author[k] \in Consumers \cup {author[i]}

At(type) == {i \in DOMAIN log : log[i].type = type}

\* A tool call has one start and at most one result after it, whoever writes
\* them: the Attempt that made the call, or the one that found it dangling.
EachCallAnsweredOnce ==
  \A c \in Calls :
    LET starts == {i \in At("tool_call_started") : log[i].call = c}
        ends == {i \in At("tool_call_finished") : log[i].call = c}
    IN /\ Cardinality(starts) <= 1 /\ Cardinality(ends) <= Cardinality(starts)
       /\ \A s \in starts, e \in ends : s < e

\* A queue entry is delivered or withdrawn, never both and never twice, when a
\* consumer withdraws it while Attempts drain the queue.
EachEntryUsedOnce ==
  \A e \in Entries :
    Cardinality({i \in At("queue_consumed") \cup At("queue_cancelled") : log[i].entry = e})
      <= Cardinality({i \in At("queue_enqueued") : log[i].entry = e})

\* A stop wins over a message sent at the same moment: nothing but next_run
\* enters a queue after the abort, even from a writer that had not seen it.
NothingSteersAfterAbort ==
  \A i \in At("abort_requested"), k \in At("queue_enqueued") :
    i < k => log[k].queue = "next_run"

\* A child is reported finished once, whichever of the notifier and the
\* reconciling parent gets there first.
EachChildFinishesOnce ==
  \A k \in Children :
    Cardinality({i \in At("subagent_finished") : log[i].child = k})
      <= Cardinality({i \in At("subagent_spawned") : log[i].child = k})

\* Every suspension is answered at most once: two approvals, or an approval
\* and the Run waking itself, cannot both count.
EachSuspensionAnsweredOnce ==
  \A i, k \in At("resumed") :
    i < k => \E s \in At("suspended") : i < s /\ s < k

\* A turn, with its model call, belongs to the Attempt that started it: one
\* that reclaims the Run mid-turn starts the next turn and never finishes a
\* call it did not make.
EachTurnHasOneAttempt ==
  \A i \in At("turn_started"),
     k \in At("model_call_started") \cup At("model_call_finished") \cup At("model_call_failed") :
    log[i].turn = log[k].turn => i < k /\ author[i] = author[k]

\* A step's result is written once and never recomputed: after a completion
\* that is not to be retried, no Attempt starts the step again.
EachStepMemoisedOnce ==
  \A i \in At("step_completed"), k \in At("step_started") \cup At("step_completed") :
    i < k /\ log[i].step = log[k].step => log[i].will_retry

\* A Journal never drifts from the log, and the log never from what a fresh
\* reader accepts, although every append folds before it is known to hold.
JournalsAreSound == TypeOK /\ LogStaysSound /\ CarriedStateIsFold

\* The log reads as one Attempt after another, down to the model calls of a turn.
OneAttemptAtATime == AttemptsNeverInterleave /\ EachTurnHasOneAttempt

\* Whatever can be asked, sent, reported or memoised is used up once, although
\* two parties may each believe that they are the one to do it.
NothingIsUsedTwice ==
  /\ EachEntryUsedOnce
  /\ EachSuspensionAnsweredOnce
  /\ EachChildFinishesOnce
  /\ EachCallAnsweredOnce
  /\ EachStepMemoisedOnce

\* "A Run reaches exactly one terminal state" (reducer.py).
SettledOnce == Cardinality(At("run_settled")) <= 1

\* An append raises SeqConflict only when another Attempt holds the Run (the
\* Raises section of Journal.append): records of consumers alone never stop
\* an Attempt.
ConflictMeansAnotherAttempt ==
  [][\A a \in Attempts :
       journal[a].phase = "absorbed" /\ Accepted(a, journal[a].record)
         /\ journal'[a].phase = "stopped"
       => \E i \in DOMAIN Foreign(a) : Foreign(a)[i].type \notin External]_vars
=============================================================================
