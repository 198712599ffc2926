------------------------------- MODULE Attempts -------------------------------
(***************************************************************************)
(* One agent Run from create_run to settlement: the agent loop inside each  *)
(* fiber (runtime/agent.py, runtime/execute.py), the consumer's calls      *)
(* (runtime/dispatch.py) and, through Fibers, the Workers.  A turn is its  *)
(* tool batch: the records of turns and of model calls conflict and absorb *)
(* like all others (Journal) and are left out.                             *)
(***************************************************************************)
EXTENDS Fibers, FiniteSets

CONSTANTS
  NeedsApproval,     \* the calls a human must approve
  Safe,              \* the calls recorded safe_to_retry
  NonInterruptible   \* the calls recorded interruptible=False

ASSUME AttemptsAssumption ==
  /\ NeedsApproval \cup Safe \cup NonInterruptible \subseteq Calls
  /\ None \notin Calls \cup {"approved", "denied", "force_settled"}

VARIABLES
  executed,   \* history: how often each call's tool was entered
  consumer    \* "admitting" and "waking" between the two writes of dispatch and resume

vars == <<fiberVars, executed, consumer>>

storeOnly == <<header, active, process, world, consumer>>

-----------------------------------------------------------------------------

CallStarted(v, c) ==
  [type |-> "tool_call_started", call |-> c, turn |-> IF v.turn = 0 THEN 1 ELSE v.turn,
   handle |-> None]

CallFinished(c, outcome) ==
  [type |-> "tool_call_finished", call |-> c, outcome |-> outcome, answer |-> None,
   elided |-> FALSE]

Unstarted(n) == world.calls \ StartedCalls(View(n))

EnterTool(n, c) ==
  /\ Becomes(n, [At(n, "executing") EXCEPT !.doing = c])
  /\ executed' = [executed EXCEPT ![c] = @ + 1]
  /\ UNCHANGED <<log, author>>

-----------------------------------------------------------------------------
(* The agent loop *)

\* Mutations: every dangling call is executed again; any decision is a yes.
RecoverAll(n, c) ==
  /\ fiber[n].phase = "recovering"
  /\ c \in View(n).open_tool_calls
  /\ EnterTool(n, c)
  /\ UNCHANGED storeOnly

RecoverDecided(n, c) ==
  LET decision == View(n).approval_decisions[c] IN
  /\ fiber[n].phase = "recovering"
  /\ c \in View(n).open_tool_calls
  /\ \/ decision # None /\ EnterTool(n, c)
     \/ /\ decision = None
        /\ JournalAppend(n, CallFinished(c, "unknown"), fiber[n])
        /\ UNCHANGED executed
  /\ UNCHANGED storeOnly

\* _settle_dangling_calls, one open call.
Recover(n, c) ==
  LET decision == View(n).approval_decisions[c] IN
  /\ fiber[n].phase = "recovering"
  /\ c \in View(n).open_tool_calls
  /\ \/ /\ \/ decision = "approved"
           \/ decision = None /\ c \in Safe
        /\ EnterTool(n, c)
     \/ /\ decision = "denied"
        /\ JournalAppend(n, CallFinished(c, "error"), fiber[n])
        /\ UNCHANGED executed
     \/ /\ decision = None /\ c \notin Safe
        /\ JournalAppend(n, CallFinished(c, "unknown"), fiber[n])
        /\ UNCHANGED executed
  /\ UNCHANGED storeOnly

\* Mutation: dangling calls are left open.
RecoveredAtOnce(n) ==
  /\ fiber[n].phase = "recovering"
  /\ GoesTo(n, "looping")
  /\ UNCHANGED <<log, author, executed, storeOnly>>

Recovered(n) ==
  /\ fiber[n].phase = "recovering"
  /\ View(n).open_tool_calls = {}
  /\ GoesTo(n, "looping")
  /\ UNCHANGED <<log, author, executed, storeOnly>>

\* _check_stop_conditions found none: _turn begins by refreshing.
BeginTurn(n) ==
  /\ fiber[n].phase = "looping"
  /\ fiber[n].reason = "none"
  /\ View(n).abort_seq = 0 /\ ~View(n).suspended
  /\ IF AllExternal(Missed(n))
     THEN Becomes(n, [At(n, "turning") EXCEPT !.head = Len(log)])
     ELSE GoesTo(n, "unwinding")
  /\ UNCHANGED <<log, author, executed, storeOnly>>

\* A stop condition holds.  A suspended Run, and one this Worker must hand
\* on, is not settled.
Stopping(n) == fiber[n].reason # "none" \/ View(n).abort_seq > 0 \/ View(n).suspended
HandedOn(n) == View(n).suspended \/ fiber[n].reason \in {"shutdown", "lease_lost"}

StopLoop(n) ==
  /\ fiber[n].phase = "looping"
  /\ Stopping(n)
  /\ \/ HandedOn(n) /\ GoesTo(n, "unwinding") /\ UNCHANGED <<log, author>>
     \/ ~HandedOn(n) /\ JournalAppend(n, Settlement("aborted"), At(n, "unwinding"))
  /\ UNCHANGED <<executed, storeOnly>>

\* The model asked for no tool.
Complete(n) ==
  /\ fiber[n].phase = "turning"
  /\ \/ HandedOn(n) /\ GoesTo(n, "unwinding") /\ UNCHANGED <<log, author>>
     \/ ~HandedOn(n) /\ JournalAppend(n, Settlement("completed"), At(n, "unwinding"))
  /\ UNCHANGED <<executed, storeOnly>>

\* The model asked for call c.
StartCall(n, c) ==
  /\ fiber[n].phase = "turning"
  /\ c \in Unstarted(n)
  /\ JournalAppend(n, CallStarted(View(n), c), [At(n, "gating") EXCEPT !.doing = c])
  /\ UNCHANGED <<executed, storeOnly>>

\* _gate, and the call itself when nobody has to be asked.
Gate(n) ==
  LET c == fiber[n].doing IN
  /\ fiber[n].phase = "gating"
  /\ \/ /\ c \in NeedsApproval
        /\ JournalAppend(n, [type |-> "suspended", reason |-> "approval", call |-> c, step |-> None],
                         At(n, "suspending"))
        /\ UNCHANGED executed
     \/ c \notin NeedsApproval /\ EnterTool(n, c)
  /\ UNCHANGED storeOnly

\* The tool returned; _record_success.  The loop goes on where it came from:
\* after a turn's call no other call is open, so "recovering" is over at once.
FinishCall(n) ==
  /\ fiber[n].phase = "executing"
  /\ JournalAppend(n, CallFinished(fiber[n].doing, "ok"),
                   [At(n, "recovering") EXCEPT !.doing = None])
  /\ UNCHANGED <<executed, storeOnly>>

\* _answer_unstarted: the other calls of the batch get a start and a result.
AnswerUnstarted(n, c) ==
  /\ fiber[n].phase = "suspending"
  /\ c \in Unstarted(n)
  /\ JournalAppend(n, CallStarted(View(n), c), [At(n, "answering") EXCEPT !.doing = c])
  /\ UNCHANGED <<executed, storeOnly>>

AnswerNotExecuted(n) ==
  /\ fiber[n].phase = "answering"
  /\ JournalAppend(n, CallFinished(fiber[n].doing, "error"), At(n, "suspending"))
  /\ UNCHANGED <<executed, storeOnly>>

BatchAnswered(n) ==
  /\ fiber[n].phase = "suspending"
  /\ GoesTo(n, "looping")
  /\ UNCHANGED <<log, author, executed, storeOnly>>

-----------------------------------------------------------------------------
(* The runner around the loop: Runtime.__call__ *)

\* The abort signal cancels the loop wherever it is.  A tool call in flight
\* is recorded as aborted, whoever holds the Run and whatever the tool said
\* of being interrupted.
CancelWork(n) ==
  /\ fiber[n].phase \in Working
  /\ fiber[n].reason # "none"
  /\ \/ /\ fiber[n].phase = "executing"
        /\ JournalAppend(n, CallFinished(fiber[n].doing, "aborted"), At(n, "cancelled"))
     \/ /\ fiber[n].phase # "executing"
        /\ GoesTo(n, "cancelled") /\ UNCHANGED <<log, author>>
  /\ UNCHANGED <<executed, storeOnly>>

\* Only the deadline settles.
SettleCancelled(n) ==
  /\ fiber[n].phase = "cancelled"
  /\ \/ /\ fiber[n].reason = "deadline"
        /\ JournalAppend(n, Settlement("aborted"), At(n, "unwinding"))
     \/ /\ fiber[n].reason # "deadline"
        /\ GoesTo(n, "unwinding") /\ UNCHANGED <<log, author>>
  /\ UNCHANGED <<executed, storeOnly>>

\* Anything else that escapes the loop.
Raise(n) ==
  /\ Happens("raise")
  /\ fiber[n].phase \in {"opened"} \cup Working
  /\ GoesTo(n, "failing")
  /\ UNCHANGED <<log, author, executed, storeOnly>>

-----------------------------------------------------------------------------
(* The consumer *)

ConsumerAppend(rec) ==
  /\ LogAppend(rec, 0)
  /\ UNCHANGED <<header, fiber, active, process, world, executed>>

\* The second write of dispatch.  Nobody can have written before it: every
\* other call finds no records and raises RunNotFound or ValueError.  The
\* first write is Init; a retry under its key finds the header and returns.
Admit ==
  /\ consumer = "admitting"
  /\ ConsumerAppend([type |-> "run_admitted"])
  /\ consumer' = "idle"

Interrupt ==
  /\ Happens("interrupt") /\ ~Unadmitted
  /\ ~Truth.settled /\ Truth.abort_seq = 0
  /\ ConsumerAppend([type |-> "abort_requested"])
  /\ UNCHANGED consumer

\* resume appends the decision, then wakes the Run.
Answer(decision) ==
  /\ Happens("answer") /\ consumer = "idle"
  /\ Truth.suspended /\ ~Truth.settled
  /\ ConsumerAppend([type |-> "resumed", approved |-> decision])
  /\ consumer' = "waking"

Wake ==
  /\ consumer = "waking"
  /\ consumer' = "idle"
  /\ header' = Woken(header)
  /\ UNCHANGED <<log, author, fiber, active, process, world, executed>>

\* The consumer dies between its two writes.
Vanish ==
  /\ \/ consumer = "admitting" /\ Happens("lost_admission")
     \/ consumer = "waking" /\ Happens("lost_wake")
  /\ consumer' = "idle"
  /\ UNCHANGED <<fiberVars, executed>>

\* resume after the suspension expired settles the Run; the release that
\* follows is by nobody who holds the lease, so the header stays.
Expire ==
  /\ Happens("expire")
  /\ Truth.suspended /\ ~Truth.settled
  /\ ConsumerAppend(Settlement("abandoned"))
  /\ UNCHANGED consumer

-----------------------------------------------------------------------------

Init ==
  /\ FibersInit
  /\ executed = [c \in Calls |-> 0]
  /\ consumer = "admitting"

LoopStep(n) ==
  \/ \E c \in Calls : Recover(n, c) \/ StartCall(n, c) \/ AnswerUnstarted(n, c)
  \/ Recovered(n) \/ BeginTurn(n) \/ StopLoop(n) \/ Complete(n) \/ Gate(n) \/ FinishCall(n)
  \/ AnswerNotExecuted(n) \/ BatchAnswered(n) \/ CancelWork(n) \/ SettleCancelled(n)

WorkersStep == WorkerStep /\ UNCHANGED <<executed, consumer>>

Next ==
  \/ WorkersStep
  \/ \E n \in Claims : LoopStep(n) \/ Raise(n)
  \/ Admit \/ Interrupt \/ Wake \/ Vanish \/ Expire \/ \E d \in {"approved", "denied"} : Answer(d)

Spec == Init /\ [][Next]_vars

-----------------------------------------------------------------------------
(* Fairness *)

\* One pass of the supervisor after the other.
Supervision(n) ==
  (\E w \in Workers : FireDeadline(w, n) \/ GraceEnds(w, n)) \/ ForceClose(n) \/ ForceForget(n)

\* Every await returns: the store's, the model's, the tools'.  In a world with
\* "hang" a fiber cannot be relied on to take one more step, except where it
\* awaits the store only: in its finally block, and in _fail_exhausted.
Progress(n) ==
  \/ WorkersStep /\ (FailExhausted(n) \/ Unwind(n) \/ Release(n))
  \/ ~Happens("hang") /\ (LoopStep(n) \/ (WorkersStep /\ FiberStep(n)))

\* Workers poll and supervise for as long as they are up; time passes; dispatch
\* and resume get to their second write.
FairSpec ==
  /\ Spec
  /\ WF_vars(WorkersStep /\ \E w \in Workers : Claim(w))
  /\ WF_vars(WorkersStep /\ LeaseExpires)
  /\ WF_vars(WorkersStep /\ DeadlinePasses)
  /\ WF_vars(Admit)
  /\ WF_vars(Wake)
  /\ \A n \in Claims : WF_vars(Progress(n)) /\ WF_vars(WorkersStep /\ Supervision(n))

-----------------------------------------------------------------------------
(* Properties *)

TypeOK ==
  /\ header \in Headers
  /\ DOMAIN log = DOMAIN author /\ \A i \in DOMAIN author : author[i] \in {0} \cup Claims
  /\ \A n \in Claims :
       /\ fiber[n].phase \in Phases /\ fiber[n].worker \in Workers \cup {Nobody}
       /\ {fiber[n].head, fiber[n].grip} \subseteq 0..Len(log)
       /\ fiber[n].doing \in Calls \cup {None}
  /\ \A w \in Workers : active[w] # 0 => fiber[active[w]].worker = w
  /\ executed \in [Calls -> Nat] /\ consumer \in {"admitting", "idle", "waking"}

\* The log tells one story: an Attempt another one wrote after never writes
\* again, although it may still run, hold a cached log and believe in its
\* lease (DESIGN.md section 6, rules 3 and 4; Worker._attempt).  Where an
\* exception may reach the Worker this is not so: _settle_failure opens a
\* Journal of its own, at a head the Attempt never read.
OneAttemptWrites ==
  ~Happens("raise") =>
    \A i, k, m \in DOMAIN author :
      i < k /\ k < m /\ author[i] > 0 /\ author[m] = author[i] => author[k] \in {0, author[i]}

\* A call not declared safe to retry enters its tool at most once, over any
\* number of crashes, takeovers and shutdowns.
UnsafeCallRunsOnce == \A c \in Calls \ Safe : executed[c] <= 1

\* No tool that needs a human's approval is entered before, or without, it.
ApprovedBeforeRun ==
  \A c \in NeedsApproval : executed[c] > 0 => Truth.approval_decisions[c] = "approved"

\* Whoever settles a header, late, twice or by force, has seen the log
\* settled: a Run is never taken out of circulation with its story open.
SettledHeaderHasSettledLog == header.state = "settled" => Truth.settled

\* A Run settled by force leaves no call looking as if it were still running,
\* although the hung fiber may come back and write at any moment
\* (Worker._force_settle, DESIGN.md section 8.4).
ForcedEndAnswersAllCalls ==
  Truth.terminal_state = "force_settled" => Truth.open_tool_calls = {}

\* The model is never called with a tool call unanswered: dangling calls are
\* closed first, and a suspended batch is answered in full ("a model must
\* never receive an assistant message with tool calls whose results are
\* missing", _settle_dangling_calls).
NoCallDanglesInATurn ==
  \A n \in Claims : fiber[n].phase = "turning" => View(n).open_tool_calls = {}

\* No call is left open where somebody reads it as closed: in a turn's prompt,
\* or in a Run that was ended by force.
OpenCallsAreClosed == NoCallDanglesInATurn /\ ForcedEndAnswersAllCalls

\* An Attempt that knows it lost the lease writes nothing more ("LEASE_LOST:
\* stop writing immediately", abort.py).
NothingWrittenAfterLeaseLost ==
  [][\A n \in Claims :
       fiber[n].reason = "lease_lost" /\ Len(author') > Len(author)
         => author'[Len(author')] # n]_vars

\* The release of one fiber leaves the lease of a later one alone: the fencing
\* "gated on the old attempt id" of durability-and-leases.md.
StaleReleaseIsFenced ==
  [][\A n \in Claims :
       fiber[n].phase = "releasing" /\ fiber'[n].phase = "over" /\ header' # header
         => header.attempt_count = n]_vars

\* An Attempt that has folded the abort enters no further tool.
NoToolAfterAbort ==
  [][\A n \in Claims :
       fiber[n].phase = "gating" /\ fiber'[n].phase = "executing"
         => View(n).abort_seq = 0]_vars

Ended(c) == {i \in DOMAIN log : log[i].type = "tool_call_finished" /\ log[i].call = c}
Begun(c) == {i \in DOMAIN log : log[i].type = "tool_call_started" /\ log[i].call = c}

\* "A non-interruptible tool is allowed to finish on abort" (records.py).
NonInterruptibleFinishes ==
  \A c \in NonInterruptible, i \in DOMAIN log :
    i \in Ended(c) => log[i].outcome # "aborted"

\* An interruptible call that was running when the abort was recorded is
\* recorded as aborted (DESIGN.md section 9).
InterruptCancelsCall ==
  \A c \in Calls \ NonInterruptible :
    \A s \in Begun(c), e \in Ended(c), i \in DOMAIN log :
      s < i /\ i < e /\ log[i].type = "abort_requested" /\ author[s] = author[e]
        => log[e].outcome = "aborted"

\* A Run is given up as exhausted only after it has killed enough Workers
\* (Worker._fail_exhausted): MaxAttempts Attempts began and ended neither in a
\* suspension nor in a settlement.
KilledItsWorker(n) ==
  LET types == {log[i].type : i \in {k \in DOMAIN author : author[k] = n}} IN
  "attempt_started" \in types /\ types \cap {"suspended", "run_settled"} = {}

ExhaustedMeansKilled ==
  \A i \in DOMAIN log :
    log[i] = Settlement("failed")
      /\ (\A k \in DOMAIN log : author[k] = author[i] => log[k].type # "attempt_started")
      => Cardinality({n \in Claims : KilledItsWorker(n)}) >= MaxAttempts

\* A resume that was written is served: the Run does not stay parked.
ResumeIsServed ==
  (header.state = "suspended" /\ ~Truth.suspended /\ consumer = "idle")
    ~> header.state # "suspended"

\* A Run that no human has to look at is settled, whatever its Workers go
\* through; one that waits for a human is handed back to the store.
RunComesToRest == <>(Truth.settled \/ header.state = "suspended")

\* A settlement reaches the header, so that nobody claims the Run again.
SettlementReachesHeader == Truth.settled ~> header.state = "settled"

\* The same for every settlement that the loop, the failure handler, the
\* exhausted claim or a deadline wrote in time, whoever died between the log and
\* the header.  The late resume's never gets there, and a forced end does not if
\* the fiber read the log of a suspended Run before it and releases after it.
AttemptsSettlementReachesHeader ==
  (Truth.settled /\ Truth.terminal_state \notin {"abandoned", "force_settled"})
    ~> header.state = "settled"

\* The deadline settles a Run even when its fibers hang wherever they are:
\* supervision does not share a call stack with execution.  Only a Run that
\* waits for a human has no deadline.
DeadlineSettles ==
  Happens("hang") /\ Happens("deadline") => <>(Truth.settled \/ header.state = "suspended")
=============================================================================
