-------------------------------- MODULE Fibers --------------------------------
(***************************************************************************)
(* Workers and the attempt fibers they run on one Run                      *)
(* (runtime/worker.py): claiming, heartbeats, supervision, shutdown,       *)
(* crashes, and the release that ends every fiber.  Attempts adds what     *)
(* happens inside a fiber and in the consumer, and the specification.      *)
(*                                                                         *)
(* A fiber is named by the number of the claim that started it.  Each      *)
(* await of the store is a step, so anything may happen between two of     *)
(* them.  A conflict, the read it causes and the second try are one step   *)
(* here; Journal takes them apart.  The Run has no parent, no timer and no *)
(* background children, and nothing here makes its log corrupt.            *)
(***************************************************************************)
EXTENDS Header, RunLog

CONSTANTS
  MaxAttempts,   \* claims after which a Run is failed instead of executed
  MaxClaims,     \* bound: claims told apart in any world
  Worlds         \* bound: the worlds that are looked at, see World

\* "blink": a store call fails, or another write gets in before it.  "hang": an
\* await in the agent loop need not return.
AllFaults ==
  {"crash", "stall", "blink", "stop", "deadline", "raise", "interrupt", "answer", "expire",
   "lost_admission", "lost_wake", "hang"}

\* What may happen, how many claims are told apart (the last slot is used again
\* when the Run is exhausted), and the calls the model asks for.
World(faults, claims, calls) ==
  [faults |-> faults, claims |-> claims, calls |-> calls, overdue |-> "no"]

ASSUME FibersAssumption ==
  /\ MaxAttempts \in Nat /\ MaxClaims \in Nat
  /\ Worlds \subseteq [faults : SUBSET AllFaults, claims : 1..MaxClaims,
                       calls : SUBSET Calls, overdue : {"no"}]

VARIABLES
  header,    \* the run header in the Store
  log,       \* the record log in the Store
  author,    \* author[i]: the fiber whose attempt wrote log[i], 0 for a consumer
  fiber,     \* fiber[n]: the fiber of the n-th claim
  active,    \* active[w]: the fiber in w's table of active attempts, 0 for none
  process,   \* process[w]: "up", "stopping" (after stop()) or "down"
  world      \* one of Worlds; overdue: "yes" once the Run's deadline has passed

fiberVars == <<header, log, author, fiber, active, process, world>>

Claims == 1..MaxClaims

Happens(event) == event \in world.faults

\* Where a fiber is.  "claimed": the lease is taken.  "opened": the log is
\* read.  Working: in the agent loop.  "cancelled": the loop was cancelled.
\* "failing": an exception reached the Worker.  "unwinding", "releasing": in
\* the finally block.
Working ==
  {"recovering", "looping", "turning", "gating", "executing", "suspending", "answering"}
Phases ==
  {"unclaimed", "exhausted", "claimed", "opened", "cancelled", "failing",
   "unwinding", "releasing", "over"} \cup Working

Unclaimed ==
  [worker |-> Nobody,       \* who claimed
   phase |-> "unclaimed",
   reason |-> "none",       \* why the abort signal fired; the first reason stays
   clock |-> "ahead",       \* "fired": aborted_at is set
   grip |-> 0,              \* what the Journal of _force_settle has folded, 0 for none
   head |-> 0,              \* how much of the log the fiber's Journal has folded
   doing |-> None,          \* the tool call it is at
   verdict |-> "none"]      \* the state it read off the log for the release

-----------------------------------------------------------------------------
(* A fiber and its Journal *)

\* A Run exists in the store before run_admitted is in its log, and reduce
\* raises ValueError on an empty log.
Unadmitted == log = <<>>

View(n) == Reduced(SubSeq(log, 1, fiber[n].head)).view
Truth == Reduced(log).view
Missed(n) == SubSeq(log, fiber[n].head + 1, Len(log))

Becomes(n, new) == fiber' = [fiber EXCEPT ![n] = new]
At(n, phase) == [fiber[n] EXCEPT !.phase = phase]
GoesTo(n, phase) == Becomes(n, At(n, phase))

\* What is left of a fiber that is over: a supervisor may still be at it.
Over(n) ==
  [Unclaimed EXCEPT !.phase = "over", !.worker = fiber[n].worker, !.grip = fiber[n].grip]

LogAppend(rec, n) ==
  /\ log' = Append(log, rec)
  /\ author' = Append(author, n)

\* Mutation: any foreign record is taken in.
JournalAppendUnfenced(n, rec, new) ==
  /\ Accepts(Reduced(log), rec)
  /\ LogAppend(rec, n)
  /\ Becomes(n, [new EXCEPT !.head = Len(log) + 1])

\* Journal.append by fiber n, which becomes "new" when the record is written.
\* A foreign record that is not external is a SeqConflict, which ends the
\* fiber.
JournalAppend(n, rec, new) ==
  \/ /\ AllExternal(Missed(n)) /\ Accepts(Reduced(log), rec)
     /\ LogAppend(rec, n)
     /\ Becomes(n, [new EXCEPT !.head = Len(log) + 1])
  \/ /\ ~AllExternal(Missed(n))
     /\ GoesTo(n, "unwinding") /\ UNCHANGED <<log, author>>

Settlement(state) == [type |-> "run_settled", state |-> state]

\* A settlement through a Journal opened for it.
SettleUnlessSettled(n, state) ==
  \/ ~Truth.settled /\ LogAppend(Settlement(state), n)
  \/ Truth.settled /\ UNCHANGED <<log, author>>

-----------------------------------------------------------------------------
(* Claiming *)

\* _claim_one.  The new fiber replaces whatever the table held for the Run.
Claim(w) ==
  LET n == IF header.attempt_count < world.claims THEN header.attempt_count + 1 ELSE world.claims IN
  /\ process[w] = "up"
  /\ Claimable(header)
  /\ \/ fiber[n].phase = "unclaimed"
     \/ n > MaxAttempts /\ fiber[n].phase = "over"
  /\ header' = [Claimed(header, w) EXCEPT !.attempt_count = n]
  /\ \/ /\ n <= MaxAttempts
        /\ Becomes(n, [Unclaimed EXCEPT !.worker = w, !.phase = "claimed"])
        /\ active' = [active EXCEPT ![w] = n]
     \/ /\ n > MaxAttempts
        /\ Becomes(n, [Unclaimed EXCEPT !.worker = w, !.phase = "exhausted"])
        /\ UNCHANGED active
  /\ UNCHANGED <<log, author, process, world>>

\* _fail_exhausted.  If it raises, the claim loop goes on and nothing is
\* released.
FailExhausted(n) ==
  /\ fiber[n].phase = "exhausted"
  /\ \/ /\ ~Unadmitted
        /\ SettleUnlessSettled(n, "failed")
        /\ Becomes(n, [At(n, "releasing") EXCEPT !.verdict = "settled"])
     \/ /\ Unadmitted \/ Happens("blink")
        /\ Becomes(n, Over(n)) /\ UNCHANGED <<log, author>>
  /\ UNCHANGED <<header, active, process, world>>

\* _attempt: read and fold the log, and return if the Run is settled.
AfterOpen == IF Unadmitted THEN "failing" ELSE IF Truth.settled THEN "unwinding" ELSE "opened"

\* Mutation: the head is off by one.
OpenPastHead(n) ==
  /\ fiber[n].phase = "claimed"
  /\ Becomes(n, [At(n, AfterOpen) EXCEPT !.head = Len(log) + 1])
  /\ UNCHANGED <<header, log, author, active, process, world>>

Open(n) ==
  /\ fiber[n].phase = "claimed"
  /\ Becomes(n, [At(n, AfterOpen) EXCEPT !.head = Len(log)])
  /\ UNCHANGED <<header, log, author, active, process, world>>

Begin(n) ==
  /\ fiber[n].phase = "opened"
  /\ JournalAppend(n, [type |-> "attempt_started", number |-> View(n).attempt_count + 1],
                   At(n, "recovering"))
  /\ UNCHANGED <<header, active, process, world>>

-----------------------------------------------------------------------------
(* The lease *)

\* The heartbeat task lives from the start of the fiber to its finally.
Beating(n) ==
  fiber[n].phase \in Working \cup {"claimed", "opened", "cancelled", "failing"}

Fired(f, reason) == IF f.reason = "none" THEN [f EXCEPT !.reason = reason] ELSE f

\* The store renews for whoever holds the lease; a fiber whose Worker does
\* not hold it stops.
Heartbeat(n) ==
  /\ Beating(n)
  /\ \/ /\ Holds(header, fiber[n].worker)
        /\ header' = Renewed(header)
        /\ UNCHANGED fiber
     \/ /\ ~Holds(header, fiber[n].worker)
        /\ Becomes(n, Fired(fiber[n], "lease_lost"))
        /\ UNCHANGED header
  /\ UNCHANGED <<log, author, active, process, world>>

\* A lease runs out when its holder has no fiber left, or when something
\* stalls: the renewals, or a finally block, which renews no more.
LeaseExpires ==
  /\ header.lease = "fresh"
  /\ \/ Happens("stall")
     \/ \A n \in Claims :
          fiber[n].worker = header.lease_holder => fiber[n].phase = "over"
  /\ header' = Aged(header, TRUE, FALSE)
  /\ UNCHANGED <<log, author, fiber, active, process, world>>

-----------------------------------------------------------------------------
(* The end of a fiber *)

\* _settle_failure, best effort, then the finally block.
SettleFailure(n) ==
  /\ fiber[n].phase = "failing"
  /\ \/ ~Unadmitted /\ SettleUnlessSettled(n, "failed")
     \/ (Unadmitted \/ Happens("blink")) /\ UNCHANGED <<log, author>>
  /\ GoesTo(n, "unwinding")
  /\ UNCHANGED <<header, active, process, world>>

\* Mutation: a settled Run goes back to the store as runnable.
VerdictOfSuspension(v) == IF v.suspended THEN "suspended" ELSE "runnable"

VerdictOf(v) ==
  IF v.settled THEN "settled" ELSE IF v.suspended THEN "suspended" ELSE "runnable"

\* _release, first half: drop the table entry and read the log.  The entry
\* is dropped by run id, whichever fiber it is for.  A log that cannot be
\* folded yet keeps the lease until it runs out.
Unwind(n) ==
  /\ fiber[n].phase = "unwinding"
  /\ active' = [active EXCEPT ![fiber[n].worker] = 0]
  /\ \/ /\ fiber[n].reason = "lease_lost" \/ Unadmitted
        /\ Becomes(n, Over(n))
     \/ /\ fiber[n].reason # "lease_lost" /\ ~Unadmitted
        /\ Becomes(n, [At(n, "releasing") EXCEPT !.verdict = VerdictOf(Truth)])
  /\ UNCHANGED <<header, log, author, process, world>>

\* _release, second half: the store checks the worker id and nothing else.
Release(n) ==
  /\ fiber[n].phase = "releasing"
  /\ header' = Released(header, fiber[n].worker, fiber[n].verdict)
  /\ Becomes(n, Over(n))
  /\ UNCHANGED <<log, author, active, process, world>>

-----------------------------------------------------------------------------
(* Supervision *)

DeadlinePasses ==
  /\ Happens("deadline") /\ world.overdue = "no"
  /\ world' = [world EXCEPT !.overdue = "yes"]
  /\ UNCHANGED <<header, log, author, fiber, active, process>>

\* _supervisor_pass looks at the table, not at the lease.
Supervised(w, n) == process[w] = "up" /\ active[w] = n

\* Mutation: the deadline is enforced at turn boundaries only.
FireDeadlineBetweenTurns(w, n) ==
  /\ Supervised(w, n)
  /\ fiber[n].phase = "looping"
  /\ world.overdue = "yes" /\ fiber[n].clock = "ahead"
  /\ Becomes(n, [Fired(fiber[n], "deadline") EXCEPT !.clock = "fired"])
  /\ UNCHANGED <<header, log, author, active, process, world>>

FireDeadline(w, n) ==
  /\ Supervised(w, n)
  /\ world.overdue = "yes" /\ fiber[n].clock = "ahead"
  /\ Becomes(n, [Fired(fiber[n], "deadline") EXCEPT !.clock = "fired"])
  /\ UNCHANGED <<header, log, author, active, process, world>>

\* Grace is over: _force_settle opens a Journal of its own, which raises and
\* fails the pass while the log is empty.
GraceEnds(w, n) ==
  /\ Supervised(w, n) /\ ~Unadmitted
  /\ fiber[n].clock = "fired" /\ fiber[n].grip = 0
  /\ Becomes(n, [fiber[n] EXCEPT !.grip = Len(log)])
  /\ UNCHANGED <<header, log, author, active, process, world>>

\* _force_settle goes on although the fiber may be gone meanwhile.
ForceSettling(n) == fiber[n].grip > 0 /\ process[fiber[n].worker] # "down"
Gripped(n) == Reduced(SubSeq(log, 1, fiber[n].grip)).view

\* Mutation: the end is written over open calls.
ForcedRecordsEnd(v) == {Settlement("force_settled")}

\* What _force_settle appends next: a result for each open call, then the end.
ForcedRecords(v) ==
  [type : {"tool_call_finished"}, call : v.open_tool_calls, outcome : {"unknown"},
   answer : {None}, elided : {FALSE}]
  \cup {Settlement(s) : s \in IF v.open_tool_calls = {} THEN {"force_settled"} ELSE {}}

\* One append.  A conflict fails the pass; the next one starts over.
ForceClose(n) ==
  /\ ForceSettling(n) /\ ~Gripped(n).settled
  /\ \E rec \in ForcedRecords(Gripped(n)) :
       \/ /\ AllExternal(SubSeq(log, fiber[n].grip + 1, Len(log)))
          /\ LogAppend(rec, n)
          /\ Becomes(n, [fiber[n] EXCEPT !.grip = Len(log) + 1])
       \/ /\ ~AllExternal(SubSeq(log, fiber[n].grip + 1, Len(log)))
          /\ Becomes(n, [fiber[n] EXCEPT !.grip = 0])
          /\ UNCHANGED <<log, author>>
  /\ UNCHANGED <<header, active, process, world>>

\* What cancelling the task of the fiber leads to.  The agent loop unwinds in
\* its own time, or not at all; a cancelled finally block skips the release.
CancelledPhases(phase) ==
  CASE phase \in {"claimed", "opened", "failing"} -> {"unwinding"}
    [] phase \in {"unwinding", "releasing"} -> {phase, "over"}
    [] OTHER -> {phase}

\* Mutation: the Run is dropped whether or not the settlement was written.
ForceForgetEarly(n) ==
  /\ ForceSettling(n)
  /\ active' = [active EXCEPT ![fiber[n].worker] = 0]
  /\ header' = Released(header, fiber[n].worker, "settled")
  /\ \E phase \in CancelledPhases(fiber[n].phase) :
       Becomes(n, [IF phase = "over" THEN Over(n) ELSE At(n, phase) EXCEPT !.grip = 0])
  /\ UNCHANGED <<log, author, process, world>>

\* The rest of _force_settle: drop the Run's entry, cancel the task, release.
ForceForget(n) ==
  /\ ForceSettling(n) /\ Gripped(n).settled
  /\ active' = [active EXCEPT ![fiber[n].worker] = 0]
  /\ header' = Released(header, fiber[n].worker, "settled")
  /\ \E phase \in CancelledPhases(fiber[n].phase) :
       Becomes(n, [IF phase = "over" THEN Over(n) ELSE At(n, phase) EXCEPT !.grip = 0])
  /\ UNCHANGED <<log, author, process, world>>

-----------------------------------------------------------------------------
(* Processes *)

\* Some Worker is always up: one that dies or stops is replaced.
Replaceable(w) == \E v \in Workers \ {w} : process[v] = "up"

Crash(w) ==
  /\ Happens("crash") /\ process[w] # "down" /\ Replaceable(w)
  /\ process' = [process EXCEPT ![w] = "down"]
  /\ fiber' = [n \in Claims |->
       IF fiber[n].worker = w THEN [Over(n) EXCEPT !.grip = 0] ELSE fiber[n]]
  /\ active' = [active EXCEPT ![w] = 0]
  /\ UNCHANGED <<header, log, author, world>>

\* stop() fires the signal of the attempts in the table.
Stop(w) ==
  /\ Happens("stop") /\ process[w] = "up" /\ Replaceable(w)
  /\ process' = [process EXCEPT ![w] = "stopping"]
  /\ fiber' = [n \in Claims |-> IF active[w] = n THEN Fired(fiber[n], "shutdown") ELSE fiber[n]]
  /\ UNCHANGED <<header, log, author, active, world>>

-----------------------------------------------------------------------------

FibersInit ==
  /\ header = AdmittedHeader("runnable")
  /\ log = <<>>
  /\ author = <<>>
  /\ fiber = [n \in Claims |-> Unclaimed]
  /\ active = [w \in Workers |-> 0]
  /\ process = [w \in Workers |-> "up"]
  /\ world \in Worlds

FiberStep(n) ==
  FailExhausted(n) \/ Open(n) \/ Begin(n) \/ SettleFailure(n) \/ Unwind(n)
    \/ Release(n)

WorkerStep ==
  \/ \E w \in Workers : Claim(w) \/ Crash(w) \/ Stop(w)
  \/ \E w \in Workers, n \in Claims :
       FireDeadline(w, n) \/ GraceEnds(w, n)
  \/ \E n \in Claims : FiberStep(n) \/ Heartbeat(n) \/ ForceClose(n) \/ ForceForget(n)
  \/ LeaseExpires \/ DeadlinePasses
=============================================================================
