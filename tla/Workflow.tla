------------------------------- MODULE Workflow -------------------------------
(***************************************************************************)
(* The workflow engine (runtime/workflow.py), the runner around it         *)
(* (Runtime._run_workflow) and the seeding of a replay                     *)
(* (runtime/workflow_replay.py), for one Run.                              *)
(*                                                                         *)
(* An Attempt walks the tree of steps from its root.  Every append, tool   *)
(* call and park is a step of its own; parallel branches interleave        *)
(* between them, and a Worker may die or be shut down anywhere.            *)
(***************************************************************************)
EXTENDS AgentSteps

-----------------------------------------------------------------------------
(* Where the walk may go next *)

\* Mutation: a failure nobody tolerates is passed as well.
PassesFailure(p, c) == Over(c, {"completed", "skipped", "failed"})

\* _sequence, _loop: the walk goes on behind c.
Passes(p, c) ==
  /\ \/ Over(c, {"completed", "skipped"})
     \/ Over(c, {"failed"}) /\ c \in plan.tolerated
  /\ ~(Kind(p) # "loop" /\ c \in plan.ending /\ Over(c, {"completed"}))
  /\ ~(Kind(p) = "loop" /\ ConditionHolds(frame[p].state, Node(p).until))

NextOf(p) == {i \in DOMAIN Body(p) : frame[Body(p)[i]].phase = "idle"}
IsNext(p, s) == \E i \in NextOf(p) : s = Body(p)[i] /\ \A k \in NextOf(p) : i <= k
LastOver(p) == Body(p)[CHOOSE i \in DOMAIN Body(p) :
                         /\ frame[Body(p)[i]].phase = "ended"
                         /\ \A k \in DOMAIN Body(p) : k > i => frame[Body(p)[k]].phase = "idle"]
SomeOver(p) == \E c \in ChildrenOf(p) : frame[c].phase = "ended"
AtRest(p) == \A c \in ChildrenOf(p) : frame[c].phase \in {"idle", "ended"}

\* _branch: the first case that holds, or the otherwise, which has no case.
Cases(p) == {i \in DOMAIN Body(p) : Node(Body(p)[i]).case # None}
HoldingCases(p) == {i \in Cases(p) : ConditionHolds(frame[p].state, Node(Body(p)[i]).case)}

Chosen(p) ==
  IF Kind(p) # "branch" THEN ChildrenOf(p)
  ELSE LET holding == HoldingCases(p) IN
       IF holding = {} THEN {Body(p)[i] : i \in DOMAIN Body(p) \ Cases(p)}
       ELSE {Body(p)[CHOOSE i \in holding : \A k \in holding : i <= k]}

PassedOver(p) == ChildrenOf(p) \ Chosen(p)

\* _concurrently: the stop event.
StopSet(p) ==
  \E c \in Chosen(p) :
    \/ Over(c, {"suspended", "aborted"})
    \/ p \in plan.fail_fast /\ Over(c, {"failed"}) /\ c \notin plan.tolerated

InFlight(p) == {c \in Chosen(p) : frame[c].phase \notin {"idle", "ended"}}

EntersConcurrent(p, s) ==
  /\ s \in Chosen(p)
  /\ \A c \in PassedOver(p) : frame[c].phase = "ended"
  /\ ~StopSet(p)
  /\ Cardinality(InFlight(p)) < Node(p).limit

\* The next step of a sequence is entered after a refresh that shows no abort.
EntersSerial(p, s) ==
  /\ IsNext(p, s) /\ AtRest(p)
  /\ SomeOver(p) => Passes(p, LastOver(p))
  /\ Caught.abort_seq = 0

Enters(s) ==
  /\ Is(s, "idle")
  /\ \E p \in Nodes :
       /\ s \in ChildrenOf(p) /\ frame[p].phase = "begun"
       /\ \/ Kind(p) \in Serial /\ EntersSerial(p, s)
          \/ Kind(p) \in Concurrent /\ EntersConcurrent(p, s)

\* _stopped: an abort seen before the next step of a sequence, or a retry.
StopAtAbort(p) ==
  /\ Caught.abort_seq > 0
  /\ \/ /\ Is(p, "begun") /\ Kind(p) \in Serial /\ AtRest(p) /\ NextOf(p) # {}
        /\ SomeOver(p) => Passes(p, LastOver(p))
     \/ Is(p, "again")
  /\ view' = Caught
  /\ Ends(p, "aborted")
  /\ UNCHANGED <<outside, log, late, ran>>

-----------------------------------------------------------------------------
(* _step: what the log says about a step the walk has come to *)

Memo(s) == view.steps[s]
Paused(s) ==
  /\ s \in plan.breakpoints
  /\ \A i \in DOMAIN view.step_resumes[s] : view.step_resumes[s][i].reason # "breakpoint"
RetryDue(s) == s \in late \/ AnswersAfter(s, Memo(s).completed_seq, AnyReason) # {}

Recall(s) ==
  /\ Enters(s) /\ StepSettled(view, s)
  /\ view' = IF Kind(Parent(s)) \in Serial THEN Caught ELSE view
  /\ Ends(s, Memo(s).outcome)
  /\ UNCHANGED <<outside, log, late, ran>>

\* Mutation: an attempt that was cut off is gone on with as well.
ContinuesAny(s) == Memo(s).attempt_number > 0 /\ ~Memo(s).completed

Continues(s) == Memo(s).attempt_number > 0 /\ ~Memo(s).completed /\ Answered(s, AnyReason)

Continue(s) ==
  /\ Enters(s) /\ Continues(s)
  /\ view' = IF Kind(Parent(s)) \in Serial THEN Caught ELSE view
  /\ Drives(s)
  /\ UNCHANGED <<outside, log, late, ran>>

Starts(s) ==
  \/ Memo(s).attempt_number = 0 /\ ~Paused(s)
  \/ Memo(s).completed /\ Memo(s).will_retry /\ RetryDue(s)
  \/ Memo(s).attempt_number > 0 /\ ~Memo(s).completed /\ ~Answered(s, AnyReason)

\* _attempt: over the budget, guarded away, or driven.
Attempt(s) ==
  /\ \/ Enters(s) /\ Starts(s)
     \/ Is(s, "again") /\ Caught.abort_seq = 0
  /\ Allowed(StartRecord(s)) /\ Write(StartRecord(s))
  /\ \/ view.step_starts >= plan.max_steps /\ GoesTo(s, "closing", "failed")
     \/ /\ view.step_starts < plan.max_steps
        /\ ~ConditionHolds(frame[Parent(s)].state, Node(s).when)
        /\ GoesTo(s, "closing", "skipped")
     \/ /\ view.step_starts < plan.max_steps
        /\ ConditionHolds(frame[Parent(s)].state, Node(s).when)
        /\ Drives(s)
  /\ UNCHANGED <<outside, late, ran>>

\* _skip: a case of a branch that was not chosen.
PassOver(s) ==
  LET p == Parent(s) IN
  /\ Is(s, "idle") /\ s \in Under(Root)
  /\ frame[p].phase = "begun" /\ Kind(p) = "branch"
  /\ s \in PassedOver(p) /\ \A c \in PassedOver(p) : frame[c].phase # "closing"
  /\ \/ /\ Memo(s).completed /\ UNCHANGED <<log, view>>
        /\ Ends(s, "skipped")
     \/ /\ ~Memo(s).completed
        /\ Allowed(StartRecord(s)) /\ Write(StartRecord(s))
        /\ GoesTo(s, "closing", "skipped")
  /\ UNCHANGED <<outside, late, ran>>

Close(s) ==
  /\ Is(s, "closing")
  /\ Completes(s, frame[s].status)
  /\ UNCHANGED <<outside, late, ran>>

-----------------------------------------------------------------------------
(* Waiting *)

\* A second suspension is refused.  Before the step is driven nothing
\* catches that but the composite around it.
Suspend(s, reason, next) ==
  IF Allowed(WaitRecord(s, reason))
  THEN Write(WaitRecord(s, reason)) /\ next
  ELSE UNCHANGED <<log, view>> /\ Ends(s, "raised")

Breakpoint(s) ==
  /\ Enters(s) /\ Memo(s).attempt_number = 0 /\ Paused(s)
  /\ Suspend(s, "breakpoint", Ends(s, "suspended"))
  /\ UNCHANGED <<outside, late, ran>>

\* _suspend_timer for a retry, right after the failure or on a later walk.
BackOff(s) ==
  /\ \/ Is(s, "backing")
     \/ Enters(s) /\ Memo(s).completed /\ Memo(s).will_retry /\ ~RetryDue(s)
  /\ Suspend(s, "timer", GoesTo(s, "parking", "none"))
  /\ UNCHANGED <<outside, late, ran>>

Park(s) ==
  /\ Is(s, "parking")
  /\ header' = GateSet(header, IF s \in late THEN "open" ELSE "parked")
  /\ alarm' = s
  /\ view' = view
  /\ Ends(s, "suspended")
  /\ UNCHANGED <<plan, attempt, mishaps, log, late, ran>>

AskReason(s) == IF Kind(s) = "gated" THEN "approval" ELSE "question"

\* _human, and _tool where the gate asks a person.
Ask(s) ==
  LET reason == AskReason(s) IN
  /\ Is(s, "begun") /\ Kind(s) \in {"gated", "human"} /\ ~Answered(s, {reason})
  /\ IF Allowed(WaitRecord(s, reason))
     THEN Write(WaitRecord(s, reason)) /\ Ends(s, "suspended") /\ UNCHANGED late
     ELSE Fails(s, "corrupt")
  /\ UNCHANGED <<outside, ran>>

Sleep(s) ==
  /\ Is(s, "begun") /\ Kind(s) = "sleep" /\ ~Answered(s, AnyReason)
  /\ IF Allowed(WaitRecord(s, "timer"))
     THEN /\ Write(WaitRecord(s, "timer"))
          /\ GoesTo(s, "parking", "none") /\ late' = late \ {s}
     ELSE Fails(s, "corrupt")
  /\ UNCHANGED <<outside, ran>>

-----------------------------------------------------------------------------
(* Driving a leaf *)

Denied(s) ==
  /\ Is(s, "begun") /\ Kind(s) = "gated"
  /\ Answered(s, {"approval"}) /\ Decision(s) # "approved"
  /\ Fails(s, "denied")
  /\ UNCHANGED <<outside, ran>>

MayCall(s) ==
  \/ Kind(s) = "tool"
  \/ Kind(s) = "gated" /\ Answered(s, {"approval"}) /\ Decision(s) = "approved"

Call(s) ==
  /\ Is(s, "begun") /\ MayCall(s)
  /\ ran' = [ran EXCEPT ![s] = @ + 1]
  /\ \/ GoesTo(s, "called", "completed")
     \/ s \in plan.fragile /\ GoesTo(s, "called", "failed")
  /\ UNCHANGED <<outside, log, view, late>>

Return(s) ==
  /\ Is(s, "called")
  /\ \/ frame[s].status = "completed" /\ Completes(s, "completed") /\ UNCHANGED late
     \/ frame[s].status = "failed" /\ Fails(s, "tool")
  /\ UNCHANGED <<outside, ran>>

\* set_state, and the waits that have their answer.
Finish(s) ==
  /\ Is(s, "begun")
  /\ \/ Kind(s) = "set_state"
     \/ Kind(s) = "sleep" /\ Answered(s, AnyReason)
     \/ Kind(s) = "human" /\ Answered(s, {"question"})
  /\ Completes(s, "completed")
  /\ UNCHANGED <<outside, late, ran>>

-----------------------------------------------------------------------------
(* Composites, and the walk as a whole *)

Stopping(p) == SomeOver(p) /\ ~Passes(p, LastOver(p))

OutcomeOf(p, failed) == IF failed THEN "failed" ELSE "completed"

Blocked(p, c) == Over(c, {"failed"}) /\ c \notin plan.tolerated

\* A loop that ran out of iterations has failed.
Exhausted(p) == Kind(p) = "loop" /\ NextOf(p) = {} /\ ~Stopping(p)

CloseSerial(p) ==
  /\ Is(p, "begun") /\ Kind(p) \in Serial /\ AtRest(p)
  /\ NextOf(p) = {} \/ Stopping(p)
  /\ LET c == LastOver(p) IN
     \/ /\ Over(c, {"suspended", "aborted"})
        /\ view' = view /\ Ends(p, frame[c].status) /\ UNCHANGED <<log, late>>
     \/ /\ Over(c, {"raised"}) /\ p = Root
        /\ view' = view /\ Ends(p, "raised") /\ UNCHANGED <<log, late>>
     \/ /\ Over(c, {"raised"}) /\ p # Root
        /\ Fails(p, "corrupt")
     \/ /\ Over(c, {"completed", "skipped", "failed"}) /\ p = Root
        /\ view' = view /\ Ends(p, OutcomeOf(p, Blocked(p, c))) /\ UNCHANGED <<log, late>>
     \/ /\ Over(c, {"completed", "skipped", "failed"}) /\ p # Root
        /\ Completes(p, OutcomeOf(p, Blocked(p, c) \/ Exhausted(p))) /\ UNCHANGED late
  /\ UNCHANGED <<outside, ran>>

\* A sibling that is cancelled in a tool call records that first.
Cut(s) ==
  /\ Is(s, "using")
  /\ \E p \in Nodes : s \in Under(p) /\ frame[p].phase = "begun" /\ Kind(p) \in Concurrent /\ StopSet(p)
  /\ Aborts(s) /\ AgentGoes(s, "cut")
  /\ UNCHANGED <<outside, late, ran>>

\* The end of _concurrently: once all have returned, or one has stopped the
\* rest, which are then cancelled wherever they are.
CloseConcurrent(p) ==
  LET returned(status) == \E c \in Chosen(p) : Over(c, {status})
      unfinished == {c \in Chosen(p) : frame[c].phase # "ended"} \ plan.tolerated
  IN
  /\ Is(p, "begun") /\ Kind(p) \in Concurrent
  /\ \A c \in PassedOver(p) : frame[c].phase = "ended"
  /\ StopSet(p) \/ \A c \in Chosen(p) : frame[c].phase = "ended"
  /\ Under(p) \cap Users = {}
  /\ \/ returned("raised") /\ Fails(p, "corrupt")
     \/ /\ ~returned("raised") /\ returned("aborted")
        /\ view' = view /\ Ends(p, "aborted") /\ UNCHANGED <<log, late>>
     \/ /\ ~returned("raised") /\ ~returned("aborted") /\ returned("suspended")
        /\ view' = view /\ Ends(p, "suspended") /\ UNCHANGED <<log, late>>
     \/ /\ \A status \in {"raised", "aborted", "suspended"} : ~returned(status)
        /\ Completes(p, OutcomeOf(p, unfinished # {} \/ \E c \in Chosen(p) : Blocked(p, c)))
        /\ UNCHANGED late
  /\ UNCHANGED <<outside, ran>>

\* Mutation: whoever waits, waits to be answered.
VerdictAny(v) ==
  CASE v.settled -> "settled"
    [] ~v.settled /\ v.suspended -> "suspended"
    [] OTHER -> "runnable"

\* The state the Worker releases the Run in.
Verdict(v) ==
  CASE v.settled -> "settled"
    [] ~v.settled /\ v.suspended /\ v.suspend_reason # "timer" -> "suspended"
    [] OTHER -> "runnable"

\* _run_workflow settles, unless the Run waits.  A CorruptLog that reached
\* the Worker makes it give the Run up.
EndWalk ==
  /\ attempt = "walking" /\ frame[Root].phase = "ended"
  /\ LET status == frame[Root].status IN
     \/ /\ status = "raised"
        /\ header' = Released(header, worker, "settled")
        /\ attempt' = "off" /\ UNCHANGED <<log, view>>
     \/ /\ status # "raised" /\ (view.settled \/ view.suspended \/ status = "suspended")
        /\ attempt' = "leaving" /\ UNCHANGED <<header, log, view>>
     \/ /\ status \in {"completed", "failed", "aborted"} /\ ~view.settled /\ ~view.suspended
        /\ Write([type |-> "run_settled", state |-> status])
        /\ attempt' = "leaving" /\ UNCHANGED header
  /\ frame' = NoFrames
  /\ UNCHANGED <<plan, late, alarm, ran, mishaps>>

Leave ==
  /\ attempt = "leaving"
  /\ header' = Released(header, worker, Verdict(Caught))
  /\ attempt' = "off"
  /\ UNCHANGED <<plan, log, view, frame, late, alarm, ran, mishaps>>

-----------------------------------------------------------------------------
(* Before the walk *)

\* Claiming, to attempt_started; or giving up after too many claims.
Claim ==
  /\ attempt = "off" /\ Claimable(header)
  /\ \/ /\ Caught.settled
        /\ header' = Claimed(header, worker) /\ attempt' = "leaving"
        /\ UNCHANGED <<log, view>>
     \/ /\ ~Caught.settled /\ header.attempt_count < MaxAttempts
        /\ header' = Claimed(header, worker) /\ attempt' = "waking"
        /\ Write([type |-> "attempt_started", number |-> Caught.attempt_count + 1])
     \/ /\ ~Caught.settled /\ header.attempt_count >= MaxAttempts
        /\ header' = [Claimed(header, worker) EXCEPT !.attempt_count = MaxAttempts]
        /\ attempt' = "leaving"
        /\ Write([type |-> "run_settled", state |-> "exhausted"])
  /\ UNCHANGED <<plan, frame, late, alarm, ran, mishaps>>

\* _wake_timer.
Wakes == view.suspended /\ view.suspend_reason = "timer" /\ view.suspended_step \in late

\* The Run has been answered since it was read: the wake is refused, and the
\* Worker gives the Run up.
GivesUp(rec) ==
  /\ ~Allowed(rec)
  /\ attempt' = "off" /\ header' = Released(header, worker, "settled")
  /\ UNCHANGED <<log, view>>

WakeTimer ==
  LET rec == [type |-> "resumed", approved |-> None] IN
  /\ attempt = "waking"
  /\ \/ ~Wakes /\ attempt' = "seeding" /\ UNCHANGED <<log, view, header>>
     \/ Wakes /\ Allowed(rec) /\ Write(rec) /\ attempt' = "seeding" /\ UNCHANGED header
     \/ Wakes /\ GivesUp(rec)
  /\ UNCHANGED <<plan, frame, late, alarm, ran, mishaps>>

\* seed_replay: the copies that are not in the log yet, each in two records.
Copied == {plan.copies[i].step : i \in DOMAIN plan.copies}
ToCopy == {i \in DOMAIN plan.copies : view.steps[plan.copies[i].step].attempt_number = 0}
Copying(s) == frame[s].phase = "closing"

Seed(s) ==
  /\ attempt = "seeding"
  /\ \/ /\ ~\E t \in Steps : Copying(t)
        /\ \E i \in ToCopy : /\ s = plan.copies[i].step /\ \A k \in ToCopy : i <= k
                            /\ frame' = [frame EXCEPT ![s] =
                                            Frame("closing", plan.copies[i].outcome, {})]
        /\ Write(StartRecord(s))
     \/ /\ Copying(s)
        /\ Write(EndRecord(s, frame[s].status, FALSE))
        /\ frame' = [frame EXCEPT ![s] = Idle]
  /\ UNCHANGED <<outside, late, ran>>

StartWalk ==
  /\ attempt = "seeding" /\ ToCopy = {} /\ ~\E t \in Steps : Copying(t)
  /\ attempt' = "walking"
  /\ frame' = [NoFrames EXCEPT ![Root] = Frame("begun", "none", view.workflow_state)]
  /\ UNCHANGED <<plan, log, header, view, late, alarm, ran, mishaps>>

-----------------------------------------------------------------------------
(* Everybody else *)

\* Mutation: the walk is not forgotten.
MishapRemembered(fault, kept) ==
  /\ fault \in plan.faults /\ mishaps < MaxMishaps
  /\ mishaps' = mishaps + 1
  /\ UNCHANGED <<plan, log, view, frame, late, alarm, ran>>

Mishap(fault, kept) ==
  /\ fault \in plan.faults /\ mishaps < MaxMishaps
  /\ mishaps' = mishaps + 1
  /\ frame' = [s \in Nodes |-> IF s \in kept THEN frame[s] ELSE Idle]
  /\ UNCHANGED <<plan, log, view, late, alarm, ran>>

\* The Worker dies; its lease runs out.
Crash ==
  /\ attempt # "off" /\ Mishap("crash", {})
  /\ attempt' = "off" /\ header' = Aged(header, TRUE, FALSE)

\* The signal of stop() cancels the walk, and the Run is handed back once the
\* calls that run in it are recorded as aborted.
Stop ==
  /\ attempt \in {"waking", "seeding", "walking"} /\ Mishap("stop", Users)
  /\ attempt' = IF Users = {} THEN "leaving" ELSE "unwinding"
  /\ UNCHANGED header

Unwind(s) ==
  /\ attempt = "unwinding" /\ s \in Users
  /\ Aborts(s)
  /\ frame' = [frame EXCEPT ![s] = Idle]
  /\ attempt' = IF Users = {s} THEN "leaving" ELSE "unwinding"
  /\ UNCHANGED <<plan, header, late, alarm, ran, mishaps>>

\* resume: by whoever was asked, or by somebody tired of a timer.
Answer ==
  /\ Caught.suspended /\ ~Caught.settled
  /\ \E approved \in IF Caught.suspend_reason = "approval" THEN {"approved", "denied"} ELSE {None} :
       log' = Append(log, [type |-> "resumed", approved |-> approved])
  /\ header' = Woken(header)
  /\ UNCHANGED <<plan, attempt, view, frame, late, alarm, ran, mishaps>>

Interrupt ==
  /\ "interrupt" \in plan.faults /\ ~Caught.settled /\ Caught.abort_seq = 0
  /\ log' = Append(log, [type |-> "abort_requested"])
  /\ UNCHANGED <<plan, attempt, header, view, frame, late, alarm, ran, mishaps>>

\* The instant a waiting or failed step recorded passes.
TimePasses(s) ==
  /\ s \notin late
  /\ \/ Caught.suspended /\ Caught.suspend_reason = "timer" /\ Caught.suspended_step = s
     \/ Caught.steps[s].completed /\ Caught.steps[s].will_retry
     \/ alarm = s
  /\ late' = late \cup {s}
  /\ header' = Aged(header, FALSE, alarm = s)
  /\ UNCHANGED <<plan, log, attempt, view, frame, alarm, ran, mishaps>>

-----------------------------------------------------------------------------

Init ==
  /\ plan \in Plans
  /\ log = <<[type |-> "run_admitted"]>>
  /\ view = Reduced(log).view
  /\ header = AdmittedHeader("runnable")
  /\ attempt = "off"
  /\ frame = NoFrames
  /\ late = {} /\ alarm = None
  /\ ran = [s \in Steps |-> 0]
  /\ mishaps = 0

StepMoves(s) ==
  \/ Recall(s) \/ Continue(s) \/ Attempt(s) \/ PassOver(s) \/ Close(s)
  \/ Breakpoint(s) \/ BackOff(s) \/ Park(s) \/ Ask(s) \/ Sleep(s)
  \/ Denied(s) \/ Call(s) \/ Return(s) \/ Finish(s) \/ Cut(s)

Engine ==
  \/ \E s \in Steps : StepMoves(s) \/ AgentMoves(s) \/ Seed(s) \/ Unwind(s)
  \/ \E p \in Nodes : StopAtAbort(p) \/ CloseSerial(p) \/ CloseConcurrent(p)
  \/ Claim \/ WakeTimer \/ StartWalk \/ EndWalk \/ Leave
  \/ \E s \in Steps : TimePasses(s)

Next == Engine \/ Crash \/ Stop \/ Answer \/ Interrupt

Spec == Init /\ [][Next]_vars

\* Workers poll, clocks advance and coroutines go on; nobody has to answer.
FairSpec == Spec /\ WF_vars(Engine)

-----------------------------------------------------------------------------
(* Properties *)

AttemptPhases == {"off", "waking", "seeding", "walking", "unwinding", "leaving"}

TypeOK ==
  /\ plan \in Plans
  /\ header \in Headers
  /\ attempt \in AttemptPhases
  /\ view.head_seq \in 1..Len(log)
  /\ \A s \in Nodes :
       /\ frame[s].phase \in FramePhases /\ frame[s].status \in Statuses
       /\ attempt \notin {"walking", "seeding", "unwinding"} => frame[s] = Idle
  /\ late \subseteq Steps /\ alarm \in Steps \cup {None}
  /\ ran \in [Steps -> Nat] /\ mishaps \in 0..MaxMishaps

\* Seen from its results alone, the walk settles each step once, in the order
\* of the plan, and settles a composite as its children ended: whatever is
\* cancelled, suspended, retried or lost with a Worker in between
\* (_step, _sequence, _loop, _branch, _concurrently).
ResultsIn(v) == [s \in Steps |-> IF StepSettled(v, s) THEN v.steps[s].outcome ELSE None]

Tree == INSTANCE StepTree WITH done <- ResultsIn(Caught)

ImplementsTree == Tree!Spec

At(type) == {i \in DOMAIN log : log[i].type = type}
Of(type, s) == {i \in At(type) : log[i].step = s}

\* The suspension that was open at place i of the log.
AskedAt(i) == CHOOSE k \in At("suspended") :
  k < i /\ \A m \in At("suspended") : m < i => m <= k

\* A person's answer completes the step they were asked by, for the reason
\* they were asked, and the attempt of it that asked: not another branch, not
\* the breakpoint before the step, not an attempt before a failure
\* (_resume_after, Resumed in reduce).
AnswersReachTheAsker ==
  \A s \in Steps : Kind(s) \in {"gated", "human"} =>
    \A e \in Of("step_completed", s) : log[e].outcome = "completed" /\ s \notin Copied =>
      \E r \in At("resumed") :
        /\ r < e /\ log[AskedAt(r)].step = s /\ log[AskedAt(r)].reason = AskReason(s)
        /\ \A b \in Of("step_started", s) : b < e => b < r
        /\ Kind(s) = "gated" => log[r].approved = "approved"

\* The records that name the step they are written for.
Marks == {"step_started", "step_completed", "suspended", "turn_started", "tool_call_started"}

\* Nothing is written of a step below a composite that has ended: no sibling
\* outlives the stop of the others as a writer nobody waits for
\* (_concurrently).
NoStragglers ==
  \A p \in Steps, c \in Steps : c \in ChildrenOf(p) =>
    \A b \in UNION {Of(type, c) : type \in Marks} :
      \E o \in Of("step_started", p) :
        o < b /\ \A e \in Of("step_completed", p) : e < o \/ b < e

\* A tool is called once in each recorded attempt of its step, so the log
\* accounts for every call a crash may have cut off (_attempt, _continue), also
\* where the tool had waited for an approval.
EachAttemptCallsOnce ==
  \A s \in Steps : Kind(s) \in {"tool", "gated"} => ran[s] <= Cardinality(Of("step_started", s))

\* The agent of a step has turns and calls only while the step runs, and no
\* turn starts over a call without a result: not after a crash, a timeout, a
\* shutdown or a cancelled sibling (AgentLoop._settle_dangling_calls,
\* AgentLoop._execute_and_record).
TurnsAreInPlace ==
  /\ \A s \in Steps : Kind(s) = "agent" =>
       \A t \in Of("turn_started", s) \cup Of("tool_call_started", s) :
         \E b \in Of("step_started", s) :
           b < t /\ \A e \in Of("step_completed", s) : e < b \/ t < e
  /\ log[Len(log)].type = "turn_started" => Caught.open_tool_calls = {}

\* The log accounts for everything the walk does: no writer outlives the
\* step or the container it runs in, and no tool call goes without its
\* attempt's record.
StepsAreSound == TypeOK /\ NoStragglers /\ EachAttemptCallsOnce /\ TurnsAreInPlace

\* The last start of step s before place e of the log.
StartOf(s, e) == CHOOSE b \in Of("step_started", s) :
  b < e /\ \A a \in Of("step_started", s) : a < e => a <= b

\* "Runs an agent to completion": the step of an agent completes after an
\* answer of its model that asks for nothing more (_nested_agent).  Refuted by an
\* agent that waits for an approval.
AgentsRunToCompletion ==
  \A s \in Steps : Kind(s) = "agent" =>
    \A e \in Of("step_completed", s) : log[e].outcome = "completed" =>
      \E t \in Of("turn_started", s), m \in At("model_call_finished") :
        /\ StartOf(s, e) < t /\ t < m /\ m < e
        /\ log[m].turn = log[t].turn /\ log[m].calls = {}

\* An agent fails on its own terms: its step does not fail before the agent
\* had a turn (ParallelStep: "every branch at once"; "an AgentStep keeps its
\* agent's own failure kind").
AgentsFailOnTheirOwn ==
  \A s \in Steps : Kind(s) = "agent" =>
    \A e \in Of("step_completed", s) : log[e].outcome = "failed" =>
      \E t \in Of("turn_started", s) : StartOf(s, e) < t /\ t < e

\* A step the source Run of a replay settled is not executed again ("the next
\* Attempt copies only what is missing", seed_replay).  Refuted by a crash
\* between the two records of a copy: the step then counts as copied, and as
\* one to continue.
CopiedStepsAreNotRun == \A s \in Copied : ran[s] = 0

\* The Run ends or waits for a person, or its Worker has given it up as
\* corrupt: no wait, retry, cancellation or crash leaves it running in place.
ComesToRest ==
  <>[](attempt = "off" /\ \/ header.state = "settled"
                          \/ header.state = "suspended" /\ Caught.suspend_reason # "timer")
=============================================================================
