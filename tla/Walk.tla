--------------------------------- MODULE Walk ---------------------------------
(***************************************************************************)
(* What a workflow's Attempt walks (runtime/workflow.py): the tree of      *)
(* steps, the log it writes through its Journal, and the frames its        *)
(* coroutines stand in.                                                    *)
(*                                                                         *)
(* The walk is kept in memory only: frame[s] is where the coroutine of     *)
(* step s stands.  What survives is the log, which the engine reads        *)
(* through the state its Journal has folded.  Inputs, outputs and schemas  *)
(* are left out, but for the names the set_state steps bind and the        *)
(* conditions on them.  There is one Attempt at a time: Attempts shows     *)
(* what leases do.                                                         *)
(***************************************************************************)
EXTENDS Header, RunLog, FiniteSets

CONSTANTS
  Root,          \* the workflow itself, a sequence of steps
  Plans,         \* bound: the workflows of this instance
  MaxAttempts,   \* claims after which a Run is failed instead of executed
  MaxMishaps     \* bound: crashes and shutdowns

ASSUME WorkflowAssumption ==
  Root \notin Steps /\ MaxAttempts \in Nat /\ MaxMishaps \in Nat

VARIABLES
  plan,      \* the pinned specification
  log,       \* the record log in the Store
  header,    \* the run header in the Store
  attempt,   \* what the one Attempt is doing, "off" for none
  view,      \* Journal.state
  frame,     \* frame[s]: where the walk is in step s
  late,      \* the steps whose recorded instant (wake_at, retry_at) has passed
  alarm,     \* the step whose instant the Run is parked for
  ran,       \* ran[s]: how often the tool of step s was called
  mishaps

outside == <<plan, header, attempt, alarm, mishaps>>
vars == <<plan, log, header, attempt, view, frame, late, alarm, ran, mishaps>>

worker == CHOOSE w \in Workers : TRUE
Nodes == Steps \cup {Root}

Serial == {"root", "nested", "loop"}
Concurrent == {"parallel", "foreach", "branch"}
Waiting == {"gated", "human", "sleep"}
Kinds == Serial \cup Concurrent \cup Waiting \cup {"tool", "agent", "set_state", "absent"}

-----------------------------------------------------------------------------
(* The plan: plan.node[s] says what step s is, the sets beside it which of  *)
(* its options are on.  An item or an iteration is a step of its own.       *)
(* plan.faults is a bound: which of "crash", "stop", "interrupt" happen.    *)

Node(s) == plan.node[s]
Kind(s) == Node(s).kind
Body(s) == Node(s).body
ChildrenOf(s) == InSeq(Body(s))
Parent(s) == CHOOSE p \in Nodes : s \in ChildrenOf(p)
Under(p) ==
  LET under[q \in Nodes] == ChildrenOf(q) \cup UNION {under[c] : c \in ChildrenOf(q)}
  IN under[p]

Always == [name |-> None, bound |-> TRUE]

\* evaluate_condition, on the workflow state.
ConditionHolds(state, condition) ==
  condition.name = None \/ (condition.name \in state) = condition.bound

-----------------------------------------------------------------------------
(* The Journal.  Only a consumer writes besides the Attempt, so everything  *)
(* it has not folded is external.                                           *)

Caught ==
  IF Len(log) = view.head_seq THEN view
  ELSE ReducedFrom(view, SubSeq(log, view.head_seq + 1, Len(log))).view

Allowed(rec) == Accepts(Started(view), rec) /\ Accepts(Started(Caught), rec)

Write(rec) ==
  /\ log' = Append(log, rec)
  /\ view' = Folded(Started(Caught), rec).view

StepSettled(v, s) == v.steps[s].completed /\ ~v.steps[s].will_retry

StartRecord(s) ==
  [type |-> "step_started", step |-> s, attempt_number |-> view.steps[s].attempt_number + 1]

EndRecord(s, outcome, again) ==
  [type |-> "step_completed", step |-> s, outcome |-> outcome, will_retry |-> again,
   sets |-> Node(s).sets]

WaitRecord(s, reason) ==
  [type |-> "suspended", reason |-> reason, step |-> s, call |-> None]

\* Mutation: an answer once given stays good for every attempt of the step.
AnswersEver(s, seq, reasons) ==
  {i \in DOMAIN view.step_resumes[s] : view.step_resumes[s][i].reason \in reasons}

\* _resume_after: the answers to s after a place in the log.
AnswersAfter(s, seq, reasons) ==
  {i \in DOMAIN view.step_resumes[s] :
     view.step_resumes[s][i].seq > seq /\ view.step_resumes[s][i].reason \in reasons}

AnyReason == {"approval", "question", "timer", "breakpoint"}

Answered(s, reasons) == AnswersAfter(s, view.steps[s].started_seq, reasons) # {}

Decision(s) ==
  LET given == AnswersAfter(s, view.steps[s].started_seq, {"approval"})
  IN view.step_resumes[s][CHOOSE i \in given : \A k \in given : i <= k].approved

-----------------------------------------------------------------------------
(* Frames *)

\* "begun": driven.  "called": its tool has run.  "closing": started, and
\* about to be completed without being driven.  "backing": failed, to wait
\* for its retry.  "parking": suspended, not parked yet.  "again": failed, to
\* be tried at once.  "ended": its coroutine has returned a StepOutcome, or
\* raised.  An agent's own phases are explained in AgentSteps.
AgentPhases ==
  {"looping", "resolving", "opened", "thinking", "calling", "gating", "using", "failing",
   "returning", "expired", "cut"}
FramePhases ==
  {"idle", "begun", "called", "closing", "backing", "parking", "again", "ended"} \cup AgentPhases
Statuses ==
  {"none", "completed", "failed", "skipped", "suspended", "aborted", "raised"}

\* "state": the workflow state in the scope the step passes to its children.
\* "turn", "calls": the locals of an agent's loop.
Frame(phase, status, state) ==
  [phase |-> phase, status |-> status, state |-> state, turn |-> 0, calls |-> {}]
Idle == Frame("idle", "none", {})
NoFrames == [s \in Nodes |-> Idle]

Is(s, phase) == attempt = "walking" /\ frame[s].phase = phase
Over(s, statuses) == frame[s].phase = "ended" /\ frame[s].status \in statuses

GoesTo(s, phase, status) ==
  frame' = [frame EXCEPT ![s] = Frame(phase, status, frame[Parent(s)].state)]

\* Mutation: what runs under the step goes on.
EndsAlone(s, status) ==
  frame' = [t \in Nodes |->
    IF t = s THEN Frame("ended", status, {})
    ELSE IF s \in ChildrenOf(t) /\ Kind(t) \in Serial
         THEN Frame(frame[t].phase, frame[t].status, view'.workflow_state)
    ELSE frame[t]]

\* The coroutine returns.  What runs under it is cancelled, and a sequence
\* reads the workflow state again.
Ends(s, status) ==
  LET below == Under(s) IN
  frame' = [t \in Nodes |->
    IF t = s THEN Frame("ended", status, {})
    ELSE IF t \in below THEN Idle
    ELSE IF s \in ChildrenOf(t) /\ Kind(t) \in Serial
         THEN Frame(frame[t].phase, frame[t].status, view'.workflow_state)
    ELSE frame[t]]

\* A started step is driven: from its start, or after its answer.
Drives(s) ==
  LET below == Under(s) IN
  frame' = [t \in Nodes |->
    IF t = s THEN Frame("begun", "none",
                        IF Kind(s) = "nested" THEN view'.workflow_state ELSE frame[Parent(s)].state)
    ELSE IF t \in below THEN Idle
    ELSE frame[t]]

Completes(s, outcome) ==
  /\ Allowed(EndRecord(s, outcome, FALSE))
  /\ Write(EndRecord(s, outcome, FALSE))
  /\ Ends(s, outcome)

\* _failed.  A refused record is a CorruptLog, a failure like any other.
Fails(s, kind) ==
  IF view.steps[s].attempt_number < Node(s).tries /\ kind # "denied"
  THEN /\ Write(EndRecord(s, "failed", TRUE))
       /\ GoesTo(s, IF s \in plan.backoff THEN "backing" ELSE "again", "none")
       /\ late' = IF s \in plan.backoff THEN late \ {s} ELSE late \cup {s}
  ELSE Completes(s, "failed") /\ UNCHANGED late
===============================================================================
