------------------------------ MODULE AgentSteps ------------------------------
(***************************************************************************)
(* A workflow step that is an agent: AgentStep in WorkflowEngine._execute, *)
(* Runtime._nested_agent and the AgentLoop it runs (runtime/agent.py), on  *)
(* the Journal of the workflow, its log and its one turn.                  *)
(*                                                                         *)
(* A turn asks for one tool call or for none.  Compaction, queues and      *)
(* children are left out (Context, Attempts, ChildRuns), and no call is    *)
(* safe to retry.                                                          *)
(***************************************************************************)
EXTENDS Walk

\* "looping": between two turns, or with calls of a dead Attempt to close.
\* "resolving": a turn number is taken.  "opened": turn_started is written.
\* "thinking": the model is asked.  "calling": it wants a tool.  "gating":
\* tool_call_started is written.  "using": the tool runs.  "returning": the
\* loop has ended without a failure; "failing": with the model's.  "cut":
\* cancelled with its siblings.  "expired": cancelled by its own timeout.
AgentGoes(s, phase) == frame' = [frame EXCEPT ![s].phase = phase]

In(s, phase) == Is(s, phase) /\ Kind(s) = "agent"
Users == {s \in Steps : frame[s].phase = "using"}

CallOf(s) == CHOOSE c \in frame[s].calls : TRUE

CallFinished(call, outcome) ==
  [type |-> "tool_call_finished", call |-> call, outcome |-> outcome, answer |-> None,
   elided |-> FALSE]

\* A record the fold refuses is a CorruptLog, which fails the step.
WriteOrFail(s, rec, next) ==
  IF Allowed(rec) THEN Write(rec) /\ next /\ UNCHANGED late ELSE Fails(s, "corrupt")

\* Cancelled in a tool call: the loop records that before it unwinds.
Aborts(s) == Write(CallFinished(CallOf(s), "aborted"))

-----------------------------------------------------------------------------
(* AgentLoop.run *)

\* Mutation: what a dead Attempt left open is left open.
EnterLoopAtOnce(s) ==
  /\ In(s, "begun")
  /\ AgentGoes(s, "looping")
  /\ UNCHANGED <<outside, log, view, late, ran>>

EnterLoop(s) ==
  /\ In(s, "begun")
  /\ frame' = [frame EXCEPT ![s] = [@ EXCEPT !.phase = "looping", !.calls = view.open_tool_calls]]
  /\ UNCHANGED <<outside, log, view, late, ran>>

\* _settle_dangling_calls, for the open calls of the whole log.
SettleCall(s) ==
  /\ In(s, "looping")
  /\ \E call \in frame[s].calls :
       LET decision == view.approval_decisions[call]
           outcome == CASE decision = "approved" -> "ok"
                        [] decision = "denied" -> "error"
                        [] OTHER -> "unknown"
       IN
       /\ ran' = IF decision = "approved" THEN [ran EXCEPT ![s] = @ + 1] ELSE ran
       /\ WriteOrFail(s, CallFinished(call, outcome),
                      frame' = [frame EXCEPT ![s].calls = @ \ {call}])
  /\ UNCHANGED outside

AtBoundary(s) == In(s, "looping") /\ frame[s].calls = {}
Halted == view.abort_seq > 0 \/ view.suspended

\* _check_stop_conditions.  An outcome without a failure is a result for
\* _nested_agent, whatever ended the loop.
StopLoop(s) ==
  /\ AtBoundary(s)
  /\ \/ Halted /\ AgentGoes(s, "returning") /\ UNCHANGED <<log, view, late>>
     \/ ~Halted /\ view.turn >= Node(s).limit /\ Fails(s, "budget_exhausted")
  /\ UNCHANGED <<outside, ran>>

\* _turn, up to the resolution of its tools.
BeginTurn(s) ==
  /\ AtBoundary(s) /\ ~Halted /\ view.turn < Node(s).limit
  /\ view' = Caught
  /\ frame' = [frame EXCEPT ![s] = [@ EXCEPT !.phase = "resolving", !.turn = Caught.turn + 1]]
  /\ UNCHANGED <<outside, log, late, ran>>

OpenTurn(s) ==
  /\ In(s, "resolving")
  /\ WriteOrFail(s, [type |-> "turn_started", turn |-> frame[s].turn, step |-> s],
                 AgentGoes(s, "opened"))
  /\ UNCHANGED <<outside, ran>>

AskModel(s) ==
  /\ In(s, "opened")
  /\ WriteOrFail(s, [type |-> "model_call_started", turn |-> frame[s].turn],
                 AgentGoes(s, "thinking"))
  /\ UNCHANGED <<outside, ran>>

\* _fresh_call_id
Fresh(call) == call \notin StartedCalls(Caught) \cup UNION {frame[t].calls : t \in Steps}

ModelAnswers(s, calls) ==
  WriteOrFail(s, [type |-> "model_call_finished", turn |-> frame[s].turn, calls |-> calls,
                  currency |-> None],
    frame' = [frame EXCEPT ![s] =
      [@ EXCEPT !.phase = IF calls = {} THEN "returning" ELSE "calling", !.calls = calls]])

Hear(s) ==
  /\ In(s, "thinking")
  /\ \/ ModelAnswers(s, {})
     \/ \E call \in Calls : Fresh(call) /\ ModelAnswers(s, {call})
     \/ s \in plan.fragile
        /\ WriteOrFail(s, [type |-> "model_call_failed", turn |-> frame[s].turn],
                       AgentGoes(s, "failing"))
  /\ UNCHANGED <<outside, ran>>

-----------------------------------------------------------------------------
(* _run_tool_calls, for a batch of one *)

StartCall(s) ==
  /\ In(s, "calling")
  /\ WriteOrFail(s, [type |-> "tool_call_started", step |-> s, call |-> CallOf(s),
                     turn |-> view.turn, handle |-> None],
                 AgentGoes(s, "gating"))
  /\ UNCHANGED <<outside, ran>>

BackInLoop(s) == frame' = [frame EXCEPT ![s] = [@ EXCEPT !.phase = "looping", !.calls = {}]]

\* _gate: a suspension of the agent names its call, not its step.
AskApproval(s) ==
  /\ In(s, "gating") /\ s \in plan.asking
  /\ WriteOrFail(s, [type |-> "suspended", reason |-> "approval", step |-> None, call |-> CallOf(s)],
                 BackInLoop(s))
  /\ UNCHANGED <<outside, ran>>

UseTool(s) ==
  /\ In(s, "gating") /\ s \notin plan.asking
  /\ ran' = [ran EXCEPT ![s] = @ + 1]
  /\ AgentGoes(s, "using")
  /\ UNCHANGED <<outside, log, view, late>>

FinishCall(s) ==
  /\ In(s, "using")
  /\ WriteOrFail(s, CallFinished(CallOf(s), "ok"), BackInLoop(s))
  /\ UNCHANGED <<outside, ran>>

-----------------------------------------------------------------------------
(* How the step ends *)

\* _nested_agent has an output to return, or None.
AgentReturns(s) ==
  /\ In(s, "returning")
  /\ Completes(s, "completed")
  /\ UNCHANGED <<outside, late, ran>>

AgentFails(s) ==
  /\ \/ In(s, "failing") /\ Fails(s, "model")
     \/ In(s, "expired") /\ Fails(s, "step_timeout")
  /\ UNCHANGED <<outside, ran>>

\* _timed: the loop is cancelled wherever it is.  A turn it had open stays
\* open.
TimeOut(s) ==
  /\ attempt = "walking" /\ s \in plan.timed
  /\ frame[s].phase \in AgentPhases \ {"failing", "returning", "expired", "cut"}
  /\ IF s \in Users
     THEN Aborts(s) /\ AgentGoes(s, "expired") /\ UNCHANGED late
     ELSE Fails(s, "step_timeout")
  /\ UNCHANGED <<outside, ran>>

AgentMoves(s) ==
  \/ EnterLoop(s) \/ SettleCall(s) \/ StopLoop(s) \/ BeginTurn(s) \/ OpenTurn(s)
  \/ AskModel(s) \/ Hear(s) \/ StartCall(s) \/ AskApproval(s) \/ UseTool(s)
  \/ FinishCall(s) \/ AgentReturns(s) \/ AgentFails(s) \/ TimeOut(s)
===============================================================================
