------------------------------- MODULE Programs -------------------------------
(***************************************************************************)
(* The programs a model runs with run_code: the process a program runs in  *)
(* (sandbox/_bootstrap.py), its conversation with the host                 *)
(* (sandbox/protocol.py, sandbox/_local.py), and the calls it makes, which *)
(* go back through the agent loop (tools/bindings.py, runtime/agent.py:    *)
(* call_as_binding) and into the log of the Run.                           *)
(*                                                                         *)
(* The coroutines of one program call tools side by side; the host answers *)
(* one call at a time.  A turn of the model asks for one program or for    *)
(* none.  The model itself is Context's; leases and the wake of a parked   *)
(* Run are those of Attempts.  Byte budgets, handles and the repetition    *)
(* guard, which refuse a call as the call budgets do, are left out.        *)
(***************************************************************************)
EXTENDS RunLog, FiniteSets

CONSTANTS
  CodeCalls,       \* the calls that are run_code, one program each
  Tasks,           \* the coroutines of a program that may call tools
  GateOf,          \* GateOf[tool]: what Policy and selectors say of a tool
  MaxCalls,        \* BindingBudget.max_calls: calls one program may make
  MaxCallsPerRun,  \* BindingBudget.max_calls_per_run
  Scenes           \* bounds, one choice of them for each behaviour:
                   \*   tasks     the coroutines that call,
                   \*   frames    requests one program sends,
                   \*   mishaps   crashes, cancelled Attempts and cancelled appends

ASSUME ProgramsAssumption ==
  /\ CodeCalls \subseteq Calls /\ None \notin Calls \cup {"approved"}
  /\ GateOf \in [Tools -> {"allow", "deny", "ask"}]
  /\ MaxCalls \in Nat /\ MaxCallsPerRun \in Nat
  /\ Scenes \subseteq [tasks : SUBSET Tasks, frames : Nat, mishaps : Nat]

VARIABLES
  scene,     \* the bounds of this behaviour
  log,       \* the record log in the Store
  view,      \* Journal.state of the Attempt
  attempt,   \* where the loop is
  dangling,  \* the calls of a dead Attempt it has still to close
  program,   \* the run_code call under way
  host,      \* where run_protocol is
  spent,     \* _ExecutionSpend.calls
  child,     \* the process of the program
  toHost, toChild,   \* the two directions of the channel
  ran,       \* ran[c]: how often the tool of call c was run
  mishaps

loop == <<attempt, dangling, program>>
wire == <<toHost, toChild>>
bounds == <<scene, mishaps>>
vars == <<log, view, loop, host, spent, child, wire, ran, bounds>>

Requests == Calls \ CodeCalls
Phases ==
  {"off", "parked", "recovering", "looping", "running", "returning", "leaving", "settled"}

-----------------------------------------------------------------------------
(* The Journal *)

Caught ==
  IF Len(log) = view.head_seq THEN view
  ELSE ReducedFrom(view, SubSeq(log, view.head_seq + 1, Len(log))).view

\* A record that is not external, written where the Journal did not see it:
\* _absorb_external_records refuses it with a SeqConflict.
Overtaken == \E i \in view.head_seq + 1..Len(log) : log[i].type \notin External

Allowed(rec) ==
  ~Overtaken /\ Accepts(Started(view), rec) /\ Accepts(Started(Caught), rec)

Write(records) ==
  /\ log' = log \o records
  /\ view' = ReducedFrom(Caught, records).view

CallStarted(call, parent, turn) ==
  [type |-> "tool_call_started", call |-> call, parent |-> parent, turn |-> turn,
   handle |-> None]
CallFinished(call, outcome) ==
  [type |-> "tool_call_finished", call |-> call, outcome |-> outcome, answer |-> None,
   elided |-> FALSE]
AskPerson(call) == [type |-> "suspended", reason |-> "approval", step |-> None, call |-> call]
Resumed(approved) == [type |-> "resumed", approved |-> approved]

\* The calls programs have started, in a part of the log.
ProgramCalls(records) ==
  {records[i].call : i \in {j \in DOMAIN records :
     records[j].type = "tool_call_started" /\ records[j].parent \in CodeCalls}}

\* Mutation: the allowance is counted by the Attempt, in memory.
CallsOfTheAttempt ==
  LET begins == {i \in 1..view.head_seq : log[i].type = "attempt_started"} IN
  Cardinality(ProgramCalls(SubSeq(log, CHOOSE i \in begins : \A j \in begins : j <= i,
                                  view.head_seq)))

\* state.program_tool_calls, of what the Journal has folded.
ProgramToolCalls == Cardinality(ProgramCalls(SubSeq(log, 1, view.head_seq)))

-----------------------------------------------------------------------------
(* The process of the program *)

NotAsked == [asked |-> None, id |-> 0, got |-> None]
Unstarted == [alive |-> FALSE, next |-> 0, pending |-> {}, task |-> [t \in Tasks |-> NotAsked]]
Waits(t) == child.task[t].asked # None /\ child.task[t].got = None

Known == {log[i].call : i \in {j \in DOMAIN log : log[j].type = "tool_call_started"}}
InUse ==
  Known \cup {child.task[t].asked : t \in Tasks} \cup {host.call}
        \cup {toHost[i].call : i \in DOMAIN toHost}

\* _dispatch: the next id, the frame, and who waits for its reply.
Call(t) ==
  /\ child.alive /\ ~Waits(t) /\ child.next < scene.frames
  /\ \E tool \in Tools :
       LET fresh == {c \in Requests \ InUse : ToolOf[c] = tool}
           call == CHOOSE c \in fresh : TRUE
       IN
       /\ fresh # {}
       /\ toHost' = Append(toHost, [type |-> "call", id |-> child.next, call |-> call])
       /\ child' = [child EXCEPT
            !.next = @ + 1,
            !.pending = @ \cup {[id |-> child.next, task |-> t]},
            !.task = [@ EXCEPT ![t] = [asked |-> call, id |-> child.next, got |-> None]]]
  /\ UNCHANGED <<log, view, loop, host, spent, toChild, ran, bounds>>

\* wait_for around a call.  Its id stays in pending, with a future that is done.
GiveUp(t) ==
  /\ child.alive /\ Waits(t)
  /\ child' = [child EXCEPT !.task = [@ EXCEPT ![t] = NotAsked]]
  /\ UNCHANGED <<log, view, loop, host, spent, wire, ran, bounds>>

\* Mutation: an answer that comes late is taken for the one waited for now.
HearsAny(t, entry) == \E e \in entry : e.task = t /\ child.task[t].asked # None

\* A coroutine that has given up, or asks for something else by now, has a
\* future of another id.
Hears(t, entry) ==
  \E e \in entry : e.task = t /\ child.task[t].asked # None /\ e.id = child.task[t].id

\* _reader_loop
Receive ==
  /\ child.alive /\ toChild # <<>>
  /\ toChild' = Tail(toChild)
  /\ LET reply == Head(toChild)
         entry == {e \in child.pending : e.id = reply.id}
     IN child' = [child EXCEPT
          !.pending = @ \ entry,
          !.task = [t \in Tasks |->
            IF Hears(t, entry) THEN [child.task[t] EXCEPT !.got = reply.call] ELSE child.task[t]]]
  /\ UNCHANGED <<log, view, loop, host, spent, toHost, ran, bounds>>

\* The program returns or raises, whatever its other coroutines are waiting
\* for; one that gathers them is itself not waiting.
Return ==
  /\ child.alive /\ \E t \in Tasks : ~Waits(t)
  /\ toHost' = Append(toHost, [type |-> "done", id |-> 0, call |-> None])
  /\ child' = Unstarted
  /\ UNCHANGED <<log, view, loop, host, spent, toChild, ran, bounds>>

\* A resource limit of the operating system.
Die ==
  /\ child.alive
  /\ child' = Unstarted
  /\ UNCHANGED <<log, view, loop, host, spent, wire, ran, bounds>>

-----------------------------------------------------------------------------
(* The host: run_protocol, one frame after another *)

HostAt(phase, id, call) == [phase |-> phase, id |-> id, call |-> call]
Off == HostAt("off", 0, None)
Reading == HostAt("reading", 0, None)

\* The conversation is over, and the process tree is killed.
Ends(next) ==
  /\ host' = Off /\ child' = Unstarted /\ toHost' = <<>> /\ toChild' = <<>>
  /\ attempt' = next
  /\ UNCHANGED <<dangling, program>>

\* A reply to a process that has closed its end is a protocol error, and so is
\* everything it had said but was not read yet.
Reply(id, call) ==
  IF child.alive
  THEN /\ toChild' = Append(toChild, [id |-> id, call |-> call])
       /\ host' = Reading
       /\ UNCHANGED <<loop, child>>
  ELSE /\ toChild' = <<>> /\ host' = Off /\ attempt' = "returning"
       /\ UNCHANGED <<dangling, program, child>>

\* Mutation: a failure is logged by the host, and nobody tells the program.
RefuseSilently(id, call) ==
  host' = Reading /\ UNCHANGED <<log, view, loop, child, toChild>>

\* What the host could not record or would not do is data for the program.
Refuse(id, call) == Reply(id, call) /\ UNCHANGED <<log, view>>

\* The next record of a call, or a failure like any other when the Journal
\* refuses it.
Records(rec, next) ==
  IF Allowed(rec) THEN Write(<<rec>>) /\ next ELSE Refuse(host.id, host.call)

Stays(phase) ==
  /\ host' = HostAt(phase, host.id, host.call)
  /\ UNCHANGED <<loop, child, toChild>>

\* Mutation: one more call than the budget says.
WithinBudgetLate == spent <= MaxCalls /\ ProgramToolCalls <= MaxCallsPerRun

\* budgeted
WithinBudget == spent < MaxCalls /\ ProgramToolCalls < MaxCallsPerRun

StartRecord(call) == CallStarted(call, program, view.turn)

Admit ==
  LET frame == Head(toHost) IN
  /\ host.phase = "reading" /\ toHost # <<>> /\ frame.type = "call"
  /\ toHost' = Tail(toHost)
  /\ IF WithinBudget
     THEN /\ spent' = spent + 1
          /\ IF Allowed(StartRecord(frame.call))
             THEN /\ Write(<<StartRecord(frame.call)>>)
                  /\ host' = HostAt("gating", frame.id, frame.call)
                  /\ UNCHANGED <<loop, child, toChild>>
             ELSE Refuse(frame.id, frame.call)
     ELSE Refuse(frame.id, frame.call) /\ UNCHANGED spent
  /\ UNCHANGED <<ran, bounds>>

Gate(call) == GateOf[ToolOf[call]]

\* _gate, and what call_as_binding makes of its answer.
UseTool ==
  /\ host.phase = "gating" /\ Gate(host.call) = "allow"
  /\ ran' = [ran EXCEPT ![host.call] = @ + 1]
  /\ Stays("using")
  /\ UNCHANGED <<log, view, spent, toHost, bounds>>

Deny ==
  /\ \/ host.phase = "gating" /\ Gate(host.call) = "deny"
     \/ host.phase = "withdrawn"
  /\ Records(CallFinished(host.call, "error"), Reply(host.id, host.call))
  /\ UNCHANGED <<spent, toHost, ran, bounds>>

AskApproval ==
  /\ host.phase = "gating" /\ Gate(host.call) = "ask"
  /\ Records(AskPerson(host.call), Stays("asked"))
  /\ UNCHANGED <<spent, toHost, ran, bounds>>

\* Nothing may resume into a process: the question is taken back.
Withdraw ==
  /\ host.phase = "asked"
  /\ Records(Resumed("denied"), Stays("withdrawn"))
  /\ UNCHANGED <<spent, toHost, ran, bounds>>

FinishCall ==
  /\ host.phase = "using"
  /\ \E outcome \in {"ok", "error"} :
       Records(CallFinished(host.call, outcome), Reply(host.id, host.call))
  /\ UNCHANGED <<spent, toHost, ran, bounds>>

\* A done frame, or the end of the stream.
Hear ==
  /\ host.phase = "reading"
  /\ IF toHost = <<>> THEN ~child.alive ELSE Head(toHost).type = "done"
  /\ Ends("returning")
  /\ UNCHANGED <<log, view, spent, ran, bounds>>

\* The record an append under way would write.
InFlight ==
  CASE host.phase = "reading" /\ toHost # <<>> /\ Head(toHost).type = "call" /\ WithinBudget ->
         {StartRecord(Head(toHost).call)}
    [] host.phase = "gating" /\ Gate(host.call) = "ask"  -> {AskPerson(host.call)}
    [] host.phase = "gating" /\ Gate(host.call) = "deny" -> {CallFinished(host.call, "error")}
    [] host.phase = "asked"     -> {Resumed("denied")}
    [] host.phase = "withdrawn" -> {CallFinished(host.call, "error")}
    [] host.phase = "using"     -> {CallFinished(host.call, "ok")}
    [] OTHER -> {}

\* Mutation: the conversation is cancelled and not awaited.
CancelledOnly(next) ==
  /\ attempt' = next
  /\ UNCHANGED <<dangling, program, host, child, wire>>

Cancelled(next) == Ends(next)

\* converse: the wall clock or the caller's signal ("returning"), or the
\* cancellation of the whole Attempt ("leaving").  A tool that is running gets
\* its record first; an append that is under way may have landed in the Store,
\* which the Journal then does not know.
CutShort(next) ==
  /\ host.phase # "off"
  /\ \/ /\ IF host.phase = "using" /\ Allowed(CallFinished(host.call, "aborted"))
           THEN Write(<<CallFinished(host.call, "aborted")>>)
           ELSE UNCHANGED <<log, view>>
        /\ mishaps' = mishaps + (IF next = "leaving" THEN 1 ELSE 0)
     \/ /\ \E rec \in InFlight : Allowed(rec) /\ log' = Append(log, rec)
        /\ mishaps' = mishaps + 1
        /\ UNCHANGED view
  /\ mishaps' <= scene.mishaps
  /\ Cancelled(next)
  /\ UNCHANGED <<scene, spent, ran>>

-----------------------------------------------------------------------------
(* The loop around it *)

LoopOnly == UNCHANGED <<host, spent, child, wire>>

\* A Worker claims the Run, and the loop looks for calls left open.
BeginAttempt ==
  /\ attempt = "off"
  /\ Write(<<[type |-> "attempt_started", number |-> Caught.attempt_count + 1]>>)
  /\ attempt' = "recovering" /\ dangling' = Caught.open_tool_calls
  /\ UNCHANGED <<program, ran, bounds>> /\ LoopOnly

\* _settle_dangling_calls.  No call here is safe to retry.
SettleCall ==
  /\ attempt = "recovering"
  /\ \E call \in dangling :
       LET decision == view.approval_decisions[call] IN
       /\ ran' = IF decision = "approved" THEN [ran EXCEPT ![call] = @ + 1] ELSE ran
       /\ Write(<<CallFinished(call, CASE decision = "approved" -> "ok"
                                       [] decision = "denied" -> "error"
                                       [] OTHER -> "unknown")>>)
       /\ dangling' = dangling \ {call}
  /\ UNCHANGED <<attempt, program, bounds>> /\ LoopOnly

Recovered ==
  /\ attempt = "recovering" /\ dangling = {}
  /\ attempt' = "looping"
  /\ UNCHANGED <<log, view, dangling, program, ran, bounds>> /\ LoopOnly

Park ==
  /\ attempt = "looping" /\ Caught.suspended
  /\ view' = Caught
  /\ attempt' = "parked"
  /\ UNCHANGED <<log, dangling, program, ran, bounds>> /\ LoopOnly

\* A turn whose answer is one program: _turn, _run_tool_calls and the start of
\* the process.
RunCode ==
  LET turn == Caught.turn + 1
      call == CHOOSE c \in CodeCalls \ Known : TRUE
  IN
  /\ attempt = "looping" /\ ~Caught.suspended /\ CodeCalls \ Known # {}
  /\ Write(<<[type |-> "turn_started", turn |-> turn],
             [type |-> "model_call_started", turn |-> turn],
             [type |-> "model_call_finished", turn |-> turn, currency |-> None],
             CallStarted(call, None, turn)>>)
  /\ attempt' = "running" /\ program' = call
  /\ host' = Reading /\ spent' = 0
  /\ child' = [Unstarted EXCEPT !.alive = TRUE]
  /\ toHost' = <<>> /\ toChild' = <<>>
  /\ UNCHANGED <<dangling, ran, bounds>>

\* The model has nothing left to do.
Settle ==
  /\ attempt = "looping" /\ ~Caught.suspended
  /\ Write(<<[type |-> "run_settled", state |-> "completed"]>>)
  /\ attempt' = "settled"
  /\ UNCHANGED <<dangling, program, ran, bounds>> /\ LoopOnly

\* What run_code returned is its result, whatever became of the program.  A
\* Journal that was overtaken ends the Attempt.
RecordProgram ==
  LET rec == CallFinished(program, IF attempt = "leaving" THEN "aborted" ELSE "ok") IN
  /\ attempt \in {"returning", "leaving"}
  /\ program' = None
  /\ IF Allowed(rec)
     THEN Write(<<rec>>) /\ attempt' = (IF attempt = "leaving" THEN "off" ELSE "looping")
     ELSE UNCHANGED <<log, view>> /\ attempt' = "off"
  /\ UNCHANGED <<dangling, ran, bounds>> /\ LoopOnly

Crash ==
  /\ attempt \notin {"off", "parked", "settled"} /\ mishaps < scene.mishaps
  /\ mishaps' = mishaps + 1
  /\ attempt' = "off" /\ dangling' = {} /\ program' = None
  /\ host' = Off /\ child' = Unstarted /\ toHost' = <<>> /\ toChild' = <<>>
  /\ UNCHANGED <<scene, log, view, spent, ran>>

\* resume, of a consumer who finds the Run suspended.
Answer ==
  /\ Caught.suspended
  /\ \E approved \in {"approved", "denied"} : log' = Append(log, Resumed(approved))
  /\ attempt' = IF attempt = "parked" THEN "off" ELSE attempt
  /\ UNCHANGED <<view, dangling, program, host, spent, child, wire, ran, bounds>>

-----------------------------------------------------------------------------
Init ==
  /\ scene \in Scenes
  /\ log = <<[type |-> "run_admitted"]>>
  /\ view = Reduced(log).view
  /\ attempt = "off" /\ dangling = {} /\ program = None
  /\ host = Off /\ spent = 0 /\ child = Unstarted
  /\ toHost = <<>> /\ toChild = <<>>
  /\ ran = [c \in Calls |-> 0]
  /\ mishaps = 0

HostMoves ==
  \/ Admit \/ UseTool \/ Deny \/ AskApproval \/ Withdraw \/ FinishCall \/ Hear

ChildMoves ==
  \/ \E t \in scene.tasks : Call(t) \/ GiveUp(t)
  \/ Return \/ Die

LoopMoves ==
  \/ BeginAttempt \/ SettleCall \/ Recovered \/ Park \/ RunCode \/ Settle \/ RecordProgram

Next ==
  \/ HostMoves \/ Receive \/ ChildMoves \/ LoopMoves
  \/ CutShort("returning") \/ CutShort("leaving") \/ Crash \/ Answer

Spec == Init /\ [][Next]_vars

\* The host answers and the process reads what it is sent: neither needs the
\* program, the wall clock or a person to do anything, only tools that return.
FairSpec == Spec /\ WF_vars(HostMoves) /\ WF_vars(Receive)

-----------------------------------------------------------------------------
(* Properties *)

Position(type, call) ==
  {i \in DOMAIN log : log[i].type = type /\ log[i].call = call}
Parent(call) == log[CHOOSE i \in Position("tool_call_started", call) : TRUE].parent

TypeOK ==
  /\ view.head_seq \in 1..Len(log)
  /\ attempt \in Phases /\ dangling \subseteq Calls /\ program \in CodeCalls \cup {None}
  /\ host.phase \in {"off", "reading", "gating", "using", "asked", "withdrawn"}
  /\ spent \in 0..MaxCalls
  /\ child.next \in 0..scene.frames /\ child.alive \in BOOLEAN
  /\ \A t \in Tasks : child.task[t].asked \in Requests \cup {None}
  /\ Len(toHost) <= scene.frames + 1 /\ Len(toChild) <= scene.frames
  /\ ran \in [Calls -> 0..scene.mishaps + 1]
  /\ mishaps \in 0..scene.mishaps

\* Whether another Attempt took over between two places of the log.
TakenOver(i, j) == \E k \in i..j : log[k].type = "attempt_started"

\* A program calls only in the Attempt that runs it and before run_code has its
\* record; and what it asked for is over by then, but for calls that are left
\* to the next Attempt to close.
NothingOutlivesItsProgram ==
  /\ attempt \in {"looping", "settled"} => host = Off /\ ~child.alive
  /\ \A c \in ProgramCalls(log) :
       LET p == Parent(c) IN
       \A i \in Position("tool_call_started", p) :
         /\ \A j \in Position("tool_call_started", c) :
              ~TakenOver(i, j) /\ \A k \in Position("tool_call_finished", p) : j < k
         /\ \A j \in Position("tool_call_finished", c) :
              TakenOver(i, j) \/ \A k \in Position("tool_call_finished", p) : j < k

\* The allowances bound what is in the log: for each program, and for the Run
\* over every program and every Attempt.
BudgetsHold ==
  /\ Cardinality(ProgramCalls(log)) <= MaxCallsPerRun
  /\ \A p \in CodeCalls : Cardinality({c \in ProgramCalls(log) : Parent(c) = p}) <= MaxCalls

\* A coroutine gets the answer to the call it made, in whatever order the
\* coroutines call, give up and are answered.
AnswersReachTheCaller ==
  \A t \in Tasks : child.task[t].got \in {child.task[t].asked, None}

\* A tool runs only for a call that Policy allows or a person has approved, and
\* only after that call is in the log.
OnlyAllowedToolsRun ==
  \A c \in Requests : ran[c] > 0 =>
    /\ c \in Known
    /\ Gate(c) = "allow" \/ (Gate(c) = "ask" /\ view.approval_decisions[c] = "approved")

\* What run_protocol, budgeted and call_as_binding promise together.
ProgramsAreContained ==
  TypeOK /\ NothingOutlivesItsProgram /\ BudgetsHold /\ AnswersReachTheCaller
  /\ OnlyAllowedToolsRun

\* No coroutine waits for ever: every call gets an answer, also the refused
\* ones, unless the process ends before.
CallsAreAnswered == \A t \in Tasks : Waits(t) ~> ~Waits(t)

\* A call that needs a person is refused and never run (agent.py:641).
GatedCallsAreRefused == \A c \in Requests : Gate(c) = "ask" => ran[c] = 0
===============================================================================
