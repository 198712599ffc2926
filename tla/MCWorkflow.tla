------------------------------ MODULE MCWorkflow ------------------------------
(* Workflow on small trees, one per thing the engine has to get right.       *)
EXTENDS Workflow, TLC

CONSTANTS s1, s2, s3, s4, s5, root, worker1, c1

MCToolOf == [c \in Calls |-> "tool"]
MCNameOf == <<>>

Absent ==
  [kind |-> "absent", body |-> <<>>, when |-> Always, case |-> None, until |-> Always,
   tries |-> 1, limit |-> 2, sets |-> {}]
Leaf(kind) == [Absent EXCEPT !.kind = kind, !.limit = IF kind = "agent" THEN 4 ELSE 2]
Around(kind, body) == [Absent EXCEPT !.kind = kind, !.body = body]

Flag(name, bound) == [name |-> name, bound |-> bound]

\* "limit": how many children run at once, and how many turns the Run may
\* have had when an agent starts one.
\* A workflow without options, from the nodes it has.
WorkflowOf(nodes) ==
  [node |-> nodes @@ [s \in Nodes |-> Absent],
   tolerated |-> {}, ending |-> {}, breakpoints |-> {}, fragile |-> {}, backoff |-> {},
   asking |-> {}, timed |-> {}, fail_fast |-> {}, copies |-> <<>>, max_steps |-> 12, faults |-> {}]

\* A breakpoint before a question, then an approved tool that may fail once.
AskTwice ==
  [WorkflowOf(root :> Around("root", <<s1, s2>>) @@ s1 :> Leaf("human")
                @@ s2 :> [Leaf("gated") EXCEPT !.tries = 2])
     EXCEPT !.breakpoints = {s1}, !.fragile = {s2}, !.faults = {"crash", "stop", "interrupt"}]

\* Two steps that wait, side by side; whichever comes second may be refused.
TwoWaits ==
  [WorkflowOf(root :> Around("root", <<s1>>) @@ s1 :> Around("parallel", <<s2, s3>>)
                @@ s2 :> Leaf("human") @@ s3 :> Leaf("sleep"))
     EXCEPT !.faults = {"crash"}]

\* A tool that fails while its sibling is going to sleep.
FailFast ==
  [WorkflowOf(root :> Around("root", <<s1, s4>>) @@ s1 :> Around("parallel", <<s2, s3>>)
                @@ s2 :> Leaf("sleep") @@ s3 :> Leaf("tool") @@ s4 :> Leaf("tool"))
     EXCEPT !.fragile = {s3}, !.fail_fast = {s1}, !.tolerated = {s1}]

\* Items one at a time, with a retry that waits, in a nested workflow that
\* may end early.
Items ==
  [WorkflowOf(root :> Around("root", <<s1>>) @@ s1 :> Around("nested", <<s2, s5>>)
                @@ s2 :> [Around("foreach", <<s3, s4>>) EXCEPT !.limit = 1]
                @@ s3 :> [Leaf("tool") EXCEPT !.tries = 2] @@ s4 :> Leaf("tool")
                @@ s5 :> Leaf("tool"))
     EXCEPT !.fragile = {s3, s4}, !.backoff = {s3}, !.tolerated = {s4}, !.ending = {s2},
            !.faults = {"crash"}]

\* One item, a loop that ends when its second iteration has set the flag.
Counting ==
  [WorkflowOf(root :> Around("root", <<s1>>) @@ s1 :> Around("foreach", <<s2>>)
                @@ s2 :> [Around("loop", <<s3, s4, s5>>) EXCEPT !.until = Flag("f", TRUE)]
                @@ s3 :> Leaf("tool") @@ s4 :> [Leaf("set_state") EXCEPT !.sets = {"f"}]
                @@ s5 :> Leaf("tool"))
     EXCEPT !.fragile = {s3}, !.faults = {"crash", "interrupt"}]

\* A branch on what was set before it, with a guarded step in its arm.
Branching ==
  [WorkflowOf(root :> Around("root", <<s1, s2>>)
               @@ s1 :> [Leaf("set_state") EXCEPT !.sets = {"f"}]
               @@ s2 :> Around("branch", <<s3, s4, s5>>)
               @@ s3 :> [Leaf("tool") EXCEPT !.case = Flag("f", FALSE)]
               @@ s4 :> [Leaf("human") EXCEPT !.case = Flag("f", TRUE)]
               @@ s5 :> Leaf("tool"))
     EXCEPT !.faults = {"crash", "interrupt"}]

\* The replay of a Run that had settled two steps, with a guard on them.
Replay ==
  [WorkflowOf(root :> Around("root", <<s1, s2, s3>>)
                @@ s1 :> [Leaf("set_state") EXCEPT !.sets = {"f"}]
                @@ s2 :> Leaf("tool")
                @@ s3 :> [Leaf("tool") EXCEPT !.when = Flag("f", FALSE)])
     EXCEPT !.copies = <<[step |-> s1, outcome |-> "completed"],
                         [step |-> s2, outcome |-> "completed"]>>,
            !.faults = {"interrupt"}]

\* An agent with a tool that fails beside it, and an agent behind both.
Drafting ==
  [WorkflowOf(root :> Around("root", <<s1, s4>>) @@ s1 :> Around("parallel", <<s2, s3>>)
                @@ s2 :> Leaf("agent") @@ s3 :> Leaf("tool") @@ s4 :> Leaf("agent"))
     EXCEPT !.fragile = {s3}, !.fail_fast = {s1}, !.tolerated = {s1}]

\* An agent that is cut off by its timeout and tried again.
Expiring ==
  [WorkflowOf(root :> Around("root", <<s1>>) @@ s1 :> [Leaf("agent") EXCEPT !.tries = 2])
     EXCEPT !.timed = {s1}, !.faults = {"crash", "stop"}]

\* An agent whose tool a person must approve, and an agent behind it whose
\* model fails.
Asking ==
  [WorkflowOf(root :> Around("root", <<s1, s2>>) @@ s1 :> [Leaf("agent") EXCEPT !.tries = 2]
                @@ s2 :> Leaf("agent"))
     EXCEPT !.asking = {s1}, !.fragile = {s2}, !.faults = {"crash", "interrupt"}]

\* Two agents side by side.
Beside ==
  WorkflowOf(root :> Around("root", <<s1>>) @@ s1 :> Around("parallel", <<s2, s3>>)
               @@ s2 :> Leaf("agent") @@ s3 :> Leaf("agent"))

\* A budget that runs out under a tolerated step.
Spent ==
  [WorkflowOf(root :> Around("root", <<s1, s2, s3>>)
                @@ s1 :> [Leaf("tool") EXCEPT !.tries = 3] @@ s2 :> Leaf("tool")
                @@ s3 :> Leaf("human"))
     EXCEPT !.fragile = {s1}, !.tolerated = {s1, s2}, !.max_steps = 2, !.faults = {"crash", "interrupt"}]

AllPlans == {AskTwice, TwoWaits, FailFast, Items, Counting, Branching, Replay, Spent, Drafting, Expiring, Asking}
AgentsBeside == {Beside}
=============================================================================
