------------------------------- MODULE StepTree -------------------------------
(***************************************************************************)
(* What the workflow engine promises of the steps of one Run: every step   *)
(* gets at most one result, in the order and under the parents its plan    *)
(* gives it, and a result says of a composite what its children did.       *)
(* Crashes, waits, retries and cancelled siblings do not show.             *)
(***************************************************************************)
EXTENDS Naturals, Sequences

CONSTANTS
  Steps,       \* the steps of the plan, an iteration or an item being a step
  Root,        \* the workflow itself
  None,
  Plans        \* the workflows of this instance; see Workflow

VARIABLES
  plan,        \* the workflow being walked; it never changes
  done         \* done[s]: the result of step s, None before it has one

Results == {"completed", "failed", "skipped"}
Serial == {"root", "nested", "loop"}
Concurrent == {"parallel", "foreach", "branch"}

Node(p) == plan.node[p]
Body(p) == Node(p).body
ChildrenOf(p) == {Body(p)[i] : i \in DOMAIN Body(p)}
Above(s) == {p \in Steps \cup {Root} : s \in ChildrenOf(p)}

\* A failure the sequence or composite around the step does not survive.
Blocks(s) == done[s] = "failed" /\ s \notin plan.tolerated

\* A step that ends the sequence it stands in.
Ends(s) == done[s] = "completed" /\ s \in plan.ending

\* The step's place has come: what stands before it lets the walk go on.
Due(s) ==
  \A p \in Above(s) :
    /\ p # Root => done[p] = None
    /\ Node(p).kind \in Serial =>
         \A i, k \in DOMAIN Body(p) :
           i < k /\ Body(p)[k] = s =>
             LET b == Body(p)[i] IN
             done[b] # None /\ ~Blocks(b) /\ (Node(p).kind # "loop" => ~Ends(b))

\* A composite succeeds when its children came to their ends without a
\* failure that counts: all of them, or as many as were walked.
Succeeds(s) ==
  LET settled == {c \in ChildrenOf(s) : done[c] # None} IN
  /\ \A c \in settled : ~Blocks(c)
  /\ \/ settled = ChildrenOf(s)
     \/ Node(s).kind = "loop" /\ settled # {}
     \/ Node(s).kind = "nested" /\ \E c \in settled : Ends(c)

\* A step that was passed over did nothing, and nothing under it did.
Untouched(s) == \A c \in ChildrenOf(s) : done[c] = None

Settle(s, result) ==
  /\ done[s] = None
  /\ done' = [done EXCEPT ![s] = result]
  /\ Due(s)
  /\ result = "completed" => Succeeds(s)
  /\ result = "skipped" => Untouched(s)
  /\ UNCHANGED plan

Init == plan \in Plans /\ done = [s \in Steps |-> None]

Next == done' # done /\ \E s \in Steps, result \in Results : Settle(s, result)

Spec == Init /\ [][Next]_<<plan, done>>
=============================================================================
