------------------------------ MODULE RunLog_proofs ------------------------------
(***************************************************************************)
(* The fold of the record log, for logs of every length.                   *)
(*                                                                         *)
(* The first part shows that reduce is the left fold it is meant to be: it *)
(* is defined, it is determined by the records, and it can be stopped and  *)
(* continued.  Induction over positions goes through the least number at   *)
(* which a claim would fail, so that no prover has to instantiate an       *)
(* induction rule.                                                         *)
(*                                                                         *)
(* The second part shows what each record does to the state, and that an   *)
(* accepted record keeps the state well formed.  The third shows that a    *)
(* Journal that continues its own fold arrives where a fresh reader does.  *)
(* The fourth turns the checks of the fold into properties of the log      *)
(* itself: what a record says is remembered, what is remembered was said,  *)
(* so whatever is refused a second time happens once.  The last is about   *)
(* readers of a log that others append to: what an old state still says    *)
(* truly, and what absorbed records leave alone.                           *)
(***************************************************************************)
EXTENDS RunLog, WellFoundedInduction, SequenceTheorems, TLAPS

\* Every nonempty set of naturals has a least element: each induction over
\* the positions of a log below takes the least position where it would fail.
LEMMA LeastNat ==
  ASSUME NEW T \in SUBSET Nat, T # {}
  PROVE  \E x \in T : \A y \in T : x <= y
<1> DEFINE R == {p \in Nat \X Nat : p[1] < p[2]}
<1>1. IsWellFoundedOn(R, Nat)
  BY NatLessThanWellFounded DEF OpToRel
<1>2. PICK x \in T : \A y \in T : <<y, x>> \notin R
  <2> HIDE DEF R
  <2> QED BY <1>1, WFMin DEF R
<1>3. \A y \in T : ~(y < x)
  BY <1>2
<1> QED BY <1>2, <1>3

\* f[n] is the fold of the first n records.
IsFold(f, start, records, N) ==
  f = [n \in 0..N |-> IF n = 0 THEN start ELSE Folded(f[n - 1], records[n])]

\* The loop of reduce is well defined: for records of every number there is a
\* function from positions to folds that starts at start and folds one record
\* per position.
LEMMA FoldExists ==
  ASSUME NEW start, NEW records, NEW N \in Nat
  PROVE  \E f : IsFold(f, start, records, N)
<1> DEFINE T == {n \in Nat : ~\E f : IsFold(f, start, records, n)}
<1>1. SUFFICES ASSUME T # {} PROVE FALSE
  OBVIOUS
<1>2. PICK x \in T : \A y \in T : x <= y
  <2> HIDE DEF T
  <2>1. T \in SUBSET Nat BY DEF T
  <2> QED BY <1>1, <2>1, LeastNat
<1>3. CASE x = 0
  <2>1. IsFold([n \in 0..0 |-> start], start, records, 0)
    BY DEF IsFold
  <2> QED BY <1>2, <1>3, <2>1
<1>4. CASE x # 0
  <2>1. x - 1 \in Nat /\ x - 1 \notin T
    BY <1>2, <1>4
  <2>2. PICK f : IsFold(f, start, records, x - 1)
    BY <2>1
  <2> DEFINE g == [n \in 0..x |-> IF n = x THEN Folded(f[x - 1], records[x]) ELSE f[n]]
  <2>3. \A n \in 0..x : g[n] = IF n = 0 THEN start ELSE Folded(g[n - 1], records[n])
    <3> SUFFICES ASSUME NEW n \in 0..x
                 PROVE  g[n] = IF n = 0 THEN start ELSE Folded(g[n - 1], records[n])
      OBVIOUS
    <3>1. CASE n = x
      BY <3>1, <1>4
    <3>2. CASE n # x
      BY <3>2, <1>4, <2>2 DEF IsFold
    <3> QED BY <3>1, <3>2
  <2>4. g = [n \in 0..x |-> IF n = 0 THEN start ELSE Folded(g[n - 1], records[n])]
    <3>1. g = [n \in 0..x |-> g[n]]
      OBVIOUS
    <3> HIDE DEF g
    <3> QED BY <3>1, <2>3
  <2>5. IsFold(g, start, records, x)
    <3> HIDE DEF g
    <3> QED BY <2>4 DEF IsFold
  <2> HIDE DEF g
  <2> QED BY <1>2, <2>5
<1> QED BY <1>3, <1>4

\* The CHOOSE by which the fold keeps TLC from evaluating a prefix twice
\* chooses the only element there is.
LEMMA FoldedOnce ==
  ASSUME NEW x, NEW r
  PROVE  (CHOOSE g \in {Folded(f, r) : f \in {x}} : TRUE) = Folded(x, r)
<1>1. {Folded(f, r) : f \in {x}} = {Folded(x, r)}
  OBVIOUS
<1> HIDE DEF Folded
<1>2. ASSUME NEW y PROVE (CHOOSE g \in {y} : TRUE) = y
  OBVIOUS
<1> QED BY <1>1, <1>2

\* FoldFrom is the value such a function takes at the last position.
LEMMA FoldIs ==
  ASSUME NEW start, NEW records, Len(records) \in Nat
  PROVE  \E f : IsFold(f, start, records, Len(records)) /\ FoldFrom(start, records) = f[Len(records)]
<1> DEFINE N == Len(records)
<1> DEFINE F == CHOOSE f : f = [n \in 0..N |->
        IF n = 0 THEN start
        ELSE CHOOSE g \in {Folded(h, records[n]) : h \in {f[n - 1]}} : TRUE]
<1>1. FoldFrom(start, records) = F[N]
  BY DEF FoldFrom
<1>2. \A f : [n \in 0..N |->
        IF n = 0 THEN start
        ELSE CHOOSE g \in {Folded(h, records[n]) : h \in {f[n - 1]}} : TRUE]
       = [n \in 0..N |-> IF n = 0 THEN start ELSE Folded(f[n - 1], records[n])]
  BY FoldedOnce
<1>3. F = CHOOSE f : IsFold(f, start, records, N)
  BY <1>2 DEF IsFold
<1>4. IsFold(F, start, records, N)
  <2> HIDE DEF N, F
  <2>1. \E f : IsFold(f, start, records, N)
    BY FoldExists DEF N
  <2> QED BY <1>3, <2>1
<1> HIDE DEF F
<1> QED BY <1>1, <1>4

\* Two folds over records that agree up to position k agree there: what reduce
\* derives at a position depends on the records up to it and on nothing after.
LEMMA FoldUnique ==
  ASSUME NEW start, NEW r, NEW q, NEW f, NEW h, NEW N \in Nat, NEW M \in Nat,
         NEW k \in Nat, k <= N, k <= M,
         IsFold(f, start, r, N), IsFold(h, start, q, M), \A i \in 1..k : r[i] = q[i]
  PROVE  f[k] = h[k]
<1> DEFINE T == {n \in 0..k : f[n] # h[n]}
<1>1. SUFFICES ASSUME T # {} PROVE FALSE
  OBVIOUS
<1>2. PICK x \in T : \A y \in T : x <= y
  <2> HIDE DEF T
  <2>1. T \in SUBSET Nat BY DEF T
  <2> QED BY <1>1, <2>1, LeastNat
<1>3. x # 0
  BY <1>2 DEF IsFold
<1>4. x - 1 \in 0..k /\ f[x - 1] = h[x - 1]
  BY <1>2, <1>3
<1>5. x \in 1..k /\ f[x] # h[x]
  BY <1>2, <1>3
<1>6. f[x] = Folded(f[x - 1], r[x]) /\ h[x] = Folded(h[x - 1], q[x])
  BY <1>5 DEF IsFold
<1>7. r[x] = q[x]
  BY <1>5
<1> QED BY <1>4, <1>5, <1>6, <1>7

\* Folding no records returns the state it was given (reduce([], prior)).
LEMMA FoldEmpty ==
  ASSUME NEW start, NEW records, Len(records) = 0
  PROVE  FoldFrom(start, records) = start
<1>1. PICK f : IsFold(f, start, records, Len(records)) /\ FoldFrom(start, records) = f[Len(records)]
  BY FoldIs
<1> QED BY <1>1 DEF IsFold

\* Folding n records is folding the last one into the fold of the rest.
LEMMA FoldLast ==
  ASSUME NEW start, NEW a, NEW s, NEW n \in Nat \ {0}, Len(a) = n - 1, Len(s) = n,
         \A i \in 1..n - 1 : a[i] = s[i]
  PROVE  FoldFrom(start, s) = Folded(FoldFrom(start, a), s[n])
<1>1. PICK f : IsFold(f, start, s, n) /\ FoldFrom(start, s) = f[n]
  BY FoldIs
<1>2. PICK h : IsFold(h, start, a, n - 1) /\ FoldFrom(start, a) = h[n - 1]
  BY FoldIs
<1>3. h[n - 1] = f[n - 1]
  BY <1>1, <1>2, FoldUnique
<1>4. f[n] = Folded(f[n - 1], s[n])
  BY <1>1 DEF IsFold
<1> QED BY <1>1, <1>2, <1>3, <1>4

\* Folding a log with one more record is one more step of the fold: what
\* Journal.append computes incrementally is what reduce computes from scratch.
LEMMA FoldAppend ==
  ASSUME NEW S, NEW start, NEW s \in Seq(S), NEW r
  PROVE  FoldFrom(start, Append(s, r)) = Folded(FoldFrom(start, s), r)
<1> DEFINE t == Append(s, r)
           n == Len(s) + 1
<1>1. /\ n \in Nat \ {0} /\ Len(s) = n - 1 /\ Len(t) = n
      /\ t[n] = r
      /\ \A i \in 1..n - 1 : s[i] = t[i]
  OBVIOUS
<1> HIDE DEF t, n
<1>2. FoldFrom(start, t) = Folded(FoldFrom(start, s), t[n])
  BY <1>1, FoldLast
<1> QED BY <1>1, <1>2 DEF t

\* The fold of the empty prefix of a log.
LEMMA FoldNone ==
  ASSUME NEW S, NEW start, NEW s \in Seq(S)
  PROVE  FoldFrom(start, SubSeq(s, 1, 0)) = start
<1>1. SubSeq(s, 1, 0) = << >>
  OBVIOUS
<1>2. Len(<< >>) = 0
  OBVIOUS
<1> QED BY <1>1, <1>2, FoldEmpty

\* The fold of each prefix is one step from the fold of the prefix before it.
LEMMA FoldNext ==
  ASSUME NEW S, NEW start, NEW s \in Seq(S), NEW n \in 1..Len(s)
  PROVE  FoldFrom(start, SubSeq(s, 1, n)) = Folded(FoldFrom(start, SubSeq(s, 1, n - 1)), s[n])
<1> DEFINE a == SubSeq(s, 1, n - 1)
           b == SubSeq(s, 1, n)
<1>1. n \in Nat \ {0} /\ Len(s) \in Nat
  OBVIOUS
<1>2. Len(a) = n - 1 /\ \A i \in 1..n - 1 : a[i] = s[i]
  BY SubSeqProperties
<1>3. Len(b) = n /\ \A i \in 1..n : b[i] = s[i]
  BY SubSeqProperties
<1> HIDE DEF a, b
<1>4. FoldFrom(start, b) = Folded(FoldFrom(start, a), b[n])
  BY <1>1, <1>2, <1>3, FoldLast
<1> QED BY <1>1, <1>3, <1>4 DEF a, b

-----------------------------------------------------------------------------

\* The fields that checks of the fold read, after a record, one operator per
\* field.
TurnOpenAfter(v, rec) ==
  CASE rec.type = "turn_started" -> TRUE
    [] rec.type \in {"attempt_started", "model_call_finished", "model_call_failed",
                     "suspended", "run_settled"} -> FALSE
    [] OTHER -> v.turn_open

ModelCallOpenAfter(v, rec) ==
  CASE rec.type = "model_call_started" -> TRUE
    [] rec.type \in {"attempt_started", "model_call_finished", "model_call_failed",
                     "suspended", "run_settled"} -> FALSE
    [] OTHER -> v.model_call_open

SuspendedAfter(v, rec) ==
  CASE rec.type = "suspended" -> TRUE
    [] rec.type = "resumed" -> FALSE
    [] OTHER -> v.suspended

OpenCallsAfter(v, rec) ==
  CASE rec.type = "tool_call_started" -> v.open_tool_calls \cup {rec.call}
    [] rec.type = "tool_call_finished" -> v.open_tool_calls \ {rec.call}
    [] OTHER -> v.open_tool_calls

PendingAfter(v, rec) ==
  CASE rec.type = "queue_enqueued" -> [v.pending EXCEPT ![rec.queue] = Append(@, rec.entry)]
    [] rec.type \in {"queue_cancelled", "queue_consumed"} ->
         [q \in Queues |-> Removed(v.pending[q], rec.entry)]
    [] OTHER -> v.pending

ChildrenAfter(v, rec) ==
  CASE rec.type = "subagent_spawned" -> [v.children EXCEPT ![rec.child] = "alive"]
    [] rec.type = "subagent_finished" -> [v.children EXCEPT ![rec.child] = "finished"]
    [] OTHER -> v.children

StepsAfter(v, rec) ==
  CASE rec.type = "step_started" ->
         [v.steps EXCEPT ![rec.step] =
            [UnseenStep EXCEPT !.attempt_number = rec.attempt_number, !.started_seq = v.head_seq + 1]]
    [] rec.type = "step_completed" ->
         [v.steps EXCEPT ![rec.step] =
            [@ EXCEPT !.completed = TRUE, !.will_retry = rec.will_retry, !.outcome = rec.outcome,
                      !.completed_seq = v.head_seq + 1]]
    [] OTHER -> v.steps

\* The state after an accepted record.
NextView(v, rec) == [AfterRecord(v, rec) EXCEPT !.head_seq = @ + 1]

\* w is what record rec makes of view v, field by field.
Effect(v, rec, w) ==
  /\ DOMAIN w = DOMAIN EmptyView
  /\ w.head_seq = v.head_seq + 1
  /\ w.admitted = IF rec.type = "run_admitted" THEN TRUE ELSE v.admitted
  /\ w.settled = IF rec.type = "run_settled" THEN TRUE ELSE v.settled
  /\ w.terminal_state = IF rec.type = "run_settled" THEN rec.state ELSE v.terminal_state
  /\ w.attempt_count = IF rec.type = "attempt_started" THEN rec.number ELSE v.attempt_count
  /\ w.resumed_since_attempt =
       CASE rec.type = "resumed" -> TRUE
         [] rec.type = "attempt_started" -> FALSE
         [] OTHER -> v.resumed_since_attempt
  /\ w.turn = IF rec.type = "turn_started" THEN rec.turn ELSE v.turn
  /\ w.abort_seq = IF rec.type = "abort_requested" /\ v.abort_seq = 0
                   THEN v.head_seq + 1 ELSE v.abort_seq
  /\ w.tool_results = IF rec.type = "tool_call_finished"
                      THEN Append(v.tool_results, rec.call) ELSE v.tool_results
  /\ w.turn_open = TurnOpenAfter(v, rec)
  /\ w.model_call_open = ModelCallOpenAfter(v, rec)
  /\ w.suspended = SuspendedAfter(v, rec)
  /\ w.open_tool_calls = OpenCallsAfter(v, rec)
  /\ w.pending = PendingAfter(v, rec)
  /\ w.children = ChildrenAfter(v, rec)
  /\ w.steps = StepsAfter(v, rec)

\* What a record makes of the state, field by field: each branch of reduce's
\* match touches the fields listed in Effect and leaves the others.
LEMMA NextViewFields ==
  ASSUME NEW v, NEW rec, DOMAIN v = DOMAIN EmptyView
  PROVE  Effect(v, rec, NextView(v, rec))
<1> DEFINE w == AfterRecord(v, rec)
<1> USE DEF AfterRecord, EmptyView, AfterAttempt, Closed, Priced, AfterToolCall, Repeated,
            AfterStepStart, AfterStepEnd, Without, AfterSuspend, AfterResume, Decided,
            Delivered, AfterCompaction, AfterSettle
<1>1. DOMAIN w = DOMAIN EmptyView
  OBVIOUS
<1>2. w.head_seq = v.head_seq
  OBVIOUS
<1>3. w.admitted = IF rec.type = "run_admitted" THEN TRUE ELSE v.admitted
  OBVIOUS
<1>4. /\ w.settled = IF rec.type = "run_settled" THEN TRUE ELSE v.settled
      /\ w.terminal_state = IF rec.type = "run_settled" THEN rec.state ELSE v.terminal_state
  OBVIOUS
<1>5. w.attempt_count = IF rec.type = "attempt_started" THEN rec.number ELSE v.attempt_count
  OBVIOUS
<1>6. w.resumed_since_attempt =
        CASE rec.type = "resumed" -> TRUE
          [] rec.type = "attempt_started" -> FALSE
          [] OTHER -> v.resumed_since_attempt
  OBVIOUS
<1>7. w.turn = IF rec.type = "turn_started" THEN rec.turn ELSE v.turn
  OBVIOUS
<1>8. w.abort_seq = IF rec.type = "abort_requested" /\ v.abort_seq = 0
                    THEN v.head_seq + 1 ELSE v.abort_seq
  OBVIOUS
<1>9. w.tool_results = IF rec.type = "tool_call_finished"
                       THEN Append(v.tool_results, rec.call) ELSE v.tool_results
  OBVIOUS
<1>10. w.turn_open = TurnOpenAfter(v, rec)
  BY DEF TurnOpenAfter
<1>11. w.model_call_open = ModelCallOpenAfter(v, rec)
  BY DEF ModelCallOpenAfter
<1>12. w.suspended = SuspendedAfter(v, rec)
  BY DEF SuspendedAfter
<1>13. w.open_tool_calls = OpenCallsAfter(v, rec)
  BY DEF OpenCallsAfter
<1>14. w.pending = PendingAfter(v, rec)
  BY DEF PendingAfter
<1>15. w.children = ChildrenAfter(v, rec)
  BY DEF ChildrenAfter
<1>16. w.steps = StepsAfter(v, rec)
  BY DEF StepsAfter
<1> HIDE DEF w, AfterRecord
<1> DEFINE x == [w EXCEPT !.head_seq = @ + 1]
<1>17. /\ DOMAIN x = DOMAIN w /\ x.head_seq = v.head_seq + 1
       /\ \A f \in DOMAIN w : f # "head_seq" => x[f] = w[f]
  BY <1>1, <1>2
<1> HIDE DEF x
<1>18. Effect(v, rec, x)
  BY <1>1, <1>3, <1>4, <1>5, <1>6, <1>7, <1>8, <1>9, <1>10, <1>11, <1>12, <1>13, <1>14,
     <1>15, <1>16, <1>17 DEF Effect, EmptyView
<1> QED BY <1>18 DEF w, x, NextView

\* Two states that differ at most in the fields _continue_from shares.
Alike(v, w) ==
  /\ DOMAIN v = DOMAIN EmptyView /\ DOMAIN w = DOMAIN EmptyView
  /\ v.head_seq = w.head_seq /\ v.admitted = w.admitted /\ v.settled = w.settled
  /\ v.terminal_state = w.terminal_state /\ v.attempt_count = w.attempt_count
  /\ v.resumed_since_attempt = w.resumed_since_attempt
  /\ v.turn = w.turn /\ v.turn_open = w.turn_open /\ v.model_call_open = w.model_call_open
  /\ v.abort_seq = w.abort_seq /\ v.suspended = w.suspended
  /\ v.suspend_reason = w.suspend_reason /\ v.pending_call = w.pending_call
  /\ v.open_tool_calls = w.open_tool_calls /\ v.tool_results = w.tool_results
  /\ v.result_handles = w.result_handles /\ v.failure_streaks = w.failure_streaks
  /\ v.suspended_step = w.suspended_step /\ v.step_resumes = w.step_resumes
  /\ v.steps = w.steps /\ v.step_starts = w.step_starts
  /\ v.workflow_state = w.workflow_state /\ v.pending = w.pending
  /\ v.children = w.children /\ v.currency = w.currency
  /\ v.compaction_boundary_seq = w.compaction_boundary_seq

\* Two states that differ in the shared fields only still do after the same
\* record: no branch of reduce copies them into another field.
LEMMA AlikeAfterRecord ==
  ASSUME NEW v, NEW w, Alike(v, w), NEW rec
  PROVE  Alike(NextView(v, rec), NextView(w, rec))
<1> DEFINE x == NextView(v, rec)
           y == NextView(w, rec)
<1>1. Effect(v, rec, x) /\ Effect(w, rec, y)
  BY NextViewFields DEF Alike
<1>2. /\ TurnOpenAfter(v, rec) = TurnOpenAfter(w, rec)
      /\ ModelCallOpenAfter(v, rec) = ModelCallOpenAfter(w, rec)
      /\ SuspendedAfter(v, rec) = SuspendedAfter(w, rec)
      /\ OpenCallsAfter(v, rec) = OpenCallsAfter(w, rec)
      /\ PendingAfter(v, rec) = PendingAfter(w, rec)
      /\ ChildrenAfter(v, rec) = ChildrenAfter(w, rec)
      /\ StepsAfter(v, rec) = StepsAfter(w, rec)
  BY DEF Alike, TurnOpenAfter, ModelCallOpenAfter, SuspendedAfter, OpenCallsAfter,
         PendingAfter, ChildrenAfter, StepsAfter
<1>3. /\ x.suspend_reason = y.suspend_reason /\ x.pending_call = y.pending_call
      /\ x.result_handles = y.result_handles /\ x.failure_streaks = y.failure_streaks
      /\ x.suspended_step = y.suspended_step /\ x.step_resumes = y.step_resumes
      /\ x.step_starts = y.step_starts /\ x.workflow_state = y.workflow_state
      /\ x.currency = y.currency /\ x.compaction_boundary_seq = y.compaction_boundary_seq
  <2> USE DEF Alike, NextView, AfterRecord, EmptyView, AfterAttempt, Closed, Priced, AfterToolCall, Repeated,
              AfterStepStart, AfterStepEnd, Without, AfterSuspend, AfterResume, Decided,
              Delivered, AfterCompaction, AfterSettle
  <2>1. x.suspend_reason = y.suspend_reason
    OBVIOUS
  <2>2. x.pending_call = y.pending_call
    OBVIOUS
  <2>3. x.result_handles = y.result_handles
    OBVIOUS
  <2>4. x.failure_streaks = y.failure_streaks
    OBVIOUS
  <2>5. x.suspended_step = y.suspended_step
    BY SMTT(60)
  <2>6. x.step_resumes = y.step_resumes
    BY SMTT(60)
  <2>7. x.step_starts = y.step_starts
    BY SMTT(60)
  <2>8. x.workflow_state = y.workflow_state
    BY SMTT(60)
  <2>9. x.currency = y.currency
    BY SMTT(60)
  <2>10. x.compaction_boundary_seq = y.compaction_boundary_seq
    BY SMTT(60)
  <2> HIDE DEF x, y
  <2> QED BY <2>1, <2>2, <2>3, <2>4, <2>5, <2>6, <2>7, <2>8, <2>9, <2>10
<1> HIDE DEF x, y
<1>4. Alike(x, y)
  BY <1>1, <1>2, <1>3 DEF Alike, Effect
<1> QED BY <1>4 DEF x, y

\* The checks of reduce read neither of the shared fields: two states that
\* differ in nothing else accept the same records.
LEMMA AlikeAccepts ==
  ASSUME NEW v, NEW w, Alike(v, w), NEW seen, NEW rec
  PROVE  /\ RecordAccepted(v, seen, rec) <=> RecordAccepted(w, seen, rec)
         /\ Pending(v) = Pending(w)
<1>1. Pending(v) = Pending(w)
  BY DEF Alike, Pending
<1>2. StartedCalls(v) = StartedCalls(w)
  BY DEF Alike, StartedCalls, SettledCalls
<1>3. /\ AttemptAccepted(v, rec) = AttemptAccepted(w, rec)
      /\ ToolCallAccepted(v, rec) = ToolCallAccepted(w, rec)
      /\ StepAccepted(v, rec) = StepAccepted(w, rec)
  BY <1>2 DEF Alike, AttemptAccepted, ToolCallAccepted, StepAccepted
<1>4. /\ EnqueueAccepted(v, seen, rec) = EnqueueAccepted(w, seen, rec)
      /\ SpawnAccepted(v, rec) = SpawnAccepted(w, rec)
      /\ SuspendAccepted(v, rec) = SuspendAccepted(w, rec)
  BY DEF Alike, EnqueueAccepted, SpawnAccepted, SuspendAccepted
<1>5. /\ CompactionAccepted(v, rec) = CompactionAccepted(w, rec)
      /\ CurrencyAccepted(v, rec) = CurrencyAccepted(w, rec)
  BY DEF Alike, CompactionAccepted, CurrencyAccepted
<1>6. RecordAccepted(v, seen, rec) <=> RecordAccepted(w, seen, rec)
  BY <1>3, <1>4, <1>5 DEF RecordAccepted, Alike
<1> QED BY <1>1, <1>6
-----------------------------------------------------------------------------

\* A queue in which no entry has two places.
Distinct(s) == \A i, k \in DOMAIN s : s[i] = s[k] => i = k

\* _remove_entry takes exactly the entry it is given out of a queue and keeps
\* the order of the rest.
LEMMA RemovedFromQueue ==
  ASSUME NEW S, NEW queue \in Seq(S), Distinct(queue), NEW entry
  PROVE  /\ Removed(queue, entry) \in Seq(S)
         /\ Distinct(Removed(queue, entry))
         /\ InSeq(Removed(queue, entry)) = InSeq(queue) \ {entry}
<1>1. CASE entry \notin InSeq(queue)
  BY <1>1 DEF Removed, InSeq
<1>2. CASE entry \in InSeq(queue)
  <2> DEFINE at == CHOOSE i \in DOMAIN queue : queue[i] = entry
             rest == [i \in 1..Len(queue) - 1 |-> queue[IF i < at THEN i ELSE i + 1]]
  <2>1. at \in 1..Len(queue) /\ queue[at] = entry
    BY <1>2 DEF InSeq
  <2>2. Removed(queue, entry) = rest
    BY <1>2 DEF Removed
  <2> HIDE DEF at
  <2>3. rest \in Seq(S) /\ Len(rest) = Len(queue) - 1 /\ DOMAIN rest = 1..Len(queue) - 1
    BY <2>1
  <2>4. \A i \in 1..Len(queue) - 1 : rest[i] = queue[IF i < at THEN i ELSE i + 1]
    OBVIOUS
  <2> HIDE DEF rest
  <2>5. ASSUME NEW i \in DOMAIN rest, NEW k \in DOMAIN rest, rest[i] = rest[k]
        PROVE  i = k
    <3> DEFINE from(n) == IF n < at THEN n ELSE n + 1
    <3>1. from(i) \in DOMAIN queue /\ from(k) \in DOMAIN queue
      BY <2>1, <2>3
    <3>2. queue[from(i)] = queue[from(k)]
      BY <2>3, <2>4, <2>5
    <3>3. from(i) = from(k)
      <4> HIDE DEF from
      <4> QED BY <3>1, <3>2 DEF Distinct
    <3> QED BY <2>1, <2>3, <3>3
  <2>6. ASSUME NEW i \in DOMAIN rest
        PROVE  rest[i] \in InSeq(queue) \ {entry}
    BY <2>1, <2>3, <2>4 DEF InSeq, Distinct
  <2>7. ASSUME NEW e \in InSeq(queue) \ {entry}
        PROVE  \E i \in DOMAIN rest : rest[i] = e
    <3>1. PICK k \in 1..Len(queue) : queue[k] = e
      BY DEF InSeq
    <3>2. CASE k < at
      BY <2>1, <2>3, <2>4, <3>1, <3>2
    <3>3. CASE k > at
      <4>1. k - 1 \in DOMAIN rest /\ rest[k - 1] = queue[k]
        BY <2>1, <2>3, <2>4, <3>1, <3>3
      <4> QED BY <3>1, <4>1
    <3>4. k # at
      BY <2>1, <3>1
    <3> QED BY <2>1, <3>1, <3>2, <3>3, <3>4
  <2>8. InSeq(rest) = InSeq(queue) \ {entry}
    BY <2>6, <2>7 DEF InSeq
  <2> QED BY <2>2, <2>3, <2>5, <2>8 DEF Distinct
<1> QED BY <1>1, <1>2

\* Enqueueing an entry that is not there adds exactly that entry.
LEMMA AppendedToQueue ==
  ASSUME NEW S, NEW queue \in Seq(S), Distinct(queue), NEW entry \in S, entry \notin InSeq(queue)
  PROVE  /\ Append(queue, entry) \in Seq(S)
         /\ Distinct(Append(queue, entry))
         /\ InSeq(Append(queue, entry)) = InSeq(queue) \cup {entry}
<1> DEFINE t == Append(queue, entry)
<1>1. /\ t \in Seq(S) /\ DOMAIN t = 1..Len(queue) + 1 /\ DOMAIN queue = 1..Len(queue)
      /\ Len(queue) \in Nat
      /\ t[Len(queue) + 1] = entry /\ \A i \in 1..Len(queue) : t[i] = queue[i]
  OBVIOUS
<1> HIDE DEF t
<1>2. Distinct(t)
  BY <1>1 DEF Distinct, InSeq
<1>3. InSeq(t) = InSeq(queue) \cup {entry}
  <2>1. \A i \in DOMAIN t : i \in DOMAIN queue \/ i = Len(queue) + 1
    BY <1>1
  <2>2. \A i \in DOMAIN queue : i \in DOMAIN t
    BY <1>1
  <2> QED BY <1>1, <2>1, <2>2 DEF InSeq
<1> QED BY <1>1, <1>2, <1>3 DEF t
-----------------------------------------------------------------------------

\* What a parent's log says of a child.
ChildStates == {"unknown", "alive", "finished"}

\* What the records of the program are, as far as the fold depends on it.
WellFormed(rec) ==
  /\ rec.type \in {"tool_call_started", "tool_call_finished"} => rec.call \in Calls
  /\ rec.type \in {"step_started", "step_completed"} => rec.step \in Steps
  /\ rec.type = "step_completed" => rec.will_retry \in BOOLEAN
  /\ rec.type = "queue_enqueued" => rec.queue \in Queues /\ rec.entry \in Entries
  /\ rec.type \in {"subagent_spawned", "subagent_finished"} => rec.child \in Children

\* The parts of a well-formed state.
StepsOK(steps) ==
  /\ DOMAIN steps = Steps
  /\ \A s \in Steps : /\ DOMAIN steps[s] = DOMAIN UnseenStep
                      /\ steps[s].completed \in BOOLEAN
                      /\ steps[s].will_retry \in BOOLEAN

PendingOK(pending) ==
  /\ pending \in [Queues -> Seq(Entries)]
  /\ \A q \in Queues : Distinct(pending[q])

ViewOK(v) ==
  /\ DOMAIN v = DOMAIN EmptyView
  /\ v.head_seq \in Nat /\ v.turn \in Nat /\ v.abort_seq \in Nat
  /\ v.settled \in BOOLEAN /\ v.suspended \in BOOLEAN /\ v.turn_open \in BOOLEAN
  /\ v.tool_results \in Seq(Calls) /\ v.open_tool_calls \subseteq Calls
  /\ v.children \in [Children -> ChildStates]
  /\ StepsOK(v.steps)
  /\ PendingOK(v.pending)

\* What is pending is what was enqueued and neither withdrawn nor delivered.
SeenOK(f) ==
  /\ DOMAIN f.seen = {"enqueued", "cancelled", "consumed"}
  /\ f.seen.cancelled \cup f.seen.consumed \subseteq f.seen.enqueued
  /\ Pending(f.view) = f.seen.enqueued \ (f.seen.cancelled \cup f.seen.consumed)

\* The invariant of the fold.
FoldOK(f) == f.sound = TRUE /\ ViewOK(f.view) /\ SeenOK(f)

\* A record that is accepted is folded by the branch of its kind.
LEMMA FoldedAccepted ==
  ASSUME NEW f, NEW rec, f.sound = TRUE, Accepts(f, rec)
  PROVE  LET g == Folded(f, rec) IN
         g.sound = TRUE /\ g.view = NextView(f.view, rec) /\ g.seen = SeenAfter(f.seen, rec)
BY DEF Folded, NextView

\* A fold that is still sound after a record was sound before it and accepted
\* the record: a CorruptLog is never recovered from.
LEMMA FoldedSound ==
  ASSUME NEW f, NEW rec, DOMAIN f = {"view", "seen", "sound"}
  PROVE  /\ DOMAIN Folded(f, rec) = {"view", "seen", "sound"}
         /\ Folded(f, rec).sound = TRUE => f.sound = TRUE /\ Accepts(f, rec)
BY DEF Folded

\* The queues stay duplicate-free, and what is pending changes by the one entry
\* a record enqueues, withdraws or delivers.
LEMMA PendingAfterOK ==
  ASSUME NEW v, PendingOK(v.pending), NEW w, NEW rec, w.pending = PendingAfter(v, rec),
         WellFormed(rec),
         rec.type = "queue_enqueued" => rec.entry \notin Pending(v)
  PROVE  /\ PendingOK(w.pending)
         /\ Pending(w) =
              CASE rec.type = "queue_enqueued" -> Pending(v) \cup {rec.entry}
                [] rec.type \in {"queue_cancelled", "queue_consumed"} -> Pending(v) \ {rec.entry}
                [] OTHER -> Pending(v)
<1>1. CASE rec.type = "queue_enqueued"
  <2>1. rec.queue \in Queues /\ rec.entry \in Entries
    BY <1>1 DEF WellFormed
  <2>2. w.pending = [v.pending EXCEPT ![rec.queue] = Append(v.pending[rec.queue], rec.entry)]
    BY <1>1 DEF PendingAfter
  <2>3. rec.entry \notin InSeq(v.pending[rec.queue])
    BY <1>1, <2>1 DEF Pending
  <2> DEFINE t == Append(v.pending[rec.queue], rec.entry)
  <2>4. t \in Seq(Entries) /\ Distinct(t) /\ InSeq(t) = InSeq(v.pending[rec.queue]) \cup {rec.entry}
    BY <2>1, <2>3, AppendedToQueue DEF PendingOK
  <2> HIDE DEF t
  <2>5. w.pending = [v.pending EXCEPT ![rec.queue] = t]
    BY <2>2 DEF t
  <2>6. PendingOK(w.pending)
    BY <2>1, <2>4, <2>5 DEF PendingOK
  <2>7. \A q \in Queues : InSeq(w.pending[q]) =
           IF q = rec.queue THEN InSeq(v.pending[q]) \cup {rec.entry} ELSE InSeq(v.pending[q])
    BY <2>1, <2>4, <2>5 DEF PendingOK
  <2>8. Pending(w) = Pending(v) \cup {rec.entry}
    <3>1. ASSUME NEW e \in Pending(w) PROVE e \in Pending(v) \cup {rec.entry}
      BY <2>7, ZenonT(60) DEF Pending
    <3>2. ASSUME NEW e \in Pending(v) PROVE e \in Pending(w)
      BY <2>7 DEF Pending
    <3>3. rec.entry \in Pending(w)
      BY <2>1, <2>7 DEF Pending
    <3> QED BY <3>1, <3>2, <3>3
  <2> QED BY <1>1, <2>6, <2>8
<1>2. CASE rec.type \in {"queue_cancelled", "queue_consumed"}
  <2>1. w.pending = [q \in Queues |-> Removed(v.pending[q], rec.entry)]
    BY <1>2 DEF PendingAfter
  <2>2. ASSUME NEW q \in Queues
        PROVE  /\ w.pending[q] \in Seq(Entries) /\ Distinct(w.pending[q])
               /\ InSeq(w.pending[q]) = InSeq(v.pending[q]) \ {rec.entry}
    BY <2>1, RemovedFromQueue DEF PendingOK
  <2>3. PendingOK(w.pending)
    BY <2>1, <2>2 DEF PendingOK
  <2>4. \A e : /\ e \in Pending(w) <=> \E q \in Queues : e \in InSeq(w.pending[q])
               /\ e \in Pending(v) <=> \E q \in Queues : e \in InSeq(v.pending[q])
    BY DEF Pending
  <2>5. Pending(w) = Pending(v) \ {rec.entry}
    <3>1. ASSUME NEW e PROVE e \in Pending(w) <=> e \in Pending(v) /\ e # rec.entry
      <4>1. \A q \in Queues : e \in InSeq(w.pending[q])
                              <=> e \in InSeq(v.pending[q]) /\ e # rec.entry
        BY <2>2
      <4> QED BY <2>4, <4>1
    <3> QED BY <3>1
  <2> QED BY <1>2, <2>3, <2>5
<1>3. CASE rec.type \notin {"queue_enqueued", "queue_cancelled", "queue_consumed"}
  <2>1. w.pending = v.pending
    BY <1>3 DEF PendingAfter
  <2> QED BY <1>3, <2>1 DEF Pending
<1> QED BY <1>1, <1>2, <1>3

\* An accepted record takes a well-formed state to a well-formed state.
LEMMA ViewStaysOK ==
  ASSUME NEW v, ViewOK(v), NEW seen, NEW rec, WellFormed(rec), RecordAccepted(v, seen, rec),
         rec.type = "queue_enqueued" => rec.entry \notin Pending(v)
  PROVE  ViewOK(NextView(v, rec))
<1> DEFINE w == NextView(v, rec)
<1>1. Effect(v, rec, w)
  BY NextViewFields DEF ViewOK
<1> HIDE DEF w
<1>2. PendingOK(w.pending)
  BY <1>1, PendingAfterOK DEF ViewOK, Effect
<1>3. StepsOK(w.steps)
  <2>1. w.steps = StepsAfter(v, rec)
    BY <1>1 DEF Effect
  <2>2. CASE rec.type = "step_started"
    <3> DEFINE u == [UnseenStep EXCEPT !.attempt_number = rec.attempt_number,
                                       !.started_seq = v.head_seq + 1]
    <3>1. w.steps = [v.steps EXCEPT ![rec.step] = u]
      BY <2>1, <2>2 DEF StepsAfter
    <3>2. DOMAIN u = DOMAIN UnseenStep /\ u.completed \in BOOLEAN /\ u.will_retry \in BOOLEAN
      BY DEF UnseenStep
    <3> HIDE DEF u
    <3> QED BY <2>2, <3>1, <3>2 DEF ViewOK, StepsOK
  <2>3. CASE rec.type = "step_completed"
    <3> DEFINE u == [v.steps[rec.step] EXCEPT !.completed = TRUE, !.will_retry = rec.will_retry,
                       !.outcome = rec.outcome, !.completed_seq = v.head_seq + 1]
    <3>1. w.steps = [v.steps EXCEPT ![rec.step] = u]
      BY <2>1, <2>3 DEF StepsAfter
    <3>2. rec.step \in Steps /\ rec.will_retry \in BOOLEAN
      BY <2>3 DEF WellFormed
    <3>3. DOMAIN u = DOMAIN UnseenStep /\ u.completed \in BOOLEAN /\ u.will_retry \in BOOLEAN
      BY <3>2 DEF ViewOK, StepsOK, UnseenStep
    <3> HIDE DEF u
    <3> QED BY <3>1, <3>2, <3>3 DEF ViewOK, StepsOK
  <2>4. CASE rec.type \notin {"step_started", "step_completed"}
    BY <2>1, <2>4 DEF ViewOK, StepsAfter
  <2> QED BY <2>2, <2>3, <2>4
<1>4. w.children \in [Children -> ChildStates]
  BY <1>1 DEF Effect, ViewOK, ChildrenAfter, WellFormed, ChildStates
<1>5. w.tool_results \in Seq(Calls) /\ w.open_tool_calls \subseteq Calls
  BY <1>1 DEF Effect, ViewOK, OpenCallsAfter, WellFormed
<1>6. w.turn \in Nat /\ w.abort_seq \in Nat /\ w.head_seq \in Nat
  BY <1>1 DEF Effect, ViewOK, RecordAccepted
<1>7. w.settled \in BOOLEAN /\ w.suspended \in BOOLEAN /\ w.turn_open \in BOOLEAN
  BY <1>1 DEF Effect, ViewOK, SuspendedAfter, TurnOpenAfter
<1> QED BY <1>1, <1>2, <1>3, <1>4, <1>5, <1>6, <1>7 DEF ViewOK, Effect, w

\* An accepted record keeps the fold's invariant: what is pending is what was
\* enqueued and neither withdrawn nor delivered (pending_queues against the
\* locals of reduce).
LEMMA FoldStaysOK ==
  ASSUME NEW f, FoldOK(f), NEW rec, WellFormed(rec), Accepts(f, rec)
  PROVE  FoldOK(Folded(f, rec))
<1> DEFINE g == Folded(f, rec)
<1>1. g.sound = TRUE /\ g.view = NextView(f.view, rec) /\ g.seen = SeenAfter(f.seen, rec)
  BY FoldedAccepted DEF FoldOK
<1> HIDE DEF g
<1>2. RecordAccepted(f.view, f.seen, rec)
  BY DEF Accepts
<1>3. rec.type = "queue_enqueued" => rec.entry \notin f.seen.enqueued
  BY <1>2 DEF RecordAccepted, EnqueueAccepted
<1>4. rec.type \in {"queue_cancelled", "queue_consumed"}
        => rec.entry \in f.seen.enqueued \ (f.seen.cancelled \cup f.seen.consumed)
  BY <1>2 DEF RecordAccepted
<1>5. rec.type = "queue_enqueued" => rec.entry \notin Pending(f.view)
  BY <1>3 DEF FoldOK, SeenOK
<1>6. ViewOK(g.view)
  BY <1>1, <1>2, <1>5, ViewStaysOK DEF FoldOK
<1>7. Pending(g.view) =
        CASE rec.type = "queue_enqueued" -> Pending(f.view) \cup {rec.entry}
          [] rec.type \in {"queue_cancelled", "queue_consumed"} -> Pending(f.view) \ {rec.entry}
          [] OTHER -> Pending(f.view)
  <2>1. DOMAIN f.view = DOMAIN EmptyView
    BY DEF FoldOK, ViewOK
  <2>2. Effect(f.view, rec, g.view)
    BY <1>1, <2>1, NextViewFields
  <2>3. g.view.pending = PendingAfter(f.view, rec)
    BY <2>2 DEF Effect
  <2> QED BY <1>5, <2>3, PendingAfterOK DEF FoldOK, ViewOK
<1>8. SeenOK(g)
  BY <1>1, <1>3, <1>4, <1>7 DEF FoldOK, SeenOK, SeenAfter
<1> QED BY <1>1, <1>6, <1>8 DEF FoldOK, g

\* The state reduce starts from satisfies the invariant.
LEMMA EmptyFoldOK == FoldOK(EmptyFold) /\ EmptyFold.view = EmptyView
<1>1. EmptyFold.view = EmptyView /\ EmptyFold.sound = TRUE /\ EmptyFold.seen = SeenFrom(EmptyView)
  BY DEF EmptyFold, Started
<1>2. Pending(EmptyView) = {}
  BY DEF Pending, EmptyView, InSeq
<1>3. PendingOK(EmptyView.pending)
  BY DEF EmptyView, PendingOK, Distinct
<1>4. StepsOK(EmptyView.steps)
  BY DEF EmptyView, StepsOK, UnseenStep
<1>5. EmptyView.children \in [Children -> ChildStates]
  BY DEF EmptyView, ChildStates
<1>6. ViewOK(EmptyView)
  BY <1>3, <1>4, <1>5 DEF ViewOK, EmptyView
<1> QED BY <1>1, <1>2, <1>6 DEF FoldOK, SeenOK, SeenFrom

-----------------------------------------------------------------------------

\* The fold of the first n records of a log.
Prefix(s, n) == FoldFrom(EmptyFold, SubSeq(s, 1, n))

\* The fold of the prefix of length 0.
LEMMA PrefixNone ==
  ASSUME NEW S, NEW s \in Seq(S)
  PROVE  Prefix(s, 0) = EmptyFold
BY FoldNone DEF Prefix

\* The fold of the longest prefix is reduce of the log.
LEMMA PrefixAll ==
  ASSUME NEW S, NEW s \in Seq(S)
  PROVE  Prefix(s, Len(s)) = Reduced(s)
<1>1. SubSeq(s, 1, Len(s)) = s
  OBVIOUS
<1> QED BY <1>1 DEF Prefix, Reduced

\* Each prefix's fold is one step from the one before.
LEMMA PrefixStep ==
  ASSUME NEW S, NEW s \in Seq(S), NEW n \in 1..Len(s)
  PROVE  Prefix(s, n) = Folded(Prefix(s, n - 1), s[n])
BY FoldNext DEF Prefix

\* Appending to a log changes no fold of its prefixes.
LEMMA PrefixOfAppend ==
  ASSUME NEW S, NEW s \in Seq(S), NEW r, NEW n \in 0..Len(s)
  PROVE  Prefix(Append(s, r), n) = Prefix(s, n)
<1>1. SubSeq(Append(s, r), 1, n) = SubSeq(s, 1, n)
  OBVIOUS
<1> QED BY <1>1 DEF Prefix

\* Every fold is a record of a view, the locals and the verdict.
LEMMA PrefixFields ==
  ASSUME NEW S, NEW s \in Seq(S), NEW n \in 0..Len(s)
  PROVE  DOMAIN Prefix(s, n) = {"view", "seen", "sound"}
<1> DEFINE P(i) == DOMAIN Prefix(s, i) = {"view", "seen", "sound"}
           T == {i \in 0..Len(s) : ~P(i)}
<1>1. SUFFICES ASSUME T # {} PROVE FALSE
  OBVIOUS
<1>2. PICK i \in T : \A y \in T : i <= y
  <2>1. T \in SUBSET Nat
    OBVIOUS
  <2> HIDE DEF T
  <2> QED BY <1>1, <2>1, LeastNat
<1>3. i # 0
  BY <1>2, PrefixNone DEF EmptyFold, Started
<1>4. i \in 1..Len(s) /\ i - 1 \in 0..Len(s) /\ i - 1 \notin T
  BY <1>2, <1>3
<1>5. P(i - 1)
  BY <1>4
<1>6. P(i)
  <2>1. Prefix(s, i) = Folded(Prefix(s, i - 1), s[i])
    BY <1>4, PrefixStep
  <2> QED BY <1>5, <2>1, FoldedSound
<1> QED BY <1>2, <1>6

\* In a log that reduce accepts, every prefix is accepted too, its state is
\* well formed and its head is its length: a reader that stops anywhere in the
\* log (read_from, a refresh) holds a legal state.
LEMMA SoundLog ==
  ASSUME NEW S, NEW s \in Seq(S), \A i \in 1..Len(s) : WellFormed(s[i]), Reduced(s).sound = TRUE
  PROVE  \A n \in 0..Len(s) : FoldOK(Prefix(s, n)) /\ Prefix(s, n).view.head_seq = n
<1>1. Len(s) \in Nat
  OBVIOUS
<1>2. ASSUME NEW n \in 0..Len(s) PROVE Prefix(s, n).sound = TRUE
  <2> DEFINE T == {d \in 0..Len(s) : ~(Prefix(s, Len(s) - d).sound = TRUE)}
  <2>1. SUFFICES ASSUME T # {} PROVE FALSE
    <3>1. Len(s) - n \in 0..Len(s) /\ Len(s) - (Len(s) - n) = n
      BY <1>1
    <3> QED BY <2>1, <3>1
  <2>2. PICK d \in T : \A y \in T : d <= y
    <3>1. T \in SUBSET Nat
      BY <1>1
    <3> HIDE DEF T
    <3> QED BY <2>1, <3>1, LeastNat
  <2>3. d # 0
    BY <2>2, <1>1, PrefixAll
  <2>4. d - 1 \in 0..Len(s) /\ d - 1 \notin T /\ Len(s) - (d - 1) \in 1..Len(s)
        /\ Len(s) - (d - 1) - 1 = Len(s) - d
    BY <2>2, <2>3, <1>1
  <2>5. Prefix(s, Len(s) - (d - 1)).sound = TRUE
    BY <2>4
  <2>6. Prefix(s, Len(s) - (d - 1)) = Folded(Prefix(s, Len(s) - d), s[Len(s) - (d - 1)])
    BY <2>4, PrefixStep
  <2>7. Len(s) - d \in 0..Len(s)
    BY <2>2, <1>1
  <2>8. DOMAIN Prefix(s, Len(s) - d) = {"view", "seen", "sound"}
    BY <2>7, PrefixFields
  <2>9. Folded(Prefix(s, Len(s) - d), s[Len(s) - (d - 1)]).sound = TRUE
    BY <2>5, <2>6
  <2>10. Prefix(s, Len(s) - d).sound = TRUE
    BY <2>8, <2>9, FoldedSound
  <2> QED BY <2>2, <2>10
<1> DEFINE T == {n \in 0..Len(s) : ~(FoldOK(Prefix(s, n)) /\ Prefix(s, n).view.head_seq = n)}
<1>3. SUFFICES ASSUME T # {} PROVE FALSE
  OBVIOUS
<1>4. PICK n \in T : \A y \in T : n <= y
  <2>1. T \in SUBSET Nat
    BY <1>1
  <2> HIDE DEF T
  <2> QED BY <1>3, <2>1, LeastNat
<1>5. n # 0
  BY <1>4, PrefixNone, EmptyFoldOK DEF EmptyView
<1>6. n \in 1..Len(s) /\ n - 1 \in 0..Len(s) /\ n - 1 \notin T
  BY <1>4, <1>5, <1>1
<1>7. FoldOK(Prefix(s, n - 1)) /\ Prefix(s, n - 1).view.head_seq = n - 1
  BY <1>6
<1>8. Prefix(s, n) = Folded(Prefix(s, n - 1), s[n])
  BY <1>6, PrefixStep
<1>9. Prefix(s, n - 1).sound = TRUE /\ Accepts(Prefix(s, n - 1), s[n])
  BY <1>2, <1>6, <1>8, PrefixFields, FoldedSound
<1>10. FoldOK(Prefix(s, n))
  BY <1>6, <1>7, <1>8, <1>9, FoldStaysOK
<1>11. Prefix(s, n).view = NextView(Prefix(s, n - 1).view, s[n])
  <2> DEFINE f == Prefix(s, n - 1)
  <2> HIDE DEF f
  <2>1. Folded(f, s[n]).view = NextView(f.view, s[n])
    BY <1>9, FoldedAccepted DEF f
  <2> QED BY <1>8, <2>1 DEF f
<1>12. Prefix(s, n).view.head_seq = n
  <2>1. DOMAIN Prefix(s, n - 1).view = DOMAIN EmptyView
    BY <1>7 DEF FoldOK, ViewOK
  <2>2. Effect(Prefix(s, n - 1).view, s[n], Prefix(s, n).view)
    BY <1>11, <2>1, NextViewFields
  <2> QED BY <1>6, <1>7, <2>2 DEF Effect
<1> QED BY <1>4, <1>10, <1>12

-----------------------------------------------------------------------------

\* A continued fold g against the fold f of the whole log: alike, and knowing
\* no more entry ids.
Follows(g, f) ==
  /\ FoldOK(g) /\ FoldOK(f)
  /\ Alike(g.view, f.view)
  /\ g.seen.enqueued \subseteq f.seen.enqueued

\* A state like a well-formed one is well formed.
LEMMA AlikeOK ==
  ASSUME NEW v, NEW w, Alike(v, w), ViewOK(w)
  PROVE  ViewOK(v)
BY DEF Alike, ViewOK

\* A Journal that continues from its own state follows the fold of the log.
LEMMA StartedFollows ==
  ASSUME NEW f, FoldOK(f), NEW v, Alike(v, f.view)
  PROVE  Follows(Started(v), f)
<1>1. Started(v).view = v /\ Started(v).sound /\ Started(v).seen = SeenFrom(v)
  BY DEF Started
<1>2. ViewOK(v)
  BY AlikeOK DEF FoldOK
<1>3. Pending(v) = Pending(f.view)
  BY AlikeAccepts
<1> QED BY <1>1, <1>2, <1>3 DEF Follows, FoldOK, SeenOK, SeenFrom

\* A continued fold accepts what the fold of the log accepts.
LEMMA FollowsAccepts ==
  ASSUME NEW g, NEW f, Follows(g, f), NEW rec, Accepts(f, rec)
  PROVE  Accepts(g, rec)
<1>1. RecordAccepted(f.view, f.seen, rec) /\ (f.view.settled => rec.type = "run_settled")
  BY DEF Accepts
<1>2. RecordAccepted(g.view, f.seen, rec)
  BY <1>1, AlikeAccepts DEF Follows
<1>3. Pending(g.view) = Pending(f.view)
  BY AlikeAccepts DEF Follows
<1>4. g.seen.enqueued \ (g.seen.cancelled \cup g.seen.consumed)
        = f.seen.enqueued \ (f.seen.cancelled \cup f.seen.consumed)
  BY <1>3 DEF Follows, FoldOK, SeenOK
<1>5. EnqueueAccepted(g.view, f.seen, rec) => EnqueueAccepted(g.view, g.seen, rec)
  BY DEF EnqueueAccepted, Follows
<1>6. RecordAccepted(g.view, g.seen, rec)
  BY <1>2, <1>4, <1>5 DEF RecordAccepted
<1>7. g.view.settled = f.view.settled
  BY DEF Follows, Alike
<1> QED BY <1>1, <1>6, <1>7 DEF Accepts

\* The other way round a continued fold, which remembers the pending entries
\* only, may accept an entry id that was used before; for an id that is new to
\* the log it accepts what the fold of the log accepts.
LEMMA FollowedAccepts ==
  ASSUME NEW g, NEW f, Follows(g, f), NEW rec, Accepts(g, rec),
         rec.type = "queue_enqueued" => rec.entry \notin f.seen.enqueued
  PROVE  Accepts(f, rec)
<1>1. RecordAccepted(g.view, g.seen, rec) /\ (g.view.settled => rec.type = "run_settled")
  BY DEF Accepts
<1>2. RecordAccepted(f.view, g.seen, rec)
  BY <1>1, AlikeAccepts DEF Follows
<1>3. Pending(g.view) = Pending(f.view)
  BY AlikeAccepts DEF Follows
<1>4. g.seen.enqueued \ (g.seen.cancelled \cup g.seen.consumed)
        = f.seen.enqueued \ (f.seen.cancelled \cup f.seen.consumed)
  BY <1>3 DEF Follows, FoldOK, SeenOK
<1>5. rec.type = "queue_enqueued" /\ EnqueueAccepted(f.view, g.seen, rec)
        => EnqueueAccepted(f.view, f.seen, rec)
  BY DEF EnqueueAccepted
<1>6. RecordAccepted(f.view, f.seen, rec)
  BY <1>2, <1>4, <1>5 DEF RecordAccepted
<1>7. g.view.settled = f.view.settled
  BY DEF Follows, Alike
<1> QED BY <1>1, <1>6, <1>7 DEF Accepts

\* A continued fold and the fold of the log stay together over a record.
LEMMA FollowsStep ==
  ASSUME NEW g, NEW f, Follows(g, f), NEW rec, WellFormed(rec), Accepts(f, rec)
  PROVE  Follows(Folded(g, rec), Folded(f, rec))
<1>1. Accepts(g, rec)
  BY FollowsAccepts
<1>2. FoldOK(Folded(g, rec)) /\ FoldOK(Folded(f, rec))
  BY <1>1, FoldStaysOK DEF Follows
<1>3. /\ Folded(g, rec).view = NextView(g.view, rec) /\ Folded(g, rec).seen = SeenAfter(g.seen, rec)
      /\ Folded(f, rec).view = NextView(f.view, rec) /\ Folded(f, rec).seen = SeenAfter(f.seen, rec)
  BY <1>1, FoldedAccepted DEF Follows, FoldOK
<1>4. Alike(NextView(g.view, rec), NextView(f.view, rec))
  BY AlikeAfterRecord DEF Follows
<1>5. SeenAfter(g.seen, rec).enqueued \subseteq SeenAfter(f.seen, rec).enqueued
  BY DEF SeenAfter, Follows, FoldOK, SeenOK
<1> QED BY <1>2, <1>3, <1>4, <1>5 DEF Follows

\* A well-formed state is like itself.
LEMMA AlikeItself ==
  ASSUME NEW v, ViewOK(v)
  PROVE  Alike(v, v)
BY DEF Alike, ViewOK

\* reduce(records, prior): continuing from the state at any position h of a log
\* of any length arrives at the state a fresh reader derives from the whole
\* log, in all but the fields _continue_from shares with its argument.
LEMMA ContinuedFold ==
  ASSUME NEW S, NEW s \in Seq(S), \A i \in 1..Len(s) : WellFormed(s[i]), Reduced(s).sound = TRUE,
         NEW h \in 0..Len(s), NEW v, Alike(v, Prefix(s, h).view)
  PROVE  Follows(ReducedFrom(v, SubSeq(s, h + 1, Len(s))), Reduced(s))
<1> DEFINE t == SubSeq(s, h + 1, Len(s))
<1>1. /\ t \in Seq(S) /\ Len(t) = Len(s) - h /\ Len(s) \in Nat /\ h \in Nat /\ Len(t) \in Nat
      /\ \A i \in 1..Len(t) : t[i] = s[h + i]
  OBVIOUS
<1> HIDE DEF t
<1> DEFINE P(i) == Follows(FoldFrom(Started(v), SubSeq(t, 1, i)), Prefix(s, h + i))
           T == {i \in 0..Len(t) : ~P(i)}
<1>2. SUFFICES ASSUME T # {} PROVE FALSE
  <2>1. P(Len(t))
    BY <1>1, <1>2
  <2>2. SubSeq(t, 1, Len(t)) = t /\ h + Len(t) = Len(s)
    BY <1>1
  <2> QED BY <2>1, <2>2, PrefixAll DEF ReducedFrom, t
<1>3. PICK i \in T : \A y \in T : i <= y
  <2>1. T \in SUBSET Nat
    BY <1>1
  <2> HIDE DEF T
  <2> QED BY <1>2, <2>1, LeastNat
<1>4. \A n \in 0..Len(s) : FoldOK(Prefix(s, n))
  BY SoundLog
<1>5. i # 0
  <2>1. P(0)
    <3>1. FoldFrom(Started(v), SubSeq(t, 1, 0)) = Started(v)
      BY <1>1, FoldNone
    <3>2. h + 0 = h
      BY <1>1
    <3> QED BY <1>4, <3>1, <3>2, StartedFollows
  <2> QED BY <1>3, <2>1
<1>6. i \in 1..Len(t) /\ i - 1 \in 0..Len(t) /\ i - 1 \notin T
  BY <1>1, <1>3, <1>5
<1>7. P(i - 1)
  BY <1>6
<1>8. FoldFrom(Started(v), SubSeq(t, 1, i)) = Folded(FoldFrom(Started(v), SubSeq(t, 1, i - 1)), t[i])
  BY <1>1, <1>6, FoldNext
<1>9. h + i \in 1..Len(s) /\ h + i - 1 = h + (i - 1) /\ t[i] = s[h + i]
  BY <1>1, <1>6
<1>10. Prefix(s, h + i) = Folded(Prefix(s, h + (i - 1)), t[i])
  BY <1>9, PrefixStep
<1>11. Accepts(Prefix(s, h + (i - 1)), t[i])
  <2>1. Prefix(s, h + i).sound = TRUE
    BY <1>1, <1>4, <1>9 DEF FoldOK
  <2>2. h + (i - 1) \in 0..Len(s)
    BY <1>1, <1>6
  <2> QED BY <1>10, <2>1, <2>2, PrefixFields, FoldedSound
<1>12. WellFormed(t[i])
  BY <1>9
<1>13. P(i)
  BY <1>7, <1>8, <1>10, <1>11, <1>12, FollowsStep
<1> QED BY <1>3, <1>13

-----------------------------------------------------------------------------

\* The records that name a turn.
TurnRecord == {"turn_started", "model_call_started", "model_call_finished", "model_call_failed"}

\* What a record leaves in the fold, for good.
Remembers(f, rec) ==
  LET v == f.view IN
  /\ rec.type = "abort_requested" => v.abort_seq > 0
  /\ rec.type = "queue_enqueued" => rec.entry \in f.seen.enqueued
  /\ rec.type \in {"queue_cancelled", "queue_consumed"} =>
       rec.entry \in f.seen.cancelled \cup f.seen.consumed
  /\ rec.type = "subagent_spawned" => v.children[rec.child] # "unknown"
  /\ rec.type = "subagent_finished" => v.children[rec.child] = "finished"
  /\ rec.type = "tool_call_started" => rec.call \in StartedCalls(v)
  /\ rec.type = "tool_call_finished" => rec.call \in SettledCalls(v) \ v.open_tool_calls
  /\ rec.type = "step_completed" /\ ~rec.will_retry =>
       v.steps[rec.step].completed /\ ~v.steps[rec.step].will_retry
  /\ rec.type \in TurnRecord => rec.turn \in Nat /\ rec.turn <= v.turn

\* How the answered and the open tool calls change with a record.
LEMMA CallsAfter ==
  ASSUME NEW v, ViewOK(v), NEW rec, WellFormed(rec), NEW w, Effect(v, rec, w)
  PROVE  /\ SettledCalls(w) = SettledCalls(v) \cup
              (IF rec.type = "tool_call_finished" THEN {rec.call} ELSE {})
         /\ w.open_tool_calls = OpenCallsAfter(v, rec)
<1>1. CASE rec.type = "tool_call_finished"
  <2> DEFINE s == v.tool_results
             t == Append(s, rec.call)
  <2>1. /\ DOMAIN t = 1..Len(s) + 1 /\ DOMAIN s = 1..Len(s) /\ Len(s) \in Nat
        /\ t[Len(s) + 1] = rec.call /\ \A i \in 1..Len(s) : t[i] = s[i]
    BY <1>1 DEF ViewOK, WellFormed
  <2> HIDE DEF t
  <2>2. ASSUME NEW c PROVE c \in InSeq(t) <=> c \in InSeq(s) \/ c = rec.call
    <3>1. \A i \in 1..Len(s) + 1 : i \in 1..Len(s) \/ i = Len(s) + 1
      BY <2>1
    <3>2. \A i \in 1..Len(s) : i \in 1..Len(s) + 1
      BY <2>1
    <3>3. Len(s) + 1 \in 1..Len(s) + 1
      BY <2>1
    <3> QED BY <2>1, <3>1, <3>2, <3>3 DEF InSeq
  <2>3. w.tool_results = t
    BY <1>1 DEF Effect, t
  <2> QED BY <1>1, <2>2, <2>3 DEF SettledCalls, Effect
<1>2. CASE rec.type # "tool_call_finished"
  BY <1>2 DEF Effect, SettledCalls
<1> QED BY <1>1, <1>2

\* What a record leaves in the fold, no later accepted record takes away.
LEMMA RemembersOn ==
  ASSUME NEW f, FoldOK(f), NEW rec, WellFormed(rec), Accepts(f, rec),
         NEW old, WellFormed(old), Remembers(f, old) \/ old = rec
  PROVE  Remembers(Folded(f, rec), old)
<1> DEFINE g == Folded(f, rec)
           v == f.view
           w == g.view
<1>1. w = NextView(v, rec) /\ g.seen = SeenAfter(f.seen, rec)
  BY FoldedAccepted DEF FoldOK
<1>2. Effect(v, rec, w)
  BY <1>1, NextViewFields DEF FoldOK, ViewOK
<1>3. RecordAccepted(v, f.seen, rec)
  BY DEF Accepts
<1>4. DOMAIN f.seen = {"enqueued", "cancelled", "consumed"}
  BY DEF FoldOK, SeenOK
<1>5. ViewOK(v)
  BY DEF FoldOK
<1>6. /\ SettledCalls(w) = SettledCalls(v) \cup
              (IF rec.type = "tool_call_finished" THEN {rec.call} ELSE {})
      /\ w.open_tool_calls = OpenCallsAfter(v, rec)
  BY <1>2, <1>5, CallsAfter
<1> HIDE DEF g
<1> DEFINE R(n) == Remembers(f, old) \/ old = rec
<1>7. old.type = "abort_requested" => w.abort_seq > 0
  BY <1>2, <1>5 DEF Remembers, Effect, ViewOK
<1>8. old.type = "queue_enqueued" => old.entry \in g.seen.enqueued
  BY <1>1, <1>4 DEF Remembers, SeenAfter
<1>9. old.type \in {"queue_cancelled", "queue_consumed"} =>
       old.entry \in g.seen.cancelled \cup g.seen.consumed
  BY <1>1, <1>4 DEF Remembers, SeenAfter
<1>10. /\ old.type = "subagent_spawned" => w.children[old.child] # "unknown"
       /\ old.type = "subagent_finished" => w.children[old.child] = "finished"
  BY <1>2, <1>3, <1>5, SMTT(60) DEF Remembers, Effect, ChildrenAfter, ViewOK, WellFormed, RecordAccepted,
       SpawnAccepted
<1>11. old.type = "tool_call_started" => old.call \in StartedCalls(w)
  BY <1>6 DEF Remembers, StartedCalls, OpenCallsAfter
<1>12. old.type = "tool_call_finished" => old.call \in SettledCalls(w) \ w.open_tool_calls
  BY <1>3, <1>6 DEF Remembers, StartedCalls, OpenCallsAfter, RecordAccepted, ToolCallAccepted
<1>13. old.type = "step_completed" /\ ~old.will_retry =>
       w.steps[old.step].completed /\ ~w.steps[old.step].will_retry
  BY <1>2, <1>3, <1>5, SMTT(60) DEF Remembers, Effect, StepsAfter, ViewOK, StepsOK, WellFormed, RecordAccepted,
       StepAccepted, UnseenStep
<1>14. old.type \in TurnRecord => old.turn \in Nat /\ old.turn <= w.turn
  BY <1>2, <1>3, <1>5 DEF Remembers, Effect, ViewOK, RecordAccepted, TurnRecord
<1>15. Remembers(g, old)
  BY <1>7, <1>8, <1>9, <1>10, <1>11, <1>12, <1>13, <1>14 DEF Remembers
<1> QED BY <1>15 DEF g

\* What the fold knows, a record among the first n said.
Backed(f, s, n) ==
  LET v == f.view
      Said(type, i) == i \in 1..n /\ s[i].type = type
  IN
  /\ \A e \in f.seen.enqueued : \E i \in 1..n : Said("queue_enqueued", i) /\ s[i].entry = e
  /\ \A k \in Children : v.children[k] # "unknown" =>
       \E i \in 1..n : Said("subagent_spawned", i) /\ s[i].child = k
  /\ \A c \in StartedCalls(v) : \E i \in 1..n : Said("tool_call_started", i) /\ s[i].call = c
  /\ v.suspended => \E i \in 1..n : /\ Said("suspended", i)
                                    /\ \A k \in 1..n : Said("resumed", k) => k < i
  /\ v.model_call_open => v.turn_open
  /\ v.turn_open => \E i \in 1..n : /\ Said("turn_started", i) /\ s[i].turn = v.turn
                                    /\ \A k \in 1..n : Said("attempt_started", k) => k < i

\* What the fold knows after a record, that record or an earlier one said.
LEMMA BackedOn ==
  ASSUME NEW s, NEW n \in Nat \ {0}, NEW f, FoldOK(f), Backed(f, s, n - 1),
         WellFormed(s[n]), Accepts(f, s[n])
  PROVE  Backed(Folded(f, s[n]), s, n)
<1> DEFINE rec == s[n]
           g == Folded(f, rec)
           v == f.view
           w == g.view
<1>1. w = NextView(v, rec) /\ g.seen = SeenAfter(f.seen, rec)
  BY FoldedAccepted DEF FoldOK
<1>2. Effect(v, rec, w)
  BY <1>1, NextViewFields DEF FoldOK, ViewOK
<1>3. RecordAccepted(v, f.seen, rec)
  BY DEF Accepts
<1>4. DOMAIN f.seen = {"enqueued", "cancelled", "consumed"}
  BY DEF FoldOK, SeenOK
<1>5. ViewOK(v)
  BY DEF FoldOK
<1>6. /\ SettledCalls(w) = SettledCalls(v) \cup
              (IF rec.type = "tool_call_finished" THEN {rec.call} ELSE {})
      /\ w.open_tool_calls = OpenCallsAfter(v, rec)
  BY <1>2, <1>5, CallsAfter
<1> HIDE DEF g
<1>7. /\ 1..n = (1..n - 1) \cup {n} /\ n \in 1..n
      /\ \A i \in 1..n - 1 : i \in 1..n /\ i < n
  OBVIOUS
<1>8. \A e \in g.seen.enqueued : \E i \in 1..n : s[i].type = "queue_enqueued" /\ s[i].entry = e
  BY <1>1, <1>4, <1>7 DEF Backed, SeenAfter
<1>9. \A k \in Children : w.children[k] # "unknown" =>
        \E i \in 1..n : s[i].type = "subagent_spawned" /\ s[i].child = k
  BY <1>2, <1>3, <1>5, <1>7, SMTT(60) DEF Backed, Effect, ChildrenAfter, RecordAccepted, ViewOK, ChildStates
<1>10. \A c \in StartedCalls(w) : \E i \in 1..n : s[i].type = "tool_call_started" /\ s[i].call = c
  BY <1>3, <1>6, <1>7, SMTT(60) DEF Backed, StartedCalls, OpenCallsAfter, RecordAccepted
<1>11. w.suspended => \E i \in 1..n : /\ s[i].type = "suspended"
                                      /\ \A k \in 1..n : s[k].type = "resumed" => k < i
  <2>1. CASE rec.type = "suspended"
    BY <2>1, <1>7
  <2>2. CASE rec.type # "suspended"
    <3> SUFFICES ASSUME w.suspended
                 PROVE  \E i \in 1..n : /\ s[i].type = "suspended"
                                        /\ \A k \in 1..n : s[k].type = "resumed" => k < i
      OBVIOUS
    <3>1. v.suspended /\ rec.type # "resumed"
      BY <1>2, <2>2 DEF Effect, SuspendedAfter
    <3> QED BY <1>7, <3>1 DEF Backed
  <2> QED BY <2>1, <2>2
<1>12. w.model_call_open => w.turn_open
  BY <1>2, <1>3 DEF Backed, Effect, TurnOpenAfter, ModelCallOpenAfter, RecordAccepted
<1>13. w.turn_open => \E i \in 1..n : /\ s[i].type = "turn_started" /\ s[i].turn = w.turn
                                      /\ \A k \in 1..n : s[k].type = "attempt_started" => k < i
  <2>1. CASE rec.type = "turn_started"
    BY <1>2, <1>7, <2>1 DEF Effect
  <2>2. CASE rec.type # "turn_started"
    <3> SUFFICES ASSUME w.turn_open
                 PROVE  \E i \in 1..n : /\ s[i].type = "turn_started" /\ s[i].turn = w.turn
                                        /\ \A k \in 1..n : s[k].type = "attempt_started" => k < i
      OBVIOUS
    <3>1. v.turn_open /\ rec.type # "attempt_started" /\ w.turn = v.turn
      BY <1>2, <2>2 DEF Effect, TurnOpenAfter
    <3> QED BY <1>7, <3>1 DEF Backed
  <2> QED BY <2>1, <2>2
<1>14. Backed(g, s, n)
  BY <1>8, <1>9, <1>10, <1>11, <1>12, <1>13 DEF Backed
<1> QED BY <1>14 DEF g

\* A log that reduce accepts.
ProperLog(s) ==
  /\ s \in Seq(InSeq(s))
  /\ \A i \in 1..Len(s) : WellFormed(s[i])
  /\ Reduced(s).sound = TRUE

\* Both hold at every position of every log that reduce accepts.
LEMMA LogRemembers ==
  ASSUME NEW S, NEW s \in Seq(S), \A i \in 1..Len(s) : WellFormed(s[i]), Reduced(s).sound = TRUE,
         NEW n \in 0..Len(s)
  PROVE  /\ FoldOK(Prefix(s, n))
         /\ n < Len(s) => Accepts(Prefix(s, n), s[n + 1])
         /\ \A i \in 1..n : Remembers(Prefix(s, n), s[i])
         /\ Backed(Prefix(s, n), s, n)
<1>0. Len(s) \in Nat
  OBVIOUS
<1>1. \A k \in 0..Len(s) : FoldOK(Prefix(s, k))
  BY SoundLog
<1>2. ASSUME NEW k \in 1..Len(s)
      PROVE  /\ Prefix(s, k) = Folded(Prefix(s, k - 1), s[k])
             /\ Accepts(Prefix(s, k - 1), s[k])
  <2>1. Prefix(s, k) = Folded(Prefix(s, k - 1), s[k])
    BY PrefixStep
  <2>2. k \in 0..Len(s) /\ k - 1 \in 0..Len(s)
    BY <1>0
  <2>3. Prefix(s, k).sound = TRUE
    BY <1>1, <2>2 DEF FoldOK
  <2>4. DOMAIN Prefix(s, k - 1) = {"view", "seen", "sound"}
    BY <2>2, PrefixFields
  <2> QED BY <2>1, <2>3, <2>4, FoldedSound
<1> DEFINE P(k) == /\ \A i \in 1..k : Remembers(Prefix(s, k), s[i])
                   /\ Backed(Prefix(s, k), s, k)
           T == {k \in 0..Len(s) : ~P(k)}
<1>3. T = {}
  <2> SUFFICES ASSUME T # {} PROVE FALSE
    OBVIOUS
  <2>1. PICK k \in T : \A y \in T : k <= y
    <3>1. T \in SUBSET Nat
      OBVIOUS
    <3> HIDE DEF T
    <3> QED BY <3>1, LeastNat
  <2>2. k # 0
    <3>1. Prefix(s, 0) = EmptyFold
      BY PrefixNone
    <3>2. EmptyFold.view = EmptyView /\ EmptyFold.seen = SeenFrom(EmptyView)
      BY DEF EmptyFold, Started
    <3>3. Pending(EmptyView) = {} /\ StartedCalls(EmptyView) = {}
      BY DEF Pending, EmptyView, InSeq, StartedCalls, SettledCalls
    <3>4. Backed(EmptyFold, s, 0)
      <4>1. EmptyFold.seen.enqueued = {}
        BY <3>2, <3>3 DEF SeenFrom
      <4>2. /\ \A c \in Children : EmptyView.children[c] = "unknown"
            /\ EmptyView.suspended = FALSE /\ EmptyView.model_call_open = FALSE
            /\ EmptyView.turn_open = FALSE
        BY DEF EmptyView
      <4> QED BY <3>2, <3>3, <4>1, <4>2 DEF Backed
    <3> QED BY <2>1, <3>1, <3>4
  <2>3. k \in 1..Len(s) /\ k - 1 \in 0..Len(s) /\ k \in Nat \ {0}
    BY <1>0, <2>1, <2>2
  <2>4. P(k - 1)
    <3>1. k - 1 \notin T
      BY <2>1, <2>3
    <3> QED BY <2>3, <3>1
  <2> DEFINE f == Prefix(s, k - 1)
  <2>5. FoldOK(f) /\ Accepts(f, s[k]) /\ Prefix(s, k) = Folded(f, s[k]) /\ WellFormed(s[k])
    BY <1>1, <1>2, <2>3
  <2>6. Backed(f, s, k - 1) /\ \A i \in 1..k - 1 : Remembers(f, s[i])
    BY <2>4
  <2> HIDE DEF f
  <2>7. Backed(Folded(f, s[k]), s, k)
    BY <2>3, <2>5, <2>6, BackedOn
  <2>8. ASSUME NEW i \in 1..k PROVE Remembers(Folded(f, s[k]), s[i])
    <3>1. i \in 1..k - 1 \/ i = k
      BY <2>3
    <3>2. WellFormed(s[i])
      BY <1>0, <2>3
    <3> QED BY <2>5, <2>6, <3>1, <3>2, RemembersOn
  <2> QED BY <2>1, <2>5, <2>7, <2>8
<1>4. P(n)
  BY <1>3
<1>5. n < Len(s) => Accepts(Prefix(s, n), s[n + 1])
  <2> SUFFICES ASSUME n < Len(s) PROVE Accepts(Prefix(s, n), s[n + 1])
    OBVIOUS
  <2>1. n + 1 \in 1..Len(s) /\ (n + 1) - 1 = n
    BY <1>0
  <2>2. Accepts(Prefix(s, (n + 1) - 1), s[n + 1])
    BY <1>2, <2>1
  <2> QED BY <2>1, <2>2
<1> QED BY <1>1, <1>4, <1>5

\* Every record of an accepted log was accepted by a state that remembers all
\* records before it and knows nothing they did not say.
LEMMA BeforeRecord ==
  ASSUME NEW s, ProperLog(s), NEW k \in 1..Len(s)
  PROVE  LET f == Prefix(s, k - 1) IN
         /\ FoldOK(f) /\ ViewOK(f.view) /\ RecordAccepted(f.view, f.seen, s[k])
         /\ f.view.settled => s[k].type = "run_settled"
         /\ \A i \in 1..Len(s) : i < k => Remembers(f, s[i])
         /\ Backed(f, s, k - 1)
<1> DEFINE n == k - 1
<1>1. n \in 0..Len(s) /\ n < Len(s) /\ n + 1 = k
  BY DEF ProperLog
<1> HIDE DEF n
<1>2. /\ FoldOK(Prefix(s, n))
      /\ n < Len(s) => Accepts(Prefix(s, n), s[n + 1])
      /\ \A i \in 1..n : Remembers(Prefix(s, n), s[i])
      /\ Backed(Prefix(s, n), s, n)
  BY <1>1, LogRemembers DEF ProperLog
<1>3. \A i \in 1..Len(s) : i < k => i \in 1..n
  BY <1>1
<1> QED BY <1>1, <1>2, <1>3 DEF Accepts, FoldOK, n

\* In an accepted log a queue entry is withdrawn or delivered at most once, and
\* only after it was enqueued.
LEMMA EntriesInLog ==
  ASSUME NEW s, ProperLog(s), NEW k \in 1..Len(s), s[k].type \in {"queue_cancelled", "queue_consumed"}
  PROVE  /\ \A i \in 1..Len(s) : i < k /\ s[i].type \in {"queue_cancelled", "queue_consumed"}
              => s[i].entry # s[k].entry
         /\ \E i \in 1..Len(s) : i < k /\ s[i].type = "queue_enqueued" /\ s[i].entry = s[k].entry
<1> DEFINE f == Prefix(s, k - 1)
<1>1. /\ RecordAccepted(f.view, f.seen, s[k])
      /\ \A i \in 1..Len(s) : i < k => Remembers(f, s[i])
      /\ Backed(f, s, k - 1)
  BY BeforeRecord
<1> HIDE DEF f
<1>2. s[k].entry \in f.seen.enqueued \ (f.seen.cancelled \cup f.seen.consumed)
  BY <1>1 DEF RecordAccepted
<1>3. \A i \in 1..k - 1 : i \in 1..Len(s) /\ i < k
  BY DEF ProperLog
<1> QED BY <1>1, <1>2, <1>3 DEF Remembers, Backed

\* In an accepted log nothing but next_run is enqueued after an abort.
LEMMA AbortInLog ==
  ASSUME NEW s, ProperLog(s), NEW i \in 1..Len(s), NEW k \in 1..Len(s), i < k,
         s[i].type = "abort_requested", s[k].type = "queue_enqueued"
  PROVE  s[k].queue = "next_run"
<1> DEFINE f == Prefix(s, k - 1)
<1>1. /\ RecordAccepted(f.view, f.seen, s[k]) /\ ViewOK(f.view)
      /\ \A x \in 1..Len(s) : x < k => Remembers(f, s[x])
  BY BeforeRecord
<1> HIDE DEF f
<1>2. f.view.abort_seq > 0 /\ f.view.abort_seq \in Nat
  BY <1>1 DEF Remembers, ViewOK
<1> QED BY <1>1, <1>2 DEF RecordAccepted, EnqueueAccepted

\* In an accepted log a suspension lies between any two resumes.
LEMMA ResumesInLog ==
  ASSUME NEW s, ProperLog(s), NEW i \in 1..Len(s), NEW k \in 1..Len(s), i < k,
         s[i].type = "resumed", s[k].type = "resumed"
  PROVE  \E x \in 1..Len(s) : s[x].type = "suspended" /\ i < x /\ x < k
<1> DEFINE f == Prefix(s, k - 1)
<1>1. RecordAccepted(f.view, f.seen, s[k]) /\ Backed(f, s, k - 1)
  BY BeforeRecord
<1> HIDE DEF f
<1>2. f.view.suspended
  BY <1>1 DEF RecordAccepted
<1>3. i \in 1..k - 1 /\ \A x \in 1..k - 1 : x \in 1..Len(s) /\ x < k
  BY DEF ProperLog
<1> QED BY <1>1, <1>2, <1>3 DEF Backed

\* In an accepted log a child finishes at most once, after it was spawned.
LEMMA ChildrenInLog ==
  ASSUME NEW s, ProperLog(s), NEW k \in 1..Len(s), s[k].type = "subagent_finished"
  PROVE  /\ \A i \in 1..Len(s) : i < k /\ s[i].type = "subagent_finished" => s[i].child # s[k].child
         /\ \E i \in 1..Len(s) : i < k /\ s[i].type = "subagent_spawned" /\ s[i].child = s[k].child
<1> DEFINE f == Prefix(s, k - 1)
<1>1. /\ RecordAccepted(f.view, f.seen, s[k])
      /\ \A i \in 1..Len(s) : i < k => Remembers(f, s[i])
      /\ Backed(f, s, k - 1)
  BY BeforeRecord
<1> HIDE DEF f
<1>2. f.view.children[s[k].child] = "alive" /\ s[k].child \in Children
  BY <1>1 DEF RecordAccepted, ProperLog, WellFormed
<1>3. \A i \in 1..k - 1 : i \in 1..Len(s) /\ i < k
  BY DEF ProperLog
<1> QED BY <1>1, <1>2, <1>3 DEF Remembers, Backed

\* In an accepted log a tool call starts at most once.
LEMMA CallStartsInLog ==
  ASSUME NEW s, ProperLog(s), NEW k \in 1..Len(s), s[k].type = "tool_call_started",
         NEW i \in 1..Len(s), i < k, s[i].type = "tool_call_started"
  PROVE  s[i].call # s[k].call
<1> DEFINE f == Prefix(s, k - 1)
<1>1. /\ RecordAccepted(f.view, f.seen, s[k])
      /\ Remembers(f, s[i])
  BY BeforeRecord
<1> HIDE DEF f
<1> QED BY <1>1 DEF Remembers, RecordAccepted, ToolCallAccepted

\* In an accepted log a tool call ends at most once, after it started.
LEMMA CallEndsInLog ==
  ASSUME NEW s, ProperLog(s), NEW k \in 1..Len(s), s[k].type = "tool_call_finished"
  PROVE  /\ \A i \in 1..Len(s) : i < k /\ s[i].type = "tool_call_finished" => s[i].call # s[k].call
         /\ \E i \in 1..Len(s) : i < k /\ s[i].type = "tool_call_started" /\ s[i].call = s[k].call
<1> DEFINE f == Prefix(s, k - 1)
<1>1. /\ RecordAccepted(f.view, f.seen, s[k])
      /\ \A i \in 1..Len(s) : i < k => Remembers(f, s[i])
      /\ Backed(f, s, k - 1)
  BY BeforeRecord
<1> HIDE DEF f
<1>2. s[k].call \in f.view.open_tool_calls /\ s[k].call \in StartedCalls(f.view)
  BY <1>1 DEF RecordAccepted, StartedCalls
<1>3. \A i \in 1..k - 1 : i \in 1..Len(s) /\ i < k
  BY DEF ProperLog
<1> QED BY <1>1, <1>2, <1>3 DEF Remembers, Backed

\* In an accepted log a step is neither started nor completed after a completion
\* that is not to be retried.
LEMMA StepsInLog ==
  ASSUME NEW s, ProperLog(s), NEW i \in 1..Len(s), NEW k \in 1..Len(s), i < k,
         s[i].type = "step_completed", s[k].type \in {"step_started", "step_completed"},
         s[i].step = s[k].step
  PROVE  s[i].will_retry
<1> DEFINE f == Prefix(s, k - 1)
<1>1. /\ RecordAccepted(f.view, f.seen, s[k])
      /\ Remembers(f, s[i])
  BY BeforeRecord
<1> HIDE DEF f
<1> QED BY <1>1 DEF Remembers, RecordAccepted, StepAccepted

\* The records of a turn's model call.
ModelCallRecord == {"model_call_started", "model_call_finished", "model_call_failed"}

\* In an accepted log a record of a model call names a turn that an earlier
\* record started, with no attempt_started in between.
LEMMA TurnsInLog ==
  ASSUME NEW s, ProperLog(s), NEW i \in 1..Len(s), NEW k \in 1..Len(s),
         s[i].type = "turn_started", s[k].type \in ModelCallRecord, s[i].turn = s[k].turn
  PROVE  /\ i < k
         /\ \A p \in 1..Len(s) : i < p /\ p < k => s[p].type # "attempt_started"
<1>0. Len(s) \in Nat
  BY DEF ProperLog
<1> DEFINE f == Prefix(s, k - 1)
<1>1. /\ RecordAccepted(f.view, f.seen, s[k]) /\ Backed(f, s, k - 1) /\ ViewOK(f.view)
  BY BeforeRecord
<1>2. s[k].turn = f.view.turn /\ f.view.turn_open /\ f.view.turn \in Nat
  BY <1>1 DEF RecordAccepted, ModelCallRecord, Backed, ViewOK
<1>3. PICK x \in 1..k - 1 : /\ s[x].type = "turn_started" /\ s[x].turn = f.view.turn
                            /\ \A p \in 1..k - 1 : s[p].type = "attempt_started" => p < x
  BY <1>1, <1>2 DEF Backed
<1>4. x \in 1..Len(s) /\ x < k
  BY <1>0
<1> HIDE DEF f
<1>5. ASSUME NEW a \in 1..Len(s), NEW b \in 1..Len(s), a < b, s[a].type \in TurnRecord,
             s[b].type = "turn_started"
      PROVE  s[a].turn # s[b].turn
  <2> DEFINE h == Prefix(s, b - 1)
  <2>1. RecordAccepted(h.view, h.seen, s[b]) /\ Remembers(h, s[a]) /\ ViewOK(h.view)
    BY <1>5, BeforeRecord
  <2> HIDE DEF h
  <2>2. s[b].turn = h.view.turn + 1 /\ s[a].turn \in Nat /\ s[a].turn <= h.view.turn
        /\ h.view.turn \in Nat
    BY <1>5, <2>1 DEF RecordAccepted, Remembers, ViewOK
  <2> QED BY <2>2
<1>6. i = x
  <2>1. s[i].turn = s[x].turn
    BY <1>2, <1>3
  <2>2. ~(i < x) /\ ~(x < i)
    BY <1>3, <1>4, <1>5, <2>1 DEF TurnRecord
  <2> QED BY <1>4, <2>2
<1>7. \A p \in 1..Len(s) : p < k => p \in 1..k - 1
  BY <1>0
<1> QED BY <1>0, <1>3, <1>4, <1>6, <1>7

-----------------------------------------------------------------------------
(* Reading a log that reduce accepts, and appending to it *)

\* Appending a record to a log.
LEMMA AppendedLog ==
  ASSUME NEW s, s \in Seq(InSeq(s)), NEW rec
  PROVE  LET t == Append(s, rec) IN
         /\ t \in Seq(InSeq(t)) /\ Len(t) = Len(s) + 1 /\ Len(s) \in Nat
         /\ \A i \in 1..Len(s) : t[i] = s[i]
         /\ t[Len(s) + 1] = rec
         /\ DOMAIN t = 1..Len(s) + 1 /\ DOMAIN s = 1..Len(s)
<1> DEFINE t == Append(s, rec)
           S == InSeq(s) \cup {rec}
<1>1. s \in Seq(S) /\ rec \in S
  OBVIOUS
<1>2. /\ t \in Seq(S) /\ Len(t) = Len(s) + 1 /\ Len(s) \in Nat
      /\ \A i \in 1..Len(s) : t[i] = s[i]
      /\ t[Len(s) + 1] = rec
  <2> HIDE DEF S
  <2> QED BY <1>1, AppendProperties
<1>3. DOMAIN t = 1..Len(s) + 1 /\ DOMAIN s = 1..Len(s)
  <2> HIDE DEF S, t
  <2> QED BY <1>1, <1>2
<1>4. t \in Seq(InSeq(t))
  <2> HIDE DEF S, t
  <2>1. \A i \in 1..Len(t) : t[i] \in InSeq(t)
    BY <1>2, <1>3 DEF InSeq
  <2> QED BY <1>2, <1>3, <2>1
<1> QED BY <1>2, <1>3, <1>4

\* What reduce derives from a log it accepts.
LEMMA ProperFold ==
  ASSUME NEW s, ProperLog(s)
  PROVE  /\ FoldOK(Reduced(s)) /\ ViewOK(Reduced(s).view)
         /\ Reduced(s) = Prefix(s, Len(s)) /\ Reduced(s).view.head_seq = Len(s)
<1>1. Reduced(s) = Prefix(s, Len(s)) /\ Len(s) \in 0..Len(s)
  BY PrefixAll DEF ProperLog
<1>2. FoldOK(Reduced(s)) /\ Reduced(s).view.head_seq = Len(s)
  BY <1>1, SoundLog DEF ProperLog
<1> QED BY <1>1, <1>2 DEF FoldOK

\* The same of every prefix: the state of a Journal that lags behind.
LEMMA ProperPrefix ==
  ASSUME NEW s, ProperLog(s), NEW n \in 0..Len(s)
  PROVE  /\ FoldOK(Prefix(s, n)) /\ ViewOK(Prefix(s, n).view)
         /\ Prefix(s, n).view.head_seq = n
         /\ Len(s) \in Nat
<1>1. FoldOK(Prefix(s, n)) /\ Prefix(s, n).view.head_seq = n
  BY SoundLog DEF ProperLog
<1> QED BY <1>1 DEF FoldOK, ProperLog

\* Each record of an accepted log was accepted by the fold of those before it.
LEMMA ProperStep ==
  ASSUME NEW s, ProperLog(s), NEW n \in 1..Len(s)
  PROVE  LET v == Prefix(s, n - 1).view IN
         /\ n - 1 \in 0..Len(s) /\ n \in 0..Len(s)
         /\ ViewOK(v) /\ WellFormed(s[n])
         /\ Accepts(Prefix(s, n - 1), s[n])
         /\ Prefix(s, n).view = NextView(v, s[n])
         /\ Effect(v, s[n], Prefix(s, n).view)
<1> DEFINE f == Prefix(s, n - 1)
<1>1. n - 1 \in 0..Len(s) /\ n \in 0..Len(s) /\ n - 1 < Len(s) /\ (n - 1) + 1 = n /\ WellFormed(s[n])
  BY DEF ProperLog
<1>2. FoldOK(f) /\ ViewOK(f.view) /\ f.sound = TRUE
  BY <1>1, ProperPrefix DEF FoldOK
<1>3. Accepts(f, s[n])
  <2>1. n - 1 < Len(s) => Accepts(Prefix(s, n - 1), s[(n - 1) + 1])
    BY <1>1, LogRemembers DEF ProperLog
  <2> QED BY <1>1, <2>1
<1>4. Prefix(s, n) = Folded(f, s[n])
  BY PrefixStep DEF ProperLog
<1> HIDE DEF f
<1>5. Folded(f, s[n]).view = NextView(f.view, s[n])
  BY <1>2, <1>3, FoldedAccepted
<1>6. Effect(f.view, s[n], NextView(f.view, s[n]))
  BY <1>2, NextViewFields DEF ViewOK
<1> QED BY <1>1, <1>2, <1>3, <1>4, <1>5, <1>6 DEF f

\* Journal.append: a record that the log's own state accepts makes another
\* accepted log, and its state is one step from the old one.
LEMMA ProperAppend ==
  ASSUME NEW s, ProperLog(s), NEW rec, WellFormed(rec), Accepts(Reduced(s), rec)
  PROVE  LET t == Append(s, rec)
             v == Reduced(s).view
         IN
         /\ ProperLog(t) /\ Len(t) = Len(s) + 1 /\ Len(s) \in Nat
         /\ \A i \in 1..Len(s) : t[i] = s[i]
         /\ t[Len(s) + 1] = rec
         /\ DOMAIN t = 1..Len(s) + 1 /\ DOMAIN s = 1..Len(s)
         /\ \A n \in 0..Len(s) : Prefix(t, n) = Prefix(s, n)
         /\ Prefix(t, Len(s) + 1) = Reduced(t)
         /\ Reduced(t).view = NextView(v, rec)
         /\ Effect(v, rec, Reduced(t).view)
<1> DEFINE t == Append(s, rec)
           n == Len(s)
<1>1. /\ t \in Seq(InSeq(t)) /\ Len(t) = n + 1 /\ n \in Nat
      /\ \A i \in 1..n : t[i] = s[i]
      /\ t[n + 1] = rec
      /\ DOMAIN t = 1..n + 1 /\ DOMAIN s = 1..n
  BY AppendedLog DEF ProperLog
<1>2. \A k \in 0..n : Prefix(t, k) = Prefix(s, k)
  BY PrefixOfAppend DEF ProperLog
<1>3. Reduced(t) = Folded(Reduced(s), rec)
  BY FoldAppend DEF Reduced, ProperLog
<1>4. FoldOK(Reduced(s)) /\ ViewOK(Reduced(s).view) /\ Reduced(s).sound = TRUE
  BY ProperFold DEF FoldOK
<1> HIDE DEF t, n
<1>5. Reduced(t).sound = TRUE /\ Reduced(t).view = NextView(Reduced(s).view, rec)
  BY <1>3, <1>4, FoldedAccepted
<1>6. Effect(Reduced(s).view, rec, Reduced(t).view)
  BY <1>4, <1>5, NextViewFields DEF ViewOK
<1>7. Prefix(t, n + 1) = Reduced(t)
  BY <1>1, PrefixAll
<1>8. ProperLog(t)
  <2>1. \A i \in 1..n + 1 : WellFormed(t[i])
    BY <1>1 DEF ProperLog, n
  <2> QED BY <1>1, <1>5, <2>1 DEF ProperLog
<1> QED BY <1>1, <1>2, <1>5, <1>6, <1>7, <1>8 DEF t, n

\* The empty log is accepted.
LEMMA EmptyLog ==
  ProperLog(<<>>) /\ Reduced(<<>>) = EmptyFold /\ EmptyFold.view = EmptyView
<1>1. <<>> \in Seq(InSeq(<<>>)) /\ Len(<<>>) = 0
  OBVIOUS
<1>2. Reduced(<<>>) = EmptyFold
  BY FoldEmpty DEF Reduced
<1> QED BY <1>1, <1>2, EmptyFoldOK DEF ProperLog, FoldOK

\* What a later state cannot take back.
Later(v, w) ==
  /\ v.settled => w.settled
  /\ v.admitted => w.admitted
  /\ v.abort_seq > 0 => w.abort_seq > 0
  /\ StartedCalls(v) \subseteq StartedCalls(w)
  /\ \A k \in Children : /\ v.children[k] # "unknown" => w.children[k] # "unknown"
                         /\ v.children[k] = "finished" => w.children[k] = "finished"

\* No record takes back what Later lists.
LEMMA LaterStep ==
  ASSUME NEW v, ViewOK(v), NEW seen, NEW rec, WellFormed(rec), RecordAccepted(v, seen, rec),
         NEW w, Effect(v, rec, w)
  PROVE  Later(v, w)
<1>1. w.settled = (IF rec.type = "run_settled" THEN TRUE ELSE v.settled)
      /\ w.admitted = (IF rec.type = "run_admitted" THEN TRUE ELSE v.admitted)
  BY DEF Effect
<1>2. v.abort_seq > 0 => w.abort_seq > 0
  BY DEF Effect
<1>3. StartedCalls(v) \subseteq StartedCalls(w)
  <2>1. /\ SettledCalls(w) = SettledCalls(v) \cup
              (IF rec.type = "tool_call_finished" THEN {rec.call} ELSE {})
        /\ w.open_tool_calls = OpenCallsAfter(v, rec)
    BY CallsAfter
  <2> QED BY <2>1 DEF StartedCalls, OpenCallsAfter
<1>4. \A k \in Children : /\ v.children[k] # "unknown" => w.children[k] # "unknown"
                          /\ v.children[k] = "finished" => w.children[k] = "finished"
  BY DEF Effect, ChildrenAfter, ViewOK, WellFormed, RecordAccepted, SpawnAccepted
<1> QED BY <1>1, <1>2, <1>3, <1>4 DEF Later

\* Between any position of a log and its end nothing of Later is taken back: a
\* state that was read before an await is out of date, never wrong about these.
LEMMA Lasting ==
  ASSUME NEW s, ProperLog(s), NEW h \in 0..Len(s)
  PROVE  Later(Prefix(s, h).view, Reduced(s).view)
<1> DEFINE P(n) == Later(Prefix(s, h).view, Prefix(s, n).view)
           T == {n \in h..Len(s) : ~P(n)}
<1>0. Len(s) \in Nat
  BY DEF ProperLog
<1>1. T = {}
  <2> SUFFICES ASSUME T # {} PROVE FALSE
    OBVIOUS
  <2>1. PICK n \in T : \A y \in T : n <= y
    <3>1. T \in SUBSET Nat
      BY <1>0
    <3> HIDE DEF T
    <3> QED BY <3>1, LeastNat
  <2>2. n # h
    BY <2>1 DEF Later
  <2>3. n \in 1..Len(s) /\ n - 1 \in h..Len(s) /\ n - 1 \notin T
    BY <1>0, <2>1, <2>2
  <2>4. P(n - 1)
    BY <2>3
  <2>5. Later(Prefix(s, n - 1).view, Prefix(s, n).view)
    BY <2>3, ProperStep, LaterStep DEF Accepts
  <2>6. P(n)
    BY <2>4, <2>5 DEF Later
  <2> QED BY <2>1, <2>6
<1>2. Len(s) \in h..Len(s) /\ Reduced(s) = Prefix(s, Len(s))
  BY <1>0, ProperFold
<1> QED BY <1>1, <1>2

\* The part of the state that only the Attempt itself may change.
Unmoved(v, w) ==
  /\ w.admitted = v.admitted /\ w.settled = v.settled /\ w.terminal_state = v.terminal_state
  /\ w.attempt_count = v.attempt_count
  /\ w.turn = v.turn /\ w.turn_open = v.turn_open /\ w.model_call_open = v.model_call_open
  /\ w.open_tool_calls = v.open_tool_calls /\ w.tool_results = v.tool_results
  /\ w.steps = v.steps

\* A record of another writer (EXTERNAL_RECORD_TYPES) leaves the Attempt's
\* own part of the state alone.
LEMMA ExternalStep ==
  ASSUME NEW v, NEW rec, rec.type \in External, NEW w, Effect(v, rec, w)
  PROVE  Unmoved(v, w)
BY DEF Unmoved, Effect, External, TurnOpenAfter, ModelCallOpenAfter, OpenCallsAfter, StepsAfter

\* AllExternal, position by position.
LEMMA ExternalSuffix ==
  ASSUME NEW s, ProperLog(s), NEW h \in 0..Len(s)
  PROVE  AllExternal(SubSeq(s, h + 1, Len(s))) <=> \A i \in h + 1..Len(s) : s[i].type \in External
<1> DEFINE t == SubSeq(s, h + 1, Len(s))
<1>1. DOMAIN t = 1..(Len(s) - h) /\ \A i \in 1..(Len(s) - h) : t[i] = s[h + i]
  BY DEF ProperLog
<1>2. /\ Len(s) \in Nat
      /\ \A i \in h + 1..Len(s) : i - h \in 1..(Len(s) - h) /\ h + (i - h) = i
      /\ \A i \in 1..(Len(s) - h) : h + i \in h + 1..Len(s)
  BY DEF ProperLog
<1> HIDE DEF t
<1>3. AllExternal(t) <=> \A i \in h + 1..Len(s) : s[i].type \in External
  BY <1>1, <1>2 DEF AllExternal
<1> QED BY <1>3 DEF t

\* What an Attempt absorbs leaves its own part of the state alone, however much
\* it missed: _absorb_external_records needs no second look at it.
LEMMA ExternalKeeps ==
  ASSUME NEW s, ProperLog(s), NEW h \in 0..Len(s), AllExternal(SubSeq(s, h + 1, Len(s)))
  PROVE  Unmoved(Prefix(s, h).view, Reduced(s).view)
<1> DEFINE P(n) == Unmoved(Prefix(s, h).view, Prefix(s, n).view)
           T == {n \in h..Len(s) : ~P(n)}
<1>0. Len(s) \in Nat /\ \A i \in h + 1..Len(s) : s[i].type \in External
  <2>1. \A i \in h + 1..Len(s) : s[i].type \in External
    BY ExternalSuffix
  <2> QED BY <2>1 DEF ProperLog
<1>1. T = {}
  <2> SUFFICES ASSUME T # {} PROVE FALSE
    OBVIOUS
  <2>1. PICK n \in T : \A y \in T : n <= y
    <3>1. T \in SUBSET Nat
      BY <1>0
    <3> HIDE DEF T
    <3> QED BY <3>1, LeastNat
  <2>2. n # h
    BY <2>1 DEF Unmoved
  <2>3. n \in 1..Len(s) /\ n - 1 \in h..Len(s) /\ n - 1 \notin T /\ n \in h + 1..Len(s)
    BY <1>0, <2>1, <2>2
  <2>4. P(n - 1)
    BY <2>3
  <2>5. Effect(Prefix(s, n - 1).view, s[n], Prefix(s, n).view)
    BY <2>3, ProperStep
  <2>6. Unmoved(Prefix(s, n - 1).view, Prefix(s, n).view)
    BY <1>0, <2>3, <2>5, ExternalStep
  <2>7. P(n)
    BY <2>4, <2>6 DEF Unmoved
  <2> QED BY <2>1, <2>7
<1>2. Len(s) \in h..Len(s) /\ Reduced(s) = Prefix(s, Len(s))
  BY <1>0, ProperFold
<1> QED BY <1>1, <1>2

\* A Run is woken by a resume and by nothing else.
LEMMA SuspensionLasts ==
  ASSUME NEW s, ProperLog(s), NEW h \in 0..Len(s), \A i \in h + 1..Len(s) : s[i].type # "resumed",
         Prefix(s, h).view.suspended
  PROVE  Reduced(s).view.suspended
<1> DEFINE P(n) == Prefix(s, n).view.suspended
           T == {n \in h..Len(s) : ~P(n)}
<1>0. Len(s) \in Nat
  BY DEF ProperLog
<1>1. T = {}
  <2> SUFFICES ASSUME T # {} PROVE FALSE
    OBVIOUS
  <2>1. PICK n \in T : \A y \in T : n <= y
    <3>1. T \in SUBSET Nat
      BY <1>0
    <3> HIDE DEF T
    <3> QED BY <3>1, LeastNat
  <2>2. n # h
    BY <2>1
  <2>3. n \in 1..Len(s) /\ n - 1 \in h..Len(s) /\ n - 1 \notin T /\ n \in h + 1..Len(s)
    BY <1>0, <2>1, <2>2
  <2>4. P(n - 1)
    BY <2>3
  <2>5. Effect(Prefix(s, n - 1).view, s[n], Prefix(s, n).view)
    BY <2>3, ProperStep
  <2>6. s[n].type # "resumed"
    BY <2>3
  <2>7. P(n)
    BY <2>4, <2>5, <2>6 DEF Effect, SuspendedAfter
  <2> QED BY <2>1, <2>7
<1>2. Len(s) \in h..Len(s) /\ Reduced(s) = Prefix(s, Len(s))
  BY <1>0, ProperFold
<1> QED BY <1>1, <1>2

\* The decisions on approvals, after a record.
DecisionsAfter(v, rec) ==
  IF rec.type = "resumed" /\ v.pending_call # None /\ rec.approved # None
  THEN [v.approval_decisions EXCEPT ![v.pending_call] = rec.approved]
  ELSE v.approval_decisions

\* The call a human is asked about, after a record.
PendingCallAfter(v, rec) ==
  CASE rec.type = "suspended" -> rec.call
    [] rec.type = "resumed" -> None
    [] OTHER -> v.pending_call

\* The two fields of the state that speak of approvals, after a record.
LEMMA DecisionFields ==
  ASSUME NEW v, NEW rec, DOMAIN v = DOMAIN EmptyView
  PROVE  /\ NextView(v, rec).approval_decisions = DecisionsAfter(v, rec)
         /\ NextView(v, rec).pending_call = PendingCallAfter(v, rec)
<1> DEFINE w == AfterRecord(v, rec)
<1> USE DEF AfterRecord, EmptyView, AfterAttempt, Closed, Priced, AfterToolCall, Repeated,
            AfterStepStart, AfterStepEnd, Without, AfterSuspend, AfterResume, Decided,
            Delivered, AfterCompaction, AfterSettle
<1>1. DOMAIN w = DOMAIN EmptyView
  OBVIOUS
<1>2. w.approval_decisions = DecisionsAfter(v, rec)
  BY DEF DecisionsAfter
<1>3. w.pending_call = PendingCallAfter(v, rec)
  BY DEF PendingCallAfter
<1> HIDE DEF w, AfterRecord
<1> QED BY <1>1, <1>2, <1>3 DEF NextView, w

\* Among the first n records one asks about call c.
Asked(c, s, n) == \E i \in 1..n : s[i].type = "suspended" /\ s[i].call = c

\* No call is asked about twice.
AskedOnce(s) ==
  \A i, k \in 1..Len(s) :
    s[i].type = "suspended" /\ s[k].type = "suspended" /\ s[i].call = s[k].call => s[i].call = None \/ i = k

\* Decisions against the questions of the log: what is decided or asked was
\* asked, and what is decided is not being asked.
DecisionsOK(v, s, n) ==
  /\ DOMAIN v.approval_decisions = Calls
  /\ \A c \in Calls : c # None =>
       /\ v.approval_decisions[c] # None \/ v.pending_call = c => Asked(c, s, n)
       /\ AskedOnce(s) /\ v.approval_decisions[c] # None => v.pending_call # c

\* A decision about a call was asked for, at every position of a log.
LEMMA AnswersInLog ==
  ASSUME NEW s, ProperLog(s), NEW n \in 0..Len(s)
  PROVE  DecisionsOK(Prefix(s, n).view, s, n)
<1> DEFINE P(k) == DecisionsOK(Prefix(s, k).view, s, k)
           T == {k \in 0..Len(s) : ~P(k)}
<1>1. SUFFICES ASSUME T # {} PROVE FALSE
  OBVIOUS
<1>2. PICK k \in T : \A y \in T : k <= y
  <2>1. T \in SUBSET Nat
    BY DEF ProperLog
  <2> HIDE DEF T
  <2> QED BY <1>1, <2>1, LeastNat
<1>3. k # 0
  <2>1. Prefix(s, 0) = EmptyFold
    BY PrefixNone DEF ProperLog
  <2>2. EmptyFold.view.approval_decisions = [c \in Calls |-> None] /\ EmptyFold.view.pending_call = None
    BY DEF EmptyFold, Started, EmptyView
  <2>3. P(0)
    BY <2>1, <2>2 DEF DecisionsOK
  <2> QED BY <1>2, <2>3
<1>4. k \in 1..Len(s) /\ k - 1 \in 0..Len(s) /\ k - 1 \notin T /\ Len(s) \in Nat
  BY <1>2, <1>3 DEF ProperLog
<1> DEFINE v == Prefix(s, k - 1).view
           w == Prefix(s, k).view
           rec == s[k]
<1>5. DecisionsOK(v, s, k - 1)
  BY <1>4
<1>6. ViewOK(v) /\ w = NextView(v, rec)
  BY <1>4, ProperStep
<1> HIDE DEF v, w
<1>7. w.approval_decisions = DecisionsAfter(v, rec) /\ w.pending_call = PendingCallAfter(v, rec)
  BY <1>6, DecisionFields DEF ViewOK
<1>8. /\ \A c : Asked(c, s, k - 1) => Asked(c, s, k)
      /\ \A c : rec.type = "suspended" /\ rec.call = c => Asked(c, s, k)
  BY <1>4 DEF Asked
<1>9. AskedOnce(s) /\ rec.type = "suspended" /\ rec.call # None => ~Asked(rec.call, s, k - 1)
  <2>1. \A i \in 1..k - 1 : i \in 1..Len(s) /\ i # k
    BY <1>4
  <2> QED BY <1>4, <2>1 DEF Asked, AskedOnce
<1>10. DecisionsOK(w, s, k)
  <2>1. DOMAIN w.approval_decisions = Calls
    BY <1>5, <1>7 DEF DecisionsOK, DecisionsAfter
  <2>2. ASSUME NEW c \in Calls, c # None
        PROVE  /\ w.approval_decisions[c] # None \/ w.pending_call = c => Asked(c, s, k)
               /\ AskedOnce(s) /\ w.approval_decisions[c] # None => w.pending_call # c
    <3>1. CASE rec.type = "resumed"
      BY <1>5, <1>7, <1>8, <2>2, <3>1 DEF DecisionsOK, DecisionsAfter, PendingCallAfter
    <3>2. CASE rec.type = "suspended"
      BY <1>5, <1>7, <1>8, <1>9, <2>2, <3>2 DEF DecisionsOK, DecisionsAfter, PendingCallAfter
    <3>3. CASE rec.type \notin {"resumed", "suspended"}
      BY <1>5, <1>7, <1>8, <2>2, <3>3 DEF DecisionsOK, DecisionsAfter, PendingCallAfter
    <3> QED BY <3>1, <3>2, <3>3
  <2> QED BY <2>1, <2>2 DEF DecisionsOK
<1> QED BY <1>2, <1>10 DEF w

\* A decision is never overwritten when each call is asked about once.
LEMMA AnswersStand ==
  ASSUME NEW s, ProperLog(s), AskedOnce(s), NEW h \in 0..Len(s), NEW c \in Calls, c # None,
         Prefix(s, h).view.approval_decisions[c] # None
  PROVE  Reduced(s).view.approval_decisions[c] = Prefix(s, h).view.approval_decisions[c]
<1> DEFINE P(n) == Prefix(s, n).view.approval_decisions[c] = Prefix(s, h).view.approval_decisions[c]
           T == {n \in h..Len(s) : ~P(n)}
<1>0. Len(s) \in Nat
  BY DEF ProperLog
<1>1. T = {}
  <2> SUFFICES ASSUME T # {} PROVE FALSE
    OBVIOUS
  <2>1. PICK n \in T : \A y \in T : n <= y
    <3>1. T \in SUBSET Nat
      BY <1>0
    <3> HIDE DEF T
    <3> QED BY <3>1, LeastNat
  <2>2. n # h
    BY <2>1
  <2>3. n \in 1..Len(s) /\ n - 1 \in h..Len(s) /\ n - 1 \notin T /\ n - 1 \in 0..Len(s)
    BY <1>0, <2>1, <2>2
  <2>4. P(n - 1)
    BY <2>3
  <2> DEFINE v == Prefix(s, n - 1).view
             w == Prefix(s, n).view
  <2>5. ViewOK(v) /\ w = NextView(v, s[n]) /\ DecisionsOK(v, s, n - 1)
    BY <2>3, ProperStep, AnswersInLog
  <2>6. v.approval_decisions[c] # None
    BY <2>4
  <2> HIDE DEF v, w
  <2>7. w.approval_decisions = DecisionsAfter(v, s[n])
    BY <2>5, DecisionFields DEF ViewOK
  <2>8. v.pending_call # c
    BY <2>5, <2>6 DEF DecisionsOK
  <2>9. w.approval_decisions[c] = v.approval_decisions[c]
    BY <2>5, <2>7, <2>8 DEF DecisionsAfter, DecisionsOK
  <2> QED BY <2>1, <2>4, <2>9 DEF v, w
<1>2. Len(s) \in h..Len(s) /\ Reduced(s) = Prefix(s, Len(s))
  BY <1>0, ProperFold
<1> QED BY <1>1, <1>2
=============================================================================
