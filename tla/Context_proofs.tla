---------------------------- MODULE Context_proofs ----------------------------
(***************************************************************************)
(* What the model is shown, for any number of Runs, turns, calls, cuts and *)
(* Workers that die.                                                       *)
(*                                                                         *)
(* The invariant is about the log first.  A log is Legible: reduce accepts *)
(* it, each summary ends where a turn began (CutsBetweenTurns), and a call *)
(* is asked for once, begins in the turn that asks for it and ends in the  *)
(* turn it began in (Paired).  A cut is then never between a question, its *)
(* call and its result, which is why conversations pair up.  The rest ties *)
(* the log to the loop: which calls are open in which phase, that a batch  *)
(* and the open calls belong to the last turn, what the last prompt was    *)
(* built from, and that a planned cut is ahead of the last one.            *)
(*                                                                         *)
(* The conversation itself is a flattened sequence, and Told a recursion   *)
(* over the log.  Both are described by what their elements are, by least  *)
(* counterexamples, and the invariant is used through these descriptions.  *)
(***************************************************************************)
EXTENDS Context, RunLog_proofs, FiniteSetTheorems

-----------------------------------------------------------------------------
(* The invariant: a log *)

Asks(s, k, c) == k \in 1..Len(s) /\ s[k].type = "model_call_finished" /\ c \in InSeq(s[k].asks)
Begins(s, q, c) == q \in 1..Len(s) /\ s[q].type = "tool_call_started" /\ s[q].call = c
Ends(s, p, c) == p \in 1..Len(s) /\ s[p].type = "tool_call_finished" /\ s[p].call = c
OneTurn(s, i, j) == \A t \in 1..Len(s) : i <= t /\ t <= j => s[t].type # "turn_started"

\* What a prompt reads of a record.
Fields(rec) ==
  /\ rec.type = "model_call_finished" => rec.asks \in Seq(Calls \ {Inner})
  /\ rec.type = "tool_call_started" => rec.by_program = (rec.call = Inner)

\* A summary ends where a turn began.
CutsBetweenTurns(s) ==
  \A i \in 1..Len(s) : s[i].type = "compaction_applied" =>
    /\ s[i].replaced_to_seq \in Nat /\ s[i].replaced_to_seq + 1 < i
    /\ s[s[i].replaced_to_seq + 1].type = "turn_started"

\* A call is asked for once, it begins in the turn that asks for it, and it ends
\* in the turn it began in.
Paired(s) ==
  /\ \A c \in Calls, i, k \in 1..Len(s) : Asks(s, i, c) /\ Asks(s, k, c) => i = k
  /\ \A c \in Calls \ {Inner}, q \in 1..Len(s) : Begins(s, q, c) =>
       \E k \in 1..Len(s) : k < q /\ Asks(s, k, c) /\ OneTurn(s, k, q)
  /\ \A c \in Calls, p \in 1..Len(s) : Ends(s, p, c) =>
       \E q \in 1..Len(s) : q < p /\ Begins(s, q, c) /\ OneTurn(s, q, p)

Legible(s) ==
  /\ ProperLog(s)
  /\ \A i \in 1..Len(s) : Fields(s[i])
  /\ CutsBetweenTurns(s)
  /\ Paired(s)

-----------------------------------------------------------------------------
(* The invariant: the state *)

CallPhases == {"running", "executing", "answering", "skipping"}
\* The phases in which no call is under way.
CalmPhases ==
  {"boundary", "summarising", "compacted", "draining", "asking", "running", "answering",
   "finishing", "failing"}

Loops ==
  [phase: Phases, todo: Seq(Calls \cup Entries), cut: Nat, why: {"threshold", "overflow", None},
   read: Nat]

Shape ==
  /\ scene \in Scenes /\ mishaps \in 0..MaxMishaps
  /\ loop \in Loops /\ loop.read <= Len(log) /\ loop.cut <= Len(log)
  /\ thread \in Seq(InSeq(thread))

\* The Runs of thread th and the Run with log s ask for different calls.
ThreadOK(th, s) ==
  /\ \A i \in 1..Len(th) : Legible(th[i])
  /\ \A i \in 1..Len(th) : CallsMade(th[i]) \cap CallsMade(s) = {}
  /\ \A i, k \in 1..Len(th) : i # k => CallsMade(th[i]) \cap CallsMade(th[k]) = {}

Open(s) == Reduced(s).view.open_tool_calls

\* A call that is open began in the last turn.
CallsOK(s) ==
  \A c \in Open(s) : \A q \in 1..Len(s) : Begins(s, q, c) => OneTurn(s, q, Len(s))

\* A loop l on log s is where the open calls say that it is.
PhaseOK(s, l) ==
  /\ Reduced(s).view.settled => l.phase = "off"
  /\ l.phase = "off" => l = Off
  /\ l.phase \in CalmPhases => Open(s) = {}
  /\ l.phase = "executing" => Open(s) \subseteq {l.todo[1], Inner}
  /\ l.phase = "skipping" => Open(s) \subseteq {l.todo[1]}

\* The calls of a batch were asked for in the last turn.
AskedFor(s, todo) ==
  \A i \in DOMAIN todo : /\ todo[i] \in Calls \ {Inner}
                         /\ \E k \in 1..Len(s) : Asks(s, k, todo[i]) /\ OneTurn(s, k, Len(s))

TodoOK(s, l) == l.phase \in CallPhases => l.todo # <<>> /\ AskedFor(s, l.todo)

\* The calls that begin in the first n records end there.
AnsweredUpTo(s, n) ==
  \A c \in Calls, q \in 1..n : Begins(s, q, c) => \E p \in 1..n : q < p /\ Ends(s, p, c)

ReadOK(s, l) == l.phase = "asking" => AnsweredUpTo(s, l.read)

\* A cut is ahead of the last one, between two turns, and below the recent ones.
CutAhead(s, cut, keep) ==
  /\ Boundary(s) < cut /\ cut < Len(s)
  /\ s[cut + 1].type = "turn_started"
  /\ Cardinality(TurnsAbove(s, cut)) >= keep

CutOK(s, l, keep) ==
  /\ Reduced(s).view.compaction_boundary_seq = Boundary(s)
  /\ Compactions(s) # {} => Cardinality(TurnsAbove(s, Boundary(s))) >= keep
  /\ l.phase = "summarising" => CutAhead(s, l.cut, keep)

\* All of it: th is the thread, s the log, l the loop.
Fine(th, s, l, keep) ==
  /\ Legible(s) /\ ThreadOK(th, s) /\ CallsOK(s)
  /\ PhaseOK(s, l) /\ TodoOK(s, l) /\ ReadOK(s, l) /\ CutOK(s, l, keep)

Inv == Shape /\ Fine(thread, log, loop, scene.keep)

-----------------------------------------------------------------------------
(* Sequences of sequences *)

\* f[i] is the first i of the sequences s, one after another.
IsFlat(f, s, N) == f = [i \in 1..N |-> IF i = 1 THEN s[i] ELSE f[i - 1] \o s[i]]

\* There is such a function for every number of sequences.
LEMMA FlatExists ==
  ASSUME NEW s, NEW N \in Nat
  PROVE  \E f : IsFlat(f, s, N)
<1> DEFINE T == {n \in Nat : ~\E f : IsFlat(f, s, n)}
<1>1. SUFFICES ASSUME T # {} PROVE FALSE
  OBVIOUS
<1>2. PICK x \in T : \A y \in T : x <= y
  <2> HIDE DEF T
  <2>1. T \in SUBSET Nat BY DEF T
  <2> QED BY <1>1, <2>1, LeastNat
<1>3. CASE x = 0
  <2>1. IsFlat([i \in 1..0 |-> s[i]], s, 0)
    <3>1. \A i \in 1..0 : FALSE
      OBVIOUS
    <3> QED BY <3>1 DEF IsFlat
  <2> QED BY <1>2, <1>3, <2>1
<1>4. CASE x # 0
  <2>1. x - 1 \in Nat /\ x - 1 \notin T
    BY <1>2, <1>4
  <2>2. PICK f : IsFlat(f, s, x - 1)
    BY <2>1
  <2> DEFINE g == [i \in 1..x |-> IF i = x THEN (IF x = 1 THEN s[x] ELSE f[x - 1] \o s[x]) ELSE f[i]]
  <2>3. \A i \in 1..x : g[i] = IF i = 1 THEN s[i] ELSE g[i - 1] \o s[i]
    <3> SUFFICES ASSUME NEW i \in 1..x
                 PROVE  g[i] = IF i = 1 THEN s[i] ELSE g[i - 1] \o s[i]
      OBVIOUS
    <3>1. CASE i = x
      BY <3>1, <1>4
    <3>2. CASE i # x
      <4>1. i \in 1..x - 1 /\ (i # 1 => i - 1 \in 1..x /\ i - 1 # x)
        BY <1>2, <3>2
      <4>2. f[i] = IF i = 1 THEN s[i] ELSE f[i - 1] \o s[i]
        BY <2>2, <4>1 DEF IsFlat
      <4>3. g[i] = f[i] /\ (i # 1 => g[i - 1] = f[i - 1])
        BY <3>2, <4>1
      <4> HIDE DEF g
      <4> QED BY <4>2, <4>3
    <3> QED BY <3>1, <3>2
  <2>4. g = [i \in 1..x |-> IF i = 1 THEN s[i] ELSE g[i - 1] \o s[i]]
    <3>1. g = [i \in 1..x |-> g[i]]
      OBVIOUS
    <3> HIDE DEF g
    <3> QED BY <3>1, <2>3
  <2>5. IsFlat(g, s, x)
    <3> HIDE DEF g
    <3> QED BY <2>4 DEF IsFlat
  <2> HIDE DEF g
  <2> QED BY <1>2, <2>5
<1> QED BY <1>3, <1>4

\* FlattenSeq is the value of such a function at the last sequence.
LEMMA FlatIs ==
  ASSUME NEW s, Len(s) \in Nat \ {0}
  PROVE  \E f : IsFlat(f, s, Len(s)) /\ FlattenSeq(s) = f[Len(s)]
<1> DEFINE N == Len(s)
           F == CHOOSE f : f = [i \in 1..N |-> IF i = 1 THEN s[i] ELSE f[i - 1] \o s[i]]
<1>1. FlattenSeq(s) = F[N]
  BY DEF FlattenSeq
<1>2. F = CHOOSE f : IsFlat(f, s, N)
  BY DEF IsFlat
<1>3. IsFlat(F, s, N)
  <2> HIDE DEF N, F
  <2>1. \E f : IsFlat(f, s, N)
    BY FlatExists DEF N
  <2> QED BY <1>2, <2>1
<1> HIDE DEF F
<1> QED BY <1>1, <1>3

\* at[j]: how many elements the first j of the sequences s have.
Offsets(at, s) ==
  /\ at \in [0..Len(s) -> Nat] /\ at[0] = 0
  /\ \A j \in 1..Len(s) : at[j] = at[j - 1] + Len(s[j])
  /\ \A j, k \in 0..Len(s) : j <= k => at[j] <= at[k]

\* The elements of t are those of the sequences of s, in their order.
Flat(t, s, at, n) ==
  /\ Len(t) = at[n]
  /\ \A j \in 1..n : \A x \in 1..Len(s[j]) : t[at[j - 1] + x] = s[j][x]
  /\ \A i \in 1..Len(t) : \E j \in 1..n : \E x \in 1..Len(s[j]) : i = at[j - 1] + x

\* Places within a sum.
LEMMA Sums ==
  ASSUME NEW p \in Nat, NEW q \in Nat, NEW r \in Nat, NEW l \in Nat, q = p + l, q <= r,
         NEW x \in 1..l
  PROVE  p + x \in 1..r
OBVIOUS

\* How far each part of a flattened sequence reaches.
LEMMA OffsetsExist ==
  ASSUME NEW M, NEW s \in Seq(Seq(M)), NEW f, IsFlat(f, s, Len(s))
  PROVE  \E at : /\ Offsets(at, s)
                 /\ \A n \in 1..Len(s) : f[n] \in Seq(M) /\ Flat(f[n], s, at, n)
<1>0. Len(s) \in Nat /\ \A i \in 1..Len(s) : s[i] \in Seq(M) /\ Len(s[i]) \in Nat
  OBVIOUS
<1> DEFINE at == [j \in 0..Len(s) |-> IF j = 0 THEN 0 ELSE Len(f[j])]
           P(n) == /\ f[n] \in Seq(M)
                   /\ at[n] = at[n - 1] + Len(s[n]) /\ at[n] \in Nat
                   /\ \A j \in 0..n : at[j] \in Nat /\ at[j] <= at[n]
                   /\ Flat(f[n], s, at, n)
           T == {n \in 1..Len(s) : ~P(n)}
<1>1. T = {}
  <2> SUFFICES ASSUME T # {} PROVE FALSE
    OBVIOUS
  <2>1. PICK n \in T : \A y \in T : n <= y
    <3>1. T \in SUBSET Nat
      OBVIOUS
    <3> HIDE DEF T
    <3> QED BY <3>1, LeastNat
  <2>2. n \in 1..Len(s) /\ n \in Nat /\ n \in 0..Len(s) /\ n - 1 \in 0..Len(s) /\ s[n] \in Seq(M)
        /\ Len(s[n]) \in Nat
    BY <1>0, <2>1
  <2>3. CASE n = 1
    <3>1. f[1] = s[1]
      BY <2>2, <2>3 DEF IsFlat
    <3>2. at[0] = 0 /\ at[1] = Len(s[1]) /\ 1 - 1 = 0
      BY <2>2, <2>3, <3>1
    <3> HIDE DEF at
    <3>3. Flat(f[1], s, at, 1)
      <4>1. \A j \in 1..1 : j = 1
        OBVIOUS
      <4>2. Len(s[1]) \in Nat /\ \A x \in 1..Len(s[1]) : 0 + x = x
        BY <2>2, <2>3
      <4> QED BY <3>1, <3>2, <4>1, <4>2 DEF Flat
    <3>4. \A j \in 0..1 : j = 0 \/ j = 1
      OBVIOUS
    <3>5. P(1)
      BY <2>2, <2>3, <3>1, <3>2, <3>3, <3>4
    <3> QED BY <2>1, <2>3, <3>5
  <2>4. CASE n # 1
    <3>0. n - 1 \in 1..Len(s)
      BY <2>2, <2>4
    <3>1. \A j \in 1..n - 1 : j \in 1..Len(s) /\ j \notin T
      <4> HIDE DEF T
      <4> QED BY <1>0, <2>1, <2>2
    <3>2. (\A j \in 1..n - 1 : P(j)) /\ n - 1 \in 1..n - 1
      <4>1. ASSUME NEW j \in 1..n - 1 PROVE P(j)
        <5>1. j \in 1..Len(s) /\ j \notin T
          BY <3>1
        <5> HIDE DEF P
        <5> QED BY <5>1
      <4>2. n - 1 \in 1..n - 1
        BY <3>0, <2>2
      <4> HIDE DEF P
      <4> QED BY <4>1, <4>2
    <3> HIDE DEF at
    <3>3. f[n] = f[n - 1] \o s[n]
      BY <2>2, <2>4 DEF IsFlat
    <3> DEFINE a == f[n - 1]
               b == f[n]
    <3>4. /\ b \in Seq(M) /\ Len(b) = Len(a) + Len(s[n])
          /\ \A i \in 1..Len(a) : b[i] = a[i]
          /\ \A x \in 1..Len(s[n]) : b[Len(a) + x] = s[n][x]
      <4>1. a \in Seq(M) /\ s[n] \in Seq(M)
        BY <2>2, <3>2
      <4>2. b = a \o s[n]
        BY <3>3
      <4> HIDE DEF a, b
      <4> QED BY <4>1, <4>2
    <3>5. at[n - 1] = Len(a) /\ at[n] = Len(b) /\ Len(a) \in Nat
      BY <2>2, <2>4, <3>0, <3>2 DEF at
    <3> HIDE DEF a, b
    <3>6. Flat(b, s, at, n)
      <4>1. ASSUME NEW j \in 1..n, NEW x \in 1..Len(s[j]) PROVE b[at[j - 1] + x] = s[j][x]
        <5>1. CASE j = n
          BY <3>4, <3>5, <5>1
        <5>2. CASE j # n
          <6>1. j \in 1..n - 1 /\ j \in 0..n - 1 /\ j - 1 \in 0..n - 1 /\ j \in 1..Len(s)
            BY <2>2, <5>2
          <6>2. a[at[j - 1] + x] = s[j][x]
            BY <3>2, <6>1 DEF Flat, a
          <6>3. at[j - 1] + x \in 1..Len(a)
            <7>1. at[j] = at[j - 1] + Len(s[j]) /\ at[j] <= at[n - 1] /\ at[j - 1] \in Nat /\ at[j] \in Nat
                  /\ Len(s[j]) \in Nat
              BY <1>0, <3>2, <6>1
            <7> QED BY <3>5, <7>1, Sums
          <6> QED BY <3>4, <6>2, <6>3
        <5> QED BY <5>1, <5>2
      <4>2. ASSUME NEW i \in 1..Len(b)
            PROVE  \E j \in 1..n : \E x \in 1..Len(s[j]) : i = at[j - 1] + x
        <5>1. CASE i <= Len(a)
          <6>1. i \in 1..Len(a)
            BY <5>1, <3>5
          <6>2. PICK j \in 1..n - 1 : \E x \in 1..Len(s[j]) : i = at[j - 1] + x
            BY <3>2, <6>1 DEF Flat, a
          <6>3. j \in 1..n
            BY <2>2
          <6> QED BY <6>2, <6>3
        <5>2. CASE ~(i <= Len(a))
          <6>1. i - Len(a) \in 1..Len(s[n]) /\ n \in 1..n
            BY <2>2, <3>4, <3>5, <5>2
          <6>2. i = at[n - 1] + (i - Len(a))
            BY <3>5
          <6> QED BY <6>1, <6>2
        <5> QED BY <5>1, <5>2
      <4> QED BY <3>5, <4>1, <4>2 DEF Flat
    <3>7. at[n] = at[n - 1] + Len(s[n]) /\ at[n] \in Nat
      BY <2>2, <3>4, <3>5
    <3>8. \A j \in 0..n : at[j] \in Nat /\ at[j] <= at[n]
      <4> TAKE j \in 0..n
      <4>1. CASE j = n
        BY <3>7, <4>1
      <4>2. CASE j # n
        <5>1. j \in 0..n - 1
          BY <2>2, <4>2
        <5>2. at[j] \in Nat /\ at[j] <= at[n - 1]
          BY <3>2, <5>1
        <5>3. at[n] = at[n - 1] + Len(s[n]) /\ at[n - 1] \in Nat /\ Len(s[n]) \in Nat
          BY <2>2, <3>5, <3>7
        <5> QED BY <5>2, <5>3
      <4> QED BY <4>1, <4>2
    <3>9. P(n)
      BY <3>4, <3>6, <3>7, <3>8 DEF b
    <3> QED BY <2>1, <3>9
  <2> QED BY <2>3, <2>4
<1>2. \A n \in 1..Len(s) : P(n)
  BY <1>1
<1>3. at[0] = 0
  BY <1>0
<1>4. DOMAIN at = 0..Len(s) /\ at = [j \in 0..Len(s) |-> at[j]]
  OBVIOUS
<1> HIDE DEF at
<1>5. Offsets(at, s)
  <2>1. ASSUME NEW j \in 0..Len(s) PROVE at[j] \in Nat
    BY <1>0, <1>2, <1>3
  <2>2. at \in [0..Len(s) -> Nat]
    BY <1>4, <2>1
  <2>3. ASSUME NEW j \in 0..Len(s), NEW k \in 0..Len(s), j <= k PROVE at[j] <= at[k]
    <3>1. CASE k = 0
      BY <1>0, <1>3, <2>3, <3>1
    <3>2. CASE k # 0
      <4>1. k \in 1..Len(s) /\ j \in 0..k
        BY <1>0, <2>3, <3>2
      <4> QED BY <1>2, <4>1
    <3> QED BY <3>1, <3>2
  <2> QED BY <1>2, <1>3, <2>2, <2>3 DEF Offsets
<1> QED BY <1>2, <1>5

\* The elements of FlattenSeq(s) have the order of s.
LEMMA Flattened ==
  ASSUME NEW M, NEW s \in Seq(Seq(M))
  PROVE  \E at : Offsets(at, s) /\ FlattenSeq(s) \in Seq(M) /\ Flat(FlattenSeq(s), s, at, Len(s))
<1>0. Len(s) \in Nat
  OBVIOUS
<1>1. CASE Len(s) = 0
  <2>1. FlattenSeq(s) = s /\ s = <<>>
    BY <1>1 DEF FlattenSeq
  <2> DEFINE at == [j \in 0..0 |-> 0]
  <2>2. Offsets(at, s)
    BY <1>1 DEF Offsets
  <2>3. Flat(s, s, at, 0)
    BY <1>1 DEF Flat
  <2> HIDE DEF at
  <2>4. s \in Seq(M)
    BY <2>1
  <2> QED BY <1>1, <2>1, <2>2, <2>3, <2>4
<1>2. CASE Len(s) # 0
  <2>1. PICK f : IsFlat(f, s, Len(s)) /\ FlattenSeq(s) = f[Len(s)]
    BY <1>0, <1>2, FlatIs
  <2>2. PICK at : Offsets(at, s) /\ \A n \in 1..Len(s) : f[n] \in Seq(M) /\ Flat(f[n], s, at, n)
    BY <2>1, OffsetsExist
  <2>3. Len(s) \in 1..Len(s)
    BY <1>0, <1>2
  <2> QED BY <2>1, <2>2, <2>3
<1> QED BY <1>1, <1>2

-----------------------------------------------------------------------------
(* A log, one record longer *)

\* t is log s and then rec, and its state is one step further.
CutAfter(v, rec) ==
  IF rec.type = "compaction_applied" /\ rec.replaced_to_seq > v.compaction_boundary_seq
  THEN rec.replaced_to_seq ELSE v.compaction_boundary_seq

Extended(s, rec, t) ==
  /\ ProperLog(s) /\ ProperLog(t) /\ WellFormed(rec)
  /\ Len(s) \in Nat /\ Len(t) = Len(s) + 1
  /\ DOMAIN s = 1..Len(s) /\ DOMAIN t = 1..Len(s) + 1
  /\ \A i \in 1..Len(s) : t[i] = s[i]
  /\ t[Len(s) + 1] = rec
  /\ ViewOK(Reduced(s).view) /\ ViewOK(Reduced(t).view)
  /\ Effect(Reduced(s).view, rec, Reduced(t).view)
  /\ Reduced(t).view.compaction_boundary_seq = CutAfter(Reduced(s).view, rec)

\* The boundary of the state, after a record.
LEMMA CutField ==
  ASSUME NEW v, NEW rec, DOMAIN v = DOMAIN EmptyView
  PROVE  NextView(v, rec).compaction_boundary_seq = CutAfter(v, rec)
<1> DEFINE w == AfterRecord(v, rec)
<1> USE DEF AfterRecord, EmptyView, AfterAttempt, Closed, Priced, AfterToolCall, Repeated,
            AfterStepStart, AfterStepEnd, Without, AfterSuspend, AfterResume, Decided,
            Delivered, AfterCompaction, AfterSettle
<1>1. DOMAIN w = DOMAIN EmptyView
  OBVIOUS
<1>2. w.compaction_boundary_seq = CutAfter(v, rec)
  BY DEF CutAfter
<1> HIDE DEF w, AfterRecord
<1> QED BY <1>1, <1>2 DEF NextView, w

\* A record that a Journal's continued fold accepts, and whose entry is new if
\* it enqueues one, makes another accepted log.
LEMMA WritesExtends ==
  ASSUME NEW s, ProperLog(s), NEW rec, WellFormed(rec), Accepts(Started(Reduced(s).view), rec),
         rec.type = "queue_enqueued" =>
           \A i \in 1..Len(s) : s[i].type = "queue_enqueued" => s[i].entry # rec.entry
  PROVE  /\ Extended(s, rec, Append(s, rec))
         /\ RecordAccepted(Reduced(s).view, Reduced(s).seen, rec)
         /\ Reduced(s).view.settled => rec.type = "run_settled"
<1> DEFINE f == Reduced(s)
<1>1. FoldOK(f) /\ ViewOK(f.view) /\ f = Prefix(s, Len(s)) /\ Len(s) \in 0..Len(s) /\ Len(s) \in Nat
  <2>1. FoldOK(f) /\ ViewOK(f.view) /\ f = Prefix(s, Len(s))
    BY ProperFold
  <2>2. Len(s) \in Nat
    BY DEF ProperLog
  <2> HIDE DEF f
  <2> QED BY <2>1, <2>2
<1>2. Follows(Started(f.view), f)
  BY <1>1, AlikeItself, StartedFollows
<1>3. rec.type = "queue_enqueued" => rec.entry \notin f.seen.enqueued
  <2>1. Backed(f, s, Len(s))
    BY <1>1, LogRemembers DEF ProperLog
  <2>2. \A e \in f.seen.enqueued : \E i \in 1..Len(s) : s[i].type = "queue_enqueued" /\ s[i].entry = e
    BY <2>1 DEF Backed
  <2> HIDE DEF f
  <2> QED BY <2>2
<1>4. Accepts(f, rec)
  BY <1>2, <1>3, FollowedAccepts
<1> DEFINE t == Append(s, rec)
<1>5. /\ ProperLog(t) /\ Len(t) = Len(s) + 1
      /\ \A i \in 1..Len(s) : t[i] = s[i]
      /\ t[Len(s) + 1] = rec
      /\ DOMAIN t = 1..Len(s) + 1 /\ DOMAIN s = 1..Len(s)
      /\ Reduced(t).view = NextView(f.view, rec)
      /\ Effect(f.view, rec, Reduced(t).view)
  BY <1>4, ProperAppend
<1>6. ViewOK(Reduced(t).view)
  BY <1>5, ProperFold
<1>7. Reduced(t).view.compaction_boundary_seq = CutAfter(f.view, rec)
  BY <1>1, <1>5, CutField DEF ViewOK
<1>8. Extended(s, rec, t)
  <2> HIDE DEF t
  <2> QED BY <1>1, <1>5, <1>6, <1>7 DEF Extended
<1> QED BY <1>4, <1>8 DEF Accepts

\* What the positions of a log say of calls and turns, one record later.
LEMMA PlacesAfter ==
  ASSUME NEW s, NEW rec, NEW t, Extended(s, rec, t)
  PROVE  LET n == Len(s) + 1 IN
         /\ \A k, c : Asks(t, k, c) <=>
              Asks(s, k, c) \/ (k = n /\ rec.type = "model_call_finished" /\ c \in InSeq(rec.asks))
         /\ \A q, c : Begins(t, q, c) <=>
              Begins(s, q, c) \/ (q = n /\ rec.type = "tool_call_started" /\ rec.call = c)
         /\ \A p, c : Ends(t, p, c) <=>
              Ends(s, p, c) \/ (p = n /\ rec.type = "tool_call_finished" /\ rec.call = c)
         /\ \A i, j : i \in 1..n /\ j \in 1..Len(s) => (OneTurn(t, i, j) <=> OneTurn(s, i, j))
         /\ \A i \in 1..n : OneTurn(t, i, n) <=> OneTurn(s, i, Len(s)) /\ rec.type # "turn_started"
<1> DEFINE n == Len(s) + 1
<1>1. /\ Len(s) \in Nat /\ n \in Nat /\ Len(t) = n /\ n \in 1..n
      /\ \A i \in 1..n : i \in 1..Len(s) \/ i = n
      /\ \A i \in 1..Len(s) : i \in 1..n /\ i # n /\ t[i] = s[i]
      /\ t[n] = rec
  BY DEF Extended
<1> HIDE DEF n
<1>2. \A k, c : Asks(t, k, c) <=>
        Asks(s, k, c) \/ (k = n /\ rec.type = "model_call_finished" /\ c \in InSeq(rec.asks))
  BY <1>1 DEF Asks
<1>3. \A q, c : Begins(t, q, c) <=>
        Begins(s, q, c) \/ (q = n /\ rec.type = "tool_call_started" /\ rec.call = c)
  BY <1>1 DEF Begins
<1>4. \A p, c : Ends(t, p, c) <=>
        Ends(s, p, c) \/ (p = n /\ rec.type = "tool_call_finished" /\ rec.call = c)
  BY <1>1 DEF Ends
<1>5. ASSUME NEW i \in 1..n, NEW j \in 1..Len(s) PROVE OneTurn(t, i, j) <=> OneTurn(s, i, j)
  <2>1. \A k \in 1..n : k <= j => k \in 1..Len(s)
    BY <1>1
  <2> QED BY <1>1, <2>1 DEF OneTurn
<1>6. ASSUME NEW i \in 1..n PROVE OneTurn(t, i, n) <=> OneTurn(s, i, Len(s)) /\ rec.type # "turn_started"
  <2>1. /\ \A k \in 1..n : k <= n
        /\ \A k \in 1..Len(s) : k <= Len(s)
        /\ i <= n
    BY <1>1
  <2> QED BY <1>1, <2>1 DEF OneTurn
<1> QED BY <1>2, <1>3, <1>4, <1>5, <1>6 DEF n

\* What rec needs to be the next record of a legible log.
MayFollow(s, rec) ==
  /\ Fields(rec)
  /\ rec.type = "compaction_applied" =>
       /\ rec.replaced_to_seq \in Nat /\ rec.replaced_to_seq + 1 \in 1..Len(s)
       /\ s[rec.replaced_to_seq + 1].type = "turn_started"
  /\ rec.type = "model_call_finished" =>
       \A c \in InSeq(rec.asks), k \in 1..Len(s) : ~Asks(s, k, c)
  /\ rec.type = "tool_call_started" /\ rec.call # Inner =>
       \E k \in 1..Len(s) : Asks(s, k, rec.call) /\ OneTurn(s, k, Len(s))
  /\ rec.type = "tool_call_finished" =>
       \E q \in 1..Len(s) : Begins(s, q, rec.call) /\ OneTurn(s, q, Len(s))

\* A log stays legible.
LEMMA LegibleAfter ==
  ASSUME NEW s, Legible(s), NEW rec, MayFollow(s, rec), NEW t, Extended(s, rec, t)
  PROVE  Legible(t)
<1> DEFINE n == Len(s) + 1
<1>1. /\ Len(s) \in Nat /\ n \in Nat /\ Len(t) = n /\ n \in 1..n
      /\ \A i \in 1..n : i \in 1..Len(s) \/ i = n
      /\ \A i \in 1..Len(s) : i \in 1..n /\ i < n /\ t[i] = s[i]
      /\ t[n] = rec
  BY DEF Extended
<1>2. /\ \A k, c : Asks(t, k, c) <=>
           Asks(s, k, c) \/ (k = n /\ rec.type = "model_call_finished" /\ c \in InSeq(rec.asks))
      /\ \A q, c : Begins(t, q, c) <=>
           Begins(s, q, c) \/ (q = n /\ rec.type = "tool_call_started" /\ rec.call = c)
      /\ \A p, c : Ends(t, p, c) <=>
           Ends(s, p, c) \/ (p = n /\ rec.type = "tool_call_finished" /\ rec.call = c)
      /\ \A i, j : i \in 1..n /\ j \in 1..Len(s) => (OneTurn(t, i, j) <=> OneTurn(s, i, j))
      /\ \A i \in 1..n : OneTurn(t, i, n) <=> OneTurn(s, i, Len(s)) /\ rec.type # "turn_started"
  BY PlacesAfter
<1> HIDE DEF n
<1>3. \A i \in 1..n : Fields(t[i])
  BY <1>1 DEF Legible, MayFollow
<1>4. CutsBetweenTurns(t)
  <2> SUFFICES ASSUME NEW i \in 1..n, t[i].type = "compaction_applied"
               PROVE  /\ t[i].replaced_to_seq \in Nat /\ t[i].replaced_to_seq + 1 < i
                      /\ t[t[i].replaced_to_seq + 1].type = "turn_started"
    BY <1>1 DEF CutsBetweenTurns
  <2>1. CASE i \in 1..Len(s)
    <3>1. /\ s[i].replaced_to_seq \in Nat /\ s[i].replaced_to_seq + 1 < i
          /\ s[s[i].replaced_to_seq + 1].type = "turn_started" /\ t[i] = s[i]
      BY <1>1, <2>1 DEF Legible, CutsBetweenTurns
    <3>2. s[i].replaced_to_seq + 1 \in 1..Len(s)
      BY <1>1, <2>1, <3>1
    <3> QED BY <1>1, <3>1, <3>2
  <2>2. CASE i = n
    <3>1. /\ rec.replaced_to_seq \in Nat /\ rec.replaced_to_seq + 1 \in 1..Len(s)
          /\ s[rec.replaced_to_seq + 1].type = "turn_started" /\ t[i] = rec
      BY <1>1, <2>2 DEF MayFollow
    <3> QED BY <1>1, <2>2, <3>1
  <2> QED BY <1>1, <2>1, <2>2
<1>5. \A c \in Calls, i, k \in 1..n : Asks(t, i, c) /\ Asks(t, k, c) => i = k
  <2> TAKE c \in Calls, i, k \in 1..n
  <2>1. \A j : Asks(s, j, c) => j \in 1..Len(s)
    BY DEF Asks
  <2> QED BY <1>1, <1>2, <2>1 DEF Legible, Paired, MayFollow
<1>6. \A c \in Calls \ {Inner}, q \in 1..n : Begins(t, q, c) =>
        \E k \in 1..n : k < q /\ Asks(t, k, c) /\ OneTurn(t, k, q)
  <2> SUFFICES ASSUME NEW c \in Calls \ {Inner}, NEW q \in 1..n, Begins(t, q, c)
               PROVE  \E k \in 1..n : k < q /\ Asks(t, k, c) /\ OneTurn(t, k, q)
    OBVIOUS
  <2>1. CASE Begins(s, q, c)
    <3>1. q \in 1..Len(s)
      BY <2>1 DEF Begins
    <3>2. PICK k \in 1..Len(s) : k < q /\ Asks(s, k, c) /\ OneTurn(s, k, q)
      BY <2>1, <3>1 DEF Legible, Paired
    <3> QED BY <1>1, <1>2, <3>1, <3>2
  <2>2. CASE q = n /\ rec.type = "tool_call_started" /\ rec.call = c
    <3>1. PICK k \in 1..Len(s) : Asks(s, k, c) /\ OneTurn(s, k, Len(s))
      BY <2>2 DEF MayFollow
    <3> QED BY <1>1, <1>2, <2>2, <3>1
  <2> QED BY <1>2, <2>1, <2>2
<1>7. \A c \in Calls, p \in 1..n : Ends(t, p, c) =>
        \E q \in 1..n : q < p /\ Begins(t, q, c) /\ OneTurn(t, q, p)
  <2> SUFFICES ASSUME NEW c \in Calls, NEW p \in 1..n, Ends(t, p, c)
               PROVE  \E q \in 1..n : q < p /\ Begins(t, q, c) /\ OneTurn(t, q, p)
    OBVIOUS
  <2>1. CASE Ends(s, p, c)
    <3>1. p \in 1..Len(s)
      BY <2>1 DEF Ends
    <3>2. PICK q \in 1..Len(s) : q < p /\ Begins(s, q, c) /\ OneTurn(s, q, p)
      BY <2>1, <3>1 DEF Legible, Paired
    <3> QED BY <1>1, <1>2, <3>1, <3>2
  <2>2. CASE p = n /\ rec.type = "tool_call_finished" /\ rec.call = c
    <3>1. PICK q \in 1..Len(s) : Begins(s, q, c) /\ OneTurn(s, q, Len(s))
      BY <2>2 DEF MayFollow
    <3> QED BY <1>1, <1>2, <2>2, <3>1
  <2> QED BY <1>2, <2>1, <2>2
<1> QED BY <1>1, <1>3, <1>4, <1>5, <1>6, <1>7 DEF Legible, Paired, Extended

-----------------------------------------------------------------------------
(* Boundaries and prefixes *)

\* A bounded set of naturals that is not empty has a greatest element.
LEMMA GreatestNat ==
  ASSUME NEW N \in Nat, NEW T \in SUBSET (0..N), T # {}
  PROVE  \E x \in T : \A y \in T : y <= x
<1> DEFINE D == {d \in 0..N : N - d \in T}
<1>1. \A y \in T : y \in 0..N /\ N - y \in 0..N /\ N - (N - y) = y
  OBVIOUS
<1>2. D \in SUBSET Nat /\ D # {}
  <2>1. D \in SUBSET Nat
    OBVIOUS
  <2>2. PICK y \in T : TRUE
    OBVIOUS
  <2>3. N - y \in D
    BY <1>1, <2>2
  <2> QED BY <2>1, <2>3
<1>3. \A y \in T : N - y \in D
  BY <1>1
<1>4. \A d \in D : d \in 0..N /\ N - d \in T
  OBVIOUS
<1> HIDE DEF D
<1>5. PICK d \in D : \A e \in D : d <= e
  BY <1>2, LeastNat
<1>6. ASSUME NEW y \in T PROVE y <= N - d
  <2>1. d <= N - y
    BY <1>3, <1>5
  <2> QED BY <1>1, <1>4, <2>1
<1> QED BY <1>4, <1>5, <1>6

\* The boundary is the end of a summary that reaches furthest, just before a turn.
LEMMA BoundaryIs ==
  ASSUME NEW s, Legible(s)
  PROVE  /\ Boundary(s) \in Nat /\ Len(s) \in Nat
         /\ \A i \in 1..Len(s) : s[i].type = "compaction_applied" => s[i].replaced_to_seq <= Boundary(s)
         /\ Boundary(s) # 0 =>
              /\ \E i \in 1..Len(s) : /\ s[i].type = "compaction_applied"
                                      /\ s[i].replaced_to_seq = Boundary(s) /\ Boundary(s) + 1 < i
              /\ Boundary(s) + 1 \in 1..Len(s) /\ s[Boundary(s) + 1].type = "turn_started"
<1> DEFINE ends == {s[i].replaced_to_seq : i \in Compactions(s)} \cup {0}
<1>1. Len(s) \in Nat /\ DOMAIN s = 1..Len(s)
  BY DEF Legible, ProperLog
<1>2. \A i \in Compactions(s) :
        /\ i \in 1..Len(s) /\ s[i].type = "compaction_applied"
        /\ s[i].replaced_to_seq \in Nat /\ s[i].replaced_to_seq + 1 < i
        /\ s[s[i].replaced_to_seq + 1].type = "turn_started"
  BY <1>1 DEF Compactions, Legible, CutsBetweenTurns
<1>3. \A i \in 1..Len(s) : s[i].type = "compaction_applied" => s[i].replaced_to_seq \in ends
  BY <1>1 DEF Compactions
<1>4. \A e \in ends : e # 0 => \E i \in Compactions(s) : e = s[i].replaced_to_seq
  OBVIOUS
<1>5. ends \in SUBSET (0..Len(s)) /\ ends # {}
  <2>1. \A i \in Compactions(s) : s[i].replaced_to_seq \in 0..Len(s)
    BY <1>1, <1>2
  <2> QED BY <1>1, <2>1
<1>6. Boundary(s) = CHOOSE b \in ends : \A e \in ends : e <= b
  BY DEF Boundary
<1> HIDE DEF ends
<1>7. \E b \in ends : \A e \in ends : e <= b
  BY <1>1, <1>5, GreatestNat
<1>8. Boundary(s) \in ends /\ \A e \in ends : e <= Boundary(s)
  BY <1>6, <1>7
<1>9. CASE Boundary(s) = 0
  BY <1>1, <1>3, <1>8, <1>9
<1>10. CASE Boundary(s) # 0
  <2>1. PICK i \in Compactions(s) : Boundary(s) = s[i].replaced_to_seq
    BY <1>4, <1>8, <1>10
  <2>2. Boundary(s) + 1 \in 1..Len(s)
    BY <1>1, <1>2, <2>1
  <2> QED BY <1>1, <1>2, <1>3, <1>8, <2>1, <2>2
<1> QED BY <1>9, <1>10

\* The boundary is what it should be.
LEMMA BoundaryEquals ==
  ASSUME NEW s, Legible(s), NEW b \in Nat,
         \A i \in 1..Len(s) : s[i].type = "compaction_applied" => s[i].replaced_to_seq <= b,
         b # 0 => \E i \in 1..Len(s) : s[i].type = "compaction_applied" /\ s[i].replaced_to_seq = b
  PROVE  Boundary(s) = b
<1>1. Boundary(s) \in Nat /\ (Boundary(s) # 0 =>
        \E i \in 1..Len(s) : s[i].type = "compaction_applied" /\ s[i].replaced_to_seq = Boundary(s))
  BY BoundaryIs
<1>2. \A i \in 1..Len(s) : s[i].type = "compaction_applied" => s[i].replaced_to_seq <= Boundary(s)
  BY BoundaryIs
<1>3. b <= Boundary(s)
  BY <1>1, <1>2
<1>4. Boundary(s) <= b
  BY <1>1
<1> QED BY <1>1, <1>3, <1>4

\* The boundary follows the state's.
LEMMA BoundaryAfter ==
  ASSUME NEW s, Legible(s), NEW rec, NEW t, Extended(s, rec, t), Legible(t),
         Reduced(s).view.compaction_boundary_seq = Boundary(s)
  PROVE  Reduced(t).view.compaction_boundary_seq = Boundary(t)
<1> DEFINE n == Len(s) + 1
           b == Reduced(t).view.compaction_boundary_seq
<1>1. /\ Len(s) \in Nat /\ n \in Nat /\ Len(t) = n /\ n \in 1..n
      /\ \A i \in 1..n : i \in 1..Len(s) \/ i = n
      /\ \A i \in 1..Len(s) : i \in 1..n /\ i < n /\ t[i] = s[i]
      /\ t[n] = rec
  BY DEF Extended
<1>2. b = CutAfter(Reduced(s).view, rec)
  BY DEF Extended
<1> HIDE DEF n, b
<1>3. rec.type = "compaction_applied" => rec.replaced_to_seq \in Nat
  BY <1>1 DEF Legible, CutsBetweenTurns
<1>4. /\ Boundary(s) \in Nat
      /\ \A i \in 1..Len(s) : s[i].type = "compaction_applied" =>
           s[i].replaced_to_seq <= Boundary(s) /\ s[i].replaced_to_seq \in Nat
      /\ Boundary(s) # 0 =>
           \E i \in 1..Len(s) : s[i].type = "compaction_applied" /\ s[i].replaced_to_seq = Boundary(s)
  BY BoundaryIs DEF Legible, CutsBetweenTurns
<1>5. CASE rec.type = "compaction_applied" /\ rec.replaced_to_seq > Boundary(s)
  <2>1. b = rec.replaced_to_seq /\ b \in Nat
    BY <1>2, <1>3, <1>5 DEF CutAfter
  <2>2. \A i \in 1..n : t[i].type = "compaction_applied" => t[i].replaced_to_seq <= b
    BY <1>1, <1>3, <1>4, <1>5, <2>1
  <2>3. \E i \in 1..n : t[i].type = "compaction_applied" /\ t[i].replaced_to_seq = b
    BY <1>1, <1>5, <2>1
  <2> QED BY <1>1, <2>1, <2>2, <2>3, BoundaryEquals DEF b
<1>6. CASE ~(rec.type = "compaction_applied" /\ rec.replaced_to_seq > Boundary(s))
  <2>1. b = Boundary(s) /\ b \in Nat
    BY <1>2, <1>4, <1>6 DEF CutAfter
  <2>2. \A i \in 1..n : t[i].type = "compaction_applied" => t[i].replaced_to_seq <= b
    BY <1>1, <1>3, <1>4, <1>6, <2>1
  <2>3. b # 0 => \E i \in 1..n : t[i].type = "compaction_applied" /\ t[i].replaced_to_seq = b
    BY <1>1, <1>4, <2>1
  <2> QED BY <1>1, <2>1, <2>2, <2>3, BoundaryEquals DEF b
<1> QED BY <1>5, <1>6

\* A sequence is one of its own elements.
LEMMA OwnElements ==
  ASSUME NEW S, NEW s \in Seq(S)
  PROVE  s \in Seq(InSeq(s))
<1>1. Len(s) \in Nat /\ DOMAIN s = 1..Len(s) /\ s = [i \in 1..Len(s) |-> s[i]]
  OBVIOUS
<1>2. \A i \in 1..Len(s) : s[i] \in InSeq(s)
  BY <1>1 DEF InSeq
<1> HIDE DEF InSeq
<1>3. s \in [1..Len(s) -> InSeq(s)]
  BY <1>1, <1>2
<1> QED BY <1>1, <1>3

\* The first n records of a legible log are one.
LEMMA LegiblePrefix ==
  ASSUME NEW s, Legible(s), NEW n \in 0..Len(s), NEW t, t = SubSeq(s, 1, n)
  PROVE  /\ Legible(t) /\ Len(t) = n /\ DOMAIN t = 1..n /\ \A i \in 1..n : t[i] = s[i]
<1>1. Len(s) \in Nat /\ s \in Seq(InSeq(s)) /\ ProperLog(s)
  BY DEF Legible, ProperLog
<1>2. Len(t) = n /\ DOMAIN t = 1..n /\ \A i \in 1..n : t[i] = s[i]
  BY <1>1
<1>3. t \in Seq(InSeq(t))
  <2>1. t \in Seq(InSeq(s))
    BY <1>1
  <2> QED BY <2>1, OwnElements
<1>4. Reduced(t).sound = TRUE
  <2>1. Reduced(t) = Prefix(s, n)
    BY DEF Prefix, Reduced
  <2> QED BY <1>1, <2>1, ProperPrefix DEF FoldOK
<1>5. \A i \in 1..n : i \in 1..Len(s)
  BY <1>1
<1>6. ProperLog(t)
  BY <1>1, <1>2, <1>3, <1>4, <1>5 DEF ProperLog
<1>7. \A i \in 1..n : Fields(t[i])
  BY <1>2, <1>5 DEF Legible
<1>8. CutsBetweenTurns(t)
  <2> SUFFICES ASSUME NEW i \in 1..n, t[i].type = "compaction_applied"
               PROVE  /\ t[i].replaced_to_seq \in Nat /\ t[i].replaced_to_seq + 1 < i
                      /\ t[t[i].replaced_to_seq + 1].type = "turn_started"
    BY <1>2 DEF CutsBetweenTurns
  <2>1. /\ s[i].replaced_to_seq \in Nat /\ s[i].replaced_to_seq + 1 < i
        /\ s[s[i].replaced_to_seq + 1].type = "turn_started" /\ t[i] = s[i]
    BY <1>2, <1>5 DEF Legible, CutsBetweenTurns
  <2>2. s[i].replaced_to_seq + 1 \in 1..n
    BY <1>1, <2>1
  <2> QED BY <1>2, <2>1, <2>2
<1>9. /\ \A k, c : Asks(t, k, c) <=> Asks(s, k, c) /\ k \in 1..n
      /\ \A k, c : Begins(t, k, c) <=> Begins(s, k, c) /\ k \in 1..n
      /\ \A k, c : Ends(t, k, c) <=> Ends(s, k, c) /\ k \in 1..n
  BY <1>2, <1>5 DEF Asks, Begins, Ends
<1>10. \A i, j : OneTurn(s, i, j) => OneTurn(t, i, j)
  BY <1>2, <1>5 DEF OneTurn
<1>11. Paired(t)
  <2>1. \A c \in Calls, i, k \in 1..n : Asks(t, i, c) /\ Asks(t, k, c) => i = k
    BY <1>5, <1>9 DEF Legible, Paired
  <2>2. ASSUME NEW c \in Calls \ {Inner}, NEW q \in 1..n, Begins(t, q, c)
        PROVE  \E k \in 1..n : k < q /\ Asks(t, k, c) /\ OneTurn(t, k, q)
    <3>1. PICK k \in 1..Len(s) : k < q /\ Asks(s, k, c) /\ OneTurn(s, k, q)
      BY <1>5, <1>9, <2>2 DEF Legible, Paired
    <3>2. k \in 1..n
      BY <1>1, <3>1
    <3> QED BY <1>9, <1>10, <3>1, <3>2
  <2>3. ASSUME NEW c \in Calls, NEW p \in 1..n, Ends(t, p, c)
        PROVE  \E q \in 1..n : q < p /\ Begins(t, q, c) /\ OneTurn(t, q, p)
    <3>1. PICK q \in 1..Len(s) : q < p /\ Begins(s, q, c) /\ OneTurn(s, q, p)
      BY <1>5, <1>9, <2>3 DEF Legible, Paired
    <3>2. q \in 1..n
      BY <1>1, <3>1
    <3> QED BY <1>9, <1>10, <3>1, <3>2
  <2> QED BY <1>2, <2>1, <2>2, <2>3 DEF Paired
<1> QED BY <1>2, <1>6, <1>7, <1>8, <1>11 DEF Legible

-----------------------------------------------------------------------------
(* Conversations *)

\* Record i is shown to the model, and what it is shown as.
Audible(s, i) ==
  \/ s[i].type \in {"run_admitted", "queue_consumed", "subagent_finished", "model_call_finished"}
  \/ s[i].type = "tool_call_finished" /\ ~ByProgram(s, s[i].call)

Utterance(r, i, a, b) == [role |-> r, seq |-> i, asks |-> a, answers |-> b]

Line(s, i) ==
  CASE s[i].type = "model_call_finished" -> Utterance("assistant", i, s[i].asks, {})
    [] s[i].type = "tool_call_finished" -> Utterance("result", i, <<>>, {s[i].call})
    [] OTHER -> Utterance("user", i, <<>>, {})

\* A message with its calls.
LEMMA MessageWith ==
  ASSUME NEW r, NEW i, NEW v
  PROVE  /\ Message(r, i) = Utterance(r, i, <<>>, {})
         /\ [Message(r, i) EXCEPT !.asks = v] = Utterance(r, i, v, {})
         /\ [Message(r, i) EXCEPT !.answers = v] = Utterance(r, i, <<>>, v)
<1>1. PICK z : z = <<>>
  OBVIOUS
<1>2. PICK y : y = {}
  OBVIOUS
<1>3. PICK m : m = Message(r, i)
  OBVIOUS
<1>4. m = [role |-> r, seq |-> i, asks |-> z, answers |-> y]
  BY <1>1, <1>2, <1>3 DEF Message
<1>5. /\ m = Utterance(r, i, z, y)
      /\ [m EXCEPT !.asks = v] = Utterance(r, i, v, y)
      /\ [m EXCEPT !.answers = v] = Utterance(r, i, z, v)
  BY <1>4 DEF Utterance
<1> QED BY <1>1, <1>2, <1>3, <1>5, Zenon

\* What a line says.
LEMMA LineIs ==
  ASSUME NEW s, NEW i
  PROVE  /\ Line(s, i).seq = i
         /\ s[i].type = "model_call_finished" => Line(s, i).asks = s[i].asks
         /\ s[i].type # "model_call_finished" => Line(s, i).asks = <<>>
         /\ s[i].type = "tool_call_finished" => Line(s, i).answers = {s[i].call}
         /\ s[i].type # "tool_call_finished" => Line(s, i).answers = {}
<1>1. \A r, a, b : LET u == Utterance(r, i, a, b) IN u.seq = i /\ u.asks = a /\ u.answers = b
  BY DEF Utterance
<1>2. CASE s[i].type = "model_call_finished"
  BY <1>1, <1>2 DEF Line
<1>3. CASE s[i].type # "model_call_finished"
  BY <1>1, <1>3 DEF Line
<1> QED BY <1>2, <1>3

\* A sequence of one element.
LEMMA Single ==
  ASSUME NEW M, NEW x \in M
  PROVE  <<x>> \in Seq(M) /\ Len(<<x>>) = 1 /\ <<x>>[1] = x
OBVIOUS

\* One message for each record that is shown.
LEMMA SaidIs ==
  ASSUME NEW s, NEW i
  PROVE  Said(s, i) = IF Audible(s, i) THEN <<Line(s, i)>> ELSE <<>>
<1> DEFINE rec == s[i]
           m == Message("result", i)
<1>1. CASE rec.type \in {"run_admitted", "queue_consumed", "subagent_finished"}
  <2>1. Said(s, i) = <<Message("user", i)>> /\ Audible(s, i)
    BY <1>1 DEF Said, Audible
  <2>2. Line(s, i) = Utterance("user", i, <<>>, {})
    BY <1>1 DEF Line
  <2> QED BY <2>1, <2>2, MessageWith
<1>2. CASE rec.type = "model_call_finished"
  <2>1. Said(s, i) = <<[Message("assistant", i) EXCEPT !.asks = rec.asks]>> /\ Audible(s, i)
    BY <1>2 DEF Said, Audible
  <2>2. [Message("assistant", i) EXCEPT !.asks = rec.asks] = Utterance("assistant", i, rec.asks, {})
    BY MessageWith
  <2>3. Line(s, i) = Utterance("assistant", i, rec.asks, {})
    BY <1>2 DEF Line
  <2> QED BY <2>1, <2>2, <2>3
<1>3. CASE rec.type = "tool_call_finished"
  <2>1. Said(s, i) = ResultOf(s, i)
    BY <1>3 DEF Said
  <2>2. [m EXCEPT !.answers = {rec.call}] = Utterance("result", i, <<>>, {rec.call})
    <3>1. \A v : [Message("result", i) EXCEPT !.answers = v] = Utterance("result", i, <<>>, v)
      BY MessageWith
    <3> QED BY <3>1
  <2>3. Line(s, i) = Utterance("result", i, <<>>, {rec.call})
    BY <1>3 DEF Line
  <2>4. Audible(s, i) <=> ~ByProgram(s, rec.call)
    BY <1>3 DEF Audible
  <2> QED BY <2>1, <2>2, <2>3, <2>4 DEF ResultOf
<1>4. CASE ~(rec.type \in {"run_admitted", "queue_consumed", "subagent_finished",
                           "model_call_finished", "tool_call_finished"})
  BY <1>4 DEF Said, Audible
<1> QED BY <1>1, <1>2, <1>3, <1>4

\* What is said above the boundary, in the order of the log.
InOrder(sp, s) ==
  /\ Len(sp) \in Nat /\ sp \in Seq({Line(s, i) : i \in 1..Len(s)})
  /\ \A x \in 1..Len(sp) : \E i \in 1..Len(s) : Boundary(s) < i /\ Audible(s, i) /\ sp[x] = Line(s, i)
  /\ \A i \in 1..Len(s) : Boundary(s) < i /\ Audible(s, i) => \E x \in 1..Len(sp) : sp[x] = Line(s, i)
  /\ \A x, y \in 1..Len(sp) : x < y => sp[x].seq < sp[y].seq

\* What is said of a log is the lines of its audible records above the boundary,
\* in their order.
LEMMA SpokenIs ==
  ASSUME NEW s, Legible(s)
  PROVE  InOrder(Spoken(s), s)
<1>1. Len(s) \in Nat /\ DOMAIN s = 1..Len(s) /\ Boundary(s) \in Nat
  <2>1. Boundary(s) \in Nat /\ Len(s) \in Nat
    BY BoundaryIs
  <2>2. DOMAIN s = 1..Len(s)
    BY DEF Legible, ProperLog
  <2> QED BY <2>1, <2>2
<1> DEFINE b == Boundary(s)
           sp == Spoken(s)
           M == {Line(s, i) : i \in 1..Len(s)}
           Shown(i) == b < i /\ Audible(s, i)
<1>2. PICK q : q = [i \in 1..Len(s) |-> IF i <= b THEN <<>> ELSE Said(s, i)]
  OBVIOUS
<1>3. sp = FlattenSeq(q)
  BY <1>1, <1>2 DEF Spoken
<1>4. Len(q) = Len(s) /\ DOMAIN q = 1..Len(s) /\ q = [i \in 1..Len(s) |-> q[i]]
  BY <1>1, <1>2
<1> HIDE DEF b, sp
<1>5. ASSUME NEW i \in 1..Len(s)
      PROVE  /\ Shown(i) => q[i] = <<Line(s, i)>> /\ Len(q[i]) = 1 /\ q[i][1] = Line(s, i)
             /\ ~Shown(i) => q[i] = <<>> /\ Len(q[i]) = 0
  <2>1. b < i <=> ~(i <= b)
    BY <1>1 DEF b
  <2>2. q[i] = IF i <= b THEN <<>> ELSE Said(s, i)
    BY <1>2
  <2>3. Said(s, i) = IF Audible(s, i) THEN <<Line(s, i)>> ELSE <<>>
    BY SaidIs
  <2>4. Shown(i) => q[i] = <<Line(s, i)>>
    BY <2>1, <2>2, <2>3
  <2>5. ~Shown(i) => q[i] = <<>>
    BY <2>1, <2>2, <2>3
  <2>6. Len(<<Line(s, i)>>) = 1 /\ <<Line(s, i)>>[1] = Line(s, i) /\ Len(<<>>) = 0
    BY Single
  <2> HIDE DEF Shown
  <2> QED BY <2>4, <2>5, <2>6
<1>6. q \in Seq(Seq(M))
  <2>1. ASSUME NEW i \in 1..Len(s) PROVE q[i] \in Seq(M)
    <3>1. Line(s, i) \in M
      OBVIOUS
    <3>2. <<Line(s, i)>> \in Seq(M) /\ <<>> \in Seq(M)
      <4> HIDE DEF M
      <4> QED BY <3>1, Single
    <3> HIDE DEF M, Shown
    <3> QED BY <1>5, <3>2
  <2> HIDE DEF M
  <2>2. q \in [1..Len(s) -> Seq(M)]
    BY <1>4, <2>1
  <2> QED BY <1>1, <2>2
<1> HIDE DEF M
<1>7. PICK at : Offsets(at, q) /\ sp \in Seq(M) /\ Flat(sp, q, at, Len(q))
  BY <1>3, <1>6, Flattened
<1>8. /\ at \in [0..Len(s) -> Nat] /\ \A j \in 1..Len(s) : at[j] = at[j - 1] + Len(q[j])
      /\ \A j, k \in 0..Len(s) : j <= k => at[j] <= at[k]
      /\ Len(sp) = at[Len(s)]
      /\ \A j \in 1..Len(s) : \A x \in 1..Len(q[j]) : sp[at[j - 1] + x] = q[j][x]
      /\ \A i \in 1..Len(sp) : \E j \in 1..Len(s) : \E x \in 1..Len(q[j]) : i = at[j - 1] + x
  BY <1>4, <1>7 DEF Offsets, Flat
<1>9. Len(sp) \in Nat
  BY <1>7
<1>10. ASSUME NEW j \in 1..Len(s), Shown(j)
       PROVE  /\ at[j] = at[j - 1] + 1 /\ at[j] \in 1..Len(sp) /\ sp[at[j]] = Line(s, j)
              /\ at[j - 1] \in Nat
  <2>1. q[j] = <<Line(s, j)>> /\ Len(q[j]) = 1 /\ q[j][1] = Line(s, j)
    BY <1>5, <1>10
  <2>2. j \in 0..Len(s) /\ j - 1 \in 0..Len(s) /\ Len(s) \in 0..Len(s) /\ j <= Len(s)
    BY <1>1
  <2>3. at[j] = at[j - 1] + 1 /\ at[j] <= Len(sp) /\ at[j] \in Nat /\ at[j - 1] \in Nat
    BY <1>8, <2>1, <2>2
  <2>4. sp[at[j - 1] + 1] = q[j][1]
    <3>1. 1 \in 1..Len(q[j])
      BY <2>1
    <3> QED BY <1>8, <3>1
  <2> QED BY <1>9, <2>1, <2>3, <2>4
<1>11. ASSUME NEW x \in 1..Len(sp)
       PROVE  \E j \in 1..Len(s) : Shown(j) /\ x = at[j]
  <2>1. PICK j \in 1..Len(s) : \E y \in 1..Len(q[j]) : x = at[j - 1] + y
    BY <1>8
  <2>2. CASE Shown(j)
    <3>1. q[j] = <<Line(s, j)>> /\ Len(q[j]) = 1
      BY <1>5, <2>2
    <3>2. \A y \in 1..1 : y = 1
      OBVIOUS
    <3>3. x = at[j - 1] + 1
      BY <2>1, <3>1, <3>2
    <3>4. at[j] = at[j - 1] + 1
      BY <1>10, <2>2
    <3> QED BY <2>2, <3>3, <3>4
  <2>3. CASE ~Shown(j)
    <3>1. Len(q[j]) = 0
      BY <1>5, <2>3
    <3> QED BY <2>1, <3>1
  <2> QED BY <2>2, <2>3
<1>12. \A x \in 1..Len(sp) : \E i \in 1..Len(s) : b < i /\ Audible(s, i) /\ sp[x] = Line(s, i)
  BY <1>10, <1>11
<1>13. \A i \in 1..Len(s) : b < i /\ Audible(s, i) => \E x \in 1..Len(sp) : sp[x] = Line(s, i)
  BY <1>10
<1>14. ASSUME NEW x \in 1..Len(sp), NEW y \in 1..Len(sp), x < y PROVE sp[x].seq < sp[y].seq
  <2>1. PICK j \in 1..Len(s) : Shown(j) /\ x = at[j]
    BY <1>11
  <2>2. PICK k \in 1..Len(s) : Shown(k) /\ y = at[k]
    BY <1>11
  <2>3. sp[x] = Line(s, j) /\ sp[y] = Line(s, k)
    BY <1>10, <2>1, <2>2
  <2>4. ~(k <= j)
    <3>1. j \in 0..Len(s) /\ k \in 0..Len(s)
      BY <1>1
    <3>2. k <= j => at[k] <= at[j]
      BY <1>8, <3>1
    <3> QED BY <1>14, <2>1, <2>2, <3>2
  <2>5. j < k
    BY <1>1, <2>4
  <2>6. sp[x].seq = j /\ sp[y].seq = k
    <3>1. \A n : Line(s, n).seq = n
      BY LineIs
    <3> QED BY <2>3, <3>1
  <2> QED BY <2>5, <2>6
<1> QED BY <1>7, <1>9, <1>12, <1>13, <1>14 DEF InOrder, b, sp, M

\* A conversation: a summary perhaps, and what is said above the boundary.
Messages(s) == {Message("summary", 0)} \cup {Line(s, i) : i \in 1..Len(s)}

Conversing(conv, s) ==
  /\ Len(conv) \in Nat /\ conv \in Seq(Messages(s)) /\ DOMAIN conv = 1..Len(conv)
  /\ \A x \in 1..Len(conv) :
       \/ conv[x] = Message("summary", 0)
       \/ \E i \in 1..Len(s) : Boundary(s) < i /\ Audible(s, i) /\ conv[x] = Line(s, i)
  /\ \A i \in 1..Len(s) : Boundary(s) < i /\ Audible(s, i) => \E x \in 1..Len(conv) : conv[x] = Line(s, i)
  /\ \A x, y \in 1..Len(conv) : x < y => conv[x].seq < conv[y].seq

\* A conversation is a summary, if there has been one, and then those lines.
LEMMA ConversationIs ==
  ASSUME NEW s, Legible(s)
  PROVE  Conversing(BuildConversation(s), s)
<1> DEFINE b == Boundary(s)
           N == {Line(s, i) : i \in 1..Len(s)}
           Said1(m) == \E i \in 1..Len(s) : b < i /\ Audible(s, i) /\ m = Line(s, i)
<1>1. PICK sp : sp = Spoken(s)
  OBVIOUS
<1>2. /\ Len(sp) \in Nat /\ sp \in Seq(N) /\ DOMAIN sp = 1..Len(sp)
      /\ \A x \in 1..Len(sp) : Said1(sp[x])
      /\ \A i \in 1..Len(s) : b < i /\ Audible(s, i) => \E x \in 1..Len(sp) : sp[x] = Line(s, i)
      /\ \A x, y \in 1..Len(sp) : x < y => sp[x].seq < sp[y].seq
  <2>1. InOrder(sp, s)
    BY <1>1, SpokenIs
  <2>2. sp \in Seq(N) => DOMAIN sp = 1..Len(sp)
    <3> HIDE DEF N
    <3> QED OBVIOUS
  <2> QED BY <2>1, <2>2 DEF InOrder
<1>3. PICK m : m = Message("summary", 0)
  OBVIOUS
<1>4. m.seq = 0
  BY <1>3 DEF Message
<1>5. Messages(s) = {m} \cup N
  BY <1>3 DEF Messages
<1>6. Len(s) \in Nat /\ \A i \in 1..Len(s) : Line(s, i).seq = i
  <2>1. \A i : Line(s, i).seq = i
    BY LineIs
  <2> QED BY <2>1, BoundaryIs
<1> HIDE DEF b, N
<1>7. CASE Compactions(s) = {}
  <2>1. BuildConversation(s) = sp
    <3>1. <<>> \o sp = sp
      BY <1>2
    <3> QED BY <1>1, <1>7, <3>1 DEF BuildConversation
  <2>2. sp \in Seq({m} \cup N)
    BY <1>2
  <2> QED BY <1>2, <1>3, <1>5, <2>1, <2>2 DEF Conversing, b
<1>8. CASE Compactions(s) # {}
  <2>1. PICK conv : conv = <<m>> \o sp
    OBVIOUS
  <2>2. BuildConversation(s) = conv
    BY <1>1, <1>3, <1>8, <2>1 DEF BuildConversation
  <2>3. /\ conv \in Seq({m} \cup N) /\ Len(conv) = 1 + Len(sp) /\ conv[1] = m
        /\ \A x \in 1..Len(sp) : conv[1 + x] = sp[x]
        /\ DOMAIN conv = 1..Len(conv)
    <3>1. <<m>> \in Seq({m} \cup N) /\ sp \in Seq({m} \cup N) /\ Len(<<m>>) = 1 /\ <<m>>[1] = m
      BY <1>2
    <3>2. PICK one : one = <<m>>
      OBVIOUS
    <3> QED BY <2>1, <3>1, <3>2
  <2>4. \A x \in 1..Len(conv) : x = 1 \/ (x - 1 \in 1..Len(sp) /\ conv[x] = sp[x - 1])
    <3> SUFFICES ASSUME NEW x \in 1..Len(conv), x # 1
                 PROVE  x - 1 \in 1..Len(sp) /\ conv[x] = sp[x - 1]
      OBVIOUS
    <3>1. x - 1 \in 1..Len(sp) /\ 1 + (x - 1) = x
      BY <1>2, <2>3
    <3> QED BY <2>3, <3>1
  <2>5. \A x \in 1..Len(conv) : conv[x] = m \/ Said1(conv[x])
    BY <1>2, <2>3, <2>4, ZenonT(60)
  <2>6. \A i \in 1..Len(s) : b < i /\ Audible(s, i) => \E x \in 1..Len(conv) : conv[x] = Line(s, i)
    <3>1. \A x \in 1..Len(sp) : 1 + x \in 1..Len(conv)
      BY <1>2, <2>3
    <3> QED BY <1>2, <2>3, <3>1
  <2>7. ASSUME NEW x \in 1..Len(conv), NEW y \in 1..Len(conv), x < y PROVE conv[x].seq < conv[y].seq
    <3>1. y - 1 \in 1..Len(sp) /\ conv[y] = sp[y - 1]
      BY <2>4, <2>7
    <3>2. CASE x = 1
      <4>1. PICK i \in 1..Len(s) : sp[y - 1] = Line(s, i)
        BY <1>2, <3>1
      <4>2. conv[y].seq = i /\ i > 0
        BY <1>6, <3>1, <4>1
      <4> QED BY <1>4, <2>3, <3>2, <4>2
    <3>3. CASE x # 1
      <4>1. x - 1 \in 1..Len(sp) /\ conv[x] = sp[x - 1]
        BY <2>4, <3>3
      <4>2. x - 1 < y - 1
        BY <2>7
      <4> QED BY <1>2, <3>1, <4>1, <4>2
    <3> QED BY <3>2, <3>3
  <2>8. Len(conv) \in Nat
    BY <1>2, <2>3
  <2> QED BY <1>3, <1>5, <2>2, <2>3, <2>5, <2>6, <2>7, <2>8 DEF Conversing, b
<1> QED BY <1>7, <1>8

\* What lies above the boundary, and in one turn with a record above it.
LEMMA SameSide ==
  ASSUME NEW s, Legible(s), NEW i \in 1..Len(s), NEW j \in 1..Len(s), i <= j,
         Boundary(s) < j, OneTurn(s, i, j)
  PROVE  Boundary(s) < i
<1>1. Boundary(s) \in Nat /\ Len(s) \in Nat
  BY BoundaryIs
<1>2. SUFFICES ASSUME i <= Boundary(s) PROVE FALSE
  BY <1>1
<1>3. Boundary(s) # 0
  BY <1>1, <1>2
<1>4. Boundary(s) + 1 \in 1..Len(s) /\ s[Boundary(s) + 1].type = "turn_started"
  BY <1>3, BoundaryIs
<1>5. i <= Boundary(s) + 1 /\ Boundary(s) + 1 <= j
  BY <1>1, <1>2
<1> QED BY <1>4, <1>5 DEF OneTurn

\* What the messages of a conversation ask for and answer.
LEMMA SpeaksOf ==
  ASSUME NEW s, Legible(s), NEW conv, Conversing(conv, s), NEW x \in 1..Len(conv), NEW c
  PROVE  /\ AsksFor(conv[x], c) =>
              \E i \in 1..Len(s) : Boundary(s) < i /\ Asks(s, i, c) /\ conv[x] = Line(s, i)
         /\ c \in conv[x].answers =>
              \E i \in 1..Len(s) : /\ Boundary(s) < i /\ Ends(s, i, c) /\ ~ByProgram(s, c)
                                   /\ conv[x] = Line(s, i)
<1>1. InSeq(<<>>) = {}
  BY DEF InSeq
<1>2. CASE conv[x] = Message("summary", 0)
  <2>1. conv[x].asks = <<>> /\ conv[x].answers = {}
    BY <1>2 DEF Message
  <2> QED BY <1>1, <2>1 DEF AsksFor
<1>3. ASSUME NEW i \in 1..Len(s), Boundary(s) < i, Audible(s, i), conv[x] = Line(s, i)
      PROVE  /\ AsksFor(conv[x], c) => Asks(s, i, c)
             /\ c \in conv[x].answers => Ends(s, i, c) /\ ~ByProgram(s, c)
  <2>1. /\ s[i].type = "model_call_finished" => Line(s, i).asks = s[i].asks
        /\ s[i].type # "model_call_finished" => Line(s, i).asks = <<>>
        /\ s[i].type = "tool_call_finished" => Line(s, i).answers = {s[i].call}
        /\ s[i].type # "tool_call_finished" => Line(s, i).answers = {}
    BY LineIs
  <2>2. AsksFor(Line(s, i), c) => Asks(s, i, c)
    BY <1>1, <2>1 DEF AsksFor, Asks
  <2>3. c \in Line(s, i).answers => s[i].type = "tool_call_finished" /\ c = s[i].call
    BY <2>1
  <2> QED BY <1>3, <2>2, <2>3 DEF Ends, Audible
<1>4. \/ conv[x] = Message("summary", 0)
      \/ \E i \in 1..Len(s) : Boundary(s) < i /\ Audible(s, i) /\ conv[x] = Line(s, i)
  BY DEF Conversing
<1> QED BY <1>2, <1>3, <1>4

\* In a conversation every result has its question above it, and no other
\* result has the same one.
LEMMA ConversationPairs ==
  ASSUME NEW s, Legible(s), NEW conv, conv = BuildConversation(s),
         NEW x \in 1..Len(conv), NEW c
  PROVE  /\ AsksFor(conv[x], c) => c \in CallsMade(s)
         /\ c \in conv[x].answers =>
              /\ c \in CallsMade(s)
              /\ \E z \in 1..x : AsksFor(conv[z], c)
              /\ \A y \in 1..Len(conv) : c \in conv[y].answers => y = x
<1>1. Conversing(conv, s)
  BY ConversationIs
<1>2. Len(s) \in Nat /\ Boundary(s) \in Nat /\ Len(conv) \in Nat /\ DOMAIN s = 1..Len(s) /\ ProperLog(s)
  <2>1. Len(s) \in Nat /\ Boundary(s) \in Nat
    BY BoundaryIs
  <2> QED BY <1>1, <2>1 DEF Legible, ProperLog, Conversing
<1>3. \A i : Asks(s, i, c) => c \in CallsMade(s)
  BY <1>2 DEF Asks, CallsMade
<1>4. \A i : Line(s, i).seq = i
  BY LineIs
<1>5. ASSUME AsksFor(conv[x], c) PROVE c \in CallsMade(s)
  BY <1>1, <1>3, <1>5, SpeaksOf
<1>6. ASSUME c \in conv[x].answers
      PROVE  /\ c \in CallsMade(s)
             /\ \E z \in 1..x : AsksFor(conv[z], c)
             /\ \A y \in 1..Len(conv) : c \in conv[y].answers => y = x
  <2>1. PICK p \in 1..Len(s) : /\ Boundary(s) < p /\ Ends(s, p, c) /\ ~ByProgram(s, c)
                               /\ conv[x] = Line(s, p)
    BY <1>1, <1>6, SpeaksOf
  <2>2. c \in Calls
    BY <2>1 DEF Ends, Legible, ProperLog, WellFormed
  <2>3. PICK q \in 1..Len(s) : q < p /\ Begins(s, q, c) /\ OneTurn(s, q, p)
    BY <2>1, <2>2 DEF Legible, Paired
  <2>4. Boundary(s) < q
    BY <1>2, <2>1, <2>3, SameSide
  <2>5. c # Inner
    <3>1. q \in Boundary(s) + 1 .. Len(s)
      BY <1>2, <2>4
    <3>2. s[q].by_program = (s[q].call = Inner)
      BY <2>3 DEF Legible, Fields, Begins
    <3> QED BY <2>1, <2>3, <3>1, <3>2 DEF ByProgram, Begins
  <2>6. PICK k \in 1..Len(s) : k < q /\ Asks(s, k, c) /\ OneTurn(s, k, q)
    BY <2>2, <2>3, <2>5 DEF Legible, Paired
  <2>7. Boundary(s) < k
    BY <1>2, <2>4, <2>6, SameSide
  <2>8. Audible(s, k)
    BY <2>6 DEF Asks, Audible
  <2>9. PICK z \in 1..Len(conv) : conv[z] = Line(s, k)
    BY <1>1, <2>7, <2>8 DEF Conversing
  <2>10. z <= x
    <3>1. conv[z].seq = k /\ conv[x].seq = p
      BY <1>4, <2>1, <2>9
    <3>2. x < z => p < k
      BY <1>1, <3>1 DEF Conversing
    <3> QED BY <1>2, <2>3, <2>6, <3>2
  <2>11. AsksFor(conv[z], c)
    <3>1. Line(s, k).asks = s[k].asks
      <4>1. s[k].type = "model_call_finished"
        BY <2>6 DEF Asks
      <4> QED BY <4>1, LineIs
    <3> QED BY <2>6, <2>9, <3>1 DEF AsksFor, Asks
  <2>12. ASSUME NEW y \in 1..Len(conv), c \in conv[y].answers PROVE y = x
    <3>1. PICK r \in 1..Len(s) : Ends(s, r, c) /\ conv[y] = Line(s, r)
      BY <1>1, <2>12, SpeaksOf
    <3>2. ~(r < p) /\ ~(p < r)
      BY <1>2, <2>1, <3>1, CallEndsInLog, SMTT(60) DEF Ends
    <3>3. r = p
      BY <1>2, <3>2
    <3>4. conv[y].seq = conv[x].seq /\ conv[x].seq = p
      BY <1>4, <2>1, <3>1, <3>3
    <3>5. ~(x < y) /\ ~(y < x)
      <4>1. (x < y => p < p) /\ (y < x => p < p)
        BY <1>1, <3>4 DEF Conversing
      <4> QED BY <1>2, <4>1
    <3> QED BY <1>2, <3>5
  <2> QED BY <1>2, <1>3, <2>6, <2>9, <2>10, <2>11, <2>12
<1> QED BY <1>5, <1>6

\* In a conversation every call that was begun and has ended has its result
\* below the message that asks for it.
LEMMA ConversationAnswers ==
  ASSUME NEW s, Legible(s), NEW conv, conv = BuildConversation(s),
         \A c \in Calls, q \in 1..Len(s) : Begins(s, q, c) => \E p \in 1..Len(s) : q < p /\ Ends(s, p, c),
         NEW x \in 1..Len(conv), NEW c \in Calls, AsksFor(conv[x], c), c \in StartedIn(s)
  PROVE  \E y \in 1..Len(conv) : y > x /\ c \in conv[y].answers
<1>1. Conversing(conv, s)
  BY ConversationIs
<1>2. Len(s) \in Nat /\ Boundary(s) \in Nat /\ Len(conv) \in Nat /\ DOMAIN s = 1..Len(s) /\ ProperLog(s)
  <2>1. Len(s) \in Nat /\ Boundary(s) \in Nat
    BY BoundaryIs
  <2> QED BY <1>1, <2>1 DEF Legible, ProperLog, Conversing
<1>3. PICK k \in 1..Len(s) : Boundary(s) < k /\ Asks(s, k, c) /\ conv[x] = Line(s, k)
  BY <1>1, SpeaksOf
<1>4. PICK q \in 1..Len(s) : Begins(s, q, c)
  BY <1>2 DEF StartedIn, Begins
<1>5. PICK p \in 1..Len(s) : q < p /\ Ends(s, p, c)
  BY <1>4
<1>6. c # Inner
  <2>1. s[k].asks \in Seq(Calls \ {Inner}) /\ c \in InSeq(s[k].asks)
    BY <1>3 DEF Asks, Legible, Fields
  <2> QED BY <2>1 DEF InSeq
<1>7. k < q
  <2>1. PICK j \in 1..Len(s) : j < q /\ Asks(s, j, c)
    BY <1>4, <1>6 DEF Legible, Paired
  <2>2. j = k
    BY <1>3, <2>1 DEF Legible, Paired
  <2> QED BY <2>1, <2>2
<1>8. ~ByProgram(s, c)
  <2> SUFFICES ASSUME NEW i \in Boundary(s) + 1 .. Len(s), s[i].type = "tool_call_started", s[i].call = c
               PROVE  ~s[i].by_program
    BY DEF ByProgram
  <2>1. i \in 1..Len(s)
    BY <1>2
  <2>2. s[i].by_program = (s[i].call = Inner)
    BY <2>1 DEF Legible, Fields
  <2> QED BY <1>6, <2>2
<1>9. Audible(s, p) /\ Boundary(s) < p
  BY <1>2, <1>3, <1>5, <1>7, <1>8 DEF Audible, Ends
<1>10. PICK y \in 1..Len(conv) : conv[y] = Line(s, p)
  BY <1>1, <1>9 DEF Conversing
<1>11. c \in conv[y].answers
  <2>1. Line(s, p).answers = {s[p].call}
    BY <1>5, LineIs DEF Ends
  <2> QED BY <1>5, <1>10, <2>1 DEF Ends
<1>12. y > x
  <2>1. conv[y].seq = p /\ conv[x].seq = k
    <3>1. \A i : Line(s, i).seq = i
      BY LineIs
    <3> QED BY <1>3, <1>10, <3>1
  <2>2. y < x => p < k
    BY <1>1, <2>1 DEF Conversing
  <2>3. y # x
    BY <1>2, <1>5, <1>7, <2>1
  <2> QED BY <1>2, <1>5, <1>7, <2>2, <2>3
<1> QED BY <1>11, <1>12

-----------------------------------------------------------------------------
(* The prompt: what the thread carries over, and the conversation of the Run *)

\* The parts of what is carried over: conversations of the thread, or nothing.
Carries(t, q, at, M, th) ==
  /\ \A j \in 1..Len(th) : q[j] = <<>> \/ q[j] = BuildConversation(th[j])
  /\ t \in Seq(M) /\ Len(t) \in Nat /\ DOMAIN t = 1..Len(t)
  /\ \A j \in 1..Len(th) : Len(q[j]) \in Nat
  /\ at \in [0..Len(th) -> Nat]
  /\ \A j \in 1..Len(th) : at[j] = at[j - 1] + Len(q[j]) /\ at[j] <= Len(t)
  /\ \A j \in 1..Len(th) : \A x \in 1..Len(q[j]) : t[at[j - 1] + x] = q[j][x]
  /\ \A x \in 1..Len(t) : \E j \in 1..Len(th) : \E y \in 1..Len(q[j]) : x = at[j - 1] + y

\* A thread's history is some of its Runs' conversations, one after another.
LEMMA CarriedOver ==
  ASSUME NEW th, Len(th) \in Nat, DOMAIN th = 1..Len(th),
         \A i \in 1..Len(th) : Legible(th[i]), NEW budget
  PROVE  \E q, at, M : Carries(LoadThreadHistory(th, budget), q, at, M, th)
<1> DEFINE t == LoadThreadHistory(th, budget)
           M == UNION {Messages(th[i]) : i \in 1..Len(th)}
<1>1. PICK q : q = [i \in 1..Len(th) |-> IF i \in Kept(th, budget) THEN BuildConversation(th[i]) ELSE <<>>]
  OBVIOUS
<1>2. \A i \in 1..Len(th) : q[i] = <<>> \/ q[i] = BuildConversation(th[i])
  BY <1>1
<1>3. t = FlattenSeq(q) /\ Len(q) = Len(th) /\ q = [i \in 1..Len(th) |-> q[i]]
  BY <1>1 DEF LoadThreadHistory
<1>4. ASSUME NEW i \in 1..Len(th) PROVE q[i] \in Seq(M) /\ Len(q[i]) \in Nat
  <2>1. CASE q[i] = <<>>
    BY <2>1
  <2>2. CASE q[i] = BuildConversation(th[i])
    <3>1. Conversing(q[i], th[i])
      BY <2>2, ConversationIs
    <3>2. q[i] \in Seq(Messages(th[i])) /\ Len(q[i]) \in Nat
      BY <3>1 DEF Conversing
    <3>3. Messages(th[i]) \subseteq M
      OBVIOUS
    <3> HIDE DEF M
    <3>4. PICK N : N = Messages(th[i])
      OBVIOUS
    <3> QED BY <3>2, <3>3, <3>4
  <2> QED BY <1>2, <2>1, <2>2
<1> HIDE DEF t, M
<1>5. q \in Seq(Seq(M))
  <2>1. q \in [1..Len(th) -> Seq(M)]
    BY <1>3, <1>4
  <2> QED BY <2>1
<1>6. PICK at : Offsets(at, q) /\ t \in Seq(M) /\ Flat(t, q, at, Len(q))
  BY <1>3, <1>5, Flattened
<1>7. Len(t) \in Nat /\ DOMAIN t = 1..Len(t)
  BY <1>6
<1>8. PICK n : n = Len(th)
  OBVIOUS
<1>9. Len(q) = n /\ n \in Nat
  BY <1>3, <1>8
<1>10. /\ at \in [0..n -> Nat]
       /\ \A j \in 1..n : at[j] = at[j - 1] + Len(q[j])
       /\ \A j, k \in 0..n : j <= k => at[j] <= at[k]
  BY <1>6, <1>9 DEF Offsets
<1>11. Len(t) = at[n]
  BY <1>6, <1>9 DEF Flat
<1>12. \A j \in 1..n : \A x \in 1..Len(q[j]) : t[at[j - 1] + x] = q[j][x]
  BY <1>6, <1>9 DEF Flat
<1>13. \A x \in 1..Len(t) : \E j \in 1..n : \E y \in 1..Len(q[j]) : x = at[j - 1] + y
  BY <1>6, <1>9 DEF Flat
<1>14. \A j \in 1..n : at[j] <= Len(t)
  <2>1. \A j \in 1..n : j \in 0..n /\ n \in 0..n /\ j <= n
    BY <1>9
  <2> QED BY <1>10, <1>11, <2>1
<1>15. Carries(t, q, at, M, th)
  <2>1. (\A j \in 1..n : q[j] = <<>> \/ q[j] = BuildConversation(th[j])) /\ \A j \in 1..n : Len(q[j]) \in Nat
    BY <1>2, <1>4, <1>8
  <2> QED BY <1>6, <1>7, <1>8, <1>10, <1>12, <1>13, <1>14, <2>1 DEF Carries
<1> QED BY <1>15 DEF t

\* A Run's calls, as a part of its log shows them.
LEMMA CallsOfPrefix ==
  ASSUME NEW s, Legible(s), NEW n \in 0..Len(s), NEW t, t = SubSeq(s, 1, n)
  PROVE  CallsMade(t) \subseteq CallsMade(s)
<1>1. Len(t) = n /\ DOMAIN t = 1..n /\ \A i \in 1..n : t[i] = s[i]
  BY LegiblePrefix
<1>2. Len(s) \in Nat /\ DOMAIN s = 1..Len(s)
  BY DEF Legible, ProperLog
<1>3. \A i \in 1..n : i \in 1..Len(s)
  BY <1>2
<1> QED BY <1>1, <1>2, <1>3 DEF CallsMade

IsPrompt(prompt, th, budget, s) == prompt = LoadThreadHistory(th, budget) \o BuildConversation(s)

PairsUp(prompt) ==
  \A i \in DOMAIN prompt : \A c \in prompt[i].answers :
    /\ \E k \in 1..i : AsksFor(prompt[k], c)
    /\ \A k \in DOMAIN prompt : c \in prompt[k].answers => k = i

\* A prompt pairs results with questions when its conversations are of Runs
\* that ask for different calls.
LEMMA PromptPairs ==
  ASSUME NEW th, Len(th) \in Nat, DOMAIN th = 1..Len(th), NEW budget,
         NEW s, Legible(s), ThreadOK(th, s),
         NEW prompt, IsPrompt(prompt, th, budget, s)
  PROVE  PairsUp(prompt)
<1> SUFFICES ASSUME
      \A i \in 1..Len(th) : Legible(th[i]),
      \A i \in 1..Len(th) : CallsMade(th[i]) \cap CallsMade(s) = {},
      \A i, k \in 1..Len(th) : i # k => CallsMade(th[i]) \cap CallsMade(th[k]) = {},
      prompt = LoadThreadHistory(th, budget) \o BuildConversation(s),
      NEW i \in DOMAIN prompt, NEW c \in prompt[i].answers
    PROVE
      /\ \E k \in 1..i : AsksFor(prompt[k], c)
      /\ \A k \in DOMAIN prompt : c \in prompt[k].answers => k = i
  BY DEF ThreadOK, IsPrompt, PairsUp
<1>1. PICK t : t = LoadThreadHistory(th, budget)
  OBVIOUS
<1>2. PICK q, at, M : Carries(t, q, at, M, th)
  BY <1>1, CarriedOver
<1>3. PICK u : u = BuildConversation(s)
  OBVIOUS
<1>4. u \in Seq(Messages(s)) /\ Len(u) \in Nat /\ DOMAIN u = 1..Len(u)
  BY <1>3, ConversationIs DEF Conversing
<1>5. PICK T, U : T = Len(t) /\ U = Len(u)
  OBVIOUS
<1>6. /\ T \in Nat /\ U \in Nat /\ DOMAIN prompt = 1..T + U
      /\ \A x \in 1..T : prompt[x] = t[x]
      /\ \A x \in 1..U : prompt[T + x] = u[x]
  <2>1. t \in Seq(M \cup Messages(s)) /\ u \in Seq(M \cup Messages(s))
    <3>1. t \in Seq(M)
      BY <1>2 DEF Carries
    <3> QED BY <1>4, <3>1
  <2>2. prompt = t \o u
    BY <1>1, <1>3
  <2> QED BY <1>5, <2>1, <2>2
<1>7. \A x \in 1..T + U : x \in 1..T \/ (x - T \in 1..U /\ x = T + (x - T))
  BY <1>6
\* Where a message is from: 0 for the Run itself, j for the Run j of the thread.
<1> DEFINE From(x, j, y) ==
             \/ j = 0 /\ y \in 1..U /\ x = T + y
             \/ j \in 1..Len(th) /\ y \in 1..Len(q[j]) /\ x = at[j - 1] + y
           Log(j) == IF j = 0 THEN s ELSE th[j]
           Conv(j) == IF j = 0 THEN u ELSE q[j]
<1>8. ASSUME NEW x \in 1..T + U PROVE \E j \in 0..Len(th) : \E y \in Nat : From(x, j, y)
  <2>1. CASE x \in 1..T
    <3>1. PICK j \in 1..Len(th) : \E y \in 1..Len(q[j]) : x = at[j - 1] + y
      BY <1>2, <1>5, <2>1 DEF Carries
    <3>2. \A y \in 1..Len(q[j]) : y \in Nat
      BY <1>2 DEF Carries
    <3>3. j \in 0..Len(th)
      OBVIOUS
    <3> QED BY <3>1, <3>2, <3>3
  <2>2. CASE x - T \in 1..U /\ x = T + (x - T)
    <3>1. x - T \in Nat /\ 0 \in 0..Len(th)
      BY <2>2
    <3> QED BY <2>2, <3>1
  <2> QED BY <1>7, <2>1, <2>2
<1>9. ASSUME NEW x, NEW j, NEW y, From(x, j, y)
      PROVE  /\ Legible(Log(j)) /\ Conv(j) = BuildConversation(Log(j)) /\ y \in 1..Len(Conv(j))
             /\ prompt[x] = Conv(j)[y] /\ x \in 1..T + U
             /\ \A z \in 1..y : From(IF j = 0 THEN T + z ELSE at[j - 1] + z, j, z)
                                /\ (IF j = 0 THEN T + z ELSE at[j - 1] + z) \in 1..x
  <2>1. CASE j = 0 /\ y \in 1..U /\ x = T + y
    <3>1. \A z \in 1..y : z \in 1..U /\ T + z \in 1..x
      BY <1>6, <2>1
    <3>2. Log(j) = s /\ Conv(j) = u /\ Legible(Log(j)) /\ Conv(j) = BuildConversation(Log(j))
      BY <1>3, <2>1
    <3>3. y \in 1..Len(u) /\ prompt[x] = u[y] /\ x \in 1..T + U
      BY <1>5, <1>6, <2>1
    <3>4. \A z \in 1..y : From(IF j = 0 THEN T + z ELSE at[j - 1] + z, j, z)
                           /\ (IF j = 0 THEN T + z ELSE at[j - 1] + z) \in 1..x
      BY <2>1, <3>1
    <3> HIDE DEF From, Log, Conv
    <3> QED BY <3>2, <3>3, <3>4
  <2>2. CASE j \in 1..Len(th) /\ y \in 1..Len(q[j]) /\ x = at[j - 1] + y
    <3>1. j # 0 /\ j - 1 \in 0..Len(th)
      BY <2>2
    <3>2. at[j - 1] \in Nat /\ at[j] \in Nat /\ at[j] = at[j - 1] + Len(q[j]) /\ at[j] <= T /\ Len(q[j]) \in Nat
      <4>1. j \in 0..Len(th)
        BY <2>2
      <4>2. at \in [0..Len(th) -> Nat]
        BY <1>2 DEF Carries
      <4>3. at[j - 1] \in Nat /\ at[j] \in Nat
        BY <3>1, <4>1, <4>2
      <4>4. at[j] = at[j - 1] + Len(q[j]) /\ at[j] <= T
        BY <1>2, <1>5, <2>2 DEF Carries
      <4>5. Len(q[j]) \in Nat
        BY <1>2, <2>2 DEF Carries
      <4> QED BY <4>3, <4>4, <4>5
    <3>3. x \in 1..T /\ x \in 1..T + U
      <4>1. x \in 1..T
        BY <1>6, <2>2, <3>2, Sums
      <4> QED BY <1>6, <4>1
    <3>4. prompt[x] = q[j][y]
      BY <1>2, <1>6, <2>2, <3>3 DEF Carries
    <3>5. q[j] # <<>>
      BY <2>2
    <3>6. q[j] = BuildConversation(th[j])
      BY <1>2, <2>2, <3>5 DEF Carries
    <3>7. \A z \in 1..y : z \in 1..Len(q[j]) /\ at[j - 1] + z \in 1..x
      BY <2>2, <3>2, SMTT(60)
    <3> QED BY <2>2, <3>1, <3>3, <3>4, <3>6, <3>7
  <2> QED BY <1>9, <2>1, <2>2
<1>10. ASSUME NEW j \in 0..Len(th), NEW k \in 0..Len(th), j # k
       PROVE  CallsMade(Log(j)) \cap CallsMade(Log(k)) = {}
  <2>1. (j = 0 \/ j \in 1..Len(th)) /\ (k = 0 \/ k \in 1..Len(th))
    OBVIOUS
  <2> QED BY <1>10, <2>1
<1>11. i \in 1..T + U
  BY <1>6
<1>12. PICK j \in 0..Len(th), y \in Nat : From(i, j, y)
  BY <1>8, <1>11
<1> HIDE DEF From, Log, Conv
<1>13. /\ Legible(Log(j)) /\ Conv(j) = BuildConversation(Log(j)) /\ y \in 1..Len(Conv(j))
       /\ prompt[i] = Conv(j)[y]
  BY <1>9, <1>12
<1>14. /\ c \in CallsMade(Log(j))
       /\ \E z \in 1..y : AsksFor(Conv(j)[z], c)
       /\ \A z \in 1..Len(Conv(j)) : c \in Conv(j)[z].answers => z = y
  BY <1>13, ConversationPairs
<1>15. PICK z \in 1..y : AsksFor(Conv(j)[z], c)
  BY <1>14
<1>16. PICK k : From(k, j, z) /\ k \in 1..i
  <2>1. PICK k : k = IF j = 0 THEN T + z ELSE at[j - 1] + z
    OBVIOUS
  <2>2. From(k, j, z) /\ k \in 1..i
    BY <1>9, <1>12, <1>15, <2>1
  <2> QED BY <2>2
<1>17. AsksFor(prompt[k], c)
  BY <1>9, <1>15, <1>16
<1>18. ASSUME NEW m \in DOMAIN prompt, c \in prompt[m].answers PROVE m = i
  <2>1. m \in 1..T + U
    BY <1>6
  <2>2. PICK l \in 0..Len(th), w \in Nat : From(m, l, w)
    BY <1>8, <2>1
  <2>3. /\ Legible(Log(l)) /\ Conv(l) = BuildConversation(Log(l)) /\ w \in 1..Len(Conv(l))
        /\ prompt[m] = Conv(l)[w]
    BY <1>9, <2>2
  <2>4. c \in CallsMade(Log(l))
    BY <1>18, <2>3, ConversationPairs
  <2>5. l = j
    BY <1>10, <1>14, <2>4
  <2>6. w = y
    BY <1>14, <1>18, <2>3, <2>5
  <2> QED BY <1>12, <2>2, <2>5, <2>6 DEF From
<1> QED BY <1>16, <1>17, <1>18

-----------------------------------------------------------------------------
(* What a conversation stands for *)

\* f[n]: what a summary made of the first n records of s would stand for.
Tells(s, n) == {m.seq : m \in InSeq(Spoken(SubSeq(s, 1, n)))}
Cuts(s, n) == Compactions(SubSeq(s, 1, n))

IsTold(f, s, N) ==
  f = [n \in 0..N |-> Tells(s, n) \cup UNION {f[s[i].replaced_to_seq] : i \in Cuts(s, n)}]

\* A summary stands for records before it.
LEMMA CutsAre ==
  ASSUME NEW s, Legible(s), NEW n \in 0..Len(s)
  PROVE  /\ Len(s) \in Nat
         /\ \A i \in Cuts(s, n) : s[i].replaced_to_seq \in 0..n - 1
         /\ \A i \in 1..n : s[i].type = "compaction_applied" => i \in Cuts(s, n)
<1>1. PICK t : t = SubSeq(s, 1, n)
  OBVIOUS
<1>2. DOMAIN t = 1..n /\ \A i \in 1..n : t[i] = s[i]
  BY <1>1, LegiblePrefix
<1>3. Len(s) \in Nat
  BY DEF Legible, ProperLog
<1>4. Cuts(s, n) = {i \in 1..n : s[i].type = "compaction_applied"}
  BY <1>1, <1>2 DEF Cuts, Compactions
<1>5. ASSUME NEW i \in 1..n, s[i].type = "compaction_applied" PROVE s[i].replaced_to_seq \in 0..n - 1
  <2>1. i \in 1..Len(s)
    BY <1>3
  <2>2. s[i].replaced_to_seq \in Nat /\ s[i].replaced_to_seq + 1 < i
    BY <1>5, <2>1 DEF Legible, CutsBetweenTurns
  <2> QED BY <1>3, <2>2
<1> QED BY <1>3, <1>4, <1>5

\* There is a function like that of Told, for each prefix of the log.
LEMMA ToldExists ==
  ASSUME NEW s, Legible(s), NEW N \in 0..Len(s)
  PROVE  \E f : IsTold(f, s, N)
<1> DEFINE T == {n \in 0..Len(s) : ~\E f : IsTold(f, s, n)}
<1>0. Len(s) \in Nat
  BY DEF Legible, ProperLog
<1>1. SUFFICES ASSUME T # {} PROVE FALSE
  OBVIOUS
<1>2. PICK x \in T : \A y \in T : x <= y
  <2>1. T \in SUBSET Nat
    BY <1>0
  <2> HIDE DEF T
  <2> QED BY <1>1, <2>1, LeastNat
<1>3. x \in 0..Len(s) /\ x \in Nat
  BY <1>0, <1>2
\* What is there for the records before x, if there are any.
<1>4. \E f : \A n \in 0..x - 1 :
        f[n] = Tells(s, n) \cup UNION {f[s[i].replaced_to_seq] : i \in Cuts(s, n)}
  <2>1. CASE x = 0
    BY <2>1
  <2>2. CASE x # 0
    <3>1. x - 1 \in 0..Len(s) /\ ~(x <= x - 1)
      BY <1>0, <1>3, <2>2
    <3>2. x - 1 \notin T
      <4> HIDE DEF T
      <4> QED BY <1>2, <3>1
    <3>3. PICK f : IsTold(f, s, x - 1)
      BY <3>1, <3>2
    <3> QED BY <3>3 DEF IsTold
  <2> QED BY <2>1, <2>2
<1>5. PICK f : \A n \in 0..x - 1 :
        f[n] = Tells(s, n) \cup UNION {f[s[i].replaced_to_seq] : i \in Cuts(s, n)}
  BY <1>4
<1> DEFINE Made(g, n) == Tells(s, n) \cup UNION {g[s[i].replaced_to_seq] : i \in Cuts(s, n)}
           g == [n \in 0..x |-> IF n = x THEN Made(f, x) ELSE f[n]]
<1>6. ASSUME NEW n \in 0..x PROVE g[n] = Made(g, n)
  <2>1. n \in 0..Len(s)
    BY <1>0, <1>3
  <2>2. \A i \in Cuts(s, n) : s[i].replaced_to_seq \in 0..n - 1
    BY <2>1, CutsAre
  <2>3. \A r \in 0..n - 1 : g[r] = f[r]
    <3>1. \A r \in 0..n - 1 : r \in 0..x /\ r # x
      BY <1>3
    <3> QED BY <3>1
  <2>4. Made(g, n) = Made(f, n)
    <3> HIDE DEF g
    <3>1. \A i \in Cuts(s, n) : g[s[i].replaced_to_seq] = f[s[i].replaced_to_seq]
      BY <2>2, <2>3
    <3>2. {g[s[i].replaced_to_seq] : i \in Cuts(s, n)} = {f[s[i].replaced_to_seq] : i \in Cuts(s, n)}
      BY <3>1
    <3> QED BY <3>2
  <2>5. CASE n = x
    BY <2>4, <2>5
  <2>6. CASE n # x
    <3>1. n \in 0..x - 1
      BY <1>3, <2>6
    <3>2. f[n] = Made(f, n)
      BY <1>5, <3>1
    <3>3. g[n] = f[n]
      BY <2>6
    <3> HIDE DEF g, Made
    <3> QED BY <2>4, <3>2, <3>3
  <2> QED BY <2>5, <2>6
<1>7. g = [n \in 0..x |-> Made(g, n)]
  <2>1. g = [n \in 0..x |-> g[n]]
    OBVIOUS
  <2> HIDE DEF g, Made
  <2> QED BY <1>6, <2>1
<1>8. IsTold(g, s, x)
  <2> HIDE DEF g
  <2> QED BY <1>7 DEF IsTold
<1> HIDE DEF g
<1> QED BY <1>2, <1>8

\* Told is its value at the last record.
LEMMA ToldIs ==
  ASSUME NEW s, Legible(s)
  PROVE  \E f : IsTold(f, s, Len(s)) /\ Told(s) = f[Len(s)]
<1> DEFINE N == Len(s)
           F == CHOOSE f : f = [n \in 0..N |->
                  {m.seq : m \in InSeq(Spoken(SubSeq(s, 1, n)))}
                    \cup UNION {f[s[i].replaced_to_seq] : i \in Compactions(SubSeq(s, 1, n))}]
<1>1. Told(s) = F[N]
  BY DEF Told
<1>2. F = CHOOSE f : IsTold(f, s, N)
  BY DEF IsTold, Tells, Cuts
<1>3. IsTold(F, s, N)
  <2> HIDE DEF N, F
  <2>1. N \in 0..Len(s)
    BY DEF Legible, ProperLog, N
  <2>2. \E f : IsTold(f, s, N)
    BY <2>1, ToldExists
  <2> QED BY <1>2, <2>2
<1> HIDE DEF F
<1> QED BY <1>1, <1>3

\* The boundary of a longer prefix is no lower.
LEMMA BoundaryGrows ==
  ASSUME NEW s, Legible(s), NEW n \in 0..Len(s), NEW k \in 0..n
  PROVE  Boundary(SubSeq(s, 1, k)) <= Boundary(SubSeq(s, 1, n))
<1>1. PICK t, u : t = SubSeq(s, 1, k) /\ u = SubSeq(s, 1, n)
  OBVIOUS
<1>2. Len(s) \in Nat /\ k \in 0..Len(s)
  BY DEF Legible, ProperLog
<1>3. Legible(t) /\ Len(t) = k /\ \A i \in 1..k : t[i] = s[i]
  <2>1. t = SubSeq(s, 1, k) /\ k \in 0..Len(s)
    BY <1>1, <1>2
  <2>2. Legible(t)
    BY <2>1, LegiblePrefix
  <2>3. Len(t) = k
    BY <2>1, LegiblePrefix
  <2> QED BY <2>1, <2>2, <2>3, LegiblePrefix
<1>4. Legible(u) /\ Len(u) = n /\ \A i \in 1..n : u[i] = s[i]
  BY <1>1, LegiblePrefix, ZenonT(60)
<1>5. Boundary(t) \in Nat /\ Boundary(u) \in Nat
  BY <1>3, <1>4, BoundaryIs
<1>6. CASE Boundary(t) = 0
  BY <1>1, <1>5, <1>6
<1>7. CASE Boundary(t) # 0
  <2>1. PICK i \in 1..k : t[i].type = "compaction_applied" /\ t[i].replaced_to_seq = Boundary(t)
    BY <1>3, <1>7, BoundaryIs
  <2>2. i \in 1..n /\ u[i] = t[i]
    BY <1>2, <1>3, <1>4
  <2>3. \A j \in 1..Len(u) : u[j].type = "compaction_applied" => u[j].replaced_to_seq <= Boundary(u)
    BY <1>4, BoundaryIs
  <2>4. u[i].replaced_to_seq <= Boundary(u)
    BY <1>4, <2>1, <2>2, <2>3
  <2> QED BY <1>1, <2>1, <2>2, <2>4
<1> QED BY <1>6, <1>7

\* What was shown when it was written is shown until a summary replaces it.
LEMMA StaysAudible ==
  ASSUME NEW s, Legible(s), NEW n \in 0..Len(s), NEW i \in 1..n,
         NEW t, t = SubSeq(s, 1, i), NEW u, u = SubSeq(s, 1, n),
         Audible(t, i), Boundary(u) < i
  PROVE  Audible(u, i)
<1>1. Len(s) \in Nat /\ i \in 0..Len(s) /\ i \in 0..n
  BY DEF Legible, ProperLog
<1>2. Legible(t) /\ Len(t) = i /\ \A j \in 1..i : t[j] = s[j]
  <2>1. t = SubSeq(s, 1, i) /\ i \in 0..Len(s)
    BY <1>1
  <2>2. Legible(t)
    BY <2>1, LegiblePrefix
  <2>3. Len(t) = i
    BY <2>1, LegiblePrefix
  <2> QED BY <2>1, <2>2, <2>3, LegiblePrefix
<1>3. Legible(u) /\ Len(u) = n /\ \A j \in 1..n : u[j] = s[j]
  BY LegiblePrefix, ZenonT(60)
<1>4. t[i] = s[i] /\ u[i] = s[i]
  BY <1>1, <1>2, <1>3
<1>5. CASE s[i].type # "tool_call_finished"
  BY <1>4, <1>5 DEF Audible
<1>6. CASE s[i].type = "tool_call_finished"
  <2> DEFINE c == s[i].call
  <2>1. ~ByProgram(t, c)
    BY <1>4, <1>6 DEF Audible
  <2>2. Boundary(t) <= Boundary(u) /\ Boundary(t) \in Nat /\ Boundary(u) \in Nat
    <3>1. Boundary(t) \in Nat /\ Boundary(u) \in Nat
      BY <1>2, <1>3, BoundaryIs
    <3> QED BY <1>1, <3>1, BoundaryGrows
  <2>3. ASSUME NEW k \in Boundary(u) + 1 .. n, u[k].type = "tool_call_started", u[k].call = c, u[k].by_program
        PROVE  FALSE
    <3>1. k \in 1..n
      BY <1>1, <2>2
    <3>2. c \in Calls
      <4>1. i \in 1..Len(s)
        BY <1>1
      <4> QED BY <1>6, <4>1 DEF Legible, ProperLog, WellFormed
    <3>3. ProperLog(u)
      BY <1>3 DEF Legible
    <3>4. PICK q \in 1..n : q < i /\ u[q].type = "tool_call_started" /\ u[q].call = c
      <4>1. i \in 1..Len(u) /\ u[i].type = "tool_call_finished" /\ u[i].call = c
        BY <1>3, <1>4, <1>6
      <4>2. \E q \in 1..Len(u) : q < i /\ u[q].type = "tool_call_started" /\ u[q].call = u[i].call
        BY <3>3, <4>1, CallEndsInLog, ZenonT(60)
      <4> QED BY <1>3, <4>1, <4>2
    <3>5. ~(q < k) /\ ~(k < q)
      <4>1. q \in 1..Len(u) /\ k \in 1..Len(u) /\ u[q].call = u[k].call
        BY <1>3, <2>3, <3>1, <3>4
      <4> HIDE DEF c
      <4> QED BY <2>3, <3>3, <3>4, <4>1, CallStartsInLog
    <3>6. k \in 1..i /\ k \in Boundary(t) + 1 .. i
      BY <1>1, <2>2, <3>1, <3>4, <3>5
    <3>7. t[k] = u[k]
      BY <1>2, <1>3, <3>1, <3>6
    <3> QED BY <1>2, <2>1, <2>3, <3>6, <3>7 DEF ByProgram
  <2>4. ~ByProgram(u, c)
    BY <1>3, <2>3 DEF ByProgram
  <2> QED BY <1>4, <1>6, <2>4 DEF Audible
<1> QED BY <1>5, <1>6

\* Whatever was said in a legible log, its conversation shows it, or stands for
\* it by a summary.
LEMMA NothingIsLost ==
  ASSUME NEW s, Legible(s)
  PROVE  Spoke(s) \subseteq Told(s)
<1>1. Len(s) \in Nat /\ DOMAIN s = 1..Len(s)
  BY DEF Legible, ProperLog
<1>2. PICK f : IsTold(f, s, Len(s)) /\ Told(s) = f[Len(s)]
  BY ToldIs
<1>3. \A n \in 0..Len(s) : f[n] = Tells(s, n) \cup UNION {f[s[i].replaced_to_seq] : i \in Cuts(s, n)}
  BY <1>2 DEF IsTold
<1>4. \A i \in Spoke(s) : i \in 1..Len(s) /\ Audible(SubSeq(s, 1, i), i)
  BY <1>1, SaidIs DEF Spoke
<1> DEFINE P(n) == \A i \in Spoke(s) : i <= n => i \in f[n]
           T == {n \in 0..Len(s) : ~P(n)}
<1>5. T = {}
  <2> SUFFICES ASSUME T # {} PROVE FALSE
    OBVIOUS
  <2>1. PICK n \in T : \A y \in T : n <= y
    <3>1. T \in SUBSET Nat
      BY <1>1
    <3> HIDE DEF T
    <3> QED BY <3>1, LeastNat
  <2>2. n \in 0..Len(s) /\ n \in Nat
    BY <1>1, <2>1
  <2>3. ASSUME NEW r \in 0..n - 1 PROVE P(r)
    <3>1. r \in 0..Len(s) /\ ~(n <= r)
      BY <1>1, <2>2
    <3>2. r \notin T
      <4> HIDE DEF T
      <4> QED BY <2>1, <3>1
    <3> HIDE DEF P
    <3> QED BY <3>1, <3>2
  <2>4. ASSUME NEW i \in Spoke(s), i <= n PROVE i \in f[n]
    <3>1. PICK t, u : t = SubSeq(s, 1, i) /\ u = SubSeq(s, 1, n)
      OBVIOUS
    <3>2. i \in 1..n /\ Audible(t, i)
      BY <1>1, <1>4, <2>2, <2>4, <3>1
    <3>3. Legible(u) /\ Len(u) = n /\ \A j \in 1..n : u[j] = s[j]
      <4>1. u = SubSeq(s, 1, n) /\ n \in 0..Len(s)
        BY <2>2, <3>1
      <4>2. Legible(u)
        BY <4>1, LegiblePrefix
      <4>3. Len(u) = n
        BY <4>1, LegiblePrefix
      <4> QED BY <4>1, <4>2, <4>3, LegiblePrefix
    <3>4. Boundary(u) \in Nat
      BY <3>3, BoundaryIs
    <3>5. CASE Boundary(u) < i
      <4>1. Audible(u, i)
        BY <2>2, <3>1, <3>2, <3>5, StaysAudible
      <4>2. InOrder(Spoken(u), u)
        BY <3>3, SpokenIs
      <4>3. PICK x \in 1..Len(Spoken(u)) : Spoken(u)[x] = Line(u, i)
        BY <3>2, <3>3, <3>5, <4>1, <4>2 DEF InOrder
      <4>4. Spoken(u)[x] \in InSeq(Spoken(u))
        <5>1. DOMAIN Spoken(u) = 1..Len(Spoken(u))
          BY <4>2 DEF InOrder
        <5> QED BY <5>1 DEF InSeq
      <4>5. Spoken(u)[x].seq = i
        <5>1. Line(u, i).seq = i
          BY LineIs
        <5> QED BY <4>3, <5>1
      <4>6. i \in Tells(s, n)
        BY <3>1, <4>4, <4>5 DEF Tells
      <4> QED BY <1>3, <2>2, <4>6
    <3>6. CASE i <= Boundary(u)
      <4>1. Boundary(u) # 0
        BY <3>2, <3>4, <3>6
      <4>2. PICK j \in 1..n : u[j].type = "compaction_applied" /\ u[j].replaced_to_seq = Boundary(u)
        BY <3>3, <4>1, BoundaryIs
      <4>3. s[j].type = "compaction_applied" /\ s[j].replaced_to_seq = Boundary(u) /\ j \in Cuts(s, n)
        <5>1. u[j] = s[j]
          BY <3>3
        <5> QED BY <2>2, <4>2, <5>1, CutsAre
      <4>4. Boundary(u) \in 0..n - 1
        BY <2>2, <4>3, CutsAre
      <4>5. i \in f[Boundary(u)]
        BY <2>3, <3>6, <4>4
      <4>6. f[s[j].replaced_to_seq] = f[Boundary(u)]
        BY <4>3
      <4>7. f[Boundary(u)] \in {f[s[k].replaced_to_seq] : k \in Cuts(s, n)}
        BY <4>3, <4>6
      <4>8. f[n] = Tells(s, n) \cup UNION {f[s[k].replaced_to_seq] : k \in Cuts(s, n)}
        BY <1>3, <2>2
      <4> QED BY <4>5, <4>7, <4>8
    <3> QED BY <2>2, <3>2, <3>4, <3>5, <3>6
  <2>5. P(n)
    BY <2>4
  <2> QED BY <2>1, <2>5
<1>6. P(Len(s))
  <2>1. Len(s) \in 0..Len(s) /\ Len(s) \notin T
    BY <1>1, <1>5
  <2> HIDE DEF P
  <2> QED BY <2>1
<1> QED BY <1>1, <1>2, <1>4, <1>6

-----------------------------------------------------------------------------
(* Cuts *)

\* A set of more than m numbers has one that m of them exceed.
LEMMA CountAbove ==
  ASSUME NEW N \in Nat, NEW T \in SUBSET (0..N), NEW m \in Nat, Cardinality(T) > m
  PROVE  \E i \in T : Cardinality({k \in T : k > i}) = m
<1> DEFINE Above(i) == {k \in T : k > i}
           F == {x \in Nat : x < Cardinality(T) /\ ~\E i \in T : Cardinality(Above(i)) = x}
<1>1. IsFiniteSet(T) /\ Cardinality(T) \in Nat
  <2>1. IsFiniteSet(0..N)
    BY FS_Interval
  <2>2. IsFiniteSet(T)
    BY <2>1, FS_Subset
  <2> QED BY <2>2, FS_CardinalityType
<1>2. \A i \in T : IsFiniteSet(Above(i))
  BY <1>1, FS_Subset
<1>3. F = {}
  <2> SUFFICES ASSUME F # {} PROVE FALSE
    OBVIOUS
  <2>1. PICK x \in F : \A y \in F : x <= y
    <3>1. F \in SUBSET Nat
      OBVIOUS
    <3> HIDE DEF F
    <3> QED BY <3>1, LeastNat
  <2>2. x \in Nat /\ x < Cardinality(T) /\ ~\E i \in T : Cardinality(Above(i)) = x
    BY <2>1
  <2>3. CASE x = 0
    <3>1. T # {}
      BY <1>1, <2>2, FS_EmptySet
    <3>2. PICK i \in T : \A y \in T : y <= i
      BY <3>1, GreatestNat
    <3>3. Above(i) = {}
      <4> SUFFICES ASSUME NEW k \in T, k > i PROVE FALSE
        OBVIOUS
      <4>1. k <= i /\ k \in Nat /\ i \in Nat
        BY <3>2
      <4> QED BY <4>1
    <3>4. Cardinality(Above(i)) = 0
      BY <3>3, FS_EmptySet
    <3> QED BY <2>2, <2>3, <3>4
  <2>4. CASE x # 0
    <3>1. x - 1 \in Nat /\ x - 1 < Cardinality(T) /\ ~(x <= x - 1)
      BY <1>1, <2>2, <2>4
    <3>2. x - 1 \notin F
      <4> HIDE DEF F
      <4> QED BY <2>1, <3>1
    <3>3. PICK i \in T : Cardinality(Above(i)) = x - 1
      BY <3>1, <3>2
    <3> DEFINE A == Above(i) \cup {i}
               B == {k \in T : k < i}
    <3>4. Cardinality(A) = x
      <4>1. i \notin Above(i)
        OBVIOUS
      <4>2. Cardinality(A) = Cardinality(Above(i)) + 1
        <5> HIDE DEF Above
        <5> QED BY <1>2, <4>1, FS_AddElement
      <4> QED BY <2>2, <3>3, <4>2
    <3>5. B # {}
      <4> SUFFICES ASSUME B = {} PROVE FALSE
        OBVIOUS
      <4>1. \A k \in T : k < i \/ k = i \/ k > i
        OBVIOUS
      <4>2. T = A
        BY <4>1
      <4> HIDE DEF A
      <4> QED BY <2>2, <3>4, <4>2
    <3>6. B \in SUBSET (0..N)
      OBVIOUS
    <3>7. PICK j \in B : \A y \in B : y <= j
      <4> HIDE DEF B
      <4> QED BY <3>5, <3>6, GreatestNat
    <3>8. Above(j) = A
      <4>1. \A k \in T : k > j <=> k > i \/ k = i
        <5> TAKE k \in T
        <5>1. j \in T /\ j < i /\ j \in Nat /\ i \in Nat /\ k \in Nat
          BY <3>7
        <5>2. k < i => k <= j
          BY <3>7
        <5> QED BY <5>1, <5>2
      <4> QED BY <4>1
    <3>9. Cardinality(Above(j)) = x /\ j \in T
      <4>1. j \in T
        BY <3>7
      <4> HIDE DEF Above, A
      <4> QED BY <3>4, <3>8, <4>1
    <3> HIDE DEF Above
    <3> QED BY <2>2, <3>9
  <2> QED BY <2>3, <2>4
<1>4. m \notin F
  BY <1>3
<1> QED BY <1>4

\* Turns above a place in a log: finitely many.
LEMMA TurnsAboveFinite ==
  ASSUME NEW s, Len(s) \in Nat, DOMAIN s = 1..Len(s), NEW b
  PROVE  /\ TurnsAbove(s, b) \in SUBSET (1..Len(s))
         /\ IsFiniteSet(TurnsAbove(s, b)) /\ Cardinality(TurnsAbove(s, b)) \in Nat
<1>1. TurnsAbove(s, b) \in SUBSET (1..Len(s))
  BY DEF TurnsAbove
<1>2. IsFiniteSet(1..Len(s))
  BY FS_Interval
<1>3. IsFiniteSet(TurnsAbove(s, b))
  BY <1>1, <1>2, FS_Subset
<1> QED BY <1>1, <1>3, FS_CardinalityType

\* A planned cut is ahead of the boundary, between two turns, and leaves keep
\* turns above it (plan_cut).
LEMMA PlannedCut ==
  ASSUME NEW s, Len(s) \in Nat, DOMAIN s = 1..Len(s), NEW b \in Nat, NEW keep \in Nat \ {0},
         PlanCut(s, b, keep) # 0
  PROVE  LET cut == PlanCut(s, b, keep) IN
         /\ cut \in Nat /\ b < cut /\ cut < Len(s) /\ s[cut + 1].type = "turn_started"
         /\ Cardinality(TurnsAbove(s, cut)) >= keep
<1>1. PICK T : T = TurnsAbove(s, b)
  OBVIOUS
<1>2. T \in SUBSET (0..Len(s)) /\ IsFiniteSet(T) /\ Cardinality(T) \in Nat
  <2>1. T \in SUBSET (1..Len(s)) /\ IsFiniteSet(T) /\ Cardinality(T) \in Nat
    BY <1>1, TurnsAboveFinite
  <2> QED BY <2>1
<1> DEFINE P(i) == Cardinality({k \in T : k > i}) = keep - 1
           j == CHOOSE i \in T : P(i)
           cut == j - 1
<1>3. PlanCut(s, b, keep) = IF Cardinality(T) <= keep THEN 0 ELSE IF cut > b THEN cut ELSE 0
  BY <1>1 DEF PlanCut
<1>4. ~(Cardinality(T) <= keep)
  <2> HIDE DEF cut
  <2> QED BY <1>3
<1>5. PlanCut(s, b, keep) = cut /\ cut > b
  <2> HIDE DEF cut
  <2> QED BY <1>3, <1>4
<1>6. \E i \in T : P(i)
  <2>1. keep - 1 \in Nat /\ Cardinality(T) > keep - 1
    BY <1>2, <1>4
  <2> QED BY <1>2, <2>1, CountAbove, ZenonT(60)
<1>7. j \in T /\ P(j)
  <2> HIDE DEF P
  <2> QED BY <1>6
<1> HIDE DEF j
<1>8. j \in 1..Len(s) /\ s[j].type = "turn_started"
  BY <1>1, <1>7 DEF TurnsAbove
<1>9. cut \in Nat /\ cut < Len(s) /\ cut + 1 = j
  BY <1>8
<1>10. Cardinality(TurnsAbove(s, cut)) = keep
  <2>1. TurnsAbove(s, cut) = {k \in T : k > j} \cup {j}
    <3>1. \A k \in 1..Len(s) : k > cut <=> (k > j /\ k > b) \/ k = j
      <4> TAKE k \in 1..Len(s)
      <4>1. j \in Nat /\ k \in Nat /\ j - 1 > b
        BY <1>5, <1>8
      <4> QED BY <4>1
    <3>2. T = {k \in 1..Len(s) : s[k].type = "turn_started" /\ k > b}
      BY <1>1 DEF TurnsAbove
    <3>3. TurnsAbove(s, cut) = {k \in 1..Len(s) : s[k].type = "turn_started" /\ k > cut}
      BY DEF TurnsAbove
    <3> HIDE DEF cut
    <3> QED BY <1>8, <3>1, <3>2, <3>3
  <2>2. IsFiniteSet({k \in T : k > j}) /\ j \notin {k \in T : k > j}
    <3>1. {k \in T : k > j} \in SUBSET T
      OBVIOUS
    <3>2. IsFiniteSet({k \in T : k > j})
      BY <1>2, <3>1, FS_Subset
    <3> QED BY <1>8, <3>2
  <2>3. Cardinality({k \in T : k > j} \cup {j}) = Cardinality({k \in T : k > j}) + 1
    BY <2>2, FS_AddElement
  <2>4. Cardinality({k \in T : k > j}) = keep - 1
    BY <1>7
  <2>5. PICK A : A = {k \in T : k > j}
    OBVIOUS
  <2>6. TurnsAbove(s, cut) = A \cup {j} /\ Cardinality(A \cup {j}) = Cardinality(A) + 1
    BY <2>1, <2>3, <2>5
  <2>7. Cardinality(A) = keep - 1
    BY <2>4, <2>5
  <2> HIDE DEF cut, P
  <2> QED BY <2>6, <2>7
<1> HIDE DEF cut
<1> QED BY <1>5, <1>8, <1>9, <1>10

-----------------------------------------------------------------------------
(* The parts of the invariant, one record later *)

\* The state's fields that the loop looks at.
LEMMA OpenAfter ==
  ASSUME NEW s, NEW rec, NEW t, Extended(s, rec, t)
  PROVE  /\ Open(t) = CASE rec.type = "tool_call_started" -> Open(s) \cup {rec.call}
                        [] rec.type = "tool_call_finished" -> Open(s) \ {rec.call}
                        [] OTHER -> Open(s)
         /\ Reduced(t).view.settled = IF rec.type = "run_settled" THEN TRUE ELSE Reduced(s).view.settled
         /\ Open(s) \subseteq Calls
BY DEF Extended, Effect, OpenCallsAfter, Open, ViewOK

\* An open call has begun.
LEMMA OpenHasBegun ==
  ASSUME NEW s, ProperLog(s), NEW c \in Open(s)
  PROVE  \E q \in 1..Len(s) : Begins(s, q, c)
<1>1. Reduced(s) = Prefix(s, Len(s)) /\ Len(s) \in 0..Len(s)
  <2>1. Len(s) \in Nat
    BY DEF ProperLog
  <2> QED BY <2>1, ProperFold
<1>2. Backed(Prefix(s, Len(s)), s, Len(s))
  BY <1>1, LogRemembers DEF ProperLog
<1>3. c \in StartedCalls(Prefix(s, Len(s)).view)
  BY <1>1 DEF Open, StartedCalls
<1>4. \E i \in 1..Len(s) : s[i].type = "tool_call_started" /\ s[i].call = c
  BY <1>2, <1>3 DEF Backed
<1> QED BY <1>4 DEF Begins

\* A call that is answered has ended.
LEMMA SettledHasEnded ==
  ASSUME NEW s, ProperLog(s), NEW c \in SettledCalls(Reduced(s).view)
  PROVE  \E p \in 1..Len(s) : Ends(s, p, c)
<1> DEFINE P(n) == \A d \in SettledCalls(Prefix(s, n).view) : \E p \in 1..n : Ends(s, p, d)
           T == {n \in 0..Len(s) : ~P(n)}
<1>1. Len(s) \in Nat
  BY DEF ProperLog
<1>2. T = {}
  <2> SUFFICES ASSUME T # {} PROVE FALSE
    OBVIOUS
  <2>1. PICK n \in T : \A y \in T : n <= y
    <3>1. T \in SUBSET Nat
      BY <1>1
    <3> HIDE DEF T
    <3> QED BY <3>1, LeastNat
  <2>2. CASE n = 0
    <3>1. Prefix(s, 0) = EmptyFold
      BY PrefixNone DEF ProperLog
    <3>2. SettledCalls(Prefix(s, 0).view) = {}
      <4>1. EmptyFold.view = EmptyView
        BY EmptyFoldOK
      <4>2. EmptyView.tool_results = <<>>
        BY DEF EmptyView
      <4> QED BY <3>1, <4>1, <4>2 DEF SettledCalls, InSeq
    <3> QED BY <2>1, <2>2, <3>2
  <2>3. CASE n # 0
    <3>1. n \in 1..Len(s) /\ n - 1 \in 0..Len(s) /\ ~(n <= n - 1)
      BY <1>1, <2>1, <2>3
    <3>2. n - 1 \notin T
      <4> HIDE DEF T
      <4> QED BY <2>1, <3>1
    <3>3. P(n - 1)
      BY <3>1, <3>2
    <3> DEFINE v == Prefix(s, n - 1).view
               w == Prefix(s, n).view
    <3>4. ViewOK(v) /\ WellFormed(s[n]) /\ Effect(v, s[n], w)
      BY <3>1, ProperStep
    <3>5. SettledCalls(w) = SettledCalls(v) \cup
            (IF s[n].type = "tool_call_finished" THEN {s[n].call} ELSE {})
      <4> HIDE DEF v, w
      <4> QED BY <3>4, CallsAfter
    <3>6. ASSUME NEW d \in SettledCalls(w) PROVE \E p \in 1..n : Ends(s, p, d)
      <4>1. CASE d \in SettledCalls(v)
        <5>1. PICK p \in 1..n - 1 : Ends(s, p, d)
          BY <3>3, <4>1
        <5>2. p \in 1..n
          BY <3>1
        <5> QED BY <5>1, <5>2
      <4>2. CASE s[n].type = "tool_call_finished" /\ d = s[n].call
        <5>1. n \in 1..n
          BY <3>1
        <5> QED BY <3>1, <4>2, <5>1 DEF Ends
      <4> QED BY <3>5, <3>6, <4>1, <4>2
    <3>7. P(n)
      BY <3>6
    <3> QED BY <2>1, <3>7
  <2> QED BY <2>2, <2>3
<1>3. Len(s) \in 0..Len(s) /\ Reduced(s) = Prefix(s, Len(s))
  BY <1>1, ProperFold
<1> QED BY <1>2, <1>3

\* A call that has begun and is not open has ended.
LEMMA BegunHasEnded ==
  ASSUME NEW s, ProperLog(s), NEW c, NEW q \in 1..Len(s), Begins(s, q, c), c \notin Open(s)
  PROVE  \E p \in 1..Len(s) : q < p /\ Ends(s, p, c)
<1>1. Reduced(s) = Prefix(s, Len(s)) /\ Len(s) \in 0..Len(s) /\ Len(s) \in Nat
  <2>1. Len(s) \in Nat
    BY DEF ProperLog
  <2> QED BY <2>1, ProperFold
<1>2. Remembers(Prefix(s, Len(s)), s[q])
  BY <1>1, LogRemembers DEF ProperLog
<1>3. c \in SettledCalls(Reduced(s).view)
  BY <1>1, <1>2 DEF Remembers, Begins, Open, StartedCalls
<1>4. PICK p \in 1..Len(s) : Ends(s, p, c)
  BY <1>3, SettledHasEnded
<1>5. PICK i \in 1..Len(s) : i < p /\ s[i].type = "tool_call_started" /\ s[i].call = c
  BY <1>4, CallEndsInLog DEF Ends
<1>6. ~(i < q) /\ ~(q < i)
  BY <1>5, CallStartsInLog DEF Begins
<1>7. i = q
  BY <1>1, <1>6
<1> QED BY <1>4, <1>5, <1>7

\* With no call open everything that began has ended.
LEMMA AllAnswered ==
  ASSUME NEW s, ProperLog(s), Open(s) = {}
  PROVE  AnsweredUpTo(s, Len(s))
BY BegunHasEnded DEF AnsweredUpTo

\* What was answered stays answered.
LEMMA AnsweredAfter ==
  ASSUME NEW s, NEW rec, NEW t, Extended(s, rec, t), NEW n \in 0..Len(s), AnsweredUpTo(s, n)
  PROVE  AnsweredUpTo(t, n)
<1>1. Len(s) \in Nat
  BY DEF Extended
<1>2. \A q \in 1..n : \A c : Begins(t, q, c) <=> Begins(s, q, c)
  BY <1>1 DEF Extended, Begins
<1>3. \A q \in 1..n : \A c : Ends(t, q, c) <=> Ends(s, q, c)
  BY <1>1 DEF Extended, Ends
<1> QED BY <1>2, <1>3 DEF AnsweredUpTo

\* An open call is still one of the last turn, if no turn opens on open calls.
LEMMA CallsOKAfter ==
  ASSUME NEW s, NEW rec, NEW t, Extended(s, rec, t), CallsOK(s),
         rec.type = "turn_started" => Open(s) = {}
  PROVE  CallsOK(t)
<1> DEFINE n == Len(s) + 1
<1>1. Len(s) \in Nat /\ n \in Nat /\ Len(t) = n /\ n \in 1..n /\ ProperLog(t) /\ t[n] = rec
  BY DEF Extended
<1>2. SUFFICES ASSUME NEW c \in Open(t), NEW q \in 1..n, Begins(t, q, c)
               PROVE  OneTurn(t, q, n)
  BY <1>1 DEF CallsOK
<1>3. c \in Open(s) \/ (rec.type = "tool_call_started" /\ rec.call = c)
  BY OpenAfter, ZenonT(60)
<1>4. Begins(s, q, c) \/ (q = n /\ rec.type = "tool_call_started" /\ rec.call = c)
  <2>1. \A k, d : Begins(t, k, d) <=>
          Begins(s, k, d) \/ (k = n /\ rec.type = "tool_call_started" /\ rec.call = d)
    BY PlacesAfter
  <2> QED BY <1>2, <2>1
<1>5. OneTurn(t, q, n) <=> OneTurn(s, q, Len(s)) /\ rec.type # "turn_started"
  BY PlacesAfter
<1> HIDE DEF n
<1>6. CASE q = n /\ rec.type = "tool_call_started"
  <2>1. \A k \in 1..Len(s) : ~(n <= k)
    BY <1>1 DEF n
  <2> QED BY <1>5, <1>6, <2>1 DEF OneTurn
<1>7. CASE Begins(s, q, c) /\ c \in Open(s)
  <2>1. q \in 1..Len(s)
    BY <1>7 DEF Begins
  <2>2. OneTurn(s, q, Len(s))
    BY <1>7, <2>1 DEF CallsOK
  <2> QED BY <1>5, <1>7, <2>2
<1>8. CASE Begins(s, q, c) /\ rec.type = "tool_call_started" /\ rec.call = c
  <2>1. q \in 1..Len(t) /\ n \in 1..Len(t) /\ q < n
    BY <1>1, <1>8 DEF Begins, n
  <2>2. t[q].type = "tool_call_started" /\ t[q].call = c /\ t[n].type = "tool_call_started" /\ t[n].call = c
    BY <1>1, <1>2, <1>8 DEF Begins
  <2> QED BY <1>1, <2>1, <2>2, CallStartsInLog
<1> QED BY <1>3, <1>4, <1>6, <1>7, <1>8

\* A batch is still of the last turn, while no other turn opens.
LEMMA AskedForAfter ==
  ASSUME NEW s, NEW rec, NEW t, Extended(s, rec, t), NEW todo, AskedFor(s, todo),
         rec.type # "turn_started"
  PROVE  AskedFor(t, todo)
<1> DEFINE n == Len(s) + 1
<1>1. Len(s) \in Nat /\ Len(t) = n /\ \A k \in 1..Len(s) : k \in 1..n
  BY DEF Extended
<1>2. \A k, c : Asks(s, k, c) => Asks(t, k, c)
  BY PlacesAfter
<1>3. \A k \in 1..n : OneTurn(s, k, Len(s)) => OneTurn(t, k, n)
  BY PlacesAfter
<1> HIDE DEF n
<1> QED BY <1>1, <1>2, <1>3 DEF AskedFor

\* Turns are only added.
LEMMA TurnsGrow ==
  ASSUME NEW s, NEW rec, NEW t, Extended(s, rec, t), NEW b, NEW keep \in Nat,
         Cardinality(TurnsAbove(s, b)) >= keep
  PROVE  Cardinality(TurnsAbove(t, b)) >= keep
<1>1. /\ Len(s) \in Nat /\ DOMAIN s = 1..Len(s) /\ DOMAIN t = 1..Len(t) /\ Len(t) \in Nat
      /\ \A i \in 1..Len(s) : i \in 1..Len(t) /\ t[i] = s[i]
  BY DEF Extended
<1>2. TurnsAbove(s, b) \in SUBSET TurnsAbove(t, b)
  BY <1>1 DEF TurnsAbove
<1>3. /\ IsFiniteSet(TurnsAbove(t, b)) /\ Cardinality(TurnsAbove(t, b)) \in Nat
      /\ Cardinality(TurnsAbove(s, b)) \in Nat
  BY <1>1, TurnsAboveFinite
<1>4. Cardinality(TurnsAbove(s, b)) <= Cardinality(TurnsAbove(t, b))
  BY <1>2, <1>3, FS_Subset
<1> QED BY <1>3, <1>4

\* A cut stays ahead until a summary is written.
LEMMA CutAheadAfter ==
  ASSUME NEW s, NEW rec, NEW t, Extended(s, rec, t), Legible(s), Legible(t),
         rec.type # "compaction_applied",
         Reduced(s).view.compaction_boundary_seq = Boundary(s),
         NEW keep \in Nat, NEW cut \in Nat, CutAhead(s, cut, keep)
  PROVE  CutAhead(t, cut, keep)
<1>1. /\ Len(s) \in Nat /\ Len(t) = Len(s) + 1 /\ \A i \in 1..Len(s) : t[i] = s[i]
      /\ Reduced(t).view.compaction_boundary_seq = CutAfter(Reduced(s).view, rec)
  BY DEF Extended
<1>2. Boundary(t) = Boundary(s)
  BY <1>1, BoundaryAfter DEF CutAfter
<1>3. cut + 1 \in 1..Len(s)
  BY <1>1 DEF CutAhead
<1>4. Cardinality(TurnsAbove(t, cut)) >= keep
  BY TurnsGrow DEF CutAhead
<1> QED BY <1>1, <1>2, <1>3, <1>4 DEF CutAhead

\* Where the log is cut, one record later.
LEMMA CutOKAfter ==
  ASSUME NEW s, NEW rec, NEW t, Extended(s, rec, t), Legible(s), Legible(t),
         NEW keep \in Nat, NEW l, CutOK(s, l, keep), NEW m, m.cut \in Nat,
         m.phase = "summarising" => rec.type # "compaction_applied" /\ CutAhead(s, m.cut, keep),
         rec.type = "compaction_applied" => CutAhead(s, rec.replaced_to_seq, keep)
  PROVE  CutOK(t, m, keep)
<1>1. /\ Len(s) \in Nat /\ Len(t) = Len(s) + 1 /\ \A i \in 1..Len(s) : t[i] = s[i]
      /\ DOMAIN s = 1..Len(s) /\ DOMAIN t = 1..Len(s) + 1 /\ t[Len(s) + 1] = rec
      /\ Reduced(t).view.compaction_boundary_seq = CutAfter(Reduced(s).view, rec)
  BY DEF Extended
<1>2. Reduced(s).view.compaction_boundary_seq = Boundary(s)
  BY DEF CutOK
<1>3. Reduced(t).view.compaction_boundary_seq = Boundary(t)
  BY <1>2, BoundaryAfter
<1>4. m.phase = "summarising" => CutAhead(t, m.cut, keep)
  BY <1>2, CutAheadAfter
<1>5. CASE rec.type = "compaction_applied"
  <2>1. Boundary(s) < rec.replaced_to_seq /\ Cardinality(TurnsAbove(s, rec.replaced_to_seq)) >= keep
    BY <1>5 DEF CutAhead
  <2>2. rec.replaced_to_seq \in Nat /\ Boundary(s) \in Nat
    <3>1. Len(s) + 1 \in 1..Len(t)
      BY <1>1
    <3>2. rec.replaced_to_seq \in Nat
      BY <1>1, <1>5, <3>1 DEF Legible, CutsBetweenTurns
    <3> QED BY <3>2, BoundaryIs
  <2>3. Boundary(t) = rec.replaced_to_seq
    BY <1>1, <1>2, <1>3, <1>5, <2>1, <2>2 DEF CutAfter
  <2>4. Cardinality(TurnsAbove(t, Boundary(t))) >= keep
    BY <2>1, <2>3, TurnsGrow
  <2> QED BY <1>3, <1>4, <2>4 DEF CutOK
<1>6. CASE rec.type # "compaction_applied"
  <2>1. Boundary(t) = Boundary(s)
    BY <1>1, <1>2, <1>3, <1>6 DEF CutAfter
  <2>2. Compactions(t) = Compactions(s)
    <3>1. \A i \in 1..Len(s) + 1 : i \in 1..Len(s) \/ i = Len(s) + 1
      BY <1>1
    <3>2. \A i \in 1..Len(s) : i \in 1..Len(s) + 1
      BY <1>1
    <3> QED BY <1>1, <1>6, <3>1, <3>2 DEF Compactions
  <2>3. Compactions(t) # {} => Cardinality(TurnsAbove(t, Boundary(t))) >= keep
    <3>1. Compactions(s) # {} => Cardinality(TurnsAbove(s, Boundary(s))) >= keep
      BY DEF CutOK
    <3> QED BY <2>1, <2>2, <3>1, TurnsGrow
  <2> QED BY <1>3, <1>4, <2>3 DEF CutOK
<1> QED BY <1>5, <1>6

\* What a Run has asked for, one record later.
LEMMA CallsMadeAfter ==
  ASSUME NEW s, NEW rec, NEW t, Extended(s, rec, t)
  PROVE  CallsMade(t) = CallsMade(s) \cup (IF rec.type = "model_call_finished" THEN InSeq(rec.asks) ELSE {})
<1>1. DOMAIN s = 1..Len(s) /\ DOMAIN t = 1..Len(t)
  BY DEF Extended
<1>2. \A c : c \in CallsMade(s) <=> \E k : Asks(s, k, c)
  BY <1>1 DEF CallsMade, Asks
<1>3. \A c : c \in CallsMade(t) <=> \E k : Asks(t, k, c)
  BY <1>1 DEF CallsMade, Asks
<1>4. \A k, c : Asks(t, k, c) <=>
        Asks(s, k, c) \/ (k = Len(s) + 1 /\ rec.type = "model_call_finished" /\ c \in InSeq(rec.asks))
  BY PlacesAfter
<1> QED BY <1>2, <1>3, <1>4

\* The Runs stay apart when what is asked for is fresh.
LEMMA ThreadOKAfter ==
  ASSUME NEW s, NEW rec, NEW t, Extended(s, rec, t), NEW th, ThreadOK(th, s),
         rec.type = "model_call_finished" =>
           \A i \in 1..Len(th) : CallsMade(th[i]) \cap InSeq(rec.asks) = {}
  PROVE  ThreadOK(th, t)
<1>1. /\ \A i \in 1..Len(th) : Legible(th[i]) /\ CallsMade(th[i]) \cap CallsMade(s) = {}
      /\ \A i, k \in 1..Len(th) : i # k => CallsMade(th[i]) \cap CallsMade(th[k]) = {}
  BY DEF ThreadOK
<1>2. ASSUME NEW i \in 1..Len(th) PROVE CallsMade(th[i]) \cap CallsMade(t) = {}
  <2>1. CASE rec.type = "model_call_finished"
    <3>1. CallsMade(t) = CallsMade(s) \cup InSeq(rec.asks)
      BY <2>1, CallsMadeAfter
    <3> QED BY <1>1, <2>1, <3>1
  <2>2. CASE rec.type # "model_call_finished"
    <3>1. CallsMade(t) = CallsMade(s)
      BY <2>2, CallsMadeAfter
    <3> QED BY <1>1, <3>1
  <2> QED BY <2>1, <2>2
<1> QED BY <1>1, <1>2 DEF ThreadOK

-----------------------------------------------------------------------------
(* Every step *)

\* The loop m on the longer log t.
LEMMA FineAfter ==
  ASSUME NEW th, NEW s, NEW l, NEW keep \in Nat, Fine(th, s, l, keep),
         NEW rec, NEW t, Extended(s, rec, t), MayFollow(s, rec),
         NEW m \in Loops, m.read <= Len(s),
         rec.type = "turn_started" => Open(s) = {},
         rec.type = "model_call_finished" =>
           \A i \in 1..Len(th) : CallsMade(th[i]) \cap InSeq(rec.asks) = {},
         rec.type = "compaction_applied" => CutAhead(s, rec.replaced_to_seq, keep),
         PhaseOK(t, m), TodoOK(t, m),
         m.phase = "asking" => AnsweredUpTo(s, m.read),
         m.phase = "summarising" => rec.type # "compaction_applied" /\ CutAhead(s, m.cut, keep)
  PROVE  Fine(th, t, m, keep)
<1>1. Legible(s) /\ ThreadOK(th, s) /\ CallsOK(s) /\ CutOK(s, l, keep)
  BY DEF Fine
<1>2. Legible(t)
  BY <1>1, LegibleAfter
<1>3. ThreadOK(th, t)
  BY <1>1, ThreadOKAfter
<1>4. CallsOK(t)
  BY <1>1, CallsOKAfter
<1>5. m.cut \in Nat /\ m.read \in 0..Len(s)
  BY DEF Loops, Extended
<1>6. CutOK(t, m, keep)
  BY <1>1, <1>2, <1>5, CutOKAfter
<1>7. ReadOK(t, m)
  BY <1>5, AnsweredAfter DEF ReadOK
<1> QED BY <1>2, <1>3, <1>4, <1>6, <1>7 DEF Fine

\* The loop m on the same log.
LEMMA FineSame ==
  ASSUME NEW th, NEW s, NEW l, NEW keep, Fine(th, s, l, keep), NEW m,
         PhaseOK(s, m), TodoOK(s, m), ReadOK(s, m),
         m.phase = "summarising" => CutAhead(s, m.cut, keep)
  PROVE  Fine(th, s, m, keep)
BY DEF Fine, CutOK

\* Records that say nothing of calls, turns and summaries.
Plain(rec) ==
  rec.type \notin {"turn_started", "model_call_finished", "tool_call_started", "tool_call_finished",
                   "compaction_applied"}

\* A plain record may follow any log.
LEMMA PlainFollows ==
  ASSUME NEW s, NEW rec, Plain(rec)
  PROVE  MayFollow(s, rec)
BY DEF MayFollow, Plain, Fields

\* A loop that is off.
LEMMA OffIs ==
  /\ Off \in Loops /\ Off.phase = "off" /\ Off.read = 0 /\ Off.cut = 0
  /\ \A s : PhaseOK(s, Off) /\ TodoOK(s, Off)
<1>1. Off.phase = "off" /\ Off.read = 0 /\ Off.cut = 0
  BY DEF Off
<1>2. Off \in Loops
  BY DEF Off, Loops, Phases
<1>3. \A s : PhaseOK(s, Off) /\ TodoOK(s, Off)
  BY <1>1 DEF PhaseOK, TodoOK, CalmPhases, CallPhases
<1> QED BY <1>1, <1>2, <1>3

\* What the invariant says of the scene and the loop.
LEMMA Scenery ==
  ASSUME Inv
  PROVE  /\ scene.keep \in Nat \ {0} /\ scene.batches \subseteq Seq(Calls \ {Inner})
         /\ Len(log) \in Nat /\ DOMAIN log = 1..Len(log) /\ ProperLog(log)
         /\ loop \in Loops /\ loop.read \in 0..Len(log) /\ loop.cut \in 0..Len(log)
         /\ Len(thread) \in Nat /\ DOMAIN thread = 1..Len(thread)
         /\ ViewOK(State)
<1>1. scene.keep \in Nat \ {0} /\ scene.batches \subseteq Seq(Calls \ {Inner})
  BY ContextAssumption DEF Inv, Shape
<1>2. ProperLog(log)
  BY DEF Inv, Fine, Legible
<1>3. Len(log) \in Nat /\ DOMAIN log = 1..Len(log)
  BY <1>2 DEF ProperLog
<1>4. loop \in Loops /\ loop.read \in 0..Len(log) /\ loop.cut \in 0..Len(log)
  BY <1>3 DEF Inv, Shape, Loops
<1>5. Len(thread) \in Nat /\ DOMAIN thread = 1..Len(thread)
  BY DEF Inv, Shape
<1> QED BY <1>1, <1>2, <1>3, <1>4, <1>5, ProperFold DEF State

\* A write makes the log one record longer.
LEMMA Grown ==
  ASSUME Inv, NEW rec, Writes(rec), WellFormed(rec),
         rec.type = "queue_enqueued" =>
           \A i \in 1..Len(log) : log[i].type = "queue_enqueued" => log[i].entry # rec.entry
  PROVE  /\ Extended(log, rec, log')
         /\ RecordAccepted(State, Reduced(log).seen, rec)
         /\ State.settled => rec.type = "run_settled"
<1>1. ProperLog(log)
  BY Scenery
<1>2. Accepts(Started(Reduced(log).view), rec) /\ log' = Append(log, rec)
  BY DEF Writes, State
<1> QED BY <1>1, <1>2, WritesExtends DEF State

\* A step that writes rec and leaves the loop as m.
LEMMA Wrote ==
  ASSUME Inv, NEW rec, Extended(log, rec, log'), MayFollow(log, rec),
         scene' = scene, thread' = thread, mishaps' \in 0..MaxMishaps,
         loop' \in Loops, loop'.read <= Len(log), loop'.cut <= Len(log),
         rec.type = "turn_started" => Open(log) = {},
         rec.type = "model_call_finished" =>
           \A i \in 1..Len(thread) : CallsMade(thread[i]) \cap InSeq(rec.asks) = {},
         rec.type = "compaction_applied" => CutAhead(log, rec.replaced_to_seq, scene.keep),
         PhaseOK(log', loop'), TodoOK(log', loop'),
         loop'.phase = "asking" => AnsweredUpTo(log, loop'.read),
         loop'.phase = "summarising" => rec.type # "compaction_applied" /\ CutAhead(log, loop'.cut, scene.keep)
  PROVE  Inv'
<1>1. scene.keep \in Nat
  BY Scenery
<1>2. Fine(thread, log, loop, scene.keep)
  BY DEF Inv
<1>3. Fine(thread, log', loop', scene.keep)
  BY <1>1, <1>2, FineAfter
<1>4. loop'.read <= Len(log') /\ loop'.cut <= Len(log')
  <2>1. Len(log) \in Nat /\ Len(log') = Len(log) + 1 /\ loop'.read \in Nat /\ loop'.cut \in Nat
    BY DEF Extended, Loops
  <2> QED BY <2>1
<1>5. Shape'
  BY <1>4 DEF Shape, Inv
<1> QED BY <1>3, <1>5 DEF Inv

\* A step that leaves the log alone.
LEMMA Moved ==
  ASSUME Inv, log' = log, scene' = scene, thread' = thread, mishaps' \in 0..MaxMishaps,
         loop' \in Loops, loop'.read <= Len(log), loop'.cut <= Len(log),
         PhaseOK(log, loop'), TodoOK(log, loop'), ReadOK(log, loop'),
         loop'.phase = "summarising" => CutAhead(log, loop'.cut, scene.keep)
  PROVE  Inv'
<1>1. Fine(thread, log, loop, scene.keep)
  BY DEF Inv
<1>2. Fine(thread, log, loop', scene.keep)
  BY <1>1, FineSame
<1>3. Shape'
  BY DEF Shape, Inv
<1> QED BY <1>2, <1>3 DEF Inv

-----------------------------------------------------------------------------
(* The first record of a Run *)

Admission == [type |-> "run_admitted"]
Admitted(s) == Len(s) = 1 /\ DOMAIN s = 1..1 /\ s[1] = Admission

\* A log with nothing but the admission.
LEMMA FreshLog ==
  ASSUME NEW s, s = <<Admission>>
  PROVE  /\ Admitted(s) /\ Legible(s) /\ Open(s) = {} /\ Reduced(s).view.settled = FALSE
         /\ Reduced(s).view.compaction_boundary_seq = Boundary(s)
<1> DEFINE e == <<>>
<1>1. ProperLog(e) /\ Reduced(e) = EmptyFold /\ EmptyFold.view = EmptyView
  BY EmptyLog
<1>2. Len(e) = 0 /\ s = Append(e, Admission)
  OBVIOUS
<1> HIDE DEF e
<1>3. Admission.type = "run_admitted"
  BY DEF Admission
<1>4. WellFormed(Admission)
  BY <1>3 DEF WellFormed
<1>5. EmptyView.settled = FALSE /\ EmptyView.admitted = FALSE /\ EmptyView.open_tool_calls = {}
      /\ EmptyView.compaction_boundary_seq = 0
  BY DEF EmptyView
<1>6. Accepts(Started(Reduced(e).view), Admission)
  <2>1. Started(EmptyView).view = EmptyView
    BY DEF Started
  <2> QED BY <1>1, <1>3, <1>5, <2>1 DEF Accepts, RecordAccepted
<1>7. Extended(e, Admission, s)
  BY <1>1, <1>2, <1>3, <1>4, <1>6, WritesExtends
<1>8. \A i \in 1..Len(e) : FALSE
  BY <1>2
<1>9. Legible(e)
  BY <1>1, <1>8 DEF Legible, CutsBetweenTurns, Paired
<1>10. MayFollow(e, Admission)
  BY <1>3 DEF MayFollow, Fields
<1>11. Legible(s)
  BY <1>7, <1>9, <1>10, LegibleAfter
<1>12. Open(e) = {} /\ Reduced(e).view.settled = FALSE /\ Reduced(e).view.compaction_boundary_seq = 0
  BY <1>1, <1>5 DEF Open
<1>13. Open(s) = {} /\ Reduced(s).view.settled = FALSE
  BY <1>3, <1>7, <1>12, OpenAfter
<1>14. Boundary(e) = 0
  BY <1>8, <1>9, BoundaryEquals
<1>15. Reduced(s).view.compaction_boundary_seq = Boundary(s)
  BY <1>7, <1>9, <1>11, <1>12, <1>14, BoundaryAfter
<1>16. Admitted(s)
  BY <1>2, <1>7 DEF Extended, Admitted
<1> QED BY <1>11, <1>13, <1>15, <1>16

\* A Run that has just been admitted, in a thread of Runs that are apart.
LEMMA FineFresh ==
  ASSUME NEW s, s = <<Admission>>, NEW keep, NEW th,
         \A i \in 1..Len(th) : Legible(th[i]),
         \A i, k \in 1..Len(th) : i # k => CallsMade(th[i]) \cap CallsMade(th[k]) = {}
  PROVE  Fine(th, s, Off, keep)
<1>1. /\ Admitted(s) /\ Legible(s) /\ Open(s) = {}
      /\ Reduced(s).view.compaction_boundary_seq = Boundary(s)
  BY FreshLog
<1>2. \A i \in DOMAIN s : s[i].type = "run_admitted"
  BY <1>1 DEF Admitted, Admission
<1>3. CallsMade(s) = {} /\ Compactions(s) = {}
  BY <1>2 DEF CallsMade, Compactions
<1>4. ThreadOK(th, s)
  BY <1>3 DEF ThreadOK
<1>5. CallsOK(s)
  BY <1>1 DEF CallsOK
<1>6. CutOK(s, Off, keep) /\ ReadOK(s, Off)
  BY <1>1, <1>3, OffIs DEF CutOK, ReadOK
<1> QED BY <1>1, <1>4, <1>5, <1>6, OffIs DEF Fine

\* The invariant holds at the start.
LEMMA InitInv == Init => Inv
<1> SUFFICES ASSUME Init PROVE Inv
  OBVIOUS
<1>1. log = <<Admission>> /\ loop = Off /\ scene \in Scenes /\ mishaps = 0 /\ MaxMishaps \in Nat
  BY ContextAssumption DEF Init, Admission
<1>2. Len(thread) = 0 /\ thread \in Seq(InSeq(thread))
  BY DEF Init
<1>3. \A i \in 1..Len(thread) : FALSE
  BY <1>2
<1>4. Fine(thread, log, loop, scene.keep)
  BY <1>1, <1>3, FineFresh
<1>5. Shape
  <2>1. Len(log) \in Nat
    BY <1>1
  <2> QED BY <1>1, <1>2, <2>1, OffIs DEF Shape
<1> QED BY <1>4, <1>5 DEF Inv

\* The next Run of the thread: the log that joins the thread is settled, and its
\* loop is off.
LEMMA ContinueKeeps ==
  ASSUME Inv, ContinueThread
  PROVE  Inv'
<1>1. /\ State.settled = TRUE /\ thread' = Append(thread, log) /\ log' = <<Admission>>
      /\ scene' = scene /\ loop' = loop /\ mishaps' = mishaps
  <2>1. State.settled \in BOOLEAN
    BY Scenery DEF ViewOK
  <2> QED BY <2>1 DEF ContinueThread, Admission
<1>2. loop = Off
  BY <1>1 DEF Inv, Fine, PhaseOK, State
<1>3. /\ Len(thread) \in Nat /\ Len(thread') = Len(thread) + 1 /\ thread' \in Seq(InSeq(thread) \cup {log})
      /\ \A i \in 1..Len(thread) : thread'[i] = thread[i]
      /\ thread'[Len(thread) + 1] = log
  <2>1. thread \in Seq(InSeq(thread))
    BY DEF Inv, Shape
  <2>2. PICK S : S = InSeq(thread) \cup {log}
    OBVIOUS
  <2>3. thread \in Seq(S) /\ log \in S
    BY <2>1, <2>2
  <2> QED BY <1>1, <2>2, <2>3
<1>4. \A i \in 1..Len(thread') : i \in 1..Len(thread) \/ i = Len(thread) + 1
  BY <1>3
<1>5. Legible(log) /\ ThreadOK(thread, log)
  BY DEF Inv, Fine
<1>6. \A i \in 1..Len(thread') : Legible(thread'[i])
  BY <1>3, <1>4, <1>5 DEF ThreadOK
<1>7. \A i, k \in 1..Len(thread') : i # k => CallsMade(thread'[i]) \cap CallsMade(thread'[k]) = {}
  <2> TAKE i, k \in 1..Len(thread')
  <2> HAVE i # k
  <2>1. CASE i \in 1..Len(thread) /\ k \in 1..Len(thread)
    BY <1>3, <1>5, <2>1 DEF ThreadOK
  <2>2. CASE i \in 1..Len(thread) /\ k = Len(thread) + 1
    BY <1>3, <1>5, <2>2 DEF ThreadOK
  <2>3. CASE k \in 1..Len(thread) /\ i = Len(thread) + 1
    BY <1>3, <1>5, <2>3 DEF ThreadOK
  <2> QED BY <1>4, <2>1, <2>2, <2>3
<1>8. Fine(thread', log', loop', scene.keep)
  BY <1>1, <1>2, <1>6, <1>7, FineFresh
<1>9. Shape'
  <2>1. thread' \in Seq(InSeq(thread'))
    BY <1>3, OwnElements
  <2>2. Len(log') = 1
    BY <1>1
  <2>3. scene \in Scenes /\ mishaps \in 0..MaxMishaps
    BY DEF Inv, Shape
  <2>4. loop' \in Loops /\ loop'.read <= Len(log') /\ loop'.cut <= Len(log')
    BY <1>1, <1>2, <2>2, OffIs
  <2> QED BY <1>1, <2>1, <2>3, <2>4 DEF Shape
<1> QED BY <1>1, <1>8, <1>9 DEF Inv

-----------------------------------------------------------------------------
(* The steps *)

\* What the invariant says of a loop that is on.
LEMMA LoopOn ==
  ASSUME Inv
  PROVE  /\ loop.phase # "off" => Reduced(log).view.settled = FALSE
         /\ loop.phase \in CalmPhases => Open(log) = {}
         /\ loop.phase = "executing" => Open(log) \subseteq {loop.todo[1], Inner}
         /\ loop.phase = "skipping" => Open(log) \subseteq {loop.todo[1]}
         /\ loop.phase = "off" => loop = Off
         /\ Open(log) = State.open_tool_calls
         /\ TodoOK(log, loop) /\ ReadOK(log, loop) /\ PhaseOK(log, loop)
         /\ loop.phase = "summarising" => CutAhead(log, loop.cut, scene.keep)
<1>1. PhaseOK(log, loop) /\ TodoOK(log, loop) /\ ReadOK(log, loop) /\ CutOK(log, loop, scene.keep)
  BY DEF Inv, Fine
<1>2. Reduced(log).view.settled \in BOOLEAN
  BY Scenery DEF ViewOK, State
<1> QED BY <1>1, <1>2 DEF PhaseOK, CutOK, Open, State

\* A loop that goes to another phase.
LEMMA GoesTo ==
  ASSUME Inv, NEW phase \in Phases, Goes(phase)
  PROVE  /\ loop' \in Loops /\ loop'.phase = phase /\ loop'.todo = loop.todo
         /\ loop'.cut = loop.cut /\ loop'.read = loop.read
BY Scenery DEF Goes, Loops

\* The call that is at hand, and those behind it.
LEMMA CallAtHand ==
  ASSUME Inv, loop.phase \in CallPhases
  PROVE  /\ Head(loop.todo) = loop.todo[1] /\ loop.todo[1] \in Calls \ {Inner}
         /\ \E k \in 1..Len(log) : Asks(log, k, loop.todo[1]) /\ OneTurn(log, k, Len(log))
         /\ AskedFor(log, loop.todo)
         /\ Tail(loop.todo) \in Seq(Calls \cup Entries) /\ AskedFor(log, Tail(loop.todo))
<1>1. loop.todo # <<>> /\ AskedFor(log, loop.todo)
  BY LoopOn DEF TodoOK
<1>2. loop.todo \in Seq(Calls \cup Entries)
  BY Scenery DEF Loops
<1>3. PICK q : q = loop.todo
  OBVIOUS
<1>4. q # <<>> /\ q \in Seq(Calls \cup Entries)
  BY <1>1, <1>2, <1>3
<1>5. 1 \in DOMAIN q /\ Head(q) = q[1] /\ Tail(q) \in Seq(Calls \cup Entries)
  BY <1>4
<1>6. \A i \in DOMAIN Tail(q) : i + 1 \in DOMAIN q /\ Tail(q)[i] = q[i + 1]
  BY <1>4
<1>7. AskedFor(log, Tail(q))
  BY <1>1, <1>3, <1>6 DEF AskedFor
<1> QED BY <1>1, <1>3, <1>5, <1>7 DEF AskedFor

\* A call that is open may end.
LEMMA MayEnd ==
  ASSUME Inv, NEW rec, rec.type = "tool_call_finished", rec.call \in Open(log)
  PROVE  MayFollow(log, rec)
<1>1. ProperLog(log) /\ CallsOK(log)
  BY Scenery DEF Inv, Fine
<1>2. PICK q \in 1..Len(log) : Begins(log, q, rec.call)
  BY <1>1, OpenHasBegun
<1>3. OneTurn(log, q, Len(log))
  BY <1>1, <1>2 DEF CallsOK
<1> QED BY <1>2, <1>3 DEF MayFollow, Fields

\* A planned cut may be carried out.
LEMMA CutFits ==
  ASSUME Inv
  PROVE  Cut \in Nat /\ Cut <= Len(log) /\ (Cut # 0 => CutAhead(log, Cut, scene.keep))
<1>1. Legible(log) /\ State.compaction_boundary_seq = Boundary(log)
  BY DEF Inv, Fine, CutOK, State
<1>2. Len(log) \in Nat /\ DOMAIN log = 1..Len(log) /\ Boundary(log) \in Nat /\ scene.keep \in Nat \ {0}
  BY <1>1, Scenery, BoundaryIs
<1>3. Cut = PlanCut(log, Boundary(log), scene.keep)
  BY <1>1 DEF Cut
<1>4. CASE Cut = 0
  BY <1>2, <1>4
<1>5. CASE Cut # 0
  <2>1. LET cut == PlanCut(log, Boundary(log), scene.keep) IN
        /\ cut \in Nat /\ Boundary(log) < cut /\ cut < Len(log) /\ log[cut + 1].type = "turn_started"
        /\ Cardinality(TurnsAbove(log, cut)) >= scene.keep
    BY <1>2, <1>3, <1>5, PlannedCut
  <2> HIDE DEF Cut
  <2> QED BY <1>2, <1>3, <2>1 DEF CutAhead
<1> QED BY <1>4, <1>5

\* A plain record and a loop that stays where it is.
LEMMA PlainStep ==
  ASSUME Inv, NEW rec, Writes(rec), Plain(rec), WellFormed(rec), rec.type # "run_settled",
         rec.type = "queue_enqueued" =>
           \A i \in 1..Len(log) : log[i].type = "queue_enqueued" => log[i].entry # rec.entry,
         UNCHANGED <<rest, loop>>
  PROVE  Inv'
<1>1. Extended(log, rec, log')
  BY Grown
<1>2. MayFollow(log, rec) /\ rec.type # "turn_started" /\ rec.type # "model_call_finished"
      /\ rec.type # "compaction_applied"
  BY PlainFollows DEF Plain
<1>3. Open(log') = Open(log) /\ Reduced(log').view.settled = Reduced(log).view.settled
  BY <1>1, OpenAfter DEF Plain
<1>4. scene' = scene /\ thread' = thread /\ mishaps' = mishaps /\ loop' = loop
  BY DEF rest
<1>5. PhaseOK(log', loop')
  BY <1>3, <1>4, LoopOn DEF PhaseOK
<1>6. TodoOK(log', loop')
  <2>1. TodoOK(log, loop)
    BY LoopOn
  <2> QED BY <1>1, <1>2, <1>4, <2>1, AskedForAfter DEF TodoOK
<1>7. mishaps' \in 0..MaxMishaps
  BY <1>4 DEF Inv, Shape
<1>8. loop' \in Loops /\ loop'.read <= Len(log) /\ loop'.cut <= Len(log)
  BY <1>4 DEF Inv, Shape
<1>9. loop'.phase = "asking" => AnsweredUpTo(log, loop'.read)
  BY <1>4, LoopOn DEF ReadOK
<1>10. loop'.phase = "summarising" => CutAhead(log, loop'.cut, scene.keep)
  BY <1>4, LoopOn
<1> QED BY <1>1, <1>2, <1>4, <1>5, <1>6, <1>7, <1>8, <1>9, <1>10, Wrote

\* A plain record with which the loop ends.
LEMMA LastStep ==
  ASSUME Inv, NEW rec, Writes(rec), Plain(rec), WellFormed(rec), rec.type # "queue_enqueued",
         scene' = scene, thread' = thread, mishaps' \in 0..MaxMishaps, loop' = Off
  PROVE  Inv'
<1>1. Extended(log, rec, log')
  BY Grown
<1>2. MayFollow(log, rec) /\ rec.type # "turn_started" /\ rec.type # "model_call_finished"
      /\ rec.type # "compaction_applied"
  BY PlainFollows DEF Plain
<1>3. PhaseOK(log', loop') /\ TodoOK(log', loop') /\ loop' \in Loops
      /\ loop'.read <= Len(log) /\ loop'.cut <= Len(log)
  BY Scenery, OffIs
<1>4. loop'.phase # "asking" /\ loop'.phase # "summarising"
  BY OffIs
<1> QED BY <1>1, <1>2, <1>3, <1>4, Wrote

\* A record of the loop's own, with which it goes on.
LEMMA LoopStepOf ==
  ASSUME Inv, Reduced(log).view.settled = FALSE, NEW rec, Extended(log, rec, log'),
         rec.type # "run_settled", MayFollow(log, rec),
         rec.type = "turn_started" => Open(log) = {},
         rec.type = "model_call_finished" =>
           \A i \in 1..Len(thread) : CallsMade(thread[i]) \cap InSeq(rec.asks) = {},
         rec.type = "compaction_applied" => CutAhead(log, rec.replaced_to_seq, scene.keep),
         UNCHANGED rest,
         loop' \in Loops, loop'.phase # "off", loop'.read <= Len(log), loop'.cut <= Len(log),
         loop'.phase \in CalmPhases => Open(log') = {},
         loop'.phase = "executing" => Open(log') \subseteq {loop'.todo[1], Inner},
         loop'.phase = "skipping" => Open(log') \subseteq {loop'.todo[1]},
         TodoOK(log', loop'),
         loop'.phase = "asking" => AnsweredUpTo(log, loop'.read),
         loop'.phase = "summarising" => rec.type # "compaction_applied" /\ CutAhead(log, loop'.cut, scene.keep)
  PROVE  Inv'
<1>1. scene' = scene /\ thread' = thread /\ mishaps' \in 0..MaxMishaps
  BY DEF rest, Inv, Shape
<1>2. Reduced(log').view.settled = FALSE
  BY OpenAfter
<1>3. PhaseOK(log', loop')
  BY <1>2 DEF PhaseOK
<1> QED BY <1>1, <1>3, Wrote

\* An Attempt begins with whatever calls are open.
LEMMA BeginKeeps ==
  ASSUME Inv, Begin
  PROVE  Inv'
<1>1. PICK rec : rec = [type |-> "attempt_started", number |-> State.attempt_count + 1]
  OBVIOUS
<1>2. rec.type = "attempt_started" /\ Writes(rec) /\ Goes("settling") /\ UNCHANGED rest
  BY <1>1 DEF Begin
<1>3. Plain(rec) /\ WellFormed(rec) /\ rec.type # "run_settled" /\ rec.type # "queue_enqueued"
  BY <1>2 DEF Plain, WellFormed
<1>4. Extended(log, rec, log') /\ MayFollow(log, rec)
  BY <1>2, <1>3, Grown, PlainFollows
<1>5. Reduced(log).view.settled = FALSE
  <2>1. State.settled \in BOOLEAN
    BY Scenery DEF ViewOK
  <2> QED BY <2>1 DEF Begin, State
<1>6. loop' \in Loops /\ loop'.phase = "settling" /\ loop'.cut = loop.cut /\ loop'.read = loop.read
  BY <1>2, GoesTo DEF Phases
<1>7. loop'.read <= Len(log) /\ loop'.cut <= Len(log)
  BY <1>6, Scenery
<1>8. TodoOK(log', loop') /\ loop'.phase \notin CalmPhases
  BY <1>6 DEF TodoOK, CallPhases, CalmPhases
<1> QED BY <1>2, <1>3, <1>4, <1>5, <1>6, <1>7, <1>8, LoopStepOf DEF Plain

\* A call that the last Attempt left open ends in the turn it began in.
LEMMA SettleDanglingKeeps ==
  ASSUME Inv, NEW c \in Calls, SettleDangling(c)
  PROVE  Inv'
<1>1. PICK rec : rec = CallFinished(c, IF c \in Safe THEN "ok" ELSE "unknown")
  OBVIOUS
<1>2. rec.type = "tool_call_finished" /\ rec.call = c
  BY <1>1 DEF CallFinished
<1>3. Writes(rec) /\ c \in Open(log) /\ UNCHANGED <<rest, loop>> /\ loop.phase = "settling"
  BY <1>1 DEF SettleDangling, Open, State, In
<1>4. WellFormed(rec)
  BY <1>2 DEF WellFormed
<1>5. Extended(log, rec, log') /\ MayFollow(log, rec)
  BY <1>2, <1>3, <1>4, Grown, MayEnd
<1>6. Reduced(log).view.settled = FALSE
  BY <1>3, LoopOn
<1>7. loop' = loop /\ loop' \in Loops /\ loop'.read <= Len(log) /\ loop'.cut <= Len(log)
  BY <1>3, Scenery
<1>8. TodoOK(log', loop') /\ loop'.phase \notin CalmPhases /\ loop'.phase = "settling"
  BY <1>3, <1>7 DEF TodoOK, CallPhases, CalmPhases
<1> QED BY <1>2, <1>3, <1>5, <1>6, <1>7, <1>8, LoopStepOf

\* The loop goes on once no call is open.
LEMMA RecoveredKeeps ==
  ASSUME Inv, Recovered
  PROVE  Inv'
<1>1. Open(log) = {} /\ loop.phase = "settling" /\ Goes("boundary") /\ UNCHANGED <<rest, log>>
  BY DEF Recovered, Open, State, In
<1>2. loop' \in Loops /\ loop'.phase = "boundary" /\ loop'.cut = loop.cut /\ loop'.read = loop.read
  BY <1>1, GoesTo DEF Phases
<1>3. log' = log /\ scene' = scene /\ thread' = thread /\ mishaps' \in 0..MaxMishaps
  BY <1>1 DEF rest, Inv, Shape
<1>4. PhaseOK(log, loop') /\ TodoOK(log, loop') /\ ReadOK(log, loop')
  BY <1>1, <1>2, LoopOn DEF PhaseOK, TodoOK, ReadOK, CallPhases
<1> QED BY <1>2, <1>3, <1>4, Scenery, Moved

\* The Run settles, and the loop is off.
LEMMA StopLoopKeeps ==
  ASSUME Inv, StopLoop \/ Fail \/ Raise
  PROVE  Inv'
<1>1. PICK state : Writes(Settlement(state))
  BY DEF StopLoop, Fail, Raise
<1>2. PICK rec : rec = Settlement(state)
  OBVIOUS
<1>3. rec.type = "run_settled"
  BY <1>2 DEF Settlement
<1>4. Writes(rec) /\ Plain(rec) /\ WellFormed(rec) /\ rec.type # "queue_enqueued"
  BY <1>1, <1>2, <1>3 DEF Plain, WellFormed
<1>5. scene' = scene /\ thread' = thread /\ loop' = Off
  BY DEF StopLoop, Fail, Raise, rest
<1>6. mishaps' \in 0..MaxMishaps
  BY ContextAssumption DEF StopLoop, Fail, Raise, rest, Inv, Shape
<1> QED BY <1>4, <1>5, <1>6, LastStep

\* A cut is planned.
LEMMA CompactKeeps ==
  ASSUME Inv, Compact
  PROVE  Inv'
<1>1. /\ loop.phase = "boundary" /\ Cut # 0 /\ UNCHANGED <<rest, log>>
      /\ loop' = [loop EXCEPT !.phase = "summarising", !.cut = Cut, !.why = "threshold"]
  BY DEF Compact, In
<1>2. PICK cut : cut = Cut
  OBVIOUS
<1>3. cut \in Nat /\ cut <= Len(log) /\ CutAhead(log, cut, scene.keep)
  BY <1>1, <1>2, CutFits
<1>4. loop' \in Loops /\ loop'.phase = "summarising" /\ loop'.cut = cut /\ loop'.read = loop.read
  BY <1>1, <1>2, <1>3, Scenery DEF Loops, Phases
<1>5. log' = log /\ scene' = scene /\ thread' = thread /\ mishaps' \in 0..MaxMishaps
  BY <1>1 DEF rest, Inv, Shape
<1>6. Open(log) = {} /\ Reduced(log).view.settled = FALSE
  BY <1>1, LoopOn DEF CalmPhases
<1>7. PhaseOK(log, loop') /\ TodoOK(log, loop') /\ ReadOK(log, loop')
  BY <1>4, <1>6 DEF PhaseOK, TodoOK, ReadOK, CallPhases
<1> QED BY <1>3, <1>4, <1>5, <1>7, Scenery, Moved

\* The summary is written for the cut that was planned: other writers wrote since,
\* and the cut is still ahead of the last one.
LEMMA SummariseKeeps ==
  ASSUME Inv, Summarise
  PROVE  Inv'
<1>1. PICK rec : rec = [type |-> "compaction_applied",
             replaced_from_seq |-> State.compaction_boundary_seq + 1,
             replaced_to_seq |-> loop.cut, currency |-> None]
  OBVIOUS
<1>2. PICK phase \in {"compacted", "boundary"} : Goes(phase)
  BY DEF Summarise
<1>3. /\ rec.type = "compaction_applied" /\ rec.replaced_to_seq = loop.cut /\ Writes(rec)
      /\ loop.phase = "summarising" /\ UNCHANGED rest
  BY <1>1 DEF Summarise, In
<1>4. WellFormed(rec)
  BY <1>3 DEF WellFormed
<1>5. CutAhead(log, loop.cut, scene.keep) /\ Open(log) = {} /\ Reduced(log).view.settled = FALSE
  BY <1>3, LoopOn DEF CalmPhases
<1>6. Extended(log, rec, log')
  BY <1>3, <1>4, Grown
<1>7. MayFollow(log, rec)
  <2>1. loop.cut \in Nat /\ Len(log) \in Nat /\ loop.cut < Len(log)
        /\ log[loop.cut + 1].type = "turn_started"
    BY <1>5, Scenery DEF CutAhead
  <2>2. loop.cut + 1 \in 1..Len(log)
    BY <2>1
  <2> QED BY <1>3, <2>1, <2>2 DEF MayFollow, Fields
<1>8. /\ loop' \in Loops /\ loop'.phase \in {"compacted", "boundary"} /\ loop'.cut = loop.cut
      /\ loop'.read = loop.read
  BY <1>2, GoesTo DEF Phases
<1>9. Open(log') = {}
  BY <1>3, <1>5, <1>6, OpenAfter
<1>10. TodoOK(log', loop')
  BY <1>8 DEF TodoOK, CallPhases
<1>11. loop'.read <= Len(log) /\ loop'.cut <= Len(log)
  BY <1>8, Scenery
<1> QED BY <1>3, <1>5, <1>6, <1>7, <1>8, <1>9, <1>10, <1>11, LoopStepOf

\* A turn opens when no call is open.
LEMMA OpenTurnKeeps ==
  ASSUME Inv, OpenTurn
  PROVE  Inv'
<1>1. PICK rec : rec = [type |-> "turn_started", turn |-> State.turn + 1]
  OBVIOUS
<1>2. PICK todo : todo = State.pending["steer"]
  OBVIOUS
<1>3. /\ rec.type = "turn_started" /\ Writes(rec) /\ UNCHANGED rest
      /\ loop.phase \in {"compacted", "boundary"}
      /\ loop' = [loop EXCEPT !.phase = "draining", !.todo = todo]
  BY <1>1, <1>2 DEF OpenTurn, In
<1>4. WellFormed(rec) /\ MayFollow(log, rec)
  BY <1>3 DEF WellFormed, MayFollow, Fields
<1>5. Open(log) = {} /\ Reduced(log).view.settled = FALSE
  BY <1>3, LoopOn DEF CalmPhases
<1>6. Extended(log, rec, log')
  BY <1>3, <1>4, Grown
<1>7. todo \in Seq(Calls \cup Entries)
  <2>1. todo \in Seq(Entries)
    BY <1>2, Scenery DEF ViewOK, PendingOK, Queues
  <2> QED BY <2>1
<1>8. /\ loop' \in Loops /\ loop'.phase = "draining" /\ loop'.cut = loop.cut
      /\ loop'.read = loop.read
  BY <1>3, <1>7, Scenery DEF Loops, Phases
<1>9. Open(log') = {}
  BY <1>3, <1>5, <1>6, OpenAfter
<1>10. TodoOK(log', loop')
  BY <1>8 DEF TodoOK, CallPhases
<1>11. loop'.read <= Len(log) /\ loop'.cut <= Len(log)
  BY <1>8, Scenery
<1> QED BY <1>3, <1>4, <1>5, <1>6, <1>8, <1>9, <1>10, <1>11, LoopStepOf

\* A message is taken in.
LEMMA DrainKeeps ==
  ASSUME Inv, Drain
  PROVE  Inv'
<1>1. PICK rec : rec = [type |-> "queue_consumed", entry |-> Head(loop.todo)]
  OBVIOUS
<1>2. PICK todo : todo = Tail(loop.todo)
  OBVIOUS
<1>3. /\ rec.type = "queue_consumed" /\ Writes(rec) /\ UNCHANGED rest
      /\ loop.phase = "draining" /\ loop.todo # <<>>
      /\ loop' = [loop EXCEPT !.todo = todo]
  BY <1>1, <1>2 DEF Drain, In
<1>4. Plain(rec) /\ WellFormed(rec)
  BY <1>3 DEF WellFormed, Plain
<1>5. Open(log) = {} /\ Reduced(log).view.settled = FALSE
  BY <1>3, LoopOn DEF CalmPhases
<1>6. Extended(log, rec, log') /\ MayFollow(log, rec)
  BY <1>3, <1>4, Grown, PlainFollows
<1>7. todo \in Seq(Calls \cup Entries)
  <2>1. PICK q : q = loop.todo
    OBVIOUS
  <2>2. q \in Seq(Calls \cup Entries) /\ q # <<>>
    BY <1>3, <2>1, Scenery DEF Loops
  <2> QED BY <1>2, <2>1, <2>2
<1>8. /\ loop' \in Loops /\ loop'.phase = "draining" /\ loop'.cut = loop.cut
      /\ loop'.read = loop.read
  BY <1>3, <1>7, Scenery DEF Loops, Phases
<1>9. Open(log') = {}
  BY <1>3, <1>5, <1>6, OpenAfter
<1>10. TodoOK(log', loop')
  BY <1>8 DEF TodoOK, CallPhases
<1>11. loop'.read <= Len(log) /\ loop'.cut <= Len(log)
  BY <1>8, Scenery
<1> QED BY <1>3, <1>5, <1>6, <1>8, <1>9, <1>10, <1>11, LoopStepOf

\* The prompt is built when no call is open, so all that began is answered.
LEMMA AskKeeps ==
  ASSUME Inv, Ask
  PROVE  Inv'
<1>1. PICK rec : rec = [type |-> "model_call_started", turn |-> State.turn]
  OBVIOUS
<1>2. PICK n : n = Len(log)
  OBVIOUS
<1>3. /\ rec.type = "model_call_started" /\ Writes(rec) /\ UNCHANGED rest
      /\ loop.phase = "draining"
      /\ loop' = [loop EXCEPT !.phase = "asking", !.read = n]
  BY <1>1, <1>2 DEF Ask, In
<1>4. Plain(rec) /\ WellFormed(rec)
  BY <1>3 DEF WellFormed, Plain
<1>5. Open(log) = {} /\ Reduced(log).view.settled = FALSE
  BY <1>3, LoopOn DEF CalmPhases
<1>6. Extended(log, rec, log') /\ MayFollow(log, rec)
  BY <1>3, <1>4, Grown, PlainFollows
<1>7. AnsweredUpTo(log, n) /\ n \in Nat /\ n <= Len(log)
  BY <1>2, <1>5, Scenery, AllAnswered
<1>8. /\ loop' \in Loops /\ loop'.phase = "asking" /\ loop'.cut = loop.cut /\ loop'.read = n
  BY <1>3, <1>7, Scenery DEF Loops, Phases
<1>9. Open(log') = {}
  BY <1>3, <1>5, <1>6, OpenAfter
<1>10. TodoOK(log', loop')
  BY <1>8 DEF TodoOK, CallPhases
<1>11. loop'.read <= Len(log) /\ loop'.cut <= Len(log)
  BY <1>7, <1>8, Scenery
<1> QED BY <1>3, <1>5, <1>6, <1>7, <1>8, <1>9, <1>10, <1>11, LoopStepOf

\* A batch is asked for in the turn that is open, with calls that are fresh.
LEMMA AnswerKeeps ==
  ASSUME Inv, Answer
  PROVE  Inv'
<1>1. PICK batch \in scene.batches, large \in {FALSE, Happens("large")} :
        /\ \A c \in InSeq(batch) : Fresh(c)
        /\ Writes([type |-> "model_call_finished", turn |-> State.turn, currency |-> None,
                   asks |-> batch, large |-> large])
        /\ loop' = [loop EXCEPT !.phase = IF batch = <<>> THEN "finishing" ELSE "running",
                                !.todo = batch]
  BY DEF Answer
<1>2. PICK rec : rec = [type |-> "model_call_finished", turn |-> State.turn, currency |-> None,
                        asks |-> batch, large |-> large]
  OBVIOUS
<1>3. PICK phase : phase = IF batch = <<>> THEN "finishing" ELSE "running"
  OBVIOUS
<1>4. /\ rec.type = "model_call_finished" /\ rec.asks = batch /\ Writes(rec) /\ UNCHANGED rest
      /\ loop.phase = "asking"
      /\ loop' = [loop EXCEPT !.phase = phase, !.todo = batch]
  BY <1>1, <1>2, <1>3 DEF Answer, In
<1>5. batch \in Seq(Calls \ {Inner}) /\ DOMAIN batch = 1..Len(batch)
      /\ \A i \in DOMAIN batch : batch[i] \in Calls \ {Inner} /\ batch[i] \in InSeq(batch)
  BY Scenery DEF InSeq
<1>6. WellFormed(rec)
  BY <1>4 DEF WellFormed
<1>7. \A c \in InSeq(batch) :
        c \notin CallsMade(log) /\ \A i \in 1..Len(thread) : c \notin CallsMade(thread[i])
  BY <1>1, Scenery DEF Fresh
<1>8. MayFollow(log, rec)
  <2>1. Fields(rec)
    BY <1>4, <1>5 DEF Fields
  <2>2. \A c, k : Asks(log, k, c) => c \in CallsMade(log)
    BY Scenery DEF Asks, CallsMade
  <2> QED BY <1>4, <1>7, <2>1, <2>2 DEF MayFollow
<1>9. Open(log) = {} /\ Reduced(log).view.settled = FALSE
  BY <1>4, LoopOn DEF CalmPhases
<1>10. Extended(log, rec, log')
  BY <1>4, <1>6, Grown
<1>11. Open(log') = {}
  BY <1>4, <1>9, <1>10, OpenAfter
<1>12. /\ loop' \in Loops /\ loop'.phase = phase /\ loop'.cut = loop.cut /\ loop'.read = loop.read
       /\ loop'.todo = batch /\ phase \in {"finishing", "running"} /\ (phase = "running" => batch # <<>>)
  <2>1. phase \in {"finishing", "running"} /\ phase \in Phases /\ (phase = "running" => batch # <<>>)
    BY <1>3 DEF Phases
  <2>2. batch \in Seq(Calls \cup Entries)
    BY <1>5
  <2> QED BY <1>4, <2>1, <2>2, Scenery DEF Loops
<1>13. AskedFor(log', batch)
  <2> DEFINE n == Len(log) + 1
  <2>1. n \in 1..Len(log') /\ Len(log') = n /\ \A k \in 1..Len(log) : ~(n <= k)
    BY <1>10 DEF Extended
  <2>2. \A c \in InSeq(batch) : Asks(log', n, c)
    BY <1>4, <1>10, PlacesAfter
  <2>3. OneTurn(log', n, n)
    <3>1. OneTurn(log', n, n) <=> OneTurn(log, n, Len(log)) /\ rec.type # "turn_started"
      BY <1>10, <2>1, PlacesAfter
    <3> QED BY <1>4, <2>1, <3>1 DEF OneTurn
  <2> HIDE DEF n
  <2> QED BY <1>5, <2>1, <2>2, <2>3 DEF AskedFor
<1>14. TodoOK(log', loop')
  BY <1>12, <1>13 DEF TodoOK, CallPhases
<1>15. \A i \in 1..Len(thread) : CallsMade(thread[i]) \cap InSeq(rec.asks) = {}
  BY <1>4, <1>7
<1>16. loop'.read <= Len(log) /\ loop'.cut <= Len(log)
  BY <1>12, Scenery
<1> QED BY <1>4, <1>8, <1>9, <1>10, <1>11, <1>12, <1>14, <1>15, <1>16, LoopStepOf

\* The prompt was too long: a cut is planned, or the Run will fail.
LEMMA OverflowKeeps ==
  ASSUME Inv, Overflow
  PROVE  Inv'
<1>1. PICK rec : rec = [type |-> "model_call_failed", turn |-> State.turn]
  OBVIOUS
<1>2. PICK cut : cut = Cut
  OBVIOUS
<1>3. PICK phase : phase = IF cut = 0 THEN "failing" ELSE "summarising"
  OBVIOUS
<1>4. /\ rec.type = "model_call_failed" /\ Writes(rec) /\ UNCHANGED rest
      /\ loop.phase = "asking"
      /\ loop' = [loop EXCEPT !.phase = phase, !.cut = cut, !.why = "overflow"]
  BY <1>1, <1>2, <1>3 DEF Overflow, In
<1>5. Plain(rec) /\ WellFormed(rec)
  BY <1>4 DEF WellFormed, Plain
<1>6. Open(log) = {} /\ Reduced(log).view.settled = FALSE
  BY <1>4, LoopOn DEF CalmPhases
<1>7. Extended(log, rec, log') /\ MayFollow(log, rec)
  BY <1>4, <1>5, Grown, PlainFollows
<1>8. cut \in Nat /\ cut <= Len(log) /\ (cut # 0 => CutAhead(log, cut, scene.keep))
  BY <1>2, CutFits
<1>9. /\ loop' \in Loops /\ loop'.phase = phase /\ loop'.cut = cut /\ loop'.read = loop.read
      /\ phase \in {"failing", "summarising"} /\ (phase = "summarising" => cut # 0)
  <2>1. phase \in {"failing", "summarising"} /\ phase \in Phases /\ (phase = "summarising" => cut # 0)
    BY <1>3 DEF Phases
  <2> QED BY <1>4, <1>8, <2>1, Scenery DEF Loops
<1>10. Open(log') = {}
  BY <1>4, <1>6, <1>7, OpenAfter
<1>11. TodoOK(log', loop')
  BY <1>9 DEF TodoOK, CallPhases
<1>12. loop'.read <= Len(log) /\ loop'.cut <= Len(log)
  BY <1>8, <1>9, Scenery
<1> QED BY <1>4, <1>6, <1>7, <1>8, <1>9, <1>10, <1>11, <1>12, LoopStepOf

\* The Run waits for its children or settles.
LEMMA FinishKeeps ==
  ASSUME Inv, Finish
  PROVE  Inv'
<1>1. PICK rec : Writes(rec) /\ rec.type \in {"suspended", "run_settled"}
  <2>1. CASE \E k \in Children : State.children[k] = "alive"
    <3>1. PICK rec : rec = [type |-> "suspended", reason |-> "children", call |-> None, step |-> None]
      OBVIOUS
    <3>2. Writes(rec) /\ rec.type = "suspended"
      BY <2>1, <3>1 DEF Finish
    <3> QED BY <3>2
  <2>2. CASE ~\E k \in Children : State.children[k] = "alive"
    <3>1. PICK rec : rec = Settlement("completed")
      OBVIOUS
    <3>2. Writes(rec) /\ rec.type = "run_settled"
      BY <2>2, <3>1 DEF Finish, Settlement
    <3> QED BY <3>2
  <2> QED BY <2>1, <2>2
<1>2. Plain(rec) /\ WellFormed(rec) /\ rec.type # "queue_enqueued"
  BY <1>1 DEF Plain, WellFormed
<1>3. scene' = scene /\ thread' = thread /\ loop' = Off /\ mishaps' \in 0..MaxMishaps
  BY DEF Finish, rest, Inv, Shape
<1> QED BY <1>1, <1>2, <1>3, LastStep

\* The records of a call.
LEMMA CallRecords ==
  ASSUME NEW c, NEW outcome
  PROVE  /\ CallStarted(c).type = "tool_call_started" /\ CallStarted(c).call = c
         /\ CallStarted(c).by_program = (c = Inner)
         /\ CallFinished(c, outcome).type = "tool_call_finished" /\ CallFinished(c, outcome).call = c
BY DEF CallStarted, CallFinished

\* The open calls, after a call's record.
LEMMA OpenThen ==
  ASSUME NEW s, NEW rec, NEW t, Extended(s, rec, t)
  PROVE  /\ rec.type = "tool_call_started" => Open(t) = Open(s) \cup {rec.call}
         /\ rec.type = "tool_call_finished" => Open(t) = Open(s) \ {rec.call}
BY OpenAfter, ZenonT(60)

\* The call at hand may begin, and so may one of a program's.
LEMMA MayBegin ==
  ASSUME Inv, NEW rec, rec.type = "tool_call_started", rec.by_program = (rec.call = Inner),
         \/ rec.call = Inner
         \/ loop.phase \in CallPhases /\ rec.call = Head(loop.todo)
  PROVE  MayFollow(log, rec) /\ WellFormed(rec)
<1>1. Inner \in Calls
  BY ContextAssumption
<1>2. CASE rec.call = Inner
  BY <1>1, <1>2 DEF MayFollow, Fields, WellFormed
<1>3. CASE loop.phase \in CallPhases /\ rec.call = Head(loop.todo)
  <2>1. /\ rec.call \in Calls
        /\ \E k \in 1..Len(log) : Asks(log, k, rec.call) /\ OneTurn(log, k, Len(log))
    BY <1>3, CallAtHand
  <2> QED BY <2>1 DEF MayFollow, Fields, WellFormed
<1> QED BY <1>2, <1>3

\* The call at hand begins in the turn that asked for it.
LEMMA StartCallKeeps ==
  ASSUME Inv, StartCall
  PROVE  Inv'
<1>1. PICK rec : rec = CallStarted(Head(loop.todo))
  OBVIOUS
<1>2. /\ rec.type = "tool_call_started" /\ rec.call = Head(loop.todo)
      /\ rec.by_program = (rec.call = Inner)
  BY <1>1, CallRecords
<1>3. Writes(rec) /\ Goes("executing") /\ UNCHANGED rest /\ loop.phase = "running"
  BY <1>1 DEF StartCall, In
<1>4. loop.phase \in CallPhases /\ loop.phase \in CalmPhases
  BY <1>3 DEF CallPhases, CalmPhases
<1>5. MayFollow(log, rec) /\ WellFormed(rec)
  BY <1>2, <1>4, MayBegin
<1>6. Open(log) = {} /\ Reduced(log).view.settled = FALSE
  BY <1>3, <1>4, LoopOn
<1>7. Extended(log, rec, log')
  BY <1>2, <1>3, <1>5, Grown
<1>8. /\ loop' \in Loops /\ loop'.phase = "executing" /\ loop'.cut = loop.cut
      /\ loop'.read = loop.read /\ loop'.todo = loop.todo
  BY <1>3, GoesTo DEF Phases
<1>9. rec.call = loop.todo[1] /\ AskedFor(log', loop.todo) /\ loop.todo # <<>>
  <2>1. rec.call = loop.todo[1] /\ AskedFor(log, loop.todo) /\ loop.todo # <<>>
    BY <1>2, <1>4, CallAtHand, LoopOn DEF TodoOK
  <2> QED BY <1>2, <1>7, <2>1, AskedForAfter
<1>10. Open(log') \subseteq {loop'.todo[1], Inner}
  <2>1. Open(log') = {loop.todo[1]}
    BY <1>2, <1>6, <1>7, <1>9, OpenThen
  <2> QED BY <1>8, <2>1
<1>11. TodoOK(log', loop') /\ loop'.phase \notin CalmPhases
  BY <1>8, <1>9 DEF TodoOK, CalmPhases
<1>12. loop'.read <= Len(log) /\ loop'.cut <= Len(log)
  BY <1>8, Scenery
<1> QED BY <1>2, <1>3, <1>5, <1>6, <1>7, <1>8, <1>10, <1>11, <1>12, LoopStepOf

\* A call is under way, and one of the program's calls begins or ends.
LEMMA InnerKeeps ==
  ASSUME Inv, loop.phase = "executing", NEW rec, Writes(rec), rec.call = Inner,
         \/ rec.type = "tool_call_started" /\ rec.by_program = (rec.call = Inner)
         \/ rec.type = "tool_call_finished" /\ Inner \in Open(log),
         UNCHANGED <<rest, loop>>
  PROVE  Inv'
<1>1. WellFormed(rec) /\ MayFollow(log, rec)
  <2>1. CASE rec.type = "tool_call_started" /\ rec.by_program = (rec.call = Inner)
    BY <2>1, MayBegin
  <2>2. CASE rec.type = "tool_call_finished" /\ Inner \in Open(log)
    <3>1. WellFormed(rec)
      BY <2>2, ContextAssumption DEF WellFormed
    <3>2. MayFollow(log, rec)
      BY <2>2, MayEnd
    <3> QED BY <3>1, <3>2
  <2> QED BY <2>1, <2>2
<1>2. rec.type \in {"tool_call_started", "tool_call_finished"}
  OBVIOUS
<1>3. Extended(log, rec, log')
  BY <1>1, <1>2, Grown
<1>4. /\ loop' = loop /\ loop' \in Loops /\ loop'.phase = "executing" /\ UNCHANGED rest
      /\ loop'.read <= Len(log) /\ loop'.cut <= Len(log)
  BY Scenery
<1>5. loop.phase \in CallPhases /\ loop.phase \notin CalmPhases
  BY DEF CallPhases, CalmPhases
<1>6. Open(log) \subseteq {loop.todo[1], Inner} /\ Reduced(log).view.settled = FALSE
  BY LoopOn
<1>7. Open(log') \subseteq {loop'.todo[1], Inner}
  <2>1. Open(log') \subseteq Open(log) \cup {Inner}
    BY <1>2, <1>3, OpenThen
  <2> QED BY <1>4, <1>6, <2>1
<1>8. TodoOK(log', loop')
  <2>1. loop.todo # <<>> /\ AskedFor(log, loop.todo)
    BY <1>5, LoopOn DEF TodoOK
  <2>2. AskedFor(log', loop.todo)
    BY <1>2, <1>3, <2>1, AskedForAfter
  <2> QED BY <1>4, <2>1, <2>2 DEF TodoOK
<1> QED BY <1>1, <1>2, <1>3, <1>4, <1>5, <1>6, <1>7, <1>8, LoopStepOf

\* A program's call begins or ends, or a child is spawned.
LEMMA WithinCallKeeps ==
  ASSUME Inv, WithinCall
  PROVE  Inv'
<1>1. loop.phase = "executing" /\ UNCHANGED <<rest, loop>>
  BY DEF WithinCall, In
<1>2. CASE Writes(CallStarted(Inner))
  <2>1. PICK rec : rec = CallStarted(Inner)
    OBVIOUS
  <2>2. Writes(rec) /\ rec.type = "tool_call_started" /\ rec.call = Inner
        /\ rec.by_program = (rec.call = Inner)
    BY <1>2, <2>1, CallRecords
  <2> QED BY <1>1, <2>2, InnerKeeps
<1>3. CASE Inner \in State.open_tool_calls /\ Writes(CallFinished(Inner, "ok"))
  <2>1. PICK rec : rec = CallFinished(Inner, "ok")
    OBVIOUS
  <2>2. Writes(rec) /\ rec.type = "tool_call_finished" /\ rec.call = Inner
    BY <1>3, <2>1, CallRecords
  <2>3. Inner \in Open(log)
    BY <1>3, LoopOn
  <2> QED BY <1>1, <2>2, <2>3, InnerKeeps
<1>4. CASE \E k \in Children : Writes([type |-> "subagent_spawned", child |-> k])
  <2>1. PICK k \in Children : Writes([type |-> "subagent_spawned", child |-> k])
    BY <1>4
  <2>2. PICK rec : rec = [type |-> "subagent_spawned", child |-> k]
    OBVIOUS
  <2>3. Writes(rec) /\ rec.type = "subagent_spawned" /\ rec.child \in Children
    BY <2>1, <2>2
  <2>4. Plain(rec) /\ WellFormed(rec)
    BY <2>3 DEF Plain, WellFormed
  <2> QED BY <1>1, <2>3, <2>4, PlainStep
<1> QED BY <1>2, <1>3, <1>4 DEF WithinCall

\* The call at hand ends, and the loop goes on with those behind it.
LEMMA CallEnds ==
  ASSUME Inv, loop.phase \in {"executing", "skipping"}, NEW outcome,
         Writes(CallFinished(Head(loop.todo), outcome)),
         loop.phase = "executing" => Inner \notin Open(log),
         loop' = [loop EXCEPT !.todo = Tail(@), !.phase = AfterCall(Tail(loop.todo))],
         UNCHANGED rest
  PROVE  Inv'
<1>1. PICK rec : rec = CallFinished(Head(loop.todo), outcome)
  OBVIOUS
<1>2. PICK todo : todo = Tail(loop.todo)
  OBVIOUS
<1>3. PICK phase : phase = AfterCall(todo)
  OBVIOUS
<1>4. loop.phase \in CallPhases /\ loop.phase # "off"
  BY DEF CallPhases
<1>5. /\ Head(loop.todo) = loop.todo[1] /\ loop.todo[1] \in Calls
      /\ todo \in Seq(Calls \cup Entries) /\ AskedFor(log, todo)
  BY <1>2, <1>4, CallAtHand
<1>6. /\ rec.type = "tool_call_finished" /\ rec.call = loop.todo[1] /\ Writes(rec)
      /\ loop' = [loop EXCEPT !.todo = todo, !.phase = phase]
  BY <1>1, <1>2, <1>3, <1>5, CallRecords
<1>7. phase \in {"boundary", "answering", "running"} /\ (phase # "boundary" => todo # <<>>)
  BY <1>3 DEF AfterCall
<1>8. WellFormed(rec)
  BY <1>5, <1>6 DEF WellFormed
<1>9. Extended(log, rec, log') /\ RecordAccepted(State, Reduced(log).seen, rec)
  BY <1>6, <1>8, Grown
<1>10. rec.call \in Open(log)
  BY <1>6, <1>9, LoopOn DEF RecordAccepted
<1>11. MayFollow(log, rec)
  BY <1>6, <1>10, MayEnd
<1>12. Open(log) \subseteq {loop.todo[1]} /\ Reduced(log).view.settled = FALSE
  BY <1>4, LoopOn
<1>13. Open(log') = {}
  <2>1. Open(log') = Open(log) \ {loop.todo[1]}
    BY <1>6, <1>9, OpenThen
  <2> QED BY <1>12, <2>1
<1>14. /\ loop' \in Loops /\ loop'.phase = phase /\ loop'.todo = todo
       /\ loop'.cut = loop.cut /\ loop'.read = loop.read
  <2>1. phase \in Phases
    BY <1>7 DEF Phases
  <2> QED BY <1>5, <1>6, <2>1, Scenery DEF Loops
<1>15. TodoOK(log', loop')
  <2>1. AskedFor(log', todo)
    BY <1>5, <1>6, <1>9, AskedForAfter
  <2> QED BY <1>7, <1>14, <2>1 DEF TodoOK, CallPhases
<1>16. loop'.read <= Len(log) /\ loop'.cut <= Len(log)
  BY <1>14, Scenery
<1>17. loop'.phase \notin {"off", "executing", "skipping", "asking", "summarising"}
  BY <1>7, <1>14
<1> QED BY <1>6, <1>9, <1>11, <1>12, <1>13, <1>14, <1>15, <1>16, <1>17, LoopStepOf

\* The call at hand ends when none of the program's is open.
LEMMA FinishCallKeeps ==
  ASSUME Inv, FinishCall
  PROVE  Inv'
<1>1. /\ loop.phase = "executing" /\ Inner \notin Open(log) /\ UNCHANGED rest
      /\ Writes(CallFinished(Head(loop.todo), "ok"))
      /\ loop' = [loop EXCEPT !.todo = Tail(@), !.phase = AfterCall(Tail(loop.todo))]
  BY LoopOn DEF FinishCall, In
<1> QED BY <1>1, CallEnds

\* A call of an aborted Run is begun and ended without being made.
LEMMA AnswerUnstartedKeeps ==
  ASSUME Inv, AnswerUnstarted
  PROVE  Inv'
<1>1. CASE In("answering") /\ Writes(CallStarted(Head(loop.todo))) /\ Goes("skipping")
  <2>1. PICK rec : rec = CallStarted(Head(loop.todo))
    OBVIOUS
  <2>2. /\ rec.type = "tool_call_started" /\ rec.call = Head(loop.todo)
        /\ rec.by_program = (rec.call = Inner)
    BY <2>1, CallRecords
  <2>3. Writes(rec) /\ Goes("skipping") /\ UNCHANGED rest /\ loop.phase = "answering"
    BY <1>1, <2>1 DEF AnswerUnstarted, In
  <2>4. loop.phase \in CallPhases /\ loop.phase \in CalmPhases
    BY <2>3 DEF CallPhases, CalmPhases
  <2>5. MayFollow(log, rec) /\ WellFormed(rec)
    BY <2>2, <2>4, MayBegin
  <2>6. Open(log) = {} /\ Reduced(log).view.settled = FALSE
    BY <2>3, <2>4, LoopOn
  <2>7. Extended(log, rec, log')
    BY <2>2, <2>3, <2>5, Grown
  <2>8. /\ loop' \in Loops /\ loop'.phase = "skipping" /\ loop'.cut = loop.cut
        /\ loop'.read = loop.read /\ loop'.todo = loop.todo
    BY <2>3, GoesTo DEF Phases
  <2>9. rec.call = loop.todo[1] /\ AskedFor(log', loop.todo) /\ loop.todo # <<>>
    <3>1. rec.call = loop.todo[1] /\ AskedFor(log, loop.todo) /\ loop.todo # <<>>
      BY <2>2, <2>4, CallAtHand, LoopOn DEF TodoOK
    <3> QED BY <2>2, <2>7, <3>1, AskedForAfter
  <2>10. Open(log') \subseteq {loop'.todo[1]}
    BY <2>2, <2>6, <2>7, <2>8, <2>9, OpenAfter
  <2>11. TodoOK(log', loop') /\ loop'.phase \notin CalmPhases
    BY <2>8, <2>9 DEF TodoOK, CalmPhases
  <2>12. loop'.read <= Len(log) /\ loop'.cut <= Len(log)
    BY <2>8, Scenery
  <2> QED BY <2>2, <2>3, <2>5, <2>6, <2>7, <2>8, <2>10, <2>11, <2>12, LoopStepOf
<1>2. CASE /\ In("skipping") /\ Writes(CallFinished(Head(loop.todo), "error"))
           /\ loop' = [loop EXCEPT !.todo = Tail(@), !.phase = AfterCall(Tail(loop.todo))]
  <2>1. loop.phase = "skipping" /\ UNCHANGED rest
    BY <1>2 DEF AnswerUnstarted, In
  <2> QED BY <1>2, <2>1, CallEnds
<1> QED BY <1>1, <1>2 DEF AnswerUnstarted

\* A consumer, or a child that ends, writes beside the loop.
LEMMA OthersKeep ==
  ASSUME Inv, Send \/ Interrupt \/ Notify
  PROVE  Inv'
<1>1. UNCHANGED <<rest, loop>>
  BY DEF Send, Interrupt, Notify
<1>2. CASE Send
  <2>1. PICK e \in Entries :
          /\ \A i \in DOMAIN log : log[i].type = "queue_enqueued" => log[i].entry # e
          /\ Writes([type |-> "queue_enqueued", queue |-> "steer", entry |-> e])
    BY <1>2 DEF Send
  <2>2. PICK rec : rec = [type |-> "queue_enqueued", queue |-> "steer", entry |-> e]
    OBVIOUS
  <2>3. /\ Writes(rec) /\ rec.type = "queue_enqueued" /\ rec.queue = "steer" /\ rec.entry = e
        /\ \A i \in 1..Len(log) : log[i].type = "queue_enqueued" => log[i].entry # rec.entry
    BY <2>1, <2>2, Scenery
  <2>4. Plain(rec) /\ WellFormed(rec)
    BY <2>3 DEF Plain, WellFormed, Queues
  <2> QED BY <1>1, <2>3, <2>4, PlainStep
<1>3. CASE Interrupt
  <2>1. PICK rec : rec = [type |-> "abort_requested"]
    OBVIOUS
  <2>2. Writes(rec) /\ rec.type = "abort_requested"
    BY <1>3, <2>1 DEF Interrupt
  <2>3. Plain(rec) /\ WellFormed(rec)
    BY <2>2 DEF Plain, WellFormed
  <2> QED BY <1>1, <2>2, <2>3, PlainStep
<1>4. CASE \E k \in Children : Writes([type |-> "subagent_finished", child |-> k])
  <2>1. PICK k \in Children : Writes([type |-> "subagent_finished", child |-> k])
    BY <1>4
  <2>2. PICK rec : rec = [type |-> "subagent_finished", child |-> k]
    OBVIOUS
  <2>3. Writes(rec) /\ rec.type = "subagent_finished" /\ rec.child \in Children
    BY <2>1, <2>2
  <2>4. Plain(rec) /\ WellFormed(rec)
    BY <2>3 DEF Plain, WellFormed
  <2> QED BY <1>1, <2>3, <2>4, PlainStep
<1>5. CASE Writes([type |-> "resumed", approved |-> None])
  <2>1. PICK rec : rec = [type |-> "resumed", approved |-> None]
    OBVIOUS
  <2>2. Writes(rec) /\ rec.type = "resumed"
    BY <1>5, <2>1
  <2>3. Plain(rec) /\ WellFormed(rec)
    BY <2>2 DEF Plain, WellFormed
  <2> QED BY <1>1, <2>2, <2>3, PlainStep
<1> QED BY <1>2, <1>3, <1>4, <1>5 DEF Notify

\* A Worker dies: the loop is off, and the log stays as it is.
LEMMA CrashKeeps ==
  ASSUME Inv, Crash
  PROVE  Inv'
<1>1. log' = log /\ scene' = scene /\ thread' = thread /\ loop' = Off
  BY DEF Crash
<1>2. mishaps' \in 0..MaxMishaps
  BY ContextAssumption DEF Crash, Inv, Shape
<1>3. loop'.phase # "asking" /\ loop'.phase # "summarising" /\ loop' \in Loops
      /\ loop'.read <= Len(log) /\ loop'.cut <= Len(log)
  BY <1>1, OffIs, Scenery
<1>4. PhaseOK(log, loop') /\ TodoOK(log, loop') /\ ReadOK(log, loop')
  BY <1>1, <1>3, OffIs DEF ReadOK
<1> QED BY <1>1, <1>2, <1>3, <1>4, Moved

\* Every step keeps the invariant.
LEMMA InvInductive == Inv /\ [Next]_vars => Inv'
<1> SUFFICES ASSUME Inv, [Next]_vars PROVE Inv'
  OBVIOUS
<1>1. CASE LoopStep
  <2>1. CASE \E c \in Calls : SettleDangling(c)
    BY <2>1, SettleDanglingKeeps
  <2>2. CASE Begin \/ Recovered \/ StopLoop \/ Compact \/ Summarise \/ Fail
    BY <2>2, BeginKeeps, RecoveredKeeps, StopLoopKeeps, CompactKeeps, SummariseKeeps
  <2>3. CASE OpenTurn \/ Drain \/ Ask \/ Answer \/ Overflow \/ Finish
    BY <2>3, OpenTurnKeeps, DrainKeeps, AskKeeps, AnswerKeeps, OverflowKeeps, FinishKeeps
  <2>4. CASE StartCall \/ WithinCall \/ FinishCall \/ AnswerUnstarted
    BY <2>4, StartCallKeeps, WithinCallKeeps, FinishCallKeeps, AnswerUnstartedKeeps
  <2> QED BY <1>1, <2>1, <2>2, <2>3, <2>4 DEF LoopStep
<1>2. CASE Send \/ Interrupt \/ Notify
  BY <1>2, OthersKeep
<1>3. CASE Crash \/ Raise \/ ContinueThread
  BY <1>3, CrashKeeps, StopLoopKeeps, ContinueKeeps
<1>4. CASE UNCHANGED vars
  BY <1>4 DEF vars, Inv, Shape
<1> QED BY <1>1, <1>2, <1>3, <1>4 DEF Next

-----------------------------------------------------------------------------
(* What follows *)

\* The types, from the invariant.
LEMMA InvTypeOK == Inv => TypeOK
<1> SUFFICES ASSUME Inv PROVE TypeOK
  OBVIOUS
<1>1. Reduced(log).sound = TRUE /\ loop \in Loops /\ loop.read \in 0..Len(log) /\ loop.cut \in 0..Len(log)
  BY Scenery DEF ProperLog
<1>2. loop.phase \in Phases /\ InSeq(loop.todo) \subseteq Calls \cup Entries
  <2>1. loop.phase \in Phases /\ loop.todo \in Seq(Calls \cup Entries)
    BY <1>1 DEF Loops
  <2> QED BY <2>1 DEF InSeq
<1>3. mishaps \in 0..MaxMishaps
  BY DEF Inv, Shape
<1> QED BY <1>1, <1>2, <1>3 DEF TypeOK

\* What the last prompt was built from.
LEMMA SeenIs ==
  ASSUME Inv, NEW s, s = Seen
  PROVE  /\ Legible(s) /\ Len(s) = loop.read /\ DOMAIN s = 1..loop.read
         /\ \A i \in 1..loop.read : i \in 1..Len(log) /\ s[i] = log[i]
         /\ CallsMade(s) \subseteq CallsMade(log)
         /\ ThreadOK(thread, s)
<1>1. Legible(log) /\ ThreadOK(thread, log) /\ loop.read \in 0..Len(log) /\ Len(log) \in Nat
  BY Scenery DEF Inv, Fine
<1>2. s = SubSeq(log, 1, loop.read)
  BY DEF Seen
<1>3. Legible(s) /\ Len(s) = loop.read /\ DOMAIN s = 1..loop.read /\ \A i \in 1..loop.read : s[i] = log[i]
  BY <1>1, <1>2, LegiblePrefix
<1>4. CallsMade(s) \subseteq CallsMade(log)
  BY <1>1, <1>2, CallsOfPrefix
<1>5. ThreadOK(thread, s)
  BY <1>1, <1>4 DEF ThreadOK
<1>6. \A i \in 1..loop.read : i \in 1..Len(log)
  BY <1>1
<1> QED BY <1>3, <1>4, <1>5, <1>6

\* The prompt is the thread's conversations and the Run's own, of legible logs that
\* ask for different calls.
LEMMA InvQuestions == Inv => ResultsHaveTheirQuestion
<1> SUFFICES ASSUME Inv PROVE ResultsHaveTheirQuestion
  OBVIOUS
<1>1. PICK s : s = Seen
  OBVIOUS
<1>2. Legible(s) /\ ThreadOK(thread, s) /\ Len(thread) \in Nat /\ DOMAIN thread = 1..Len(thread)
  BY <1>1, SeenIs, Scenery
<1>3. PICK prompt : prompt = Prompt
  OBVIOUS
<1>4. IsPrompt(prompt, thread, HistoryBudget, s)
  BY <1>1, <1>3 DEF Prompt, IsPrompt
<1>5. PairsUp(prompt)
  BY <1>2, <1>4, PromptPairs
<1> QED BY <1>3, <1>5 DEF ResultsHaveTheirQuestion, PairsUp

\* What the prompt was built from answers all that it begins.
LEMMA InvAnswered == Inv => BegunCallsAreAnswered
<1> SUFFICES ASSUME Inv, In("asking") PROVE BegunCallsAreAnswered
  BY DEF BegunCallsAreAnswered
<1>1. PICK s : s = Seen
  OBVIOUS
<1>2. /\ Legible(s) /\ Len(s) = loop.read /\ DOMAIN s = 1..loop.read
      /\ \A i \in 1..loop.read : i \in 1..Len(log) /\ s[i] = log[i]
  BY <1>1, SeenIs
<1>3. AnsweredUpTo(log, loop.read)
  BY LoopOn DEF ReadOK, In
<1>4. \A c \in Calls, q \in 1..Len(s) : Begins(s, q, c) => \E p \in 1..Len(s) : q < p /\ Ends(s, p, c)
  BY <1>2, <1>3 DEF AnsweredUpTo, Begins, Ends
<1>5. PICK prompt : prompt = BuildConversation(s)
  OBVIOUS
<1>6. DOMAIN prompt = 1..Len(prompt)
  BY <1>2, <1>5, ConversationIs DEF Conversing
<1>7. StartedIn(s) \subseteq Calls
  <2>1. \A i \in 1..Len(s) : WellFormed(s[i])
    BY <1>2 DEF Legible, ProperLog
  <2> QED BY <1>2, <2>1 DEF StartedIn, WellFormed
<1>8. ASSUME NEW i \in DOMAIN prompt, NEW c \in InSeq(prompt[i].asks) \cap StartedIn(s)
      PROVE  \E k \in DOMAIN prompt : k > i /\ c \in prompt[k].answers
  <2>1. i \in 1..Len(prompt) /\ c \in Calls /\ AsksFor(prompt[i], c) /\ c \in StartedIn(s)
    BY <1>6, <1>7, <1>8 DEF AsksFor
  <2> QED BY <1>2, <1>4, <1>5, <1>6, <2>1, ConversationAnswers
<1> QED BY <1>1, <1>5, <1>8 DEF BegunCallsAreAnswered

\* What the prompt was built from is legible, so nothing is lost in it.
LEMMA InvNothing == Inv => NothingIsForgotten
<1> SUFFICES ASSUME Inv PROVE NothingIsForgotten
  OBVIOUS
<1>1. PICK s : s = Seen
  OBVIOUS
<1>2. Spoke(s) \subseteq Told(s)
  BY <1>1, SeenIs, NothingIsLost
<1> QED BY <1>1, <1>2 DEF NothingIsForgotten

\* Cuts, from the part of the invariant about them.
LEMMA InvCuts == Inv => CutsAreOrderly
<1> SUFFICES ASSUME Inv PROVE CutsAreOrderly
  OBVIOUS
<1>1. CutOK(log, loop, scene.keep) /\ State.compaction_boundary_seq = Boundary(log)
  BY DEF Inv, Fine, CutOK, State
<1>2. CompactionsAdvance
  <2>1. loop.cut \in Nat /\ Boundary(log) \in Nat
    BY Scenery, BoundaryIs DEF Inv, Fine, Loops
  <2> QED BY <1>1, <2>1 DEF CompactionsAdvance, CutOK, CutAhead, In
<1>3. RecentTurnsStay
  BY <1>1 DEF RecentTurnsStay, CutOK
<1> QED BY <1>2, <1>3 DEF CutsAreOrderly

\* The invariant holds in every state that a thread of Runs can reach, with any
\* number of Runs, turns, calls and Workers that die.
THEOREM ContextInvariant == Spec => []Inv
<1> QED BY InitInv, InvInductive, PTL DEF Spec

\* Wherever the log was cut and whoever died or was stopped in the middle of a
\* call, the prompt pairs up: each tool result has its question above it and no
\* second answer, and each call that was begun has its result
\* (build_conversation, _settle_dangling_calls, _answer_unstarted).
THEOREM PromptStaysSound == Spec => []PromptIsSound
<1>1. Inv => PromptIsSound
  BY InvTypeOK, InvQuestions, InvAnswered DEF PromptIsSound
<1> QED BY <1>1, ContextInvariant, PTL

\* What was said in the Run is in its prompt, or a summary in the prompt was
\* made from it: no sequence of compactions, crashes and retries leaves a hole
\* (plan_cut, summarisation_request, build_conversation).
THEOREM NothingGetsForgotten == Spec => []NothingIsForgotten
<1> QED BY InvNothing, ContextInvariant, PTL

\* Each compaction reaches further than the last and leaves the recent turns
\* that the policy keeps, whenever a Worker dies (plan_cut, _compact).
THEOREM CutsStayOrderly == Spec => []CutsAreOrderly
<1> QED BY InvCuts, ContextInvariant, PTL
=============================================================================
