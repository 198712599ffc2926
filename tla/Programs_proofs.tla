---------------------------- MODULE Programs_proofs ----------------------------
(***************************************************************************)
(* The programs of a Run are contained, for every number of calls,         *)
(* coroutines and records.                                                 *)
(*                                                                         *)
(* The invariant has three parts.  Tidy is about the log alone: every      *)
(* record is one that a Run of programs writes, nobody is asked about a    *)
(* call twice, a program's calls lie within it, and no budget is exceeded. *)
(* It is shown record by record (MayAppend says what each one needs).      *)
(* Wired is about the channel: who waits for an id waits for the call that *)
(* has this id, wherever its frame or its reply is.  Engine ties the two   *)
(* together: what the Attempt, the host and the tools are at, against what *)
(* the log says of it.                                                     *)
(***************************************************************************)
EXTENDS Programs, RunLog_proofs, FiniteSetTheorems

-----------------------------------------------------------------------------
(* The invariant: the log *)

\* What a Run of programs writes: no queue, no child, no step.
RecordTypes ==
  {"run_admitted", "attempt_started", "turn_started", "model_call_started", "model_call_finished",
   "tool_call_started", "tool_call_finished", "suspended", "resumed", "run_settled"}

StartsAt(s, c, i) == i \in 1..Len(s) /\ s[i].type = "tool_call_started" /\ s[i].call = c
EndsAt(s, c, i) == i \in 1..Len(s) /\ s[i].type = "tool_call_finished" /\ s[i].call = c
Over(s, i, j) == \E k \in i..j : s[k].type = "attempt_started"

\* The calls of program p.
CallPlaces(s, p) == {j \in 1..Len(s) : s[j].type = "tool_call_started" /\ s[j].parent = p}
CallsOf(s, p) == {s[j].call : j \in CallPlaces(s, p)}

\* Each record is one of RecordTypes.  Only requests whose tool needs a person
\* are asked about, after they have started; only programs make requests, and
\* they have started too.
Sorts(s) ==
  \A i \in 1..Len(s) :
    /\ s[i].type \in RecordTypes
    /\ s[i].type = "suspended" =>
         /\ s[i].call \in Requests /\ Gate(s[i].call) = "ask"
         /\ \E j \in 1..Len(s) : StartsAt(s, s[i].call, j)
    /\ s[i].type = "tool_call_started" =>
         \/ s[i].call \in CodeCalls /\ s[i].parent = None
         \/ /\ s[i].call \in Requests /\ s[i].parent \in CodeCalls
            /\ \E j \in 1..Len(s) : StartsAt(s, s[i].parent, j)

\* NothingOutlivesItsProgram, by positions.
Contained(s) ==
  \A p \in CodeCalls : \A i \in 1..Len(s) : \A j \in CallPlaces(s, p) : StartsAt(s, p, i) =>
    /\ ~Over(s, i, j)
    /\ \A k \in 1..Len(s) : EndsAt(s, p, k) => j < k
    /\ \A e \in 1..Len(s) : EndsAt(s, s[j].call, e) =>
         Over(s, i, e) \/ \A k \in 1..Len(s) : EndsAt(s, p, k) => e < k

\* BudgetsHold, by positions.
Budgeted(s) ==
  /\ Cardinality(ProgramCalls(s)) <= MaxCallsPerRun
  /\ \A p \in CodeCalls : Cardinality(CallsOf(s, p)) <= MaxCalls

Tidy(s) == ProperLog(s) /\ Sorts(s) /\ AskedOnce(s) /\ Contained(s) /\ Budgeted(s)

\* Program p has started, no Attempt took over since, and it has no result.
Current(s, p) ==
  /\ \E i \in 1..Len(s) : StartsAt(s, p, i)
  /\ \A i \in 1..Len(s) : StartsAt(s, p, i) => ~Over(s, i, Len(s))
  /\ \A k \in 1..Len(s) : ~EndsAt(s, p, k)

\* What record rec needs to be the next one of log s.
MayAppend(s, rec) ==
  /\ rec.type \in RecordTypes /\ WellFormed(rec) /\ Accepts(Reduced(s), rec)
  /\ rec.type = "suspended" =>
       /\ rec.call \in Requests /\ Gate(rec.call) = "ask" /\ ~Asked(rec.call, s, Len(s))
       /\ \E j \in 1..Len(s) : StartsAt(s, rec.call, j)
  /\ rec.type = "tool_call_started" =>
       \/ rec.call \in CodeCalls /\ rec.parent = None
       \/ /\ rec.call \in Requests /\ rec.parent \in CodeCalls /\ Current(s, rec.parent)
          /\ Cardinality(ProgramCalls(s)) < MaxCallsPerRun
          /\ Cardinality(CallsOf(s, rec.parent)) < MaxCalls
  /\ rec.type = "tool_call_finished" =>
       \A p \in CodeCalls : \A i \in 1..Len(s) : \A j \in CallPlaces(s, p) :
         StartsAt(s, p, i) /\ s[j].call = rec.call =>
           Over(s, i, Len(s)) \/ \A k \in 1..Len(s) : ~EndsAt(s, p, k)

-----------------------------------------------------------------------------
(* The invariant: the state *)

HostPhases == {"off", "reading", "gating", "using", "asked", "withdrawn"}
Mays == Requests \cup {None}
TaskStates == [asked: Mays, id: Nat, got: Mays]
ChildStatesOf == [alive: BOOLEAN, next: Nat, pending: SUBSET [id: Nat, task: Tasks],
                  task: [Tasks -> TaskStates]]
Frames == [type: {"call", "done"}, id: Nat, call: Mays]

\* Every variable has its type.
Shape ==
  /\ scene \in Scenes /\ mishaps \in 0..scene.mishaps
  /\ view.head_seq \in 1..Len(log)
  /\ attempt \in Phases /\ dangling \subseteq Calls /\ program \in CodeCalls \cup {None}
  /\ host \in [phase: HostPhases, id: Nat, call: Mays]
  /\ spent \in 0..MaxCalls
  /\ child \in ChildStatesOf
  /\ toHost \in Seq(Frames) /\ toChild \in Seq([id: Nat, call: Mays])
  /\ ran \in [Calls -> {0, 1}]

Busy == IF host.call = None THEN 0 ELSE 1

\* The frame or the reply of call id is on its way, or the host is at it.
Underway(id, call) ==
  \/ \E i \in DOMAIN toHost : toHost[i].type = "call" /\ toHost[i].id = id /\ toHost[i].call = call
  \/ host.call # None /\ host.id = id /\ host.call = call
  \/ \E i \in DOMAIN toChild : toChild[i].id = id /\ toChild[i].call = call

\* The channel: there is a process as long as there is a conversation, no id is
\* given twice, and whoever waits for an id waits for its call.
Wired ==
  /\ host.phase # "off" <=> attempt = "running"
  /\ host.phase = "off" => host = Off
  /\ host.call = None <=> host.phase \in {"off", "reading"}
  /\ child.alive => attempt = "running"
  /\ ~child.alive => child = Unstarted
  /\ child.next <= scene.frames
  /\ \A t \in Tasks : child.task[t].asked = None => child.task[t].got = None
  /\ \A i \in DOMAIN toHost :
       /\ toHost[i].type = "call" => toHost[i].call \in Requests
       /\ child.alive => toHost[i].type = "call"
  /\ Len(toHost) <= scene.frames + 1 /\ Len(toChild) <= scene.frames
  /\ child.alive =>
       /\ Len(toHost) + Len(toChild) + Busy <= child.next
       /\ \A id \in Nat, c \in Requests : Underway(id, c) => id < child.next
       /\ \A t \in Tasks : child.task[t].asked # None =>
            /\ child.task[t].id < child.next
            /\ \A c \in Requests : Underway(child.task[t].id, c) => c = child.task[t].asked
            /\ child.task[t].got \in {child.task[t].asked, None}

Truth == Reduced(log).view

\* Where the Attempt is, and what the log says of it.
LoopOK ==
  /\ Truth.admitted = TRUE /\ Truth.turn_open = FALSE /\ Truth.model_call_open = FALSE
  /\ Truth.settled = TRUE <=> attempt = "settled"
  /\ attempt = "settled" => Truth.suspended = FALSE
  /\ attempt = "recovering" =>
       /\ dangling = Truth.open_tool_calls
       /\ \E k \in 1..Len(log) : /\ log[k].type = "attempt_started"
                                 /\ \A i \in 1..Len(log) : log[i].type = "tool_call_started" => i < k
  /\ attempt \in {"running", "returning", "leaving"} => program \in CodeCalls /\ Current(log, program)

\* Where the host is: the call it is at is one of the program, and one it has
\* not decided yet was neither asked about nor run.
HostOK ==
  /\ host.call # None => host.call \in CallsOf(log, program)
  /\ host.phase = "gating" => ~Asked(host.call, log, Len(log)) /\ ran[host.call] = 0
  /\ host.phase # "off" => Cardinality(CallsOf(log, program)) <= spent

\* A tool was run at most once, for a call in the log that needs no person, or
\* that one has approved and that is over.
RanOK ==
  \A c \in Calls : ran[c] = 1 =>
    /\ c \in Requests /\ \E i \in 1..Len(log) : StartsAt(log, c, i)
    /\ \/ Gate(c) = "allow"
       \/ /\ Gate(c) = "ask" /\ view.approval_decisions[c] = "approved"
          /\ \E i \in 1..Len(log) : EndsAt(log, c, i)

Engine == view = Prefix(log, view.head_seq).view /\ LoopOK /\ HostOK /\ RanOK

Inv == Shape /\ Tidy(log) /\ Wired /\ Engine

-----------------------------------------------------------------------------
(* The Journal *)

\* Without queues the locals of a fold say nothing the state does not say.
LEMMA QuietPrefix ==
  ASSUME NEW s, ProperLog(s), Sorts(s), NEW n \in 0..Len(s)
  PROVE  Prefix(s, n) = Started(Prefix(s, n).view)
<1> DEFINE P(k) == Prefix(s, k) = Started(Prefix(s, k).view)
           T == {k \in 0..Len(s) : ~P(k)}
<1>1. SUFFICES ASSUME T # {} PROVE FALSE
  OBVIOUS
<1>2. PICK k \in T : \A y \in T : k <= y
  <2>1. T \in SUBSET Nat
    BY DEF ProperLog
  <2> HIDE DEF T
  <2> QED BY <1>1, <2>1, LeastNat
<1>3. k # 0
  <2>1. Prefix(s, 0) = Started(EmptyView)
    BY PrefixNone DEF ProperLog, EmptyFold
  <2>2. Started(EmptyView).view = EmptyView
    BY DEF Started
  <2> QED BY <1>2, <2>1, <2>2
<1>4. k \in 1..Len(s) /\ k - 1 \in 0..Len(s) /\ k - 1 \notin T /\ Len(s) \in Nat
  BY <1>2, <1>3 DEF ProperLog
<1> DEFINE f == Prefix(s, k - 1)
           rec == s[k]
<1>5. /\ f = Started(f.view) /\ f.sound = TRUE /\ ViewOK(f.view)
      /\ Prefix(s, k) = Folded(f, rec) /\ Accepts(f, rec)
      /\ Effect(f.view, rec, Prefix(s, k).view)
  <2>1. Prefix(s, k) = Folded(f, rec)
    BY <1>4, PrefixStep DEF ProperLog
  <2>2. ViewOK(f.view) /\ Accepts(f, rec) /\ Effect(f.view, rec, Prefix(s, k).view)
    BY <1>4, ProperStep
  <2>3. f.sound = TRUE
    BY <1>4, ProperPrefix DEF FoldOK
  <2> QED BY <1>4, <2>1, <2>2, <2>3
<1>6. rec.type \in RecordTypes
  BY <1>4 DEF Sorts
<1> HIDE DEF f, rec
<1> DEFINE w == Prefix(s, k).view
<1>7. SeenFrom(w) = SeenFrom(f.view)
  <2>1. w.pending = f.view.pending
    BY <1>5, <1>6 DEF Effect, PendingAfter, RecordTypes
  <2> QED BY <2>1 DEF SeenFrom, Pending
<1>8. SeenAfter(f.seen, rec) = f.seen
  BY <1>6 DEF SeenAfter, RecordTypes
<1>9. f.seen = SeenFrom(f.view)
  <2>1. Started(f.view).seen = SeenFrom(f.view)
    BY DEF Started
  <2> QED BY <1>5, <2>1
<1>10. Folded(f, rec) = [view |-> NextView(f.view, rec), seen |-> SeenAfter(f.seen, rec), sound |-> TRUE]
  BY <1>5 DEF Folded, NextView
<1>11. w = NextView(f.view, rec)
  BY <1>5, <1>10
<1>12. P(k)
  BY <1>5, <1>7, <1>8, <1>9, <1>10, <1>11 DEF Started
<1> QED BY <1>2, <1>12

\* A Journal that continues from any place of the log arrives at the state of
\* the whole log, in every field.
LEMMA CaughtUp ==
  ASSUME NEW s, ProperLog(s), Sorts(s), NEW h \in 0..Len(s)
  PROVE  ReducedFrom(Prefix(s, h).view, SubSeq(s, h + 1, Len(s))) = Reduced(s)
<1> DEFINE t == SubSeq(s, h + 1, Len(s))
           start == Started(Prefix(s, h).view)
           P(k) == FoldFrom(start, SubSeq(t, 1, k)) = Prefix(s, h + k)
           T == {k \in 0..Len(t) : ~P(k)}
<1>0. /\ s \in Seq(InSeq(s)) /\ t \in Seq(InSeq(s)) /\ Len(t) = Len(s) - h /\ Len(s) \in Nat
      /\ \A i \in 1..Len(t) : t[i] = s[h + i]
  BY DEF ProperLog
<1>1. start = Prefix(s, h)
  BY QuietPrefix
<1> HIDE DEF t, start
<1>2. T = {}
  <2> SUFFICES ASSUME T # {} PROVE FALSE
    OBVIOUS
  <2>1. PICK k \in T : \A y \in T : k <= y
    <3>1. T \in SUBSET Nat
      BY <1>0
    <3> HIDE DEF T
    <3> QED BY <3>1, LeastNat
  <2>2. k # 0
    <3>1. FoldFrom(start, SubSeq(t, 1, 0)) = start
      BY <1>0, FoldNone
    <3>2. h + 0 = h
      BY <1>0
    <3> QED BY <1>1, <2>1, <3>1, <3>2
  <2>3. /\ k \in 1..Len(t) /\ k - 1 \in 0..Len(t) /\ k - 1 \notin T
        /\ h + k \in 1..Len(s) /\ (h + k) - 1 = h + (k - 1)
    <3>1. k \in 1..Len(t) /\ k - 1 \in 0..Len(t) /\ ~(k <= k - 1)
      BY <1>0, <2>1, <2>2
    <3>2. k - 1 \notin T
      BY <2>1, <3>1
    <3> QED BY <1>0, <3>1, <3>2
  <2>4. FoldFrom(start, SubSeq(t, 1, k - 1)) = Prefix(s, h + (k - 1))
    BY <2>3
  <2>5. FoldFrom(start, SubSeq(t, 1, k)) = Folded(FoldFrom(start, SubSeq(t, 1, k - 1)), t[k])
    BY <1>0, <2>3, FoldNext
  <2>6. Prefix(s, h + k) = Folded(Prefix(s, h + (k - 1)), s[h + k])
    BY <1>0, <2>3, PrefixStep
  <2>7. P(k)
    BY <1>0, <2>3, <2>4, <2>5, <2>6
  <2> QED BY <2>1, <2>7
<1>3. P(Len(t))
  BY <1>0, <1>2
<1>4. SubSeq(t, 1, Len(t)) = t /\ h + Len(t) = Len(s)
  BY <1>0
<1>5. FoldFrom(start, t) = Prefix(s, Len(s))
  BY <1>3, <1>4
<1> QED BY <1>0, <1>5, PrefixAll DEF ReducedFrom, start, t

\* So what the Journal of the state sees is what the log says.
LEMMA CaughtIs ==
  ASSUME Shape, Tidy(log), Engine
  PROVE  /\ Caught = Truth /\ Started(Caught) = Reduced(log)
         /\ Started(view) = Prefix(log, view.head_seq) /\ ViewOK(Truth) /\ ViewOK(view)
         /\ Truth.head_seq = Len(log) /\ Len(log) \in Nat /\ view.head_seq \in 0..Len(log)
<1> DEFINE h == view.head_seq
<1>1. ProperLog(log) /\ Sorts(log) /\ Len(log) \in Nat /\ h \in 0..Len(log) /\ view = Prefix(log, h).view
  BY DEF Tidy, Shape, Engine, ProperLog
<1>2. ReducedFrom(view, SubSeq(log, h + 1, Len(log))) = Reduced(log)
  BY <1>1, CaughtUp
<1>3. Reduced(log) = Prefix(log, Len(log)) /\ ViewOK(Truth) /\ Truth.head_seq = Len(log)
  BY <1>1, ProperFold DEF Truth
<1>4. Caught = Truth
  BY <1>1, <1>2, <1>3 DEF Caught, Truth
<1>5. Prefix(log, h) = Started(Prefix(log, h).view) /\ ViewOK(Prefix(log, h).view)
  BY <1>1, QuietPrefix, ProperPrefix
<1>6. Reduced(log) = Started(Truth)
  BY <1>1, <1>3, QuietPrefix DEF Truth
<1> QED BY <1>1, <1>3, <1>4, <1>5, <1>6

\* One record written by a Journal.
LEMMA OneWritten ==
  ASSUME NEW s, ProperLog(s), Started(Caught) = Reduced(s), NEW rec
  PROVE  ReducedFrom(Caught, <<rec>>) = Reduced(Append(s, rec))
<1>1. PICK e : e \in Seq({rec}) /\ Append(e, rec) = <<rec>> /\ Len(e) = 0
  <2>1. <<>> \in Seq({rec}) /\ Append(<<>>, rec) = <<rec>> /\ Len(<<>>) = 0
    OBVIOUS
  <2> QED BY <2>1
<1>2. FoldFrom(Started(Caught), Append(e, rec)) = Folded(FoldFrom(Started(Caught), e), rec)
  <2>1. e \in Seq({rec})
    BY <1>1
  <2> QED BY <2>1, FoldAppend
<1>3. FoldFrom(Started(Caught), e) = Started(Caught)
  BY <1>1, FoldEmpty
<1>4. Reduced(Append(s, rec)) = Folded(Reduced(s), rec)
  <2>1. s \in Seq(InSeq(s))
    BY DEF ProperLog
  <2>2. FoldFrom(EmptyFold, Append(s, rec)) = Folded(FoldFrom(EmptyFold, s), rec)
    BY <2>1, FoldAppend
  <2> QED BY <2>2 DEF Reduced
<1> QED BY <1>1, <1>2, <1>3, <1>4 DEF ReducedFrom

-----------------------------------------------------------------------------
(* The log, one record longer *)

\* t is s and then rec.
Extended(s, rec, t) ==
  /\ Len(s) \in Nat /\ Len(t) = Len(s) + 1 /\ DOMAIN s = 1..Len(s) /\ DOMAIN t = 1..Len(s) + 1
  /\ \A i \in 1..Len(s) : t[i] = s[i]
  /\ t[Len(s) + 1] = rec

IsStart(rec, c) == rec.type = "tool_call_started" /\ rec.call = c
IsEnd(rec, c) == rec.type = "tool_call_finished" /\ rec.call = c

\* Where calls start and end in the longer log.
LEMMA PlacesAfter ==
  ASSUME NEW s, NEW rec, NEW t, Extended(s, rec, t), NEW c
  PROVE  /\ \A i : StartsAt(t, c, i) <=> StartsAt(s, c, i) \/ (i = Len(s) + 1 /\ IsStart(rec, c))
         /\ \A i : EndsAt(t, c, i) <=> EndsAt(s, c, i) \/ (i = Len(s) + 1 /\ IsEnd(rec, c))
         /\ Asked(c, t, Len(t)) <=> Asked(c, s, Len(s)) \/ (rec.type = "suspended" /\ rec.call = c)
<1>1. /\ \A i \in 1..Len(t) : i \in 1..Len(s) \/ i = Len(s) + 1
      /\ \A i \in 1..Len(s) : i \in 1..Len(t) /\ i # Len(s) + 1
      /\ Len(s) + 1 \in 1..Len(t)
  BY DEF Extended
<1>2. \A i : StartsAt(t, c, i) <=> StartsAt(s, c, i) \/ (i = Len(s) + 1 /\ IsStart(rec, c))
  BY <1>1 DEF Extended, StartsAt, IsStart
<1>3. \A i : EndsAt(t, c, i) <=> EndsAt(s, c, i) \/ (i = Len(s) + 1 /\ IsEnd(rec, c))
  BY <1>1 DEF Extended, EndsAt, IsEnd
<1>4. Asked(c, t, Len(t)) <=> Asked(c, s, Len(s)) \/ (rec.type = "suspended" /\ rec.call = c)
  BY <1>1 DEF Extended, Asked
<1> QED BY <1>2, <1>3, <1>4

\* Which Attempts have begun between two places of the longer log.
LEMMA OverAfter ==
  ASSUME NEW s, NEW rec, NEW t, Extended(s, rec, t), NEW i \in 1..Len(s)
  PROVE  /\ \A j \in 1..Len(s) : Over(t, i, j) <=> Over(s, i, j)
         /\ Over(t, i, Len(s) + 1) <=> Over(s, i, Len(s)) \/ rec.type = "attempt_started"
<1>1. \A j \in 1..Len(s) : \A k \in i..j : k \in 1..Len(s)
  BY DEF Extended
<1>2. /\ \A k \in i..Len(s) + 1 : k \in i..Len(s) \/ k = Len(s) + 1
      /\ \A k \in i..Len(s) : k \in i..Len(s) + 1 /\ k \in 1..Len(s)
      /\ Len(s) + 1 \in i..Len(s) + 1
  BY DEF Extended
<1>3. ASSUME NEW j \in 1..Len(s) PROVE Over(t, i, j) <=> Over(s, i, j)
  BY <1>1 DEF Over, Extended
<1>4. Over(t, i, Len(s) + 1) <=> Over(s, i, Len(s)) \/ rec.type = "attempt_started"
  BY <1>2 DEF Over, Extended
<1> QED BY <1>3, <1>4

\* What the programs have called in the longer log.
LEMMA CallsOfAfter ==
  ASSUME NEW s, NEW rec, NEW t, Extended(s, rec, t), NEW p
  PROVE  /\ CallPlaces(t, p) = CallPlaces(s, p) \cup
              (IF rec.type = "tool_call_started" /\ rec.parent = p THEN {Len(s) + 1} ELSE {})
         /\ CallsOf(t, p) = CallsOf(s, p) \cup
              (IF rec.type = "tool_call_started" /\ rec.parent = p THEN {rec.call} ELSE {})
<1>1. /\ \A i \in 1..Len(t) : i \in 1..Len(s) \/ i = Len(s) + 1
      /\ \A i \in 1..Len(s) : i \in 1..Len(t) /\ i # Len(s) + 1
      /\ Len(s) + 1 \in 1..Len(t)
  BY DEF Extended
<1>2. CallPlaces(t, p) = CallPlaces(s, p) \cup
        (IF rec.type = "tool_call_started" /\ rec.parent = p THEN {Len(s) + 1} ELSE {})
  BY <1>1 DEF Extended, CallPlaces
<1>3. /\ \A j \in CallPlaces(s, p) : t[j] = s[j]
      /\ t[Len(s) + 1] = rec
  BY DEF Extended, CallPlaces
<1> QED BY <1>2, <1>3 DEF CallsOf

\* The same over every program.
LEMMA ProgramCallsAfter ==
  ASSUME NEW s, NEW rec, NEW t, Extended(s, rec, t)
  PROVE  ProgramCalls(t) = ProgramCalls(s) \cup
           (IF rec.type = "tool_call_started" /\ rec.parent \in CodeCalls THEN {rec.call} ELSE {})
<1>1. /\ \A i \in DOMAIN t : i \in 1..Len(s) \/ i = Len(s) + 1
      /\ \A i \in 1..Len(s) : i \in DOMAIN t /\ i # Len(s) + 1
      /\ Len(s) + 1 \in DOMAIN t
  BY DEF Extended
<1> DEFINE places(r) == {j \in DOMAIN r : r[j].type = "tool_call_started" /\ r[j].parent \in CodeCalls}
<1>2. places(t) = places(s) \cup
        (IF rec.type = "tool_call_started" /\ rec.parent \in CodeCalls THEN {Len(s) + 1} ELSE {})
  BY <1>1 DEF Extended
<1>3. /\ \A j \in places(s) : t[j] = s[j]
      /\ t[Len(s) + 1] = rec
  BY DEF Extended
<1>4. ProgramCalls(t) = {t[j].call : j \in places(t)} /\ ProgramCalls(s) = {s[j].call : j \in places(s)}
  BY DEF ProgramCalls
<1> HIDE DEF places
<1> QED BY <1>2, <1>3, <1>4

\* A log names finitely many calls.
LEMMA FinitelyMany ==
  ASSUME NEW s, Len(s) \in Nat, DOMAIN s = 1..Len(s)
  PROVE  /\ IsFiniteSet(ProgramCalls(s)) /\ Cardinality(ProgramCalls(s)) \in Nat
         /\ \A p : IsFiniteSet(CallsOf(s, p)) /\ Cardinality(CallsOf(s, p)) \in Nat
<1>1. IsFiniteSet(1..Len(s))
  BY FS_Interval
<1> DEFINE all == {s[j].call : j \in 1..Len(s)}
<1>2. IsFiniteSet(all)
  <2> DEFINE f == [j \in 1..Len(s) |-> s[j].call]
  <2>1. f \in [1..Len(s) -> all] /\ \A x \in all : \E j \in 1..Len(s) : f[j] = x
    OBVIOUS
  <2> HIDE DEF f, all
  <2>2. f \in Surjection(1..Len(s), all)
    BY <2>1 DEF Surjection
  <2> QED BY <1>1, <2>2, FS_Surjection
<1>3. ProgramCalls(s) \subseteq all /\ \A p : CallsOf(s, p) \subseteq all
  BY DEF ProgramCalls, CallsOf, CallPlaces
<1> HIDE DEF all
<1>4. \A S \in SUBSET all : IsFiniteSet(S) /\ Cardinality(S) \in Nat
  BY <1>2, FS_Subset, FS_CardinalityType
<1> QED BY <1>3, <1>4

\* The state of the whole log.
LEMMA ProperEnd ==
  ASSUME NEW s, ProperLog(s)
  PROVE  Len(s) \in 0..Len(s) /\ Reduced(s) = Prefix(s, Len(s)) /\ Len(s) \in Nat
<1>1. Len(s) \in Nat
  BY DEF ProperLog
<1>2. Reduced(s) = Prefix(s, Len(s))
  BY ProperFold
<1> QED BY <1>1, <1>2

\* A call that the fold lets start has neither started nor ended before.
LEMMA NewCall ==
  ASSUME NEW s, ProperLog(s), NEW rec, rec.type = "tool_call_started", Accepts(Reduced(s), rec)
  PROVE  \A i \in 1..Len(s) : ~StartsAt(s, rec.call, i) /\ ~EndsAt(s, rec.call, i)
<1>1. \A i \in 1..Len(s) : Remembers(Reduced(s), s[i])
  <2>1. Len(s) \in 0..Len(s) /\ Reduced(s) = Prefix(s, Len(s))
    BY ProperEnd
  <2>2. \A i \in 1..Len(s) : Remembers(Prefix(s, Len(s)), s[i])
    BY <2>1, LogRemembers DEF ProperLog
  <2> QED BY <2>1, <2>2
<1>2. rec.call \notin StartedCalls(Reduced(s).view)
  BY DEF Accepts, RecordAccepted, ToolCallAccepted
<1> QED BY <1>1, <1>2 DEF StartsAt, EndsAt, Remembers, StartedCalls

\* What the state says of the calls is what the log says.
LEMMA CallsKnown ==
  ASSUME NEW s, ProperLog(s), NEW v, v = Reduced(s).view
  PROVE  /\ \A c \in StartedCalls(v) : \E i \in 1..Len(s) : StartsAt(s, c, i)
         /\ \A c, i : StartsAt(s, c, i) => c \in StartedCalls(v)
         /\ \A c, i : EndsAt(s, c, i) => c \notin v.open_tool_calls
<1>1. Len(s) \in 0..Len(s) /\ Reduced(s) = Prefix(s, Len(s))
  BY ProperEnd
<1>2. /\ \A i \in 1..Len(s) : Remembers(Prefix(s, Len(s)), s[i])
      /\ Backed(Prefix(s, Len(s)), s, Len(s))
  BY <1>1, LogRemembers DEF ProperLog
<1>3. \A c \in StartedCalls(v) : \E i \in 1..Len(s) : StartsAt(s, c, i)
  BY <1>1, <1>2 DEF Backed, StartsAt
<1>4. \A c, i : StartsAt(s, c, i) => c \in StartedCalls(v)
  BY <1>1, <1>2 DEF StartsAt, Remembers
<1>5. \A c, i : EndsAt(s, c, i) => c \notin v.open_tool_calls
  BY <1>1, <1>2 DEF EndsAt, Remembers
<1> QED BY <1>3, <1>4, <1>5

\* A program that is under way still is after a record that neither ends it nor
\* begins an Attempt.
LEMMA CurrentAfter ==
  ASSUME NEW s, NEW rec, NEW t, Extended(s, rec, t), NEW p, Current(s, p),
         rec.type # "attempt_started", ~IsStart(rec, p), ~IsEnd(rec, p)
  PROVE  Current(t, p)
<1>1. /\ \A i : StartsAt(t, p, i) <=> StartsAt(s, p, i)
      /\ \A i : EndsAt(t, p, i) <=> EndsAt(s, p, i)
  BY PlacesAfter
<1>2. Len(t) = Len(s) + 1
  BY DEF Extended
<1>3. \A i \in 1..Len(s) : i \in 1..Len(t)
  BY DEF Extended
<1>4. \E i \in 1..Len(t) : StartsAt(t, p, i)
  BY <1>1, <1>3 DEF Current
<1>5. ASSUME NEW i \in 1..Len(t), StartsAt(t, p, i) PROVE ~Over(t, i, Len(t))
  <2>1. i \in 1..Len(s) /\ ~Over(s, i, Len(s))
    BY <1>1, <1>5 DEF Current, StartsAt
  <2> QED BY <1>2, <2>1, OverAfter
<1>6. \A k \in 1..Len(t) : ~EndsAt(t, p, k)
  BY <1>1 DEF Current, EndsAt
<1> QED BY <1>4, <1>5, <1>6 DEF Current

\* A program that starts is under way.
LEMMA CurrentBegins ==
  ASSUME NEW s, NEW rec, NEW t, Extended(s, rec, t), NEW p, IsStart(rec, p),
         \A i \in 1..Len(s) : ~StartsAt(s, p, i) /\ ~EndsAt(s, p, i)
  PROVE  Current(t, p)
<1>1. /\ \A i : StartsAt(t, p, i) <=> i = Len(s) + 1
      /\ \A i : ~EndsAt(t, p, i)
  BY PlacesAfter DEF StartsAt, EndsAt, IsStart, IsEnd
<1>2. Len(t) = Len(s) + 1 /\ Len(s) + 1 \in 1..Len(t) /\ \A k \in Len(s) + 1..Len(s) + 1 : k = Len(s) + 1
  BY DEF Extended
<1>3. ~Over(t, Len(s) + 1, Len(s) + 1)
  BY <1>2 DEF Over, IsStart, Extended
<1> QED BY <1>1, <1>2, <1>3 DEF Current

\* Requests and programs are different calls, and None is neither.
LEMMA CallKinds == Requests \cap CodeCalls = {} /\ None \notin Requests /\ None \notin CodeCalls
BY ProgramsAssumption DEF Requests

\* The calls of a program stay within it.
LEMMA ContainedAfter ==
  ASSUME NEW s, Tidy(s), NEW rec, MayAppend(s, rec), NEW t, Extended(s, rec, t)
  PROVE  Contained(t)
<1> SUFFICES ASSUME NEW p \in CodeCalls, NEW i \in 1..Len(t), NEW j \in CallPlaces(t, p), StartsAt(t, p, i)
             PROVE  /\ ~Over(t, i, j)
                    /\ \A k \in 1..Len(t) : EndsAt(t, p, k) => j < k
                    /\ \A e \in 1..Len(t) : EndsAt(t, t[j].call, e) =>
                         Over(t, i, e) \/ \A k \in 1..Len(t) : EndsAt(t, p, k) => e < k
  BY DEF Contained
<1> DEFINE n == Len(s)
<1>0. /\ n \in Nat /\ Len(t) = n + 1 /\ t[n + 1] = rec /\ \A x \in 1..n : t[x] = s[x]
      /\ CallPlaces(s, p) \subseteq 1..n
  BY DEF Extended, CallPlaces
<1>1. CallPlaces(t, p) = CallPlaces(s, p) \cup
        (IF rec.type = "tool_call_started" /\ rec.parent = p THEN {n + 1} ELSE {})
  BY CallsOfAfter
<1>2. /\ \A x : StartsAt(t, p, x) <=> StartsAt(s, p, x) \/ (x = n + 1 /\ IsStart(rec, p))
      /\ \A x : EndsAt(t, p, x) <=> EndsAt(s, p, x) \/ (x = n + 1 /\ IsEnd(rec, p))
  BY PlacesAfter
<1>3. \A c, x : EndsAt(t, c, x) <=> EndsAt(s, c, x) \/ (x = n + 1 /\ IsEnd(rec, c))
  BY PlacesAfter
<1>4. rec.type = "tool_call_started" => \A x \in 1..n : ~StartsAt(s, rec.call, x) /\ ~EndsAt(s, rec.call, x)
  BY NewCall DEF Tidy, MayAppend
<1>5. \A x \in 1..n : /\ \A y \in 1..n : Over(t, x, y) <=> Over(s, x, y)
                      /\ Over(t, x, n + 1) <=> Over(s, x, n) \/ rec.type = "attempt_started"
  BY OverAfter
<1>6. \A c, x : StartsAt(s, c, x) \/ EndsAt(s, c, x) => x \in 1..n
  BY DEF StartsAt, EndsAt
<1>7. CASE i \in 1..n /\ j \in CallPlaces(s, p)
  <2>1. /\ StartsAt(s, p, i) /\ t[j] = s[j] /\ j \in 1..n
    BY <1>0, <1>2, <1>7
  <2>2. /\ ~Over(s, i, j)
        /\ \A k \in 1..n : EndsAt(s, p, k) => j < k
        /\ \A e \in 1..n : EndsAt(s, s[j].call, e) =>
             Over(s, i, e) \/ \A k \in 1..n : EndsAt(s, p, k) => e < k
    BY <1>7, <2>1 DEF Tidy, Contained
  <2>3. ~Over(t, i, j)
    BY <1>5, <1>7, <2>1, <2>2
  <2>4. \A k \in 1..Len(t) : EndsAt(t, p, k) => j < k
    BY <1>0, <1>2, <1>6, <2>1, <2>2
  <2>5. ASSUME NEW e \in 1..Len(t), EndsAt(t, t[j].call, e), NEW k \in 1..Len(t), EndsAt(t, p, k), ~Over(t, i, e)
        PROVE  e < k
    <3>1. CASE EndsAt(s, s[j].call, e)
      <4>1. e \in 1..n /\ ~Over(s, i, e)
        BY <1>5, <1>6, <1>7, <2>5, <3>1
      <4>2. EndsAt(s, p, k) => e < k
        BY <1>6, <2>2, <3>1, <4>1
      <4> QED BY <1>0, <1>2, <2>5, <4>1, <4>2
    <3>2. CASE e = n + 1 /\ IsEnd(rec, s[j].call)
      <4>1. Over(s, i, n) \/ \A x \in 1..n : ~EndsAt(s, p, x)
        BY <1>7, <2>1, <3>2 DEF MayAppend, IsEnd
      <4>2. ~Over(s, i, n)
        BY <1>5, <1>7, <2>5, <3>2
      <4>3. IsEnd(rec, p)
        BY <1>2, <1>6, <2>5, <4>1, <4>2
      <4>4. s[j].type = "tool_call_started" /\ s[j].parent = p /\ s[j].call = p
        BY <1>7, <3>2, <4>3 DEF CallPlaces, IsEnd
      <4>5. s[j].call \in Requests
        BY <2>1, <4>4, CallKinds DEF Tidy, Sorts
      <4> QED BY <4>4, <4>5, CallKinds
    <3> QED BY <1>3, <2>1, <2>5, <3>1, <3>2
  <2> QED BY <2>3, <2>4, <2>5
<1>8. CASE i \in 1..n /\ j = n + 1 /\ rec.type = "tool_call_started" /\ rec.parent = p
  <2>1. StartsAt(s, p, i)
    BY <1>0, <1>2, <1>8
  <2>2. Current(s, p)
    BY <1>8, CallKinds DEF MayAppend
  <2>3. ~Over(t, i, j)
    BY <1>5, <1>8, <2>1, <2>2 DEF Current
  <2>4. \A k : ~EndsAt(t, p, k)
    BY <1>2, <1>6, <1>8, <2>2 DEF Current, IsEnd
  <2> QED BY <2>3, <2>4
<1>9. CASE i = n + 1
  <2>1. IsStart(rec, p)
    BY <1>0, <1>2, <1>6, <1>9
  <2>2. rec.parent = None
    BY <2>1, CallKinds DEF MayAppend, IsStart
  <2>3. j \in CallPlaces(s, p)
    BY <1>1, <2>2, CallKinds
  <2>4. \E x \in 1..n : StartsAt(s, p, x)
    BY <1>0, <2>3, CallKinds DEF CallPlaces, Tidy, Sorts
  <2> QED BY <1>4, <2>1, <2>4 DEF IsStart
<1>10. j \in CallPlaces(s, p) \/ (j = n + 1 /\ rec.type = "tool_call_started" /\ rec.parent = p)
  BY <1>1
<1>11. i \in 1..n \/ i = n + 1
  BY <1>0
<1> QED BY <1>7, <1>8, <1>9, <1>10, <1>11

\* The budgets hold after a record that may be appended.
LEMMA BudgetedAfter ==
  ASSUME NEW s, Tidy(s), NEW rec, MayAppend(s, rec), NEW t, Extended(s, rec, t)
  PROVE  Budgeted(t)
<1>1. Len(s) \in Nat /\ DOMAIN s = 1..Len(s)
  BY DEF Extended
<1>2. /\ IsFiniteSet(ProgramCalls(s)) /\ Cardinality(ProgramCalls(s)) \in Nat
      /\ \A p : IsFiniteSet(CallsOf(s, p)) /\ Cardinality(CallsOf(s, p)) \in Nat
  BY <1>1, FinitelyMany
<1>3. ASSUME NEW S, IsFiniteSet(S), Cardinality(S) \in Nat, NEW x
      PROVE  Cardinality(S \cup {x}) <= Cardinality(S) + 1
  <2>1. Cardinality(S \cup {x}) = IF x \in S THEN Cardinality(S) ELSE Cardinality(S) + 1
    BY <1>3, FS_AddElement
  <2> QED BY <1>3, <2>1
<1>4. Cardinality(ProgramCalls(t)) <= MaxCallsPerRun
  <2>1. CASE rec.type = "tool_call_started" /\ rec.parent \in CodeCalls
    <3>1. ProgramCalls(t) = ProgramCalls(s) \cup {rec.call}
      BY <2>1, ProgramCallsAfter
    <3>2. Cardinality(ProgramCalls(s)) < MaxCallsPerRun
      BY <2>1, CallKinds DEF MayAppend
    <3>3. Cardinality(ProgramCalls(s) \cup {rec.call}) <= Cardinality(ProgramCalls(s)) + 1
      BY <1>2, <1>3
    <3>4. IsFiniteSet(ProgramCalls(s) \cup {rec.call}) /\ Cardinality(ProgramCalls(s) \cup {rec.call}) \in Nat
      BY <1>2, FS_AddElement, FS_CardinalityType
    <3> HIDE DEF MayAppend, Tidy
    <3> QED BY <1>2, <3>1, <3>2, <3>3, <3>4, ProgramsAssumption
  <2>2. CASE ~(rec.type = "tool_call_started" /\ rec.parent \in CodeCalls)
    <3>1. ProgramCalls(t) = ProgramCalls(s)
      BY <2>2, ProgramCallsAfter
    <3> QED BY <3>1 DEF Tidy, Budgeted
  <2> QED BY <2>1, <2>2
<1>5. ASSUME NEW p \in CodeCalls PROVE Cardinality(CallsOf(t, p)) <= MaxCalls
  <2>1. CASE rec.type = "tool_call_started" /\ rec.parent = p
    <3>1. CallsOf(t, p) = CallsOf(s, p) \cup {rec.call}
      BY <2>1, CallsOfAfter
    <3>2. Cardinality(CallsOf(s, p)) < MaxCalls
      BY <2>1, CallKinds DEF MayAppend
    <3>3. Cardinality(CallsOf(s, p) \cup {rec.call}) <= Cardinality(CallsOf(s, p)) + 1
      BY <1>2, <1>3
    <3>4. IsFiniteSet(CallsOf(s, p) \cup {rec.call}) /\ Cardinality(CallsOf(s, p) \cup {rec.call}) \in Nat
      BY <1>2, FS_AddElement, FS_CardinalityType
    <3> QED BY <1>2, <3>1, <3>2, <3>3, <3>4, ProgramsAssumption
  <2>2. CASE ~(rec.type = "tool_call_started" /\ rec.parent = p)
    <3>1. CallsOf(t, p) = CallsOf(s, p)
      <4>1. CallsOf(t, p) = CallsOf(s, p) \cup
              (IF rec.type = "tool_call_started" /\ rec.parent = p THEN {rec.call} ELSE {})
        BY CallsOfAfter
      <4> QED BY <2>2, <4>1
    <3> QED BY <3>1 DEF Tidy, Budgeted
  <2> QED BY <2>1, <2>2
<1> QED BY <1>4, <1>5 DEF Budgeted

\* Every record that may be appended leaves a log as tidy as it was, and its
\* state one step on.
LEMMA TidyAfter ==
  ASSUME NEW s, Tidy(s), NEW rec, MayAppend(s, rec), NEW t, t = Append(s, rec)
  PROVE  /\ Extended(s, rec, t) /\ Tidy(t)
         /\ \A n \in 0..Len(s) : Prefix(t, n) = Prefix(s, n)
         /\ Effect(Reduced(s).view, rec, Reduced(t).view)
<1>1. ProperLog(s) /\ WellFormed(rec) /\ Accepts(Reduced(s), rec)
  BY DEF Tidy, MayAppend
<1>2. /\ ProperLog(t) /\ Len(t) = Len(s) + 1 /\ Len(s) \in Nat
      /\ \A i \in 1..Len(s) : t[i] = s[i]
      /\ t[Len(s) + 1] = rec
      /\ DOMAIN t = 1..Len(s) + 1 /\ DOMAIN s = 1..Len(s)
      /\ \A n \in 0..Len(s) : Prefix(t, n) = Prefix(s, n)
      /\ Effect(Reduced(s).view, rec, Reduced(t).view)
  BY <1>1, ProperAppend
<1>3. Extended(s, rec, t)
  BY <1>2 DEF Extended
<1>4. Contained(t) /\ Budgeted(t)
  BY <1>3, ContainedAfter, BudgetedAfter
<1>5. \A c : /\ \A i : StartsAt(s, c, i) => StartsAt(t, c, i)
             /\ Asked(c, t, Len(t)) <=> Asked(c, s, Len(s)) \/ (rec.type = "suspended" /\ rec.call = c)
  BY <1>3, PlacesAfter
<1>6. \A i \in 1..Len(t) : i \in 1..Len(s) \/ i = Len(s) + 1
  BY <1>2
<1>7. \A c : (\E j \in 1..Len(s) : StartsAt(s, c, j)) => (\E j \in 1..Len(t) : StartsAt(t, c, j))
  BY <1>5 DEF StartsAt
<1>8. Sorts(t)
  <2> SUFFICES ASSUME NEW i \in 1..Len(t)
               PROVE  /\ t[i].type \in RecordTypes
                      /\ t[i].type = "suspended" =>
                           /\ t[i].call \in Requests /\ Gate(t[i].call) = "ask"
                           /\ \E j \in 1..Len(t) : StartsAt(t, t[i].call, j)
                      /\ t[i].type = "tool_call_started" =>
                           \/ t[i].call \in CodeCalls /\ t[i].parent = None
                           \/ /\ t[i].call \in Requests /\ t[i].parent \in CodeCalls
                              /\ \E j \in 1..Len(t) : StartsAt(t, t[i].parent, j)
    BY DEF Sorts
  <2>1. CASE i \in 1..Len(s)
    BY <1>2, <1>7, <2>1 DEF Tidy, Sorts
  <2>2. CASE i = Len(s) + 1
    BY <1>2, <1>7, <2>2 DEF MayAppend, Current
  <2> QED BY <1>6, <2>1, <2>2
<1>9. AskedOnce(t)
  <2> SUFFICES ASSUME NEW i \in 1..Len(t), NEW k \in 1..Len(t), t[i].type = "suspended",
                      t[k].type = "suspended", t[i].call = t[k].call, t[i].call # None
               PROVE  i = k
    BY DEF AskedOnce
  <2>1. rec.type = "suspended" => \A x \in 1..Len(s) : s[x].type = "suspended" => s[x].call # rec.call
    BY DEF MayAppend, Asked
  <2>2. CASE i \in 1..Len(s) /\ k \in 1..Len(s)
    BY <1>2, <2>2 DEF Tidy, AskedOnce
  <2>3. CASE i \in 1..Len(s) /\ k = Len(s) + 1
    BY <1>2, <2>1, <2>3
  <2>4. CASE k \in 1..Len(s) /\ i = Len(s) + 1
    BY <1>2, <2>1, <2>4
  <2> QED BY <1>6, <2>2, <2>3, <2>4
<1> QED BY <1>2, <1>3, <1>4, <1>8, <1>9 DEF Tidy

-----------------------------------------------------------------------------
(* What a step does to the log and to what the Journal sees of it *)

\* The Journal sees a place of the log, and forgets no approval.
Journaled ==
  /\ view'.head_seq \in 1..Len(log') /\ view' = Prefix(log', view'.head_seq).view
  /\ \A c \in Calls : view.approval_decisions[c] = "approved" => view'.approval_decisions[c] = "approved"

\* The log keeps its records, and the Journal is where it was or at the end.
LEMMA JournaledStep ==
  ASSUME Shape, Tidy(log), Engine, Tidy(log'), Len(log) <= Len(log'),
         \A n \in 0..Len(log) : Prefix(log', n) = Prefix(log, n), view' = view \/ view' = Truth'
  PROVE  Journaled
<1> DEFINE h == view.head_seq
           t == log'
<1>1. /\ ProperLog(log) /\ ProperLog(t) /\ AskedOnce(t) /\ Len(log) \in Nat /\ Len(t) \in Nat
      /\ h \in 1..Len(log) /\ h \in 0..Len(log) /\ h \in 0..Len(t) /\ h \in 1..Len(t)
  BY DEF Tidy, Shape, ProperLog
<1>2. view = Prefix(t, h).view
  BY <1>1 DEF Engine
<1>3. Truth' = Reduced(t).view
  BY DEF Truth
<1> HIDE DEF t
<1>4. Len(t) \in 1..Len(t) /\ Len(t) \in 0..Len(t)
  BY <1>1
<1>5. Reduced(t) = Prefix(t, Len(t)) /\ Reduced(t).view.head_seq = Len(t)
  BY <1>1, ProperFold
<1>6. view'.head_seq \in 1..Len(t) /\ view' = Prefix(t, view'.head_seq).view
  BY <1>1, <1>2, <1>3, <1>4, <1>5
<1>7. ASSUME NEW c \in Calls, view.approval_decisions[c] = "approved"
      PROVE  view'.approval_decisions[c] = "approved"
  <2>1. c # None /\ view.approval_decisions[c] # None
    BY <1>7, ProgramsAssumption
  <2>2. Reduced(t).view.approval_decisions[c] = Prefix(t, h).view.approval_decisions[c]
    BY <1>1, <1>2, <2>1, AnswersStand
  <2> QED BY <1>2, <1>3, <1>7, <2>2
<1> QED BY <1>6, <1>7 DEF Journaled, t

\* A step that writes nothing; a Journal may catch up in it.
LEMMA Silent ==
  ASSUME Shape, Tidy(log), Engine, log' = log, view' = view \/ view' = Caught
  PROVE  Journaled /\ Truth' = Truth /\ Tidy(log')
<1>1. Truth' = Truth /\ Tidy(log')
  BY DEF Truth
<1>2. Caught = Truth /\ Len(log) \in Nat
  BY CaughtIs
<1>3. Journaled
  <2>1. view' = view \/ view' = Truth'
    BY <1>1, <1>2
  <2>2. Len(log) <= Len(log') /\ \A n \in 0..Len(log) : Prefix(log', n) = Prefix(log, n)
    BY <1>2
  <2> QED BY <1>1, <2>1, <2>2, JournaledStep
<1> QED BY <1>1, <1>3

\* A step that writes rec.
Wrote(rec) ==
  /\ Journaled /\ Extended(log, rec, log') /\ Tidy(log')
  /\ Effect(Truth, rec, Truth') /\ MayAppend(log, rec)

\* The Journal writes it, or it lands in the Store and the Journal does not know.
LEMMA OneMore ==
  ASSUME Shape, Tidy(log), Engine, NEW rec, MayAppend(log, rec),
         Write(<<rec>>) \/ (log' = Append(log, rec) /\ view' = view)
  PROVE  Wrote(rec)
<1>1. Started(Caught) = Reduced(log) /\ Len(log) \in Nat /\ ProperLog(log)
  BY CaughtIs DEF Tidy
<1>2. log' = Append(log, rec)
  <2>1. log \o <<rec>> = Append(log, rec)
    BY <1>1 DEF ProperLog
  <2> QED BY <2>1 DEF Write
<1>3. /\ Extended(log, rec, log') /\ Tidy(log')
      /\ \A n \in 0..Len(log) : Prefix(log', n) = Prefix(log, n)
      /\ Effect(Reduced(log).view, rec, Reduced(log').view)
  BY <1>2, TidyAfter
<1>4. view' = view \/ view' = Truth'
  <2>1. ReducedFrom(Caught, <<rec>>) = Reduced(Append(log, rec))
    BY <1>1, OneWritten
  <2> QED BY <1>2, <2>1 DEF Write, Truth
<1>5. Len(log) <= Len(log')
  BY <1>3 DEF Extended
<1>6. Journaled
  BY <1>3, <1>4, <1>5, JournaledStep
<1> QED BY <1>3, <1>6 DEF Wrote, Truth

\* What the Journal lets through, the log accepts.
LEMMA AllowedAccepted ==
  ASSUME Shape, Tidy(log), Engine, NEW rec, Allowed(rec)
  PROVE  /\ Accepts(Reduced(log), rec) /\ ~Overtaken
         /\ Accepts(Prefix(log, view.head_seq), rec)
BY CaughtIs DEF Allowed

-----------------------------------------------------------------------------
(* What the log lets be written *)

InProgram == {"running", "returning", "leaving"}

\* A request ends within the program that made it.
LEMMA EndsRequest ==
  ASSUME Shape, Tidy(log), Engine, attempt \in InProgram, host.call # None,
         NEW rec, rec.type = "tool_call_finished", rec.call = host.call, Accepts(Reduced(log), rec)
  PROVE  MayAppend(log, rec)
<1>1. program \in CodeCalls /\ Current(log, program) /\ host.call \in CallsOf(log, program)
  BY DEF InProgram, Engine, LoopOK, HostOK
<1>2. PICK a \in CallPlaces(log, program) : log[a].call = host.call
  BY <1>1 DEF CallsOf
<1>3. ProperLog(log) /\ Len(log) \in Nat
  BY DEF Tidy, ProperLog
<1>4. ASSUME NEW p \in CodeCalls, NEW i \in 1..Len(log), NEW j \in CallPlaces(log, p), log[j].call = rec.call
      PROVE  p = program
  <2>1. /\ a \in 1..Len(log) /\ log[a].type = "tool_call_started" /\ log[a].parent = program
        /\ j \in 1..Len(log) /\ log[j].type = "tool_call_started" /\ log[j].parent = p
    BY <1>2 DEF CallPlaces
  <2>2. log[a].call = log[j].call
    BY <1>2, <1>4
  <2>3. ~(a < j) /\ ~(j < a)
    BY <1>3, <2>1, <2>2, CallStartsInLog
  <2>4. a = j
    BY <1>3, <2>1, <2>3
  <2> QED BY <2>1, <2>4
<1>5. \A k \in 1..Len(log) : ~EndsAt(log, program, k)
  BY <1>1 DEF Current
<1>6. WellFormed(rec)
  <2>1. host.call \in Requests
    BY DEF Shape, Mays
  <2> QED BY <2>1 DEF WellFormed, Requests
<1> QED BY <1>4, <1>5, <1>6 DEF MayAppend, RecordTypes

\* No program made a call that is a program.
LEMMA EndsProgram ==
  ASSUME Tidy(log), NEW rec, rec.type = "tool_call_finished", rec.call \in CodeCalls,
         Accepts(Reduced(log), rec)
  PROVE  MayAppend(log, rec)
<1>1. \A p \in CodeCalls : \A j \in CallPlaces(log, p) : log[j].call # rec.call
  BY CallKinds DEF CallPlaces, Tidy, Sorts
<1>2. WellFormed(rec)
  BY ProgramsAssumption DEF WellFormed
<1> QED BY <1>1, <1>2 DEF MayAppend, RecordTypes

\* The calls an Attempt finds open were started before it.
LEMMA EndsDangling ==
  ASSUME Shape, Tidy(log), Engine, attempt = "recovering",
         NEW rec, rec.type = "tool_call_finished", rec.call \in dangling
  PROVE  MayAppend(log, rec)
<1>1. ViewOK(Truth)
  BY CaughtIs
<1>2. dangling = Truth.open_tool_calls /\ Truth.settled # TRUE
  BY DEF Engine, LoopOK
<1>3. PICK k \in 1..Len(log) : /\ log[k].type = "attempt_started"
                               /\ \A i \in 1..Len(log) : log[i].type = "tool_call_started" => i < k
  BY DEF Engine, LoopOK
<1>4. Accepts(Reduced(log), rec)
  BY <1>1, <1>2 DEF Accepts, RecordAccepted, Truth, ViewOK
<1>5. ASSUME NEW c, NEW i \in 1..Len(log), StartsAt(log, c, i) PROVE Over(log, i, Len(log))
  <2>1. Len(log) \in Nat
    BY DEF Tidy, ProperLog
  <2>2. i < k
    BY <1>3, <1>5 DEF StartsAt
  <2>3. k \in i..Len(log)
    BY <2>1, <2>2
  <2> QED BY <1>3, <2>3 DEF Over
<1>6. WellFormed(rec)
  BY DEF Shape, WellFormed
<1> QED BY <1>4, <1>5, <1>6 DEF MayAppend, RecordTypes

\* The records without a condition of their own.
LEMMA MayWrite ==
  ASSUME NEW s, NEW rec, Accepts(Reduced(s), rec),
         rec.type \in {"attempt_started", "turn_started", "model_call_started", "model_call_finished",
                       "resumed", "run_settled"}
  PROVE  MayAppend(s, rec)
BY DEF MayAppend, RecordTypes, WellFormed

-----------------------------------------------------------------------------
(* What is kept of the loop, the host and the tools *)

\* The flags of the state after a record that opens no turn.
LEMMA FlagsAfter ==
  ASSUME LoopOK, NEW rec, Wrote(rec), rec.type \notin {"turn_started", "model_call_started"}
  PROVE  /\ Truth'.admitted = TRUE /\ Truth'.turn_open = FALSE /\ Truth'.model_call_open = FALSE
         /\ Truth'.settled = (IF rec.type = "run_settled" THEN TRUE ELSE Truth.settled)
         /\ Truth'.suspended = SuspendedAfter(Truth, rec)
         /\ Truth'.open_tool_calls = OpenCallsAfter(Truth, rec)
BY DEF LoopOK, Wrote, Effect, TurnOpenAfter, ModelCallOpenAfter

\* A record of the program under way.
LEMMA LoopInProgram ==
  ASSUME LoopOK, NEW rec, Wrote(rec), attempt \in InProgram, attempt' \in InProgram, program' = program,
         rec.type \in {"tool_call_started", "tool_call_finished", "suspended", "resumed"},
         rec.type \in {"tool_call_started", "tool_call_finished"} => rec.call \in Requests
  PROVE  LoopOK'
<1>1. /\ Truth'.admitted = TRUE /\ Truth'.turn_open = FALSE /\ Truth'.model_call_open = FALSE
      /\ Truth'.settled = Truth.settled /\ Truth.settled # TRUE
  BY FlagsAfter DEF LoopOK, InProgram
<1>2. Extended(log, rec, log') /\ Current(log, program) /\ program \in CodeCalls
  BY DEF Wrote, LoopOK, InProgram
<1>3. ~IsStart(rec, program) /\ ~IsEnd(rec, program) /\ rec.type # "attempt_started"
  BY <1>2, CallKinds DEF IsStart, IsEnd
<1>4. Current(log', program)
  BY <1>2, <1>3, CurrentAfter
<1> QED BY <1>1, <1>2, <1>4 DEF LoopOK, InProgram

\* The log says of the calls what it said.
Grows ==
  /\ \A c, i : StartsAt(log, c, i) => StartsAt(log', c, i)
  /\ \A c, i : EndsAt(log, c, i) => EndsAt(log', c, i)
  /\ Len(log) \in Nat /\ Len(log') \in Nat /\ Len(log) <= Len(log')

\* A record more keeps what was said.
LEMMA WroteGrows == ASSUME NEW rec, Wrote(rec) PROVE Grows
<1>1. Extended(log, rec, log')
  BY DEF Wrote
<1>2. /\ \A c, i : StartsAt(log, c, i) => StartsAt(log', c, i)
      /\ \A c, i : EndsAt(log, c, i) => EndsAt(log', c, i)
  BY <1>1, PlacesAfter
<1> QED BY <1>1, <1>2 DEF Grows, Extended

\* What is known of a tool that was run stays known.
LEMMA RanKept ==
  ASSUME RanOK, Grows, Journaled,
         \A c \in Calls : ran'[c] = 1 => ran[c] = 1 \/
           /\ c \in Requests /\ \E i \in 1..Len(log') : StartsAt(log', c, i)
           /\ \/ Gate(c) = "allow"
              \/ /\ Gate(c) = "ask" /\ view'.approval_decisions[c] = "approved"
                 /\ \E i \in 1..Len(log') : EndsAt(log', c, i)
  PROVE  RanOK'
<1> SUFFICES ASSUME NEW c \in Calls, ran'[c] = 1
             PROVE  /\ c \in Requests /\ \E i \in 1..Len(log') : StartsAt(log', c, i)
                    /\ \/ Gate(c) = "allow"
                       \/ /\ Gate(c) = "ask" /\ view'.approval_decisions[c] = "approved"
                          /\ \E i \in 1..Len(log') : EndsAt(log', c, i)
  BY DEF RanOK, Gate
<1>1. CASE ran[c] # 1
  BY <1>1
<1>2. CASE ran[c] = 1
  <2>1. \A i \in 1..Len(log) : i \in 1..Len(log')
    BY DEF Grows
  <2>2. \E i \in 1..Len(log') : StartsAt(log', c, i)
    BY <1>2, <2>1 DEF RanOK, Grows
  <2>3. (\E i \in 1..Len(log) : EndsAt(log, c, i)) => \E i \in 1..Len(log') : EndsAt(log', c, i)
    BY <2>1 DEF Grows
  <2> QED BY <1>2, <2>2, <2>3 DEF RanOK, Journaled
<1> QED BY <1>1, <1>2

\* The calls of the program under way, after a record that is not one of them.
LEMMA SameCalls ==
  ASSUME NEW rec, Wrote(rec), rec.type # "tool_call_started", NEW p
  PROVE  CallsOf(log', p) = CallsOf(log, p)
<1>1. CallsOf(log', p) = CallsOf(log, p) \cup
        (IF rec.type = "tool_call_started" /\ rec.parent = p THEN {rec.call} ELSE {})
  BY CallsOfAfter DEF Wrote
<1> QED BY <1>1

\* A step of a conversation that is not about to run a tool: it wrote nothing or
\* one record of a call, or that a person was asked, and the conversation goes on
\* or is over.
LEMMA HostStep ==
  ASSUME Shape, Tidy(log), Engine, Journaled, attempt \in InProgram, attempt' \in InProgram,
         UNCHANGED <<program, dangling, spent>>,
         \A c \in Calls : ran'[c] = 1 => ran[c] = 1 \/ (c = host.call /\ Gate(c) = "allow"),
         host'.phase # "gating", host'.call \in {host.call, None},
         host'.phase # "off" => host.phase # "off",
         \/ log' = log
         \/ \E rec : /\ Wrote(rec) /\ rec.type \in {"tool_call_finished", "suspended", "resumed"}
                     /\ rec.type = "tool_call_finished" => rec.call \in Requests
  PROVE  Engine'
<1>1. LoopOK /\ HostOK /\ RanOK /\ view'.head_seq \in 1..Len(log') /\ view' = Prefix(log', view'.head_seq).view
  BY DEF Engine, Journaled
<1>2. LoopOK' /\ Grows /\ CallsOf(log', program) = CallsOf(log, program)
  <2>1. CASE log' = log
    <3>1. Len(log) \in Nat
      BY DEF Tidy, ProperLog
    <3>2. Grows
      BY <2>1, <3>1 DEF Grows
    <3>3. LoopOK'
      BY <1>1, <2>1 DEF LoopOK, Truth, InProgram
    <3> QED BY <2>1, <3>2, <3>3
  <2>2. ASSUME NEW rec, Wrote(rec), rec.type \in {"tool_call_finished", "suspended", "resumed"},
               rec.type = "tool_call_finished" => rec.call \in Requests
        PROVE  LoopOK' /\ Grows /\ CallsOf(log', program) = CallsOf(log, program)
    BY <1>1, <2>2, LoopInProgram, WroteGrows, SameCalls
  <2> QED BY <2>1, <2>2
<1>3. HostOK'
  BY <1>1, <1>2 DEF HostOK
<1>4. ASSUME NEW c \in Calls, c = host.call, Gate(c) = "allow"
      PROVE  c \in Requests /\ \E i \in 1..Len(log') : StartsAt(log', c, i)
  <2>1. c \in Requests /\ host.call # None
    BY <1>4, ProgramsAssumption DEF Shape, Mays
  <2>2. PICK j \in CallPlaces(log, program) : log[j].call = c
    BY <1>1, <1>4, <2>1 DEF HostOK, CallsOf
  <2>3. StartsAt(log, c, j)
    BY <2>2 DEF CallPlaces, StartsAt
  <2>4. StartsAt(log', c, j)
    BY <1>2, <2>3 DEF Grows
  <2> QED BY <2>1, <2>4 DEF StartsAt
<1>5. RanOK'
  <2>1. \A c \in Calls : ran'[c] = 1 => ran[c] = 1 \/
           /\ c \in Requests /\ \E i \in 1..Len(log') : StartsAt(log', c, i)
           /\ \/ Gate(c) = "allow"
              \/ /\ Gate(c) = "ask" /\ view'.approval_decisions[c] = "approved"
                 /\ \E i \in 1..Len(log') : EndsAt(log', c, i)
    BY <1>4
  <2> QED BY <1>1, <1>2, <2>1, RanKept
<1> QED BY <1>1, <1>2, <1>3, <1>5 DEF Engine

\* A step outside of any conversation that wrote nothing or one record, runs no
\* tool and begins no program.
LEMMA LoopStep ==
  ASSUME Shape, Tidy(log), Engine, Journaled, LoopOK', host'.phase = "off", host'.call = None, Grows,
         ran' = ran
  PROVE  Engine'
<1>1. RanOK /\ view' = Prefix(log', view'.head_seq).view
  BY DEF Engine, Journaled
<1>2. RanOK'
  BY <1>1, RanKept
<1>3. HostOK'
  BY DEF HostOK
<1> QED BY <1>1, <1>2, <1>3 DEF Engine

\* Attempts that are about nothing the log speaks of.
LEMMA LoopElsewhere ==
  ASSUME LoopOK, attempt' \in {"off", "parked", "looping"}, attempt # "settled",
         \/ log' = log
         \/ \E rec : Wrote(rec) /\ rec.type \notin {"turn_started", "model_call_started", "run_settled"}
  PROVE  LoopOK'
<1>1. CASE log' = log
  BY <1>1 DEF LoopOK, Truth
<1>2. ASSUME NEW rec, Wrote(rec), rec.type \notin {"turn_started", "model_call_started", "run_settled"}
      PROVE  LoopOK'
  <2>1. /\ Truth'.admitted = TRUE /\ Truth'.turn_open = FALSE /\ Truth'.model_call_open = FALSE
        /\ Truth'.settled = Truth.settled
    BY <1>2, FlagsAfter
  <2> QED BY <2>1 DEF LoopOK
<1> QED BY <1>1, <1>2

-----------------------------------------------------------------------------
(* The steps of the host, as the log sees them *)

LogKept == Tidy(log') /\ Journaled /\ Engine'

\* Steps of the process leave the log and the loop alone.
LEMMA LogOfOthers ==
  ASSUME Shape, Tidy(log), Engine, UNCHANGED <<log, view, loop, host, spent, ran>>
  PROVE  LogKept
<1>1. Tidy(log') /\ Journaled
  BY Silent
<1>2. UNCHANGED <<log, view, attempt, dangling, program, host, spent, ran>>
  BY DEF loop
<1>3. LoopOK'
  BY <1>2 DEF Engine, LoopOK, Truth
<1>4. HostOK'
  BY <1>2 DEF Engine, HostOK
<1>5. RanOK'
  BY <1>2 DEF Engine, RanOK
<1>6. view' = Prefix(log', view'.head_seq).view
  BY <1>1 DEF Journaled
<1> QED BY <1>1, <1>3, <1>4, <1>5, <1>6 DEF LogKept, Engine

\* A conversation goes on only while its program runs.
LEMMA Conversing ==
  ASSUME Wired, host.phase # "off"
  PROVE  attempt = "running" /\ attempt \in InProgram
BY DEF Wired, InProgram

\* The host has answered, or has found that nobody hears it.
LEMMA ReplyMoves ==
  ASSUME Wired, host.phase # "off", NEW id, NEW call, Reply(id, call)
  PROVE  /\ attempt' \in InProgram /\ UNCHANGED <<dangling, program>>
         /\ host'.phase # "gating" /\ host'.call = None
BY Conversing DEF Reply, Reading, Off, HostAt, loop, InProgram

\* The host stays at the call it is at.
LEMMA StaysMoves ==
  ASSUME Wired, host.phase # "off", NEW phase, phase # "gating", Stays(phase)
  PROVE  /\ attempt' \in InProgram /\ UNCHANGED <<dangling, program>>
         /\ host'.phase # "gating" /\ host'.call = host.call
BY Conversing DEF Stays, HostAt, loop

\* A record of the call the host is at is written, or refused.
LEMMA HostRecords ==
  ASSUME Shape, Tidy(log), Wired, Engine, host.phase # "off", host.call # None,
         NEW rec, rec.type \in {"tool_call_finished", "suspended", "resumed"},
         rec.type = "tool_call_finished" => rec.call \in Requests,
         Allowed(rec) => MayAppend(log, rec),
         NEW phase, phase # "gating",
         Records(rec, Reply(host.id, host.call)) \/ Records(rec, Stays(phase)),
         UNCHANGED <<spent, toHost, ran, bounds>>
  PROVE  LogKept
<1>1. attempt \in InProgram
  BY Conversing
<1>2. /\ attempt' \in InProgram /\ UNCHANGED <<dangling, program, spent, ran>>
      /\ host'.phase # "gating" /\ host'.call \in {host.call, None}
  BY ReplyMoves, StaysMoves DEF Records, Refuse
<1>3. CASE Allowed(rec)
  <2>1. Wrote(rec)
    BY <1>3, OneMore DEF Records
  <2>2. Engine'
    BY <1>1, <1>2, <2>1, HostStep DEF Wrote
  <2> QED BY <2>1, <2>2 DEF LogKept, Wrote
<1>4. CASE ~Allowed(rec)
  <2>1. log' = log /\ view' = view
    BY <1>4 DEF Records, Refuse
  <2>2. Tidy(log') /\ Journaled
    BY <2>1, Silent
  <2>3. Engine'
    BY <1>1, <1>2, <2>1, <2>2, HostStep
  <2> QED BY <2>2, <2>3 DEF LogKept
<1> QED BY <1>3, <1>4

\* The call the host is at: a request, and in the log.
LEMMA AtRequest ==
  ASSUME Shape, Wired, Engine, host.phase \notin {"off", "reading"}
  PROVE  /\ host.call # None /\ host.call \in Requests
         /\ \E j \in 1..Len(log) : StartsAt(log, host.call, j)
<1>1. host.call # None /\ host.call \in Requests
  BY DEF Wired, Shape, Mays
<1>2. PICK j \in CallPlaces(log, program) : log[j].call = host.call
  BY <1>1 DEF Engine, HostOK, CallsOf
<1> QED BY <1>1, <1>2 DEF CallPlaces, StartsAt

\* A person is asked about a call that is gated and was not asked about before.
LEMMA MayAsk ==
  ASSUME Shape, Tidy(log), Wired, Engine, host.phase = "gating", Gate(host.call) = "ask",
         Allowed(AskPerson(host.call))
  PROVE  MayAppend(log, AskPerson(host.call))
<1>1. Accepts(Reduced(log), AskPerson(host.call))
  BY AllowedAccepted
<1>2. /\ host.call \in Requests /\ ~Asked(host.call, log, Len(log))
      /\ \E j \in 1..Len(log) : StartsAt(log, host.call, j)
  BY AtRequest DEF Engine, HostOK
<1>3. AskPerson(host.call).type = "suspended" /\ AskPerson(host.call).call = host.call
  BY DEF AskPerson
<1> HIDE DEF AskPerson
<1> QED BY <1>1, <1>2, <1>3 DEF MayAppend, RecordTypes, WellFormed

\* What is known is what the Journal knows, when it was not overtaken.
LEMMA CountIsTrue ==
  ASSUME Shape, Tidy(log), Engine, ~Overtaken
  PROVE  ProgramToolCalls = Cardinality(ProgramCalls(log))
<1> DEFINE h == view.head_seq
           s == SubSeq(log, 1, h)
           places(r) == {j \in DOMAIN r : r[j].type = "tool_call_started" /\ r[j].parent \in CodeCalls}
<1>1. /\ log \in Seq(InSeq(log)) /\ Len(log) \in Nat /\ h \in 1..Len(log)
  BY DEF Shape, Tidy, ProperLog
<1>2. DOMAIN s = 1..h /\ DOMAIN log = 1..Len(log) /\ \A i \in 1..h : s[i] = log[i]
  BY <1>1
<1>3. \A i \in 1..Len(log) : i \in 1..h \/ i \in h + 1..Len(log)
  BY <1>1
<1>4. \A i \in h + 1..Len(log) : log[i].type # "tool_call_started"
  BY DEF Overtaken, External
<1>5. \A i \in 1..h : i \in 1..Len(log)
  BY <1>1
<1> HIDE DEF s
<1>6. places(s) = places(log)
  BY <1>2, <1>3, <1>4, <1>5
<1>7. \A j \in places(s) : s[j] = log[j]
  BY <1>2
<1>8. ProgramCalls(s) = {s[j].call : j \in places(s)} /\ ProgramCalls(log) = {log[j].call : j \in places(log)}
  BY DEF ProgramCalls
<1> HIDE DEF places
<1>9. ProgramCalls(s) = ProgramCalls(log)
  BY <1>6, <1>7, <1>8
<1> QED BY <1>9 DEF ProgramToolCalls, s, h

\* A call within the budgets may start, and has not been heard of.
LEMMA MayStart ==
  ASSUME Shape, Tidy(log), Wired, Engine, host.phase = "reading", NEW call \in Requests, WithinBudget,
         Allowed(StartRecord(call))
  PROVE  /\ MayAppend(log, StartRecord(call))
         /\ ran[call] = 0 /\ ~Asked(call, log, Len(log)) /\ program \in CodeCalls
<1> DEFINE rec == StartRecord(call)
<1>1. Accepts(Reduced(log), rec) /\ ~Overtaken
  BY AllowedAccepted
<1>2. rec.type = "tool_call_started" /\ rec.call = call /\ rec.parent = program
  BY DEF StartRecord, CallStarted
<1>3. program \in CodeCalls /\ Current(log, program) /\ Cardinality(CallsOf(log, program)) <= spent
  BY Conversing DEF Engine, LoopOK, HostOK, InProgram
<1>4. Cardinality(ProgramCalls(log)) < MaxCallsPerRun
  BY <1>1, CountIsTrue DEF WithinBudget
<1>5. Cardinality(CallsOf(log, program)) < MaxCalls
  <2>1. Cardinality(CallsOf(log, program)) \in Nat
    <3>1. Len(log) \in Nat /\ DOMAIN log = 1..Len(log)
      BY DEF Tidy, ProperLog
    <3> QED BY <3>1, FinitelyMany
  <2> QED BY <1>3, <2>1, ProgramsAssumption DEF WithinBudget, Shape
<1> HIDE DEF rec
<1>6. WellFormed(rec)
  BY <1>2 DEF WellFormed, Requests
<1>7. MayAppend(log, rec)
  BY <1>1, <1>2, <1>3, <1>4, <1>5, <1>6 DEF MayAppend, RecordTypes
<1>8. \A i \in 1..Len(log) : ~StartsAt(log, call, i)
  BY <1>1, <1>2, NewCall DEF Tidy
<1>9. ran[call] = 0
  BY <1>8 DEF Shape, Engine, RanOK, Requests
<1>10. ~Asked(call, log, Len(log))
  BY <1>8 DEF Asked, Tidy, Sorts
<1> QED BY <1>3, <1>7, <1>9, <1>10 DEF rec

\* A call that is admitted gets its record and is looked at next.
LEMMA LogOfAdmit ==
  ASSUME Shape, Tidy(log), Wired, Engine, Admit
  PROVE  LogKept
<1> DEFINE frame == Head(toHost)
           call == frame.call
<1>1. /\ host.phase = "reading" /\ host.phase # "off" /\ attempt \in InProgram /\ ran' = ran
      /\ call \in Requests
  <2>1. toHost # <<>> /\ frame.type = "call" /\ host.phase = "reading" /\ ran' = ran
    BY DEF Admit
  <2>2. frame = toHost[1] /\ 1 \in DOMAIN toHost
    BY <2>1 DEF Shape
  <2> QED BY <2>1, <2>2, Conversing DEF Wired
<1> DEFINE rec == StartRecord(call)
<1>2. CASE WithinBudget /\ Allowed(rec)
  <2>1. /\ spent' = spent + 1 /\ Write(<<rec>>) /\ host' = HostAt("gating", frame.id, call)
        /\ UNCHANGED <<attempt, dangling, program>>
    BY <1>2 DEF Admit, loop
  <2>2. /\ MayAppend(log, rec) /\ ran[call] = 0 /\ ~Asked(call, log, Len(log)) /\ program \in CodeCalls
    BY <1>1, <1>2, MayStart
  <2>3. rec.type = "tool_call_started" /\ rec.call = call /\ rec.parent = program
    BY DEF StartRecord, CallStarted
  <2> HIDE DEF rec, call
  <2>4. Wrote(rec)
    BY <2>1, <2>2, OneMore
  <2>5. LoopOK'
    BY <1>1, <2>1, <2>3, <2>4, LoopInProgram DEF Engine
  <2>6. CallsOf(log', program) = CallsOf(log, program) \cup {call}
    <3>1. CallsOf(log', program) = CallsOf(log, program) \cup
            (IF rec.type = "tool_call_started" /\ rec.parent = program THEN {rec.call} ELSE {})
      BY <2>4, CallsOfAfter DEF Wrote
    <3> QED BY <2>3, <3>1
  <2>7. Cardinality(CallsOf(log', program)) <= spent'
    <3>1. Len(log) \in Nat /\ DOMAIN log = 1..Len(log)
      BY DEF Tidy, ProperLog
    <3>2. IsFiniteSet(CallsOf(log, program)) /\ Cardinality(CallsOf(log, program)) \in Nat
      BY <3>1, FinitelyMany
    <3>3. Cardinality(CallsOf(log, program) \cup {call})
            = IF call \in CallsOf(log, program) THEN Cardinality(CallsOf(log, program))
              ELSE Cardinality(CallsOf(log, program)) + 1
      BY <3>2, FS_AddElement
    <3>4. Cardinality(CallsOf(log, program)) <= spent /\ spent \in Nat
      BY <1>1, ProgramsAssumption DEF Engine, HostOK, Shape
    <3> QED BY <2>1, <2>6, <3>2, <3>3, <3>4
  <2>8. ~Asked(call, log', Len(log'))
    BY <2>2, <2>3, <2>4, PlacesAfter DEF Wrote
  <2>9. HostOK'
    <3>1. host'.phase = "gating" /\ host'.call = call
      BY <2>1 DEF HostAt
    <3>2. program' = program /\ ran' = ran
      BY <1>1, <2>1
    <3> QED BY <2>2, <2>6, <2>7, <2>8, <3>1, <3>2 DEF HostOK
  <2>10. RanOK'
    BY <1>1, <2>4, WroteGrows, RanKept DEF Engine, Wrote
  <2> QED BY <2>4, <2>5, <2>9, <2>10 DEF LogKept, Wrote, Engine, Journaled
<1>3. CASE ~(WithinBudget /\ Allowed(rec))
  <2>1. Reply(frame.id, call) /\ log' = log /\ view' = view
    BY <1>3 DEF Admit, Refuse
  <2>2. Tidy(log') /\ Journaled /\ Truth' = Truth
    BY <2>1, Silent
  <2>3. /\ attempt' \in InProgram /\ UNCHANGED <<dangling, program>>
        /\ host'.phase # "gating" /\ host'.call = None
    BY <1>1, <2>1, ReplyMoves
  <2>4. spent' = spent \/ spent' = spent + 1
    BY DEF Admit
  <2>5. LoopOK' /\ RanOK'
    <3>1. Len(log) \in Nat
      BY DEF Tidy, ProperLog
    <3>2. Grows
      BY <2>1, <3>1 DEF Grows
    <3>3. LoopOK'
      BY <1>1, <2>1, <2>2, <2>3 DEF Engine, LoopOK, InProgram
    <3> QED BY <1>1, <2>2, <3>2, <3>3, RanKept DEF Engine
  <2>6. HostOK'
    <3>1. Cardinality(CallsOf(log, program)) <= spent /\ spent \in Nat
      BY <1>1, ProgramsAssumption DEF Engine, HostOK, Shape
    <3>2. Cardinality(CallsOf(log, program)) \in Nat
      <4>1. Len(log) \in Nat /\ DOMAIN log = 1..Len(log)
        BY DEF Tidy, ProperLog
      <4> QED BY <4>1, FinitelyMany
    <3>3. Cardinality(CallsOf(log, program)) <= spent'
      BY <2>4, <3>1, <3>2
    <3> QED BY <2>1, <2>3, <3>3 DEF HostOK
  <2> QED BY <2>2, <2>5, <2>6 DEF LogKept, Engine, Journaled
<1> QED BY <1>2, <1>3

\* A tool is run for an allowed call that the log has.
LEMMA LogOfUseTool ==
  ASSUME Shape, Tidy(log), Wired, Engine, UseTool
  PROVE  LogKept
<1>1. /\ host.phase = "gating" /\ host.phase # "off" /\ Gate(host.call) = "allow" /\ Stays("using")
      /\ UNCHANGED <<log, view, spent>> /\ ran' = [ran EXCEPT ![host.call] = @ + 1]
  BY DEF UseTool
<1>2. /\ attempt \in InProgram /\ attempt' \in InProgram /\ UNCHANGED <<dangling, program>>
      /\ host'.phase # "gating" /\ host'.call = host.call
  BY <1>1, Conversing, StaysMoves
<1>3. Tidy(log') /\ Journaled
  BY <1>1, Silent
<1>4. \A c \in Calls : ran'[c] = 1 => ran[c] = 1 \/ (c = host.call /\ Gate(c) = "allow")
  BY <1>1 DEF Shape
<1>5. Engine'
  BY <1>1, <1>2, <1>3, <1>4, HostStep
<1> QED BY <1>3, <1>5 DEF LogKept

\* A request is answered in the log when the Journal lets it.
LEMMA MayFinish ==
  ASSUME Shape, Tidy(log), Wired, Engine, host.phase \notin {"off", "reading"}, NEW outcome,
         Allowed(CallFinished(host.call, outcome))
  PROVE  MayAppend(log, CallFinished(host.call, outcome))
<1> DEFINE rec == CallFinished(host.call, outcome)
<1>1. rec.type = "tool_call_finished" /\ rec.call = host.call
  BY DEF CallFinished
<1>2. Accepts(Reduced(log), rec)
  BY AllowedAccepted
<1>3. attempt \in InProgram /\ host.call # None
  BY Conversing, AtRequest
<1> HIDE DEF rec
<1>4. MayAppend(log, rec)
  BY <1>1, <1>2, <1>3, EndsRequest
<1> QED BY <1>4 DEF rec

\* A question is taken back when the Journal lets it.
LEMMA MayResume ==
  ASSUME Shape, Tidy(log), Engine, NEW approved, Accepts(Reduced(log), Resumed(approved))
  PROVE  MayAppend(log, Resumed(approved))
<1>1. Resumed(approved).type = "resumed"
  BY DEF Resumed
<1> QED BY <1>1, MayWrite

\* The types of the records.
LEMMA RecordKinds ==
  /\ \A c, o : CallFinished(c, o).type = "tool_call_finished" /\ CallFinished(c, o).call = c
  /\ \A c : AskPerson(c).type = "suspended" /\ AskPerson(c).call = c
  /\ \A a : Resumed(a).type = "resumed"
  /\ \A c : StartRecord(c).type = "tool_call_started" /\ StartRecord(c).call = c /\ StartRecord(c).parent = program
BY DEF CallFinished, AskPerson, Resumed, StartRecord, CallStarted

\* The other records of a conversation.
LEMMA LogOfCallRecords ==
  ASSUME Shape, Tidy(log), Wired, Engine, Deny \/ AskApproval \/ Withdraw \/ FinishCall
  PROVE  LogKept
<1>1. host.phase \notin {"off", "reading"} /\ UNCHANGED <<spent, toHost, ran, bounds>>
  BY DEF Deny, AskApproval, Withdraw, FinishCall
<1>2. host.call # None /\ host.call \in Requests /\ host.phase # "off"
  BY <1>1, AtRequest
<1>3. ASSUME NEW o, Records(CallFinished(host.call, o), Reply(host.id, host.call))
      PROVE  LogKept
  <2> DEFINE rec == CallFinished(host.call, o)
  <2>1. rec.type = "tool_call_finished" /\ rec.call \in Requests
    BY <1>2, RecordKinds
  <2>2. Allowed(rec) => MayAppend(log, rec)
    BY <1>1, MayFinish
  <2>3. Records(rec, Reply(host.id, host.call))
    BY <1>3
  <2> HIDE DEF rec
  <2>4. "using" # "gating"
    OBVIOUS
  <2> QED BY <1>1, <1>2, <2>1, <2>2, <2>3, <2>4, HostRecords
<1>4. CASE AskApproval
  <2> DEFINE rec == AskPerson(host.call)
  <2>1. rec.type = "suspended"
    BY RecordKinds
  <2>2. Allowed(rec) => MayAppend(log, rec)
    BY <1>4, MayAsk DEF AskApproval
  <2>3. Records(rec, Stays("asked"))
    BY <1>4 DEF AskApproval
  <2> HIDE DEF rec
  <2>4. "asked" # "gating"
    OBVIOUS
  <2> QED BY <1>1, <1>2, <2>1, <2>2, <2>3, <2>4, HostRecords
<1>5. CASE Withdraw
  <2> DEFINE rec == Resumed("denied")
  <2>1. rec.type = "resumed"
    BY RecordKinds
  <2>2. Allowed(rec) => MayAppend(log, rec)
    BY AllowedAccepted, MayResume
  <2>3. Records(rec, Stays("withdrawn"))
    BY <1>5 DEF Withdraw
  <2> HIDE DEF rec
  <2>4. "withdrawn" # "gating"
    OBVIOUS
  <2> QED BY <1>1, <1>2, <2>1, <2>2, <2>3, <2>4, HostRecords
<1>6. CASE Deny
  BY <1>3, <1>6 DEF Deny
<1>7. CASE FinishCall
  BY <1>3, <1>7 DEF FinishCall
<1> QED BY <1>4, <1>5, <1>6, <1>7

\* The end of a conversation.
LEMMA LogOfHear ==
  ASSUME Shape, Tidy(log), Wired, Engine, Hear
  PROVE  LogKept
<1>1. /\ host.phase = "reading" /\ attempt' = "returning" /\ host' = Off
      /\ UNCHANGED <<log, view, spent, ran, dangling, program>>
  BY DEF Hear, Ends
<1>2. Tidy(log') /\ Journaled
  BY <1>1, Silent
<1>3. Engine'
  BY <1>1, <1>2, Conversing, HostStep DEF Off, HostAt, InProgram
<1> QED BY <1>2, <1>3 DEF LogKept

-----------------------------------------------------------------------------
(* The steps of the loop, as the log sees them *)

\* Every append that may be under way when a conversation is cut short.
LEMMA MayLand ==
  ASSUME Shape, Tidy(log), Wired, Engine, NEW rec \in InFlight, Allowed(rec)
  PROVE  /\ MayAppend(log, rec)
         /\ rec.type \in {"tool_call_started", "tool_call_finished", "suspended", "resumed"}
         /\ rec.type \in {"tool_call_started", "tool_call_finished"} => rec.call \in Requests
<1>1. CASE host.phase = "reading" /\ toHost # <<>> /\ Head(toHost).type = "call" /\ WithinBudget
  <2>1. rec = StartRecord(Head(toHost).call)
    BY <1>1 DEF InFlight
  <2>2. Head(toHost).call \in Requests
    <3>1. Head(toHost) = toHost[1] /\ 1 \in DOMAIN toHost
      BY <1>1 DEF Shape
    <3> QED BY <1>1, <3>1 DEF Wired
  <2>3. MayAppend(log, rec)
    BY <1>1, <2>1, <2>2, MayStart
  <2> QED BY <2>1, <2>2, <2>3, RecordKinds
<1>2. CASE host.phase = "gating" /\ Gate(host.call) = "ask"
  <2>1. rec = AskPerson(host.call)
    BY <1>2 DEF InFlight
  <2>2. MayAppend(log, rec)
    BY <1>2, <2>1, MayAsk
  <2> QED BY <2>1, <2>2, RecordKinds
<1>3. ASSUME host.phase \notin {"off", "reading"}, NEW o, rec = CallFinished(host.call, o)
      PROVE  /\ MayAppend(log, rec) /\ rec.type = "tool_call_finished" /\ rec.call \in Requests
  <2>1. MayAppend(log, rec)
    BY <1>3, MayFinish
  <2>2. host.call \in Requests
    BY <1>3, AtRequest
  <2> QED BY <1>3, <2>1, <2>2, RecordKinds
<1>4. CASE host.phase = "gating" /\ Gate(host.call) = "deny"
  BY <1>3, <1>4 DEF InFlight
<1>5. CASE host.phase = "asked"
  <2>1. rec = Resumed("denied")
    BY <1>5 DEF InFlight
  <2>2. MayAppend(log, rec)
    BY <2>1, AllowedAccepted, MayResume
  <2> QED BY <2>1, <2>2, RecordKinds
<1>6. CASE host.phase = "withdrawn"
  BY <1>3, <1>6 DEF InFlight
<1>7. CASE host.phase = "using"
  BY <1>3, <1>7 DEF InFlight
<1> QED BY <1>1, <1>2, <1>4, <1>5, <1>6, <1>7 DEF InFlight

\* What the log says of the calls grows in every step but that which begins a
\* program.
LEMMA GrowsStep ==
  ASSUME Tidy(log), log' = log \/ \E rec : Wrote(rec)
  PROVE  Grows
<1>1. Len(log) \in Nat
  BY DEF Tidy, ProperLog
<1>2. CASE log' = log
  BY <1>1, <1>2 DEF Grows
<1> QED BY <1>2, WroteGrows

\* A conversation is cut short: what it was about to write may be in the log.
LEMMA LogOfCutShort ==
  ASSUME Shape, Tidy(log), Wired, Engine, NEW next \in {"returning", "leaving"}, CutShort(next)
  PROVE  LogKept
<1>1. /\ host.phase # "off" /\ host' = Off /\ attempt' = next /\ UNCHANGED <<dangling, program, ran>>
      /\ attempt \in InProgram /\ attempt' \in InProgram
  BY Conversing DEF CutShort, Cancelled, Ends, InProgram
<1>2. \/ log' = log /\ view' = view
      \/ \E rec : /\ MayAppend(log, rec) /\ (Write(<<rec>>) \/ (log' = Append(log, rec) /\ view' = view))
                  /\ rec.type \in {"tool_call_started", "tool_call_finished", "suspended", "resumed"}
                  /\ rec.type \in {"tool_call_started", "tool_call_finished"} => rec.call \in Requests
  <2>1. CASE host.phase = "using" /\ Allowed(CallFinished(host.call, "aborted"))
             /\ Write(<<CallFinished(host.call, "aborted")>>)
    <3>1. MayAppend(log, CallFinished(host.call, "aborted")) /\ host.call \in Requests
      BY <2>1, MayFinish, AtRequest
    <3> QED BY <2>1, <3>1, RecordKinds
  <2>2. CASE log' = log /\ view' = view
    BY <2>2
  <2>3. ASSUME NEW rec \in InFlight, Allowed(rec), log' = Append(log, rec), view' = view
        PROVE  /\ MayAppend(log, rec)
               /\ rec.type \in {"tool_call_started", "tool_call_finished", "suspended", "resumed"}
               /\ rec.type \in {"tool_call_started", "tool_call_finished"} => rec.call \in Requests
    BY <2>3, MayLand
  <2>4. \/ /\ host.phase = "using" /\ Allowed(CallFinished(host.call, "aborted"))
           /\ Write(<<CallFinished(host.call, "aborted")>>)
        \/ log' = log /\ view' = view
        \/ \E rec \in InFlight : Allowed(rec) /\ log' = Append(log, rec) /\ view' = view
    BY DEF CutShort
  <2> QED BY <2>1, <2>2, <2>3, <2>4
<1>3. CASE log' = log /\ view' = view
  <2>1. Tidy(log') /\ Journaled /\ Truth' = Truth
    BY <1>3, Silent
  <2>2. LoopOK'
    BY <1>1, <1>3, <2>1 DEF Engine, LoopOK, InProgram
  <2> QED BY <1>1, <1>3, <2>1, <2>2, GrowsStep, LoopStep DEF LogKept, Off, HostAt
<1>4. ASSUME NEW rec, MayAppend(log, rec), Write(<<rec>>) \/ (log' = Append(log, rec) /\ view' = view),
             rec.type \in {"tool_call_started", "tool_call_finished", "suspended", "resumed"},
             rec.type \in {"tool_call_started", "tool_call_finished"} => rec.call \in Requests
      PROVE  LogKept
  <2>1. Wrote(rec)
    BY <1>4, OneMore
  <2>2. LoopOK'
    BY <1>1, <1>4, <2>1, LoopInProgram DEF Engine
  <2>3. Tidy(log') /\ Journaled
    BY <2>1 DEF Wrote
  <2> QED BY <1>1, <2>1, <2>2, <2>3, GrowsStep, LoopStep DEF LogKept, Off, HostAt
<1> QED BY <1>2, <1>3, <1>4

\* A crash writes nothing.
LEMMA LogOfCrash ==
  ASSUME Shape, Tidy(log), Wired, Engine, Crash
  PROVE  LogKept
<1>1. /\ attempt # "settled" /\ attempt' = "off" /\ host' = Off /\ UNCHANGED <<log, view, ran>>
  BY DEF Crash
<1>2. Tidy(log') /\ Journaled
  BY <1>1, Silent
<1>3. LoopOK'
  BY <1>1, LoopElsewhere DEF Engine
<1> QED BY <1>1, <1>2, <1>3, GrowsStep, LoopStep DEF LogKept, Off, HostAt

\* A consumer resumes a suspended Run, at any time.
LEMMA LogOfAnswer ==
  ASSUME Shape, Tidy(log), Wired, Engine, Answer
  PROVE  LogKept
<1>1. PICK approved \in {"approved", "denied"} : log' = Append(log, Resumed(approved))
  BY DEF Answer
<1> DEFINE rec == Resumed(approved)
<1>2. /\ Caught.suspended /\ attempt' = (IF attempt = "parked" THEN "off" ELSE attempt)
      /\ UNCHANGED <<view, dangling, program, host, spent, ran>>
  BY DEF Answer
<1>3. Caught = Truth /\ ViewOK(Truth)
  BY CaughtIs
<1>4. Accepts(Reduced(log), rec) /\ attempt # "settled"
  BY <1>2, <1>3 DEF Engine, LoopOK, Accepts, RecordAccepted, Resumed, Truth, ViewOK
<1>5. MayAppend(log, rec)
  BY <1>4, MayResume
<1>6. rec.type = "resumed" /\ log' = Append(log, rec)
  BY <1>1, RecordKinds
<1> HIDE DEF rec
<1>7. Wrote(rec)
  BY <1>2, <1>5, <1>6, OneMore
<1>8. Tidy(log') /\ Journaled /\ Grows
  BY <1>7, GrowsStep DEF Wrote
<1>9. /\ Truth'.admitted = TRUE /\ Truth'.turn_open = FALSE /\ Truth'.model_call_open = FALSE
      /\ Truth'.settled = Truth.settled /\ Truth'.open_tool_calls = Truth.open_tool_calls
  <2>1. /\ Truth'.admitted = TRUE /\ Truth'.turn_open = FALSE /\ Truth'.model_call_open = FALSE
        /\ Truth'.settled = (IF rec.type = "run_settled" THEN TRUE ELSE Truth.settled)
        /\ Truth'.open_tool_calls = OpenCallsAfter(Truth, rec)
    BY <1>6, <1>7, FlagsAfter DEF Engine
  <2> QED BY <1>6, <2>1 DEF OpenCallsAfter
<1>10. LoopOK'
  <2>1. CASE attempt \in InProgram
    BY <1>2, <1>6, <1>7, <2>1, LoopInProgram DEF Engine, InProgram
  <2>2. CASE attempt = "recovering"
    <3>1. PICK k \in 1..Len(log) : /\ log[k].type = "attempt_started"
                                   /\ \A i \in 1..Len(log) : log[i].type = "tool_call_started" => i < k
      BY <2>2 DEF Engine, LoopOK
    <3>2. /\ k \in 1..Len(log') /\ log'[k] = log[k]
          /\ \A i \in 1..Len(log') : log'[i].type = "tool_call_started" => i < k
      BY <1>6, <1>7, <3>1 DEF Wrote, Extended
    <3> QED BY <1>2, <1>9, <2>2, <3>1, <3>2 DEF Engine, LoopOK
  <2>3. CASE attempt \in {"off", "parked", "looping"}
    <3>1. attempt' \in {"off", "parked", "looping"} /\ attempt # "settled"
      BY <1>2, <2>3
    <3>2. rec.type \notin {"turn_started", "model_call_started", "run_settled"}
      BY <1>6
    <3> QED BY <1>7, <3>1, <3>2, LoopElsewhere DEF Engine
  <2> QED BY <1>4, <2>1, <2>2, <2>3 DEF Shape, Phases, InProgram
<1>11. HostOK'
  <2>1. CallsOf(log', program) = CallsOf(log, program)
    BY <1>6, <1>7, SameCalls
  <2>2. Asked(host.call, log', Len(log')) <=> Asked(host.call, log, Len(log))
    BY <1>6, <1>7, PlacesAfter DEF Wrote
  <2> QED BY <1>2, <2>1, <2>2 DEF Engine, HostOK
<1>12. RanOK'
  BY <1>2, <1>8, RanKept DEF Engine
<1> QED BY <1>8, <1>10, <1>11, <1>12 DEF LogKept, Engine, Journaled

\* Nothing happens to the host while the loop is outside of a conversation.
LEMMA NoConversation ==
  ASSUME Wired, attempt # "running"
  PROVE  host = Off /\ host.phase = "off" /\ host.call = None
BY DEF Wired, Off, HostAt

\* An Attempt begins: what the log leaves open is what it has to close.
LEMMA LogOfBegin ==
  ASSUME Shape, Tidy(log), Wired, Engine, BeginAttempt
  PROVE  LogKept
<1>1. PICK rec : rec = [type |-> "attempt_started", number |-> Caught.attempt_count + 1]
  OBVIOUS
<1>2. /\ attempt = "off" /\ attempt' = "recovering" /\ dangling' = Caught.open_tool_calls
      /\ Write(<<rec>>) /\ ran' = ran /\ host' = host
  BY <1>1 DEF BeginAttempt, LoopOnly
<1>3. Caught = Truth /\ ViewOK(Truth)
  BY CaughtIs
<1>4. rec.type = "attempt_started" /\ rec.number = Truth.attempt_count + 1
  BY <1>1, <1>3
<1>5. Accepts(Reduced(log), rec)
  BY <1>2, <1>3, <1>4 DEF Engine, LoopOK, Accepts, RecordAccepted, AttemptAccepted, Truth, ViewOK
<1>6. MayAppend(log, rec)
  BY <1>4, <1>5, MayWrite
<1>7. Wrote(rec)
  BY <1>2, <1>6, OneMore
<1>8. /\ Truth'.admitted = TRUE /\ Truth'.turn_open = FALSE /\ Truth'.model_call_open = FALSE
      /\ Truth'.settled = Truth.settled /\ Truth'.open_tool_calls = Truth.open_tool_calls
  <2>1. /\ Truth'.admitted = TRUE /\ Truth'.turn_open = FALSE /\ Truth'.model_call_open = FALSE
        /\ Truth'.settled = (IF rec.type = "run_settled" THEN TRUE ELSE Truth.settled)
        /\ Truth'.open_tool_calls = OpenCallsAfter(Truth, rec)
    BY <1>4, <1>7, FlagsAfter DEF Engine
  <2> QED BY <1>4, <2>1 DEF OpenCallsAfter
<1>9. \E k \in 1..Len(log') : /\ log'[k].type = "attempt_started"
                              /\ \A i \in 1..Len(log') : log'[i].type = "tool_call_started" => i < k
  <2> DEFINE k == Len(log) + 1
  <2>1. k \in 1..Len(log') /\ log'[k].type = "attempt_started"
    BY <1>4, <1>7 DEF Wrote, Extended
  <2>2. \A i \in 1..Len(log') : i < k \/ i = k
    BY <1>7 DEF Wrote, Extended
  <2>3. \A i \in 1..Len(log') : log'[i].type = "tool_call_started" => i < k
    BY <2>1, <2>2
  <2> QED BY <2>1, <2>3
<1>10. LoopOK'
  BY <1>2, <1>3, <1>8, <1>9 DEF Engine, LoopOK
<1> QED BY <1>2, <1>7, <1>10, NoConversation, GrowsStep, LoopStep DEF LogKept, Wrote

\* A call a dead Attempt left open is closed; its tool is run if, and only if, a
\* person has approved it.
LEMMA LogOfSettleCall ==
  ASSUME Shape, Tidy(log), Wired, Engine, SettleCall
  PROVE  LogKept
<1> DEFINE outcome(c) == CASE view.approval_decisions[c] = "approved" -> "ok"
                           [] view.approval_decisions[c] = "denied" -> "error"
                           [] OTHER -> "unknown"
<1>1. PICK call \in dangling :
        /\ ran' = (IF view.approval_decisions[call] = "approved" THEN [ran EXCEPT ![call] = @ + 1] ELSE ran)
        /\ Write(<<CallFinished(call, outcome(call))>>)
        /\ dangling' = dangling \ {call}
  BY DEF SettleCall
<1>2. /\ attempt = "recovering" /\ UNCHANGED <<attempt, program, host>>
  BY DEF SettleCall, LoopOnly
<1>3. PICK rec : rec = CallFinished(call, outcome(call))
  OBVIOUS
<1>4. rec.type = "tool_call_finished" /\ rec.call = call /\ call \in Calls
  BY <1>3, RecordKinds DEF Shape
<1>5. MayAppend(log, rec)
  BY <1>2, <1>4, EndsDangling
<1>6. Wrote(rec)
  BY <1>1, <1>3, <1>5, OneMore
<1>7. /\ Truth'.admitted = TRUE /\ Truth'.turn_open = FALSE /\ Truth'.model_call_open = FALSE
      /\ Truth'.settled = Truth.settled /\ Truth'.open_tool_calls = Truth.open_tool_calls \ {call}
  <2>1. /\ Truth'.admitted = TRUE /\ Truth'.turn_open = FALSE /\ Truth'.model_call_open = FALSE
        /\ Truth'.settled = (IF rec.type = "run_settled" THEN TRUE ELSE Truth.settled)
        /\ Truth'.open_tool_calls = OpenCallsAfter(Truth, rec)
    BY <1>4, <1>6, FlagsAfter DEF Engine
  <2> QED BY <1>4, <2>1 DEF OpenCallsAfter
<1>8. LoopOK'
  <2>1. PICK k \in 1..Len(log) : /\ log[k].type = "attempt_started"
                                 /\ \A i \in 1..Len(log) : log[i].type = "tool_call_started" => i < k
    BY <1>2 DEF Engine, LoopOK
  <2>2. /\ k \in 1..Len(log') /\ log'[k] = log[k]
        /\ \A i \in 1..Len(log') : log'[i].type = "tool_call_started" => i < k
    BY <1>4, <1>6, <2>1 DEF Wrote, Extended
  <2> QED BY <1>1, <1>2, <1>7, <2>1, <2>2 DEF Engine, LoopOK
<1>9. Grows /\ Journaled
  BY <1>6, GrowsStep DEF Wrote
<1>10. ASSUME view.approval_decisions[call] = "approved"
       PROVE  /\ call \in Requests /\ Gate(call) = "ask" /\ \E i \in 1..Len(log') : StartsAt(log', call, i)
              /\ view'.approval_decisions[call] = "approved" /\ \E i \in 1..Len(log') : EndsAt(log', call, i)
  <2>1. ProperLog(log) /\ view.head_seq \in 0..Len(log) /\ view = Prefix(log, view.head_seq).view
    BY CaughtIs DEF Tidy, Engine
  <2>2. DecisionsOK(view, log, view.head_seq)
    BY <2>1, AnswersInLog
  <2>3. Asked(call, log, view.head_seq)
    BY <1>4, <1>10, <2>2, ProgramsAssumption DEF DecisionsOK
  <2>4. PICK a \in 1..Len(log) : log[a].type = "suspended" /\ log[a].call = call
    <3>1. \A i \in 1..view.head_seq : i \in 1..Len(log)
      BY <2>1
    <3> QED BY <2>3, <3>1 DEF Asked
  <2>5. call \in Requests /\ Gate(call) = "ask" /\ \E j \in 1..Len(log) : StartsAt(log, call, j)
    BY <2>4 DEF Tidy, Sorts
  <2>6. \E i \in 1..Len(log') : StartsAt(log', call, i)
    BY <1>9, <2>5 DEF Grows, StartsAt
  <2>7. EndsAt(log', call, Len(log) + 1)
    BY <1>4, <1>6 DEF Wrote, Extended, EndsAt
  <2> QED BY <1>4, <1>9, <1>10, <2>5, <2>6, <2>7 DEF Journaled, EndsAt
<1>11. RanOK'
  <2>1. ASSUME NEW c \in Calls, ran'[c] = 1
        PROVE  ran[c] = 1 \/ (c = call /\ view.approval_decisions[call] = "approved")
    BY <1>1, <2>1 DEF Shape
  <2>2. RanOK
    BY DEF Engine
  <2>3. \A c \in Calls : ran'[c] = 1 => ran[c] = 1 \/
          /\ c \in Requests /\ \E i \in 1..Len(log') : StartsAt(log', c, i)
          /\ \/ Gate(c) = "allow"
             \/ /\ Gate(c) = "ask" /\ view'.approval_decisions[c] = "approved"
                /\ \E i \in 1..Len(log') : EndsAt(log', c, i)
    BY <1>10, <2>1
  <2> QED BY <1>9, <2>2, <2>3, RanKept
<1>12. HostOK'
  BY <1>2, NoConversation DEF HostOK
<1> QED BY <1>6, <1>8, <1>11, <1>12 DEF LogKept, Wrote, Engine, Journaled

\* The loop goes on, or parks the Run.
LEMMA LogOfPause ==
  ASSUME Shape, Tidy(log), Wired, Engine, Recovered \/ Park
  PROVE  LogKept
<1>1. /\ log' = log /\ (view' = view \/ view' = Caught) /\ ran' = ran /\ host' = host
      /\ attempt \in {"recovering", "looping"} /\ attempt' \in {"looping", "parked"}
  BY DEF Recovered, Park, LoopOnly
<1>2. Tidy(log') /\ Journaled
  BY <1>1, Silent
<1>3. LoopOK'
  BY <1>1, LoopElsewhere DEF Engine
<1> QED BY <1>1, <1>2, <1>3, NoConversation, GrowsStep, LoopStep DEF LogKept

\* The Run is settled.
LEMMA LogOfSettle ==
  ASSUME Shape, Tidy(log), Wired, Engine, Settle
  PROVE  LogKept
<1>1. PICK rec : rec = [type |-> "run_settled", state |-> "completed"]
  OBVIOUS
<1>2. /\ attempt = "looping" /\ attempt' = "settled" /\ ~Caught.suspended
      /\ Write(<<rec>>) /\ ran' = ran /\ host' = host
  BY <1>1 DEF Settle, LoopOnly
<1>3. Caught = Truth /\ ViewOK(Truth)
  BY CaughtIs
<1>4. rec.type = "run_settled"
  BY <1>1
<1>5. Accepts(Reduced(log), rec)
  BY <1>4 DEF Accepts, RecordAccepted
<1>6. MayAppend(log, rec)
  BY <1>4, <1>5, MayWrite
<1>7. Wrote(rec)
  BY <1>2, <1>6, OneMore
<1>8. /\ Truth'.admitted = TRUE /\ Truth'.turn_open = FALSE /\ Truth'.model_call_open = FALSE
      /\ Truth'.settled = TRUE /\ Truth'.suspended = FALSE
  <2>1. /\ Truth'.admitted = TRUE /\ Truth'.turn_open = FALSE /\ Truth'.model_call_open = FALSE
        /\ Truth'.settled = (IF rec.type = "run_settled" THEN TRUE ELSE Truth.settled)
        /\ Truth'.suspended = SuspendedAfter(Truth, rec)
    BY <1>4, <1>7, FlagsAfter DEF Engine
  <2> QED BY <1>2, <1>3, <1>4, <2>1 DEF SuspendedAfter, ViewOK
<1>9. LoopOK'
  BY <1>2, <1>8 DEF LoopOK
<1> QED BY <1>2, <1>7, <1>9, NoConversation, GrowsStep, LoopStep DEF LogKept, Wrote

\* The result of the program, when the Journal lets it.
LEMMA LogOfRecordProgram ==
  ASSUME Shape, Tidy(log), Wired, Engine, RecordProgram
  PROVE  LogKept
<1>1. PICK rec : rec = CallFinished(program, IF attempt = "leaving" THEN "aborted" ELSE "ok")
  OBVIOUS
<1>2. /\ attempt \in {"returning", "leaving"} /\ attempt' \in {"off", "looping"}
      /\ ran' = ran /\ host' = host
      /\ IF Allowed(rec) THEN Write(<<rec>>) ELSE UNCHANGED <<log, view>>
  BY <1>1 DEF RecordProgram, LoopOnly
<1>3. rec.type = "tool_call_finished" /\ rec.call = program /\ program \in CodeCalls
  BY <1>1, <1>2, RecordKinds DEF Engine, LoopOK
<1>4. CASE Allowed(rec)
  <2>1. MayAppend(log, rec)
    BY <1>3, <1>4, AllowedAccepted, EndsProgram
  <2>2. Wrote(rec)
    BY <1>2, <1>4, <2>1, OneMore
  <2>3. LoopOK'
    <3>1. rec.type \notin {"turn_started", "model_call_started", "run_settled"}
      BY <1>3
    <3> QED BY <1>2, <2>2, <3>1, LoopElsewhere DEF Engine
  <2> QED BY <1>2, <2>2, <2>3, NoConversation, GrowsStep, LoopStep DEF LogKept, Wrote
<1>5. CASE ~Allowed(rec)
  <2>1. Tidy(log') /\ Journaled /\ log' = log
    BY <1>2, <1>5, Silent
  <2>2. LoopOK'
    BY <1>2, <2>1, LoopElsewhere DEF Engine
  <2> QED BY <1>2, <2>1, <2>2, NoConversation, GrowsStep, LoopStep DEF LogKept
<1> QED BY <1>4, <1>5

-----------------------------------------------------------------------------
(* Several records in one append *)

\* After records recs, which the Journal of the state folds, the log is s.
Built(recs, s) ==
  /\ recs \in Seq(InSeq(recs)) /\ log \o recs = s
  /\ ReducedFrom(Caught, recs) = Reduced(s)
  /\ Tidy(s) /\ Len(log) <= Len(s) /\ \A n \in 0..Len(log) : Prefix(s, n) = Prefix(log, n)

\* Before the first record.
LEMMA BuiltNone ==
  ASSUME Shape, Tidy(log), Engine
  PROVE  Built(<<>>, log)
<1>1. Started(Caught) = Reduced(log) /\ Len(log) \in Nat /\ log \in Seq(InSeq(log))
  BY CaughtIs DEF Tidy, ProperLog
<1>2. <<>> \in Seq(InSeq(<<>>)) /\ Len(<<>>) = 0 /\ log \o <<>> = log
  BY <1>1
<1>3. ReducedFrom(Caught, <<>>) = Started(Caught)
  BY <1>2, FoldEmpty DEF ReducedFrom
<1> QED BY <1>1, <1>2, <1>3 DEF Built

\* One more record.
LEMMA BuiltOn ==
  ASSUME Shape, Tidy(log), Engine, NEW recs, NEW s, Built(recs, s), NEW rec, MayAppend(s, rec),
         NEW q, q = Append(recs, rec), NEW t, t = Append(s, rec)
  PROVE  Built(q, t) /\ Extended(s, rec, t) /\ Effect(Reduced(s).view, rec, Reduced(t).view)
<1>1. /\ Extended(s, rec, t) /\ Tidy(t) /\ Effect(Reduced(s).view, rec, Reduced(t).view)
      /\ \A n \in 0..Len(s) : Prefix(t, n) = Prefix(s, n)
  <2>1. Tidy(s)
    BY DEF Built
  <2> QED BY <2>1, TidyAfter
<1>2. q \in Seq(InSeq(q))
  BY AppendedLog DEF Built
<1>3. ReducedFrom(Caught, q) = Reduced(t)
  <2>1. ReducedFrom(Caught, q) = Folded(ReducedFrom(Caught, recs), rec)
    BY FoldAppend DEF ReducedFrom, Built
  <2>2. s \in Seq(InSeq(s))
    BY DEF Built, Tidy, ProperLog
  <2>3. Reduced(t) = Folded(Reduced(s), rec)
    BY <2>2, FoldAppend DEF Reduced
  <2> QED BY <2>1, <2>2, <2>3 DEF Built
<1>4. log \o q = t
  <2> DEFINE S == InSeq(log) \cup InSeq(recs) \cup {rec}
  <2>1. log \in Seq(S) /\ recs \in Seq(S) /\ rec \in S
    <3>1. log \in Seq(InSeq(log)) /\ recs \in Seq(InSeq(recs))
      BY DEF Built, Tidy, ProperLog
    <3> QED BY <3>1
  <2> HIDE DEF S
  <2>2. log \o Append(recs, rec) = Append(log \o recs, rec)
    BY <2>1
  <2> QED BY <2>2 DEF Built
<1>5. Len(log) \in Nat /\ Len(s) \in Nat /\ Len(t) = Len(s) + 1
  BY <1>1, CaughtIs DEF Extended
<1>6. Len(log) <= Len(t) /\ \A n \in 0..Len(log) : n \in 0..Len(s)
  BY <1>5 DEF Built
<1>7. \A n \in 0..Len(log) : Prefix(t, n) = Prefix(log, n)
  BY <1>1, <1>6 DEF Built
<1> QED BY <1>1, <1>2, <1>3, <1>4, <1>6, <1>7 DEF Built

\* The records are written.
LEMMA BuiltWritten ==
  ASSUME Shape, Tidy(log), Engine, NEW recs, NEW s, Built(recs, s), Write(recs)
  PROVE  log' = s /\ Tidy(log') /\ Journaled /\ Len(log) <= Len(log')
<1>1. log' = s /\ view' = Reduced(s).view
  BY DEF Built, Write
<1>2. view' = Truth'
  BY <1>1 DEF Truth
<1>3. Tidy(log') /\ Len(log) <= Len(log') /\ \A n \in 0..Len(log) : Prefix(log', n) = Prefix(log, n)
  BY <1>1 DEF Built
<1> QED BY <1>1, <1>2, <1>3, JournaledStep

\* Known is what has started.
LEMMA KnownIs ==
  ASSUME Tidy(log), NEW c
  PROVE  c \in Known <=> \E i \in 1..Len(log) : StartsAt(log, c, i)
<1>1. DOMAIN log = 1..Len(log)
  BY DEF Tidy, ProperLog
<1> QED BY <1>1 DEF Known, StartsAt

\* A sequence that is another one and then e.
LEMMA AppendIs ==
  ASSUME NEW S, NEW t \in Seq(S), NEW u \in Seq(S), NEW e \in S, Len(u) = Len(t) + 1,
         \A i \in 1..Len(t) : u[i] = t[i], u[Len(t) + 1] = e
  PROVE  Append(t, e) = u
<1>1. /\ Append(t, e) \in Seq(S) /\ Len(Append(t, e)) = Len(t) + 1 /\ Append(t, e)[Len(t) + 1] = e
      /\ \A i \in 1..Len(t) : Append(t, e)[i] = t[i]
  BY AppendProperties
<1>2. \A i \in 1..Len(t) + 1 : i \in 1..Len(t) \/ i = Len(t) + 1
  OBVIOUS
<1> QED BY <1>1, <1>2, SeqEqual

\* The records of a turn, one by one.
LEMMA FourInTurn ==
  ASSUME NEW a, NEW b, NEW c, NEW d
  PROVE  /\ Append(<<>>, a) = <<a>> /\ Append(<<a>>, b) = <<a, b>>
         /\ Append(<<a, b>>, c) = <<a, b, c>> /\ Append(<<a, b, c>>, d) = <<a, b, c, d>>
<1> DEFINE S == {a, b, c, d}
<1>1. a \in S /\ b \in S /\ c \in S /\ d \in S
  OBVIOUS
<1> HIDE DEF S
<1>2. PICK t : t = <<a>>
  OBVIOUS
<1>3. PICK u : u = <<a, b>>
  OBVIOUS
<1>4. PICK v : v = <<a, b, c>>
  OBVIOUS
<1>5. PICK w : w = <<a, b, c, d>>
  OBVIOUS
<1>6. t \in Seq(S) /\ Len(t) = 1 /\ t[1] = a
  BY <1>1, <1>2
<1>7. u \in Seq(S) /\ Len(u) = 2 /\ u[1] = a /\ u[2] = b
  BY <1>1, <1>3
<1>8. v \in Seq(S) /\ Len(v) = 3 /\ v[1] = a /\ v[2] = b /\ v[3] = c
  BY <1>1, <1>4
<1>9. w \in Seq(S) /\ Len(w) = 4 /\ w[1] = a /\ w[2] = b /\ w[3] = c /\ w[4] = d
  BY <1>1, <1>5
<1>10. Append(<<>>, a) = <<a>>
  OBVIOUS
<1>11. Append(t, b) = u
  <2>1. \A i \in 1..Len(t) : i = 1
    BY <1>6
  <2>2. Len(t) + 1 = 2
    BY <1>6
  <2>3. \A i \in 1..Len(t) : u[i] = t[i]
    BY <1>6, <1>7, <2>1
  <2>4. u[Len(t) + 1] = b /\ Len(u) = Len(t) + 1
    BY <1>7, <2>2
  <2>5. t \in Seq(S) /\ u \in Seq(S) /\ b \in S
    BY <1>1, <1>6, <1>7
  <2> QED BY <2>3, <2>4, <2>5, AppendIs
<1>12. Append(u, c) = v
  <2>1. \A i \in 1..Len(u) : i = 1 \/ i = 2
    BY <1>7
  <2>2. Len(u) + 1 = 3
    BY <1>7
  <2>3. \A i \in 1..Len(u) : v[i] = u[i]
    BY <1>7, <1>8, <2>1
  <2>4. v[Len(u) + 1] = c /\ Len(v) = Len(u) + 1
    BY <1>8, <2>2
  <2>5. u \in Seq(S) /\ v \in Seq(S) /\ c \in S
    BY <1>1, <1>7, <1>8
  <2> QED BY <2>3, <2>4, <2>5, AppendIs
<1>13. Append(v, d) = w
  <2>1. \A i \in 1..Len(v) : i = 1 \/ i = 2 \/ i = 3
    BY <1>8
  <2>2. Len(v) + 1 = 4
    BY <1>8
  <2>3. \A i \in 1..Len(v) : w[i] = v[i]
    BY <1>8, <1>9, <2>1
  <2>4. w[Len(v) + 1] = d /\ Len(w) = Len(v) + 1
    BY <1>9, <2>2
  <2>5. v \in Seq(S) /\ w \in Seq(S) /\ d \in S
    BY <1>1, <1>8, <1>9
  <2> QED BY <2>3, <2>4, <2>5, AppendIs
<1> QED BY <1>2, <1>3, <1>4, <1>5, <1>10, <1>11, <1>12, <1>13
\* A turn whose answer is one program.
LEMMA LogOfRunCode ==
  ASSUME Shape, Tidy(log), Wired, Engine, RunCode
  PROVE  LogKept
<1> DEFINE turn == Caught.turn + 1
<1>1. PICK call : call = CHOOSE c \in CodeCalls \ Known : TRUE
  OBVIOUS
<1>2. PICK r1 : r1 = [type |-> "turn_started", turn |-> turn]
  OBVIOUS
<1>3. PICK r2 : r2 = [type |-> "model_call_started", turn |-> turn]
  OBVIOUS
<1>4. PICK r3 : r3 = [type |-> "model_call_finished", turn |-> turn, currency |-> None]
  OBVIOUS
<1>5. PICK r4 : r4 = CallStarted(call, None, turn)
  OBVIOUS
<1>6. /\ attempt = "looping" /\ ~Caught.suspended /\ call \in CodeCalls \ Known
      /\ Write(<<r1, r2, r3, r4>>)
      /\ attempt' = "running" /\ program' = call /\ host' = Reading /\ spent' = 0 /\ ran' = ran
  BY <1>1, <1>2, <1>3, <1>4, <1>5 DEF RunCode
<1>7. /\ r1.type = "turn_started" /\ r1.turn = turn
      /\ r2.type = "model_call_started" /\ r2.turn = turn
      /\ r3.type = "model_call_finished" /\ r3.turn = turn /\ r3.currency = None
      /\ r4.type = "tool_call_started" /\ r4.turn = turn /\ r4.call = call /\ r4.parent = None
      /\ r4.handle = None
  BY <1>2, <1>3, <1>4, <1>5 DEF CallStarted
<1>8. Caught = Truth /\ ViewOK(Truth) /\ turn = Truth.turn + 1 /\ Truth.turn \in Nat
  BY CaughtIs DEF ViewOK
<1> HIDE DEF turn
<1>9. /\ Truth.settled = FALSE /\ Truth.admitted = TRUE /\ Truth.turn_open = FALSE
      /\ Truth.model_call_open = FALSE /\ Truth.suspended = FALSE
  BY <1>6, <1>8 DEF Engine, LoopOK, ViewOK
<1>10. PICK s1 : s1 = Append(log, r1)
  OBVIOUS
<1>11. PICK s2 : s2 = Append(s1, r2)
  OBVIOUS
<1>12. PICK s3 : s3 = Append(s2, r3)
  OBVIOUS
<1>13. PICK s4 : s4 = Append(s3, r4)
  OBVIOUS
<1>14. /\ Append(<<>>, r1) = <<r1>> /\ Append(<<r1>>, r2) = <<r1, r2>>
       /\ Append(<<r1, r2>>, r3) = <<r1, r2, r3>>
       /\ Append(<<r1, r2, r3>>, r4) = <<r1, r2, r3, r4>>
  BY FourInTurn
<1> DEFINE v1 == Reduced(s1).view
           v2 == Reduced(s2).view
           v3 == Reduced(s3).view
           v4 == Reduced(s4).view
<1>15. Built(<<r1>>, s1) /\ Extended(log, r1, s1) /\ Effect(Truth, r1, v1)
  <2>1. Accepts(Reduced(log), r1)
    BY <1>7, <1>8, <1>9 DEF Accepts, RecordAccepted, Truth
  <2>2. MayAppend(log, r1)
    BY <1>7, <2>1, MayWrite
  <2> QED BY <1>10, <1>14, <2>2, BuiltNone, BuiltOn DEF Truth
<1> HIDE DEF v1
<1>16. /\ v1.settled = FALSE /\ v1.admitted = TRUE /\ v1.turn_open = TRUE
       /\ v1.model_call_open = FALSE /\ v1.turn = turn
  BY <1>7, <1>9, <1>15 DEF Effect, TurnOpenAfter, ModelCallOpenAfter
<1>17. Built(<<r1, r2>>, s2) /\ Extended(s1, r2, s2) /\ Effect(v1, r2, v2)
  <2>1. Accepts(Reduced(s1), r2)
    BY <1>7, <1>16 DEF Accepts, RecordAccepted, v1
  <2>2. MayAppend(s1, r2)
    BY <1>7, <2>1, MayWrite
  <2> QED BY <1>11, <1>14, <1>15, <2>2, BuiltOn DEF v1
<1> HIDE DEF v2
<1>18. /\ v2.settled = FALSE /\ v2.admitted = TRUE /\ v2.turn_open = TRUE
       /\ v2.model_call_open = TRUE /\ v2.turn = turn
  BY <1>7, <1>16, <1>17 DEF Effect, TurnOpenAfter, ModelCallOpenAfter
<1>19. Built(<<r1, r2, r3>>, s3) /\ Extended(s2, r3, s3) /\ Effect(v2, r3, v3)
  <2>1. Accepts(Reduced(s2), r3)
    BY <1>7, <1>18 DEF Accepts, RecordAccepted, CurrencyAccepted, v2
  <2>2. MayAppend(s2, r3)
    BY <1>7, <2>1, MayWrite
  <2> QED BY <1>12, <1>14, <1>17, <2>2, BuiltOn DEF v2
<1> HIDE DEF v3
<1>20. /\ v3.settled = FALSE /\ v3.admitted = TRUE /\ v3.turn_open = FALSE
       /\ v3.model_call_open = FALSE /\ v3.turn = turn
  BY <1>7, <1>18, <1>19 DEF Effect, TurnOpenAfter, ModelCallOpenAfter
<1>21. /\ \A c, i : StartsAt(s3, c, i) <=> StartsAt(log, c, i)
       /\ \A c, i : EndsAt(s3, c, i) <=> EndsAt(log, c, i)
  <2>1. \A c, i : /\ StartsAt(s1, c, i) <=> StartsAt(log, c, i)
                  /\ EndsAt(s1, c, i) <=> EndsAt(log, c, i)
    BY <1>7, <1>15, PlacesAfter DEF IsStart, IsEnd
  <2>2. \A c, i : /\ StartsAt(s2, c, i) <=> StartsAt(s1, c, i)
                  /\ EndsAt(s2, c, i) <=> EndsAt(s1, c, i)
    BY <1>7, <1>17, PlacesAfter DEF IsStart, IsEnd
  <2>3. \A c, i : /\ StartsAt(s3, c, i) <=> StartsAt(s2, c, i)
                  /\ EndsAt(s3, c, i) <=> EndsAt(s2, c, i)
    BY <1>7, <1>19, PlacesAfter DEF IsStart, IsEnd
  <2> QED BY <2>1, <2>2, <2>3
<1>22. ProperLog(s3) /\ Sorts(s3) /\ ProperLog(log)
  BY <1>19 DEF Built, Tidy
<1>23. call \notin StartedCalls(v3)
  <2>1. \A i : ~StartsAt(log, call, i)
    BY <1>6, KnownIs DEF StartsAt
  <2> QED BY <1>21, <1>22, <2>1, CallsKnown DEF v3
<1>24. Built(<<r1, r2, r3, r4>>, s4) /\ Extended(s3, r4, s4) /\ Effect(v3, r4, v4) /\ Accepts(Reduced(s3), r4)
  <2>1. Accepts(Reduced(s3), r4)
    <3>1. turn # 0
      BY <1>8
    <3> QED BY <1>7, <1>20, <1>23, <3>1 DEF Accepts, RecordAccepted, ToolCallAccepted, v3
  <2>2. MayAppend(s3, r4)
    <3>1. WellFormed(r4)
      BY <1>6, <1>7, ProgramsAssumption DEF WellFormed
    <3> QED BY <1>6, <1>7, <2>1, <3>1 DEF MayAppend, RecordTypes
  <2> QED BY <1>13, <1>14, <1>19, <2>1, <2>2, BuiltOn DEF v3
<1>25. log' = s4 /\ Tidy(log') /\ Journaled /\ Len(log) <= Len(log')
  BY <1>6, <1>24, BuiltWritten
<1>26. Current(log', call)
  <2>1. \A i \in 1..Len(s3) : ~StartsAt(s3, call, i) /\ ~EndsAt(s3, call, i)
    BY <1>7, <1>22, <1>24, NewCall
  <2> QED BY <1>7, <1>24, <1>25, <2>1, CurrentBegins DEF IsStart
<1>27. LoopOK'
  <2>1. /\ v4.admitted = TRUE /\ v4.settled = FALSE /\ v4.turn_open = FALSE /\ v4.model_call_open = FALSE
    BY <1>7, <1>20, <1>24 DEF Effect, TurnOpenAfter, ModelCallOpenAfter
  <2>2. Truth' = v4
    BY <1>25 DEF Truth
  <2> HIDE DEF v4
  <2> QED BY <1>6, <1>26, <2>1, <2>2 DEF LoopOK
<1>28. CallsOf(log', call) = {}
  <2>1. CallsOf(s4, call) = CallsOf(s3, call)
    <3>1. CallsOf(s4, call) = CallsOf(s3, call) \cup
            (IF r4.type = "tool_call_started" /\ r4.parent = call THEN {r4.call} ELSE {})
      BY <1>24, CallsOfAfter
    <3> QED BY <1>6, <1>7, <3>1, CallKinds
  <2>2. \A j \in CallPlaces(s3, call) : FALSE
    <3>1. \A i : ~StartsAt(s3, call, i)
      <4>1. \A i \in 1..Len(log) : ~StartsAt(log, call, i)
        <5>1. call \in Known <=> \E i \in 1..Len(log) : StartsAt(log, call, i)
          BY KnownIs
        <5> QED BY <1>6, <5>1
      <4>2. \A i : StartsAt(log, call, i) => i \in 1..Len(log)
        BY DEF StartsAt
      <4> QED BY <1>21, <4>1, <4>2
    <3>2. ASSUME NEW j \in CallPlaces(s3, call) PROVE \E i : StartsAt(s3, s3[j].parent, i)
      <4>1. /\ j \in 1..Len(s3) /\ s3[j].type = "tool_call_started" /\ s3[j].parent = call
            /\ s3[j].parent # None
        BY <1>6, CallKinds DEF CallPlaces
      <4> QED BY <1>22, <4>1 DEF Sorts
    <3> QED BY <3>1, <3>2 DEF CallPlaces
  <2> QED BY <1>25, <2>1, <2>2 DEF CallsOf
<1>29. HostOK'
  <2>1. Cardinality({}) = 0
    BY FS_EmptySet
  <2> QED BY <1>6, <1>28, <2>1 DEF HostOK, Reading, HostAt
<1>30. Grows
  <2>1. \A c, i : /\ StartsAt(s3, c, i) => StartsAt(s4, c, i)
                  /\ EndsAt(s3, c, i) => EndsAt(s4, c, i)
    BY <1>24, PlacesAfter
  <2>2. Len(log) \in Nat /\ Len(s4) \in Nat
    BY <1>15, <1>24 DEF Extended
  <2> QED BY <1>21, <1>25, <2>1, <2>2 DEF Grows
<1>31. RanOK'
  BY <1>6, <1>25, <1>30, RanKept DEF Engine
<1> QED BY <1>25, <1>27, <1>29, <1>31 DEF LogKept, Engine, Journaled

-----------------------------------------------------------------------------
(* The types and the channel: what the steps have in common *)

\* The bounds of a behaviour are numbers, and its coroutines some of Tasks.
LEMMA SceneIs ==
  ASSUME Shape
  PROVE  scene.frames \in Nat /\ scene.mishaps \in Nat /\ scene.tasks \subseteq Tasks
BY ProgramsAssumption DEF Shape

\* The fields of the records the state is made of.
LEMMA Fields ==
  ASSUME Shape
  PROVE  /\ host.phase \in HostPhases /\ host.id \in Nat /\ host.call \in Mays
         /\ child.alive \in BOOLEAN /\ child.next \in Nat
         /\ child.pending \in SUBSET [id: Nat, task: Tasks] /\ child.task \in [Tasks -> TaskStates]
         /\ \A t \in Tasks : /\ child.task[t].asked \in Mays /\ child.task[t].id \in Nat
                             /\ child.task[t].got \in Mays
         /\ Len(toHost) \in Nat /\ DOMAIN toHost = 1..Len(toHost)
         /\ Len(toChild) \in Nat /\ DOMAIN toChild = 1..Len(toChild)
         /\ \A i \in DOMAIN toHost : toHost[i] \in Frames
         /\ \A i \in DOMAIN toChild : toChild[i] \in [id: Nat, call: Mays]
<1>1. /\ host \in [phase: HostPhases, id: Nat, call: Mays] /\ child \in ChildStatesOf
      /\ toHost \in Seq(Frames) /\ toChild \in Seq([id: Nat, call: Mays])
  BY DEF Shape
<1>2. host.phase \in HostPhases /\ host.id \in Nat /\ host.call \in Mays
  BY <1>1
<1>3. /\ child.alive \in BOOLEAN /\ child.next \in Nat
      /\ child.pending \in SUBSET [id: Nat, task: Tasks] /\ child.task \in [Tasks -> TaskStates]
  BY <1>1 DEF ChildStatesOf
<1>4. \A t \in Tasks : /\ child.task[t].asked \in Mays /\ child.task[t].id \in Nat
                       /\ child.task[t].got \in Mays
  BY <1>3 DEF TaskStates
<1>5. /\ Len(toHost) \in Nat /\ DOMAIN toHost = 1..Len(toHost)
      /\ \A i \in DOMAIN toHost : toHost[i] \in Frames
  BY <1>1
<1>6. /\ Len(toChild) \in Nat /\ DOMAIN toChild = 1..Len(toChild)
      /\ \A i \in DOMAIN toChild : toChild[i] \in [id: Nat, call: Mays]
  <2> DEFINE R == [id: Nat, call: Mays]
  <2>1. toChild \in Seq(R)
    BY <1>1
  <2> HIDE DEF R
  <2>2. /\ Len(toChild) \in Nat /\ DOMAIN toChild = 1..Len(toChild)
        /\ \A i \in DOMAIN toChild : toChild[i] \in R
    BY <2>1
  <2> QED BY <2>2 DEF R
<1> QED BY <1>2, <1>3, <1>4, <1>5, <1>6

\* The constant values of the state have their types.
LEMMA Values ==
  /\ Off \in [phase: HostPhases, id: Nat, call: Mays] /\ Off.phase = "off" /\ Off.call = None
  /\ Reading \in [phase: HostPhases, id: Nat, call: Mays] /\ Reading.phase = "reading" /\ Reading.call = None
  /\ Unstarted \in ChildStatesOf /\ Unstarted.alive = FALSE /\ Unstarted.next = 0
  /\ NotAsked \in TaskStates /\ NotAsked.asked = None /\ NotAsked.got = None
  /\ \A t \in Tasks : Unstarted.task[t].got = None
  /\ [Unstarted EXCEPT !.alive = TRUE] \in ChildStatesOf
BY DEF Off, Reading, HostAt, HostPhases, Mays, Unstarted, NotAsked, TaskStates, ChildStatesOf

\* Nothing on its way and nobody at the host: nothing is under way.
LEMMA NothingUnderway ==
  ASSUME toHost' = <<>>, toChild' = <<>>, host'.call = None
  PROVE  /\ \A id \in Nat, c \in Requests : ~Underway(id, c)'
         /\ Len(toHost') = 0 /\ Len(toChild') = 0 /\ Busy' = 0 /\ DOMAIN toHost' = {}
BY DEF Underway, Busy

\* A conversation is over, or there is none, and so is its process.
LEMMA WiredOver ==
  ASSUME Shape, scene' = scene, host' = Off, child' = Unstarted, toHost' = <<>>, toChild' = <<>>,
         attempt' # "running"
  PROVE  Wired'
<1>1. scene.frames \in Nat
  BY SceneIs
<1>2. Off.phase = "off" /\ Off.call = None /\ Unstarted.alive = FALSE /\ Unstarted.next = 0
  BY Values
<1>3. Len(toHost') = 0 /\ Len(toChild') = 0 /\ DOMAIN toHost' = {}
  BY <1>2, NothingUnderway
<1>4. 0 <= scene.frames + 1 /\ 0 <= scene.frames
  BY <1>1
<1> HIDE DEF Off
<1>5. host'.phase = "off" /\ host'.call = None /\ child'.alive = FALSE /\ child'.next = 0
  BY <1>2
<1>6. child'.alive # TRUE /\ ~child'.alive
  BY <1>5
<1>7. (host.phase = "off" => host = Off)'
  BY <1>2
<1>8. (~child.alive => child = Unstarted)'
  OBVIOUS
<1>9. (child.next <= scene.frames)'
  BY <1>1, <1>5
<1>10. (Len(toHost) <= scene.frames + 1 /\ Len(toChild) <= scene.frames)'
  BY <1>1, <1>3
<1>11. (\A t \in Tasks : child.task[t].asked = None => child.task[t].got = None)'
  BY Values
<1> QED BY <1>3, <1>5, <1>6, <1>7, <1>8, <1>9, <1>10, <1>11 DEF Wired

\* A step that leaves the conversation alone.
LEMMA WiredApart ==
  ASSUME Wired, scene' = scene, host' = host, child' = child, toHost' = toHost, toChild' = toChild,
         attempt' = "running" <=> attempt = "running"
  PROVE  Wired'
<1>1. \A id, c : Underway(id, c)' <=> Underway(id, c)
  BY DEF Underway
<1>2. Busy' = Busy
  BY DEF Busy
<1> QED BY <1>1, <1>2 DEF Wired

\* A step of the host: what is under way becomes less, or moves on.
LEMMA WiredOn ==
  ASSUME Shape, Wired, scene' = scene, child' = child,
         host'.phase # "off" <=> attempt' = "running",
         host'.phase = "off" => host' = Off,
         host'.call = None <=> host'.phase \in {"off", "reading"},
         child.alive => attempt' = "running",
         \A i \in DOMAIN toHost' : \E k \in DOMAIN toHost : toHost'[i] = toHost[k],
         Len(toHost') <= scene.frames + 1, Len(toChild') <= scene.frames,
         child.alive =>
           /\ Len(toHost') + Len(toChild') + Busy' <= child.next
           /\ \A id \in Nat, c \in Requests : Underway(id, c)' => Underway(id, c)
  PROVE  Wired'
<1>1. (host.phase # "off" <=> attempt = "running")' /\ (host.phase = "off" => host = Off)'
      /\ (host.call = None <=> host.phase \in {"off", "reading"})' /\ (child.alive => attempt = "running")'
  OBVIOUS
<1>2. (~child.alive => child = Unstarted)' /\ (child.next <= scene.frames)'
      /\ (\A t \in Tasks : child.task[t].asked = None => child.task[t].got = None)'
  BY DEF Wired, Unstarted, NotAsked
<1>3. (\A i \in DOMAIN toHost :
       /\ toHost[i].type = "call" => toHost[i].call \in Requests
       /\ child.alive => toHost[i].type = "call")'
  BY DEF Wired, Requests
<1>4. (Len(toHost) <= scene.frames + 1 /\ Len(toChild) <= scene.frames)'
  OBVIOUS
<1>5. (child.alive =>
       /\ Len(toHost) + Len(toChild) + Busy <= child.next
       /\ \A id \in Nat, c \in Requests : Underway(id, c) => id < child.next
       /\ \A t \in Tasks : child.task[t].asked # None =>
            /\ child.task[t].id < child.next
            /\ \A c \in Requests : Underway(child.task[t].id, c) => c = child.task[t].asked
            /\ child.task[t].got \in {child.task[t].asked, None})'
  <2> SUFFICES ASSUME child.alive
               PROVE  /\ Len(toHost') + Len(toChild') + Busy' <= child.next
                      /\ \A id \in Nat, c \in Requests : Underway(id, c)' => id < child.next
                      /\ \A t \in Tasks : child.task[t].asked # None =>
                           /\ child.task[t].id < child.next
                           /\ \A c \in Requests : Underway(child.task[t].id, c)' => c = child.task[t].asked
                           /\ child.task[t].got \in {child.task[t].asked, None}
    BY DEF Underway, Busy, Requests
  <2>1. \A id \in Nat, c \in Requests : Underway(id, c)' => Underway(id, c)
    OBVIOUS
  <2>2. \A id \in Nat, c \in Requests : Underway(id, c)' => id < child.next
    BY <2>1 DEF Wired
  <2>3. ASSUME NEW t \in Tasks, child.task[t].asked # None
        PROVE  /\ child.task[t].id < child.next
               /\ \A c \in Requests : Underway(child.task[t].id, c)' => c = child.task[t].asked
               /\ child.task[t].got \in {child.task[t].asked, None}
    <3>1. child.task[t].id \in Nat
      BY Fields
    <3>2. /\ child.task[t].id < child.next
          /\ \A c \in Requests : Underway(child.task[t].id, c) => c = child.task[t].asked
          /\ child.task[t].got \in {child.task[t].asked, None}
      BY <2>3 DEF Wired
    <3>3. \A c \in Requests : Underway(child.task[t].id, c)' => Underway(child.task[t].id, c)
      BY <2>1, <3>1
    <3> QED BY <3>2, <3>3
  <2> QED BY <2>2, <2>3
<1> QED BY <1>1, <1>2, <1>3, <1>4, <1>5 DEF Wired

-----------------------------------------------------------------------------
(* The types and the channel: the steps of the process *)

\* The types and the channel.
Held == Shape /\ Wired

\* The types, when each variable has its own.
LEMMA ShapeStep ==
  ASSUME Shape, LogKept, scene' = scene, mishaps' \in 0..scene.mishaps,
         attempt' \in Phases, dangling' \subseteq Calls, program' \in CodeCalls \cup {None},
         host' \in [phase: HostPhases, id: Nat, call: Mays], spent' \in 0..MaxCalls,
         child' \in ChildStatesOf, toHost' \in Seq(Frames), toChild' \in Seq([id: Nat, call: Mays]),
         ran' \in [Calls -> {0, 1}]
  PROVE  Shape'
BY DEF Shape, LogKept, Journaled, Requests, Mays, Frames, ChildStatesOf, TaskStates

\* The types after a step of the process.
LEMMA ShapeOfProcess ==
  ASSUME Shape, LogKept, UNCHANGED <<log, view, loop, host, spent, ran, bounds>>,
         child' \in ChildStatesOf, toHost' \in Seq(Frames), toChild' \in Seq([id: Nat, call: Mays])
  PROVE  Shape'
BY ShapeStep DEF Shape, loop, bounds

\* A coroutine calls: its id is new, and so is its call.
LEMMA HeldCall ==
  ASSUME Inv, LogKept, NEW t \in scene.tasks, Call(t)
  PROVE  Held'
<1>1. Shape /\ Wired /\ t \in Tasks /\ scene.frames \in Nat
  BY SceneIs DEF Inv
<1>2. PICK call :
        /\ \E tool \in Tools : LET fresh == {c \in Requests \ InUse : ToolOf[c] = tool}
                              IN fresh # {} /\ call = CHOOSE c \in fresh : TRUE
        /\ toHost' = Append(toHost, [type |-> "call", id |-> child.next, call |-> call])
        /\ child' = [child EXCEPT
             !.next = @ + 1,
             !.pending = @ \cup {[id |-> child.next, task |-> t]},
             !.task = [@ EXCEPT ![t] = [asked |-> call, id |-> child.next, got |-> None]]]
  BY DEF Call
<1>3. /\ child.alive /\ child.next < scene.frames /\ UNCHANGED <<log, view, loop, host, spent, toChild, ran, bounds>>
  BY DEF Call
<1>4. call \in Requests /\ call # None /\ call \in Mays
  BY <1>2, CallKinds DEF Mays
<1>5. PICK frame : frame = [type |-> "call", id |-> child.next, call |-> call]
  OBVIOUS
<1>6. PICK asks : asks = [asked |-> call, id |-> child.next, got |-> None]
  OBVIOUS
<1>7. PICK entry : entry = [id |-> child.next, task |-> t]
  OBVIOUS
<1>8. /\ frame.type = "call" /\ frame.id = child.next /\ frame.call = call /\ frame \in Frames
      /\ asks.asked = call /\ asks.id = child.next /\ asks.got = None /\ asks \in TaskStates
      /\ entry \in [id: Nat, task: Tasks]
  BY <1>1, <1>4, <1>5, <1>6, <1>7, Fields DEF Frames, TaskStates, Mays
<1>9. /\ toHost' = Append(toHost, frame)
      /\ child' = [child EXCEPT !.next = child.next + 1, !.pending = child.pending \cup {entry},
                                !.task = [child.task EXCEPT ![t] = asks]]
  BY <1>2, <1>5, <1>6, <1>7
<1>10. /\ toHost' \in Seq(Frames) /\ Len(toHost') = Len(toHost) + 1
       /\ \A i \in DOMAIN toHost' : i \in DOMAIN toHost \/ i = Len(toHost) + 1
       /\ \A i \in DOMAIN toHost : toHost'[i] = toHost[i]
       /\ toHost'[Len(toHost) + 1] = frame
  <2>1. toHost \in Seq(Frames)
    BY <1>1 DEF Shape
  <2> HIDE DEF Frames
  <2> QED BY <1>8, <1>9, <2>1
<1>11. PICK tasks : tasks = [child.task EXCEPT ![t] = asks]
  OBVIOUS
<1>12. tasks \in [Tasks -> TaskStates] /\ tasks[t] = asks /\ \A u \in Tasks : u # t => tasks[u] = child.task[u]
  BY <1>1, <1>8, <1>11, Fields
<1>13. /\ child' \in ChildStatesOf /\ child'.alive = child.alive /\ child'.next = child.next + 1
       /\ child'.task = tasks
  <2>1. child \in ChildStatesOf
    BY <1>1 DEF Shape
  <2>2. child' = [child EXCEPT !.next = child.next + 1, !.pending = child.pending \cup {entry}, !.task = tasks]
    BY <1>9, <1>11
  <2>3. child.next + 1 \in Nat /\ child.pending \cup {entry} \in SUBSET [id: Nat, task: Tasks]
    BY <1>1, <1>8, Fields
  <2> QED BY <1>12, <2>1, <2>2, <2>3 DEF ChildStatesOf
<1>14. Shape'
  <2>1. toChild' \in Seq([id: Nat, call: Mays])
    BY <1>1, <1>3 DEF Shape
  <2> QED BY <1>1, <1>3, <1>10, <1>13, <2>1, ShapeOfProcess
<1>15. /\ scene' = scene /\ host' = host /\ attempt' = attempt /\ toChild' = toChild
       /\ Len(toHost) \in Nat /\ Len(toChild) \in Nat /\ Busy \in Nat /\ child.next \in Nat /\ Busy' = Busy
  BY <1>1, <1>3, Fields DEF bounds, loop, Busy
<1>16. Len(toHost) + Len(toChild) + Busy <= child.next
  BY <1>1, <1>3 DEF Wired
<1>17. \A id, c : Underway(id, c)' => Underway(id, c) \/ (id = child.next /\ c = call)
  BY <1>8, <1>10, <1>15 DEF Underway
<1>18. \A id \in Nat, c \in Requests : Underway(id, c) => id < child.next
  BY <1>1, <1>3 DEF Wired
<1>19. \A id \in Nat, c \in Requests : Underway(id, c)' => id < child.next + 1
  BY <1>15, <1>17, <1>18
<1>20. ASSUME NEW u \in Tasks, tasks[u].asked # None
       PROVE  /\ tasks[u].id < child.next + 1
              /\ \A c \in Requests : Underway(tasks[u].id, c)' => c = tasks[u].asked
              /\ tasks[u].got \in {tasks[u].asked, None}
  <2>1. CASE u = t
    <3>1. \A c \in Requests : ~Underway(child.next, c)
      BY <1>15, <1>18
    <3> QED BY <1>8, <1>12, <1>15, <1>17, <2>1, <3>1
  <2>2. CASE u # t
    <3>1. /\ child.task[u].id < child.next /\ child.task[u].id \in Nat
          /\ \A c \in Requests : Underway(child.task[u].id, c) => c = child.task[u].asked
          /\ child.task[u].got \in {child.task[u].asked, None}
      BY <1>1, <1>3, <1>12, <1>20, <2>2, Fields DEF Wired
    <3>2. tasks[u] = child.task[u] /\ child.task[u].id # child.next /\ child.task[u].id < child.next + 1
      BY <1>12, <1>15, <2>2, <3>1
    <3> QED BY <1>17, <3>1, <3>2
  <2> QED BY <2>1, <2>2
<1>21. Wired'
  <2>1. (host.phase # "off" <=> attempt = "running")' /\ (host.phase = "off" => host = Off)'
        /\ (host.call = None <=> host.phase \in {"off", "reading"})' /\ (child.alive => attempt = "running")'
    BY <1>1, <1>13, <1>15 DEF Wired, Off, HostAt
  <2>2. (~child.alive => child = Unstarted)' /\ (child.next <= scene.frames)'
    BY <1>1, <1>3, <1>13, <1>15
  <2>3. (\A i \in DOMAIN toHost :
         /\ toHost[i].type = "call" => toHost[i].call \in Requests
         /\ child.alive => toHost[i].type = "call")'
    BY <1>1, <1>3, <1>4, <1>8, <1>10 DEF Wired, Requests
  <2>4. (Len(toHost) <= scene.frames + 1 /\ Len(toChild) <= scene.frames)'
    BY <1>1, <1>3, <1>10, <1>15, <1>16
  <2>5. Len(toHost') + Len(toChild') + Busy' <= child'.next
    BY <1>10, <1>13, <1>15, <1>16
  <2>6. (\A u \in Tasks : child.task[u].asked = None => child.task[u].got = None)'
    BY <1>1, <1>4, <1>8, <1>12, <1>13 DEF Wired
  <2> HIDE DEF Underway, Busy
  <2> QED BY <1>13, <1>19, <1>20, <2>1, <2>2, <2>3, <2>4, <2>5, <2>6 DEF Wired, Requests
<1> QED BY <1>14, <1>21 DEF Held

\* A coroutine gives up: it no longer waits for anything.
LEMMA HeldGiveUp ==
  ASSUME Inv, LogKept, NEW t \in scene.tasks, GiveUp(t)
  PROVE  Held'
<1>1. Shape /\ Wired /\ t \in Tasks
  BY SceneIs DEF Inv
<1>2. /\ child.alive /\ UNCHANGED <<log, view, loop, host, spent, wire, ran, bounds>>
      /\ child' = [child EXCEPT !.task = [child.task EXCEPT ![t] = NotAsked]]
  BY DEF GiveUp
<1>3. PICK tasks : tasks = [child.task EXCEPT ![t] = NotAsked]
  OBVIOUS
<1>4. tasks \in [Tasks -> TaskStates] /\ tasks[t] = NotAsked /\ \A u \in Tasks : u # t => tasks[u] = child.task[u]
  BY <1>1, <1>3, Fields, Values
<1>5. /\ child' \in ChildStatesOf /\ child'.alive = child.alive /\ child'.next = child.next
      /\ child'.task = tasks
  <2>1. child \in ChildStatesOf
    BY <1>1 DEF Shape
  <2>2. child' = [child EXCEPT !.task = tasks]
    BY <1>2, <1>3
  <2> QED BY <1>4, <2>1, <2>2 DEF ChildStatesOf
<1>6. /\ scene' = scene /\ host' = host /\ attempt' = attempt /\ toChild' = toChild /\ toHost' = toHost
  BY <1>2 DEF bounds, loop, wire
<1>7. Shape'
  <2>1. toChild' \in Seq([id: Nat, call: Mays]) /\ toHost' \in Seq(Frames)
    BY <1>1, <1>6 DEF Shape
  <2> QED BY <1>1, <1>2, <1>5, <2>1, ShapeOfProcess
<1>8. (\A id, c : Underway(id, c)' <=> Underway(id, c)) /\ Busy' = Busy
  BY <1>6 DEF Underway, Busy
<1>9. \A u \in Tasks : tasks[u].asked # None => tasks[u] = child.task[u]
  BY <1>4, Values
<1>10. Wired'
  <2>1. (host.phase # "off" <=> attempt = "running")' /\ (host.phase = "off" => host = Off)'
        /\ (host.call = None <=> host.phase \in {"off", "reading"})' /\ (child.alive => attempt = "running")'
    BY <1>1, <1>5, <1>6 DEF Wired, Off, HostAt
  <2>2. (~child.alive => child = Unstarted)' /\ (child.next <= scene.frames)'
    BY <1>1, <1>2, <1>5, <1>6 DEF Wired
  <2>3. (\A i \in DOMAIN toHost :
         /\ toHost[i].type = "call" => toHost[i].call \in Requests
         /\ child.alive => toHost[i].type = "call")'
    BY <1>1, <1>5, <1>6 DEF Wired, Requests
  <2>4. (Len(toHost) <= scene.frames + 1 /\ Len(toChild) <= scene.frames)'
    BY <1>1, <1>6 DEF Wired
  <2>5. /\ Len(toHost') + Len(toChild') + Busy' <= child'.next
        /\ \A id \in Nat, c \in Requests : Underway(id, c)' => id < child'.next
    BY <1>1, <1>2, <1>5, <1>6, <1>8 DEF Wired
  <2>6. \A u \in Tasks : tasks[u].asked # None =>
          /\ tasks[u].id < child'.next
          /\ \A c \in Requests : Underway(tasks[u].id, c)' => c = tasks[u].asked
          /\ tasks[u].got \in {tasks[u].asked, None}
    BY <1>1, <1>2, <1>5, <1>8, <1>9 DEF Wired
  <2>7. (\A u \in Tasks : child.task[u].asked = None => child.task[u].got = None)'
    BY <1>1, <1>4, <1>5, Values DEF Wired
  <2> HIDE DEF Underway, Busy
  <2> QED BY <1>5, <2>1, <2>2, <2>3, <2>4, <2>5, <2>6, <2>7 DEF Wired, Requests
<1> QED BY <1>7, <1>10 DEF Held

\* The process is gone: only what it has said is still there.
LEMMA HeldGone ==
  ASSUME Inv, LogKept, Return \/ Die
  PROVE  Held'
<1>1. Shape /\ Wired /\ scene.frames \in Nat
  BY SceneIs DEF Inv
<1>2. /\ child.alive /\ child' = Unstarted /\ UNCHANGED <<log, view, loop, host, spent, toChild, ran, bounds>>
  BY DEF Return, Die, wire
<1>3. PICK frame : frame = [type |-> "done", id |-> 0, call |-> None]
  OBVIOUS
<1>4. frame \in Frames /\ frame.type = "done"
  BY <1>3 DEF Frames, Mays
<1>5. toHost' = toHost \/ toHost' = Append(toHost, frame)
  BY <1>3 DEF Return, Die, wire
<1>6. /\ toHost' \in Seq(Frames) /\ Len(toHost') <= Len(toHost) + 1
      /\ \A i \in DOMAIN toHost' : (i \in DOMAIN toHost /\ toHost'[i] = toHost[i]) \/ toHost'[i] = frame
  <2>1. toHost \in Seq(Frames)
    BY <1>1 DEF Shape
  <2> HIDE DEF Frames
  <2> QED BY <1>4, <1>5, <2>1
<1>7. /\ scene' = scene /\ host' = host /\ attempt' = attempt /\ toChild' = toChild
      /\ Len(toHost) \in Nat /\ Len(toChild) \in Nat /\ Busy \in Nat /\ child.next \in Nat
      /\ Len(toHost') \in Nat
  BY <1>1, <1>2, <1>6, Fields DEF bounds, loop, Busy
<1>8. Shape'
  <2>1. toChild' \in Seq([id: Nat, call: Mays])
    BY <1>1, <1>2 DEF Shape
  <2> QED BY <1>1, <1>2, <1>6, <2>1, Values, ShapeOfProcess
<1>9. child'.alive = FALSE /\ child'.next = 0
  BY <1>2, Values
<1>10. Len(toHost) <= scene.frames /\ Len(toChild) <= scene.frames
  <2>1. Len(toHost) + Len(toChild) + Busy <= child.next /\ child.next <= scene.frames
    BY <1>1, <1>2 DEF Wired
  <2> QED BY <1>1, <1>7, <2>1
<1>11. Wired'
  <2>1. (host.phase # "off" <=> attempt = "running")' /\ (host.phase = "off" => host = Off)'
        /\ (host.call = None <=> host.phase \in {"off", "reading"})'
    BY <1>1, <1>7 DEF Wired, Off, HostAt
  <2>2. (~child.alive => child = Unstarted)' /\ (child.next <= scene.frames)' /\ ~child'.alive
    BY <1>1, <1>2, <1>7, <1>9 DEF Unstarted, NotAsked
  <2>3. (\A i \in DOMAIN toHost :
         /\ toHost[i].type = "call" => toHost[i].call \in Requests
         /\ child.alive => toHost[i].type = "call")'
    BY <1>1, <1>4, <1>6, <1>9 DEF Wired, Requests
  <2>4. (Len(toHost) <= scene.frames + 1 /\ Len(toChild) <= scene.frames)'
    BY <1>1, <1>6, <1>7, <1>10
  <2>5. (\A t \in Tasks : child.task[t].asked = None => child.task[t].got = None)'
    BY <1>2, Values
  <2> QED BY <2>1, <2>2, <2>3, <2>4, <2>5 DEF Wired
<1> QED BY <1>8, <1>11 DEF Held

\* A reply is read: it is for whoever waits for its id, or for nobody.
LEMMA HeldReceive ==
  ASSUME Inv, LogKept, Receive
  PROVE  Held'
<1>1. Shape /\ Wired
  BY DEF Inv
<1>2. PICK reply : reply = Head(toChild)
  OBVIOUS
<1>3. PICK entry : entry = {e \in child.pending : e.id = reply.id}
  OBVIOUS
<1>4. PICK tasks : tasks = [t \in Tasks |->
                     IF Hears(t, entry) THEN [child.task[t] EXCEPT !.got = reply.call] ELSE child.task[t]]
  OBVIOUS
<1>5. /\ child.alive /\ toChild # <<>> /\ toChild' = Tail(toChild)
      /\ child' = [child EXCEPT !.pending = child.pending \ entry, !.task = tasks]
      /\ UNCHANGED <<log, view, loop, host, spent, toHost, ran, bounds>>
  BY <1>2, <1>3, <1>4 DEF Receive
<1>6. /\ Len(toChild) \in Nat /\ 1 \in DOMAIN toChild /\ reply = toChild[1]
      /\ toChild' \in Seq([id: Nat, call: Mays]) /\ Len(toChild') = Len(toChild) - 1
      /\ \A i \in DOMAIN toChild' : i + 1 \in DOMAIN toChild /\ toChild'[i] = toChild[i + 1]
  <2> DEFINE R == [id: Nat, call: Mays]
  <2>1. toChild \in Seq(R)
    BY <1>1 DEF Shape
  <2> HIDE DEF R
  <2>2. /\ Len(toChild) \in Nat /\ 1 \in DOMAIN toChild /\ reply = toChild[1]
        /\ toChild' \in Seq(R) /\ Len(toChild') = Len(toChild) - 1
        /\ \A i \in DOMAIN toChild' : i + 1 \in DOMAIN toChild /\ toChild'[i] = toChild[i + 1]
    BY <1>2, <1>5, <2>1
  <2> QED BY <2>2 DEF R
<1>7. reply.id \in Nat /\ reply.call \in Mays
  BY <1>1, <1>6, Fields
<1>8. ASSUME NEW t \in Tasks
      PROVE  /\ tasks[t] \in TaskStates
             /\ tasks[t].asked = child.task[t].asked /\ tasks[t].id = child.task[t].id
             /\ \/ tasks[t].got = child.task[t].got
                \/ tasks[t].got = reply.call /\ child.task[t].id = reply.id /\ child.task[t].asked # None
  <2>1. child.task[t] \in TaskStates
    BY <1>1, Fields
  <2>2. Hears(t, entry) => child.task[t].id = reply.id /\ child.task[t].asked # None
    BY <1>3 DEF Hears
  <2>3. tasks[t] = (IF Hears(t, entry) THEN [child.task[t] EXCEPT !.got = reply.call] ELSE child.task[t])
    BY <1>4
  <2>4. CASE Hears(t, entry)
    <3>1. tasks[t] = [child.task[t] EXCEPT !.got = reply.call]
      BY <2>3, <2>4
    <3> QED BY <1>7, <2>1, <2>2, <2>4, <3>1 DEF TaskStates
  <2>5. CASE ~Hears(t, entry)
    BY <2>1, <2>3, <2>5
  <2> QED BY <2>4, <2>5
<1>9. tasks \in [Tasks -> TaskStates]
  BY <1>4, <1>8
<1>10. /\ child' \in ChildStatesOf /\ child'.alive = child.alive /\ child'.next = child.next
       /\ child'.task = tasks
  <2>1. child \in ChildStatesOf
    BY <1>1 DEF Shape
  <2>2. child.pending \ entry \in SUBSET [id: Nat, task: Tasks]
    BY <1>1, Fields
  <2> QED BY <1>5, <1>9, <2>1, <2>2 DEF ChildStatesOf
<1>11. Shape'
  <2>1. toHost' \in Seq(Frames)
    BY <1>1, <1>5 DEF Shape
  <2> QED BY <1>1, <1>5, <1>6, <1>10, <2>1, ShapeOfProcess
<1>12. /\ scene' = scene /\ host' = host /\ attempt' = attempt /\ toHost' = toHost
       /\ Len(toHost) \in Nat /\ Busy \in Nat /\ child.next \in Nat /\ Busy' = Busy
  BY <1>1, <1>5, Fields DEF bounds, loop, Busy
<1>13. \A id, c : Underway(id, c)' => Underway(id, c)
  BY <1>6, <1>12 DEF Underway
<1>14. Underway(reply.id, reply.call)
  BY <1>6 DEF Underway
<1>15. /\ Len(toHost) + Len(toChild) + Busy <= child.next
       /\ \A id \in Nat, c \in Requests : Underway(id, c) => id < child.next
       /\ \A t \in Tasks : child.task[t].asked # None =>
            /\ child.task[t].id < child.next
            /\ \A c \in Requests : Underway(child.task[t].id, c) => c = child.task[t].asked
            /\ child.task[t].got \in {child.task[t].asked, None}
  BY <1>1, <1>5 DEF Wired
<1>16. ASSUME NEW t \in Tasks, tasks[t].asked # None
       PROVE  /\ tasks[t].id < child'.next
              /\ \A c \in Requests : Underway(tasks[t].id, c)' => c = tasks[t].asked
              /\ tasks[t].got \in {tasks[t].asked, None}
  <2>1. /\ tasks[t].asked = child.task[t].asked /\ tasks[t].id = child.task[t].id
        /\ \/ tasks[t].got = child.task[t].got
           \/ tasks[t].got = reply.call /\ child.task[t].id = reply.id
    BY <1>8
  <2>2. /\ child.task[t].id < child.next
        /\ \A c \in Requests : Underway(child.task[t].id, c) => c = child.task[t].asked
        /\ child.task[t].got \in {child.task[t].asked, None}
    BY <1>15, <1>16, <2>1
  <2>3. child.task[t].id = reply.id => reply.call \in {child.task[t].asked, None}
    <3>1. CASE reply.call = None
      BY <3>1
    <3>2. CASE reply.call \in Requests
      BY <1>14, <2>2, <3>2
    <3> QED BY <1>7, <3>1, <3>2 DEF Mays
  <2>4. \A c \in Requests : Underway(tasks[t].id, c)' => c = tasks[t].asked
    BY <1>13, <2>1, <2>2
  <2> QED BY <1>10, <2>1, <2>2, <2>3, <2>4
<1>17. Wired'
  <2>1. (host.phase # "off" <=> attempt = "running")' /\ (host.phase = "off" => host = Off)'
        /\ (host.call = None <=> host.phase \in {"off", "reading"})' /\ (child.alive => attempt = "running")'
    BY <1>1, <1>10, <1>12 DEF Wired, Off, HostAt
  <2>2. (~child.alive => child = Unstarted)' /\ (child.next <= scene.frames)'
    BY <1>1, <1>5, <1>10, <1>12 DEF Wired
  <2>3. (\A i \in DOMAIN toHost :
         /\ toHost[i].type = "call" => toHost[i].call \in Requests
         /\ child.alive => toHost[i].type = "call")'
    BY <1>1, <1>10, <1>12 DEF Wired, Requests
  <2>4. (Len(toHost) <= scene.frames + 1 /\ Len(toChild) <= scene.frames)'
    <3>1. scene.frames \in Nat
      BY <1>1, SceneIs
    <3> QED BY <1>1, <1>6, <1>12, <3>1 DEF Wired
  <2>5. Len(toHost') + Len(toChild') + Busy' <= child'.next
    BY <1>6, <1>10, <1>12, <1>15
  <2>6. \A id \in Nat, c \in Requests : Underway(id, c)' => id < child'.next
    BY <1>10, <1>13, <1>15
  <2>7. (\A t \in Tasks : child.task[t].asked = None => child.task[t].got = None)'
    BY <1>1, <1>8, <1>10 DEF Wired
  <2> HIDE DEF Underway, Busy
  <2> QED BY <1>10, <1>16, <2>1, <2>2, <2>3, <2>4, <2>5, <2>6, <2>7 DEF Wired, Requests
<1> QED BY <1>11, <1>17 DEF Held

-----------------------------------------------------------------------------
(* The types and the channel: the steps of the host *)

\* The host answers a call it has taken from toHost, or is at: the call was
\* under way, and its reply takes its place.
LEMMA HeldReply ==
  ASSUME Inv, LogKept, host.phase # "off", NEW id \in Nat, NEW call \in Requests, Reply(id, call),
         Underway(id, call),
         \/ toHost' = toHost /\ host.call # None
         \/ toHost # <<>> /\ toHost' = Tail(toHost) /\ host.call = None,
         spent' \in 0..MaxCalls, ran' \in [Calls -> {0, 1}], UNCHANGED bounds
  PROVE  Held'
<1>1. Shape /\ Wired /\ scene.frames \in Nat /\ attempt = "running" /\ scene' = scene /\ mishaps' = mishaps
  BY SceneIs, Conversing DEF Inv, bounds
<1>2. PICK frame : frame = [id |-> id, call |-> call]
  OBVIOUS
<1>3. frame \in [id: Nat, call: Mays] /\ frame.id = id /\ frame.call = call
  BY <1>2 DEF Mays
<1>4. /\ toHost' \in Seq(Frames) /\ Len(toHost') \in Nat /\ Len(toHost) \in Nat
      /\ Len(toHost') <= Len(toHost)
      /\ \A i \in DOMAIN toHost' : \E k \in DOMAIN toHost : toHost'[i] = toHost[k]
      /\ host.call = None => Len(toHost') + 1 = Len(toHost)
  <2>1. toHost \in Seq(Frames)
    BY <1>1 DEF Shape
  <2> HIDE DEF Frames
  <2>2. CASE toHost' = toHost /\ host.call # None
    BY <2>1, <2>2
  <2>3. CASE toHost # <<>> /\ toHost' = Tail(toHost) /\ host.call = None
    <3>1. /\ toHost' \in Seq(Frames) /\ Len(toHost') = Len(toHost) - 1 /\ Len(toHost) \in Nat
          /\ \A i \in DOMAIN toHost' : i + 1 \in DOMAIN toHost /\ toHost'[i] = toHost[i + 1]
      BY <2>1, <2>3
    <3>2. Len(toHost) # 0
      BY <2>1, <2>3
    <3> QED BY <3>1, <3>2
  <2> QED BY <2>2, <2>3
<1>5. Busy = (IF host.call = None THEN 0 ELSE 1)
  BY DEF Busy
<1>6. Len(toHost') <= scene.frames + 1
  BY <1>1, <1>4 DEF Wired
<1>7. /\ mishaps' \in 0..scene.mishaps /\ dangling' \subseteq Calls /\ program' \in CodeCalls \cup {None}
      /\ child' = child /\ child' \in ChildStatesOf
  BY <1>1 DEF Reply, Shape, loop
<1>8. CASE child.alive
  <2>1. toChild' = Append(toChild, frame) /\ host' = Reading /\ attempt' = attempt
    BY <1>2, <1>8 DEF Reply, loop
  <2>2. /\ toChild' \in Seq([id: Nat, call: Mays]) /\ Len(toChild') = Len(toChild) + 1
        /\ Len(toChild) \in Nat
        /\ \A i \in DOMAIN toChild' : i \in DOMAIN toChild \/ i = Len(toChild) + 1
        /\ \A i \in DOMAIN toChild : toChild'[i] = toChild[i]
        /\ toChild'[Len(toChild) + 1] = frame
    <3> DEFINE R == [id: Nat, call: Mays]
    <3>1. toChild \in Seq(R) /\ frame \in R
      BY <1>1, <1>3 DEF Shape
    <3> HIDE DEF R
    <3>2. /\ toChild' \in Seq(R) /\ Len(toChild') = Len(toChild) + 1
          /\ Len(toChild) \in Nat
          /\ \A i \in DOMAIN toChild' : i \in DOMAIN toChild \/ i = Len(toChild) + 1
          /\ \A i \in DOMAIN toChild : toChild'[i] = toChild[i]
          /\ toChild'[Len(toChild) + 1] = frame
      BY <2>1, <3>1
    <3> QED BY <3>2 DEF R
  <2>3. host'.phase = "reading" /\ host'.call = None /\ host' \in [phase: HostPhases, id: Nat, call: Mays]
    BY <2>1, Values
  <2>4. Busy' = 0
    BY <2>3 DEF Busy
  <2>5. Len(toHost) + Len(toChild) + Busy <= child.next /\ child.next <= scene.frames /\ child.next \in Nat
    BY <1>1, <1>8, Fields DEF Wired
  <2>6. Len(toHost') + Len(toChild') + Busy' <= child.next /\ Len(toChild') <= scene.frames
    <3>1. Len(toHost') + Len(toChild') <= child.next
      <4>1. CASE host.call = None
        BY <1>4, <1>5, <2>2, <2>5, <4>1
      <4>2. CASE host.call # None
        BY <1>4, <1>5, <2>2, <2>5, <4>2
      <4> QED BY <4>1, <4>2
    <3>2. Len(toChild') \in Nat
      BY <2>2
    <3> QED BY <1>1, <1>4, <2>4, <2>5, <3>1, <3>2
  <2>7. ASSUME NEW x, NEW c, Underway(x, c)' PROVE Underway(x, c)
    <3>1. CASE \E i \in DOMAIN toHost' : toHost'[i].type = "call" /\ toHost'[i].id = x /\ toHost'[i].call = c
      BY <1>4, <3>1 DEF Underway
    <3>2. CASE \E i \in DOMAIN toChild' : toChild'[i].id = x /\ toChild'[i].call = c
      <4>1. PICK i \in DOMAIN toChild' : toChild'[i].id = x /\ toChild'[i].call = c
        BY <3>2
      <4>2. CASE i \in DOMAIN toChild
        BY <2>2, <4>1, <4>2 DEF Underway
      <4>3. CASE i = Len(toChild) + 1
        BY <1>3, <2>2, <4>1, <4>3
      <4> QED BY <2>2, <4>2, <4>3
    <3> QED BY <2>3, <2>7, <3>1, <3>2 DEF Underway
  <2>8. Wired'
    BY <1>1, <1>4, <1>6, <1>7, <2>1, <2>3, <2>6, <2>7, WiredOn
  <2>9. attempt' \in Phases
    BY <1>1, <2>1 DEF Phases
  <2>10. Shape'
    BY <1>1, <1>4, <1>7, <2>2, <2>3, <2>9, ShapeStep
  <2> QED BY <2>8, <2>10 DEF Held
<1>9. CASE ~child.alive
  <2>1. toChild' = <<>> /\ host' = Off /\ attempt' = "returning"
    BY <1>9 DEF Reply
  <2>2. host'.phase = "off" /\ host'.call = None /\ host' \in [phase: HostPhases, id: Nat, call: Mays]
    BY <2>1, Values
  <2>3. toChild' \in Seq([id: Nat, call: Mays]) /\ Len(toChild') = 0 /\ attempt' \in Phases
    BY <2>1 DEF Phases
  <2>4. Len(toChild') <= scene.frames
    BY <1>1, <2>3
  <2>5. Wired'
    BY <1>1, <1>4, <1>6, <1>7, <1>9, <2>1, <2>2, <2>4, WiredOn
  <2>6. Shape'
    BY <1>1, <1>4, <1>7, <2>2, <2>3, ShapeStep
  <2> QED BY <2>5, <2>6 DEF Held
<1> QED BY <1>8, <1>9

\* The host is at a call it has taken from toHost, or stays at the one it is at.
LEMMA HeldStay ==
  ASSUME Inv, LogKept, host.phase # "off", NEW id \in Nat, NEW call \in Requests, Underway(id, call),
         NEW phase \in HostPhases \ {"off", "reading"}, host' = HostAt(phase, id, call),
         UNCHANGED <<loop, child, toChild>>,
         \/ toHost' = toHost /\ host.call # None
         \/ toHost # <<>> /\ toHost' = Tail(toHost) /\ host.call = None,
         spent' \in 0..MaxCalls, ran' \in [Calls -> {0, 1}], UNCHANGED bounds
  PROVE  Held'
<1>1. Shape /\ Wired /\ scene.frames \in Nat /\ attempt = "running" /\ scene' = scene /\ mishaps' = mishaps
  BY SceneIs, Conversing DEF Inv, bounds
<1>2. /\ host' \in [phase: HostPhases, id: Nat, call: Mays] /\ host'.phase = phase
      /\ host'.id = id /\ host'.call = call /\ call # None
  BY CallKinds DEF HostAt, Mays
<1>3. /\ attempt' = attempt /\ child' = child /\ toChild' = toChild
      /\ dangling' = dangling /\ program' = program
  BY DEF loop
<1>4. /\ toHost' \in Seq(Frames) /\ Len(toHost') \in Nat /\ Len(toHost) \in Nat
      /\ Len(toHost') <= Len(toHost)
      /\ \A i \in DOMAIN toHost' : \E k \in DOMAIN toHost : toHost'[i] = toHost[k]
      /\ host.call = None => Len(toHost') + 1 = Len(toHost)
  <2>1. toHost \in Seq(Frames)
    BY <1>1 DEF Shape
  <2> HIDE DEF Frames
  <2>2. CASE toHost' = toHost /\ host.call # None
    BY <2>1, <2>2
  <2>3. CASE toHost # <<>> /\ toHost' = Tail(toHost) /\ host.call = None
    <3>1. /\ toHost' \in Seq(Frames) /\ Len(toHost') = Len(toHost) - 1 /\ Len(toHost) \in Nat
          /\ \A i \in DOMAIN toHost' : i + 1 \in DOMAIN toHost /\ toHost'[i] = toHost[i + 1]
      BY <2>1, <2>3
    <3>2. Len(toHost) # 0
      BY <2>1, <2>3
    <3> QED BY <3>1, <3>2
  <2> QED BY <2>2, <2>3
<1>5. Busy = (IF host.call = None THEN 0 ELSE 1) /\ Busy' = 1
  BY <1>2 DEF Busy
<1>6. Len(toHost') <= scene.frames + 1 /\ Len(toChild') <= scene.frames /\ Len(toChild) \in Nat
  <2>1. Len(toHost) <= scene.frames + 1 /\ Len(toChild) <= scene.frames
    BY <1>1 DEF Wired
  <2>2. Len(toChild) \in Nat
    BY <1>1, Fields
  <2>3. Len(toHost') <= scene.frames + 1
    BY <1>1, <1>4, <2>1
  <2> QED BY <1>3, <2>1, <2>2, <2>3
<1>7. child.alive => Len(toHost') + Len(toChild') + Busy' <= child.next
  <2>1. child.alive => Len(toHost) + Len(toChild) + Busy <= child.next
    BY <1>1 DEF Wired
  <2>2. child.next \in Nat
    BY <1>1, Fields
  <2> QED BY <1>3, <1>4, <1>5, <1>6, <2>1, <2>2
<1>8. ASSUME NEW x, NEW c, Underway(x, c)' PROVE Underway(x, c)
  <2>1. CASE \E i \in DOMAIN toHost' : toHost'[i].type = "call" /\ toHost'[i].id = x /\ toHost'[i].call = c
    BY <1>4, <2>1 DEF Underway
  <2>2. CASE \E i \in DOMAIN toChild' : toChild'[i].id = x /\ toChild'[i].call = c
    BY <1>3, <2>2 DEF Underway
  <2> QED BY <1>2, <1>8, <2>1, <2>2 DEF Underway
<1>9. host'.phase # "off" /\ host'.phase \notin {"off", "reading"}
  BY <1>2
<1>10. Wired'
  BY <1>1, <1>2, <1>3, <1>4, <1>6, <1>7, <1>8, <1>9, WiredOn
<1>11. Shape'
  <2>1. /\ mishaps' \in 0..scene.mishaps /\ dangling' \subseteq Calls /\ program' \in CodeCalls \cup {None}
        /\ child' \in ChildStatesOf /\ attempt' \in Phases /\ toChild' \in Seq([id: Nat, call: Mays])
    BY <1>1, <1>3 DEF Shape
  <2> QED BY <1>1, <1>2, <1>4, <2>1, ShapeStep
<1> QED BY <1>10, <1>11 DEF Held

\* The call the host is at is under way.
LEMMA AtUnderway ==
  ASSUME Inv, host.phase \notin {"off", "reading"}
  PROVE  Underway(host.id, host.call) /\ host.id \in Nat /\ host.call \in Requests /\ host.call # None
<1>1. host.call \in Requests /\ host.call # None /\ host.id \in Nat
  BY AtRequest, Fields DEF Inv
<1> QED BY <1>1 DEF Underway

\* A call is admitted or refused.
LEMMA HeldAdmit ==
  ASSUME Inv, LogKept, Admit
  PROVE  Held'
<1> DEFINE frame == Head(toHost)
<1>1. /\ Shape /\ Wired /\ host.phase = "reading" /\ toHost # <<>> /\ frame.type = "call"
      /\ toHost' = Tail(toHost) /\ UNCHANGED bounds /\ ran' = ran
  BY DEF Inv, Admit
<1>2. frame = toHost[1] /\ 1 \in DOMAIN toHost
  BY <1>1 DEF Shape
<1>3. frame.id \in Nat /\ frame.call \in Requests /\ Underway(frame.id, frame.call)
  <2>1. toHost[1] \in Frames
    BY <1>1, <1>2, Fields
  <2>2. frame.id \in Nat
    BY <1>2, <2>1 DEF Frames
  <2> QED BY <1>1, <1>2, <2>2 DEF Wired, Underway
<1>4. host.call = None /\ host.phase # "off"
  BY <1>1 DEF Wired
<1>5. spent' \in 0..MaxCalls /\ ran' \in [Calls -> {0, 1}]
  <2>1. spent' = spent \/ (spent' = spent + 1 /\ spent < MaxCalls)
    BY DEF Admit, WithinBudget
  <2> QED BY <1>1, <2>1, ProgramsAssumption DEF Shape
<1>6. \/ host' = HostAt("gating", frame.id, frame.call) /\ UNCHANGED <<loop, child, toChild>>
      \/ Reply(frame.id, frame.call)
  BY DEF Admit, Refuse
<1> HIDE DEF frame
<1>7. CASE host' = HostAt("gating", frame.id, frame.call) /\ UNCHANGED <<loop, child, toChild>>
  <2>1. "gating" \in HostPhases \ {"off", "reading"}
    BY DEF HostPhases
  <2> QED BY <1>1, <1>3, <1>4, <1>5, <1>7, <2>1, HeldStay
<1>8. CASE Reply(frame.id, frame.call)
  BY <1>1, <1>3, <1>4, <1>5, <1>8, HeldReply
<1> QED BY <1>6, <1>7, <1>8

\* A tool is run, once.
LEMMA HeldUseTool ==
  ASSUME Inv, LogKept, UseTool
  PROVE  Held'
<1>1. /\ Shape /\ host.phase = "gating" /\ host' = HostAt("using", host.id, host.call)
      /\ UNCHANGED <<loop, child, toChild>> /\ toHost' = toHost /\ UNCHANGED bounds /\ spent' = spent
      /\ ran' = [ran EXCEPT ![host.call] = ran[host.call] + 1]
  BY DEF Inv, UseTool, Stays
<1>2. Underway(host.id, host.call) /\ host.id \in Nat /\ host.call \in Requests /\ host.call # None
  BY <1>1, AtUnderway
<1>3. ran' \in [Calls -> {0, 1}] /\ spent' \in 0..MaxCalls
  <2>1. ran[host.call] = 0
    BY <1>1 DEF Inv, Engine, HostOK
  <2>2. ran' = [ran EXCEPT ![host.call] = 1]
    BY <1>1, <2>1
  <2> QED BY <1>1, <2>2 DEF Shape
<1>4. "using" \in HostPhases \ {"off", "reading"}
  BY DEF HostPhases
<1> QED BY <1>1, <1>2, <1>3, <1>4, HeldStay

\* A record of the call the host is at is written or refused.
LEMMA HeldRecords ==
  ASSUME Inv, LogKept, Deny \/ AskApproval \/ Withdraw \/ FinishCall
  PROVE  Held'
<1>1. /\ Shape /\ host.phase \notin {"off", "reading"} /\ UNCHANGED <<spent, toHost, ran, bounds>>
  BY DEF Inv, Deny, AskApproval, Withdraw, FinishCall
<1>2. Underway(host.id, host.call) /\ host.id \in Nat /\ host.call \in Requests /\ host.call # None
  BY <1>1, AtUnderway
<1>3. spent' \in 0..MaxCalls /\ ran' \in [Calls -> {0, 1}] /\ toHost' = toHost /\ UNCHANGED bounds
  BY <1>1 DEF Shape
<1>4. Reply(host.id, host.call) \/ Stays("asked") \/ Stays("withdrawn")
  <2>1. CASE Deny
    BY <2>1 DEF Deny, Records, Refuse
  <2>2. CASE AskApproval
    BY <2>2 DEF AskApproval, Records, Refuse
  <2>3. CASE Withdraw
    BY <2>3 DEF Withdraw, Records, Refuse
  <2>4. CASE FinishCall
    BY <2>4 DEF FinishCall, Records, Refuse
  <2> QED BY <2>1, <2>2, <2>3, <2>4
<1>5. CASE Reply(host.id, host.call)
  BY <1>1, <1>2, <1>3, <1>5, HeldReply
<1>6. ASSUME NEW phase \in {"asked", "withdrawn"}, Stays(phase) PROVE Held'
  <2>1. phase \in HostPhases \ {"off", "reading"}
    BY DEF HostPhases
  <2>2. host' = HostAt(phase, host.id, host.call) /\ UNCHANGED <<loop, child, toChild>>
    BY <1>6 DEF Stays
  <2> QED BY <1>1, <1>2, <1>3, <2>1, <2>2, HeldStay
<1> QED BY <1>4, <1>5, <1>6

\* The conversation is over.
LEMMA HeldOver ==
  ASSUME Inv, LogKept, scene' = scene, mishaps' \in 0..scene.mishaps,
         host' = Off, child' = Unstarted, toHost' = <<>>, toChild' = <<>>,
         attempt' \in Phases \ {"running"}, dangling' \subseteq Calls, program' \in CodeCalls \cup {None},
         spent' = spent, ran' = ran
  PROVE  Held'
<1>1. Shape
  BY DEF Inv
<1>2. Wired'
  <2>1. attempt' # "running"
    OBVIOUS
  <2> QED BY <1>1, <2>1, WiredOver
<1>3. Shape'
  <2>1. toHost' \in Seq(Frames) /\ toChild' \in Seq([id: Nat, call: Mays])
    OBVIOUS
  <2>2. spent' \in 0..MaxCalls /\ ran' \in [Calls -> {0, 1}]
    BY <1>1 DEF Shape
  <2>3. host' \in [phase: HostPhases, id: Nat, call: Mays] /\ child' \in ChildStatesOf
    BY Values
  <2>4. attempt' \in Phases
    OBVIOUS
  <2> QED BY <1>1, <2>1, <2>2, <2>3, <2>4, ShapeStep
<1> QED BY <1>2, <1>3 DEF Held

\* The program has returned, or was cut short.
LEMMA HeldEnds ==
  ASSUME Inv, LogKept, Hear \/ CutShort("returning") \/ CutShort("leaving")
  PROVE  Held'
<1>1. /\ Shape /\ mishaps \in 0..scene.mishaps /\ scene.mishaps \in Nat
  BY SceneIs DEF Inv, Shape
<1>2. CASE Hear
  <2>1. /\ host' = Off /\ child' = Unstarted /\ toHost' = <<>> /\ toChild' = <<>> /\ attempt' = "returning"
        /\ UNCHANGED <<dangling, program, spent, ran, scene, mishaps>>
    BY <1>2 DEF Hear, Ends, bounds
  <2>2. attempt' \in Phases \ {"running"} /\ dangling' \subseteq Calls /\ program' \in CodeCalls \cup {None}
    BY <1>1, <2>1 DEF Phases, Shape
  <2> QED BY <1>1, <2>1, <2>2, HeldOver
<1>3. ASSUME NEW next \in {"returning", "leaving"}, CutShort(next) PROVE Held'
  <2>1. /\ host' = Off /\ child' = Unstarted /\ toHost' = <<>> /\ toChild' = <<>> /\ attempt' = next
        /\ UNCHANGED <<dangling, program, spent, ran, scene>>
    BY <1>3 DEF CutShort, Cancelled, Ends
  <2>2. mishaps' \in 0..scene.mishaps
    <3>1. mishaps' <= scene.mishaps
      BY <1>3, <2>1 DEF CutShort
    <3>2. mishaps' = mishaps + (IF next = "leaving" THEN 1 ELSE 0) \/ mishaps' = mishaps + 1
      BY <1>3 DEF CutShort
    <3> QED BY <1>1, <3>1, <3>2
  <2>3. attempt' \in Phases \ {"running"} /\ dangling' \subseteq Calls /\ program' \in CodeCalls \cup {None}
    BY <1>1, <2>1 DEF Phases, Shape
  <2> QED BY <1>1, <2>1, <2>2, <2>3, HeldOver
<1> QED BY <1>2, <1>3

-----------------------------------------------------------------------------
(* The types and the channel: the steps of the loop *)

\* A crash takes the process with it.
LEMMA HeldCrash ==
  ASSUME Inv, LogKept, Crash
  PROVE  Held'
<1>1. /\ Shape /\ mishaps \in 0..scene.mishaps /\ scene.mishaps \in Nat
  BY SceneIs DEF Inv, Shape
<1>2. /\ host' = Off /\ child' = Unstarted /\ toHost' = <<>> /\ toChild' = <<>> /\ attempt' = "off"
      /\ dangling' = {} /\ program' = None /\ UNCHANGED <<spent, ran, scene>>
      /\ mishaps' = mishaps + 1 /\ mishaps < scene.mishaps
  BY DEF Crash
<1>3. attempt' \in Phases \ {"running"} /\ dangling' \subseteq Calls /\ program' \in CodeCalls \cup {None}
  BY <1>2 DEF Phases
<1>4. mishaps' \in 0..scene.mishaps
  BY <1>1, <1>2
<1> QED BY <1>1, <1>2, <1>3, <1>4, HeldOver

\* A step outside of the conversation.
LEMMA HeldApart ==
  ASSUME Inv, LogKept, UNCHANGED <<scene, mishaps, host, spent, child, toHost, toChild>>,
         attempt' = "running" <=> attempt = "running",
         attempt' \in Phases, dangling' \subseteq Calls, program' \in CodeCalls \cup {None},
         ran' \in [Calls -> {0, 1}]
  PROVE  Held'
<1>1. Shape /\ Wired
  BY DEF Inv
<1>2. Wired'
  BY <1>1, WiredApart
<1>3. Shape'
  <2>1. /\ mishaps' \in 0..scene.mishaps /\ scene' = scene
        /\ host' \in [phase: HostPhases, id: Nat, call: Mays] /\ spent' \in 0..MaxCalls
        /\ child' \in ChildStatesOf /\ toHost' \in Seq(Frames)
        /\ toChild' \in Seq([id: Nat, call: Mays])
    BY <1>1 DEF Shape
  <2> QED BY <1>1, <2>1, ShapeStep
<1> QED BY <1>2, <1>3 DEF Held

\* The steps of the loop that run no tool and begin no program.
LEMMA HeldLoop ==
  ASSUME Inv, LogKept, BeginAttempt \/ Recovered \/ Park \/ Settle \/ RecordProgram \/ Answer
  PROVE  Held'
<1>1. Shape /\ Tidy(log) /\ Engine
  BY DEF Inv
<1>2. UNCHANGED <<scene, mishaps, host, spent, child, toHost, toChild>>
  BY DEF BeginAttempt, Recovered, Park, Settle, RecordProgram, Answer, LoopOnly, bounds, wire
<1>3. ran' \in [Calls -> {0, 1}]
  <2>1. ran' = ran
    BY DEF BeginAttempt, Recovered, Park, Settle, RecordProgram, Answer
  <2> QED BY <1>1, <2>1 DEF Shape
<1>4. /\ attempt' = "running" <=> attempt = "running"
      /\ attempt' \in Phases
  <2>1. CASE BeginAttempt
    BY <2>1 DEF BeginAttempt, Phases
  <2>2. CASE Recovered \/ Park
    BY <2>2 DEF Recovered, Park, Phases
  <2>3. CASE Settle
    BY <2>3 DEF Settle, Phases
  <2>4. CASE RecordProgram
    BY <2>4 DEF RecordProgram, Phases
  <2>5. CASE Answer
    BY <1>1, <2>5 DEF Answer, Phases, Shape
  <2> QED BY <2>1, <2>2, <2>3, <2>4, <2>5
<1>5. dangling' \subseteq Calls
  <2>1. CASE BeginAttempt
    <3>1. Caught = Truth /\ ViewOK(Truth)
      BY <1>1, CaughtIs
    <3>2. dangling' = Truth.open_tool_calls
      BY <2>1, <3>1 DEF BeginAttempt
    <3> QED BY <3>1, <3>2 DEF ViewOK
  <2>2. CASE Recovered \/ Park \/ Settle \/ RecordProgram \/ Answer
    BY <1>1, <2>2 DEF Recovered, Park, Settle, RecordProgram, Answer, Shape
  <2> QED BY <2>1, <2>2
<1>6. program' \in CodeCalls \cup {None}
  <2>1. program' \in {program, None}
    BY DEF BeginAttempt, Recovered, Park, Settle, RecordProgram, Answer
  <2> QED BY <1>1, <2>1 DEF Shape
<1> QED BY <1>2, <1>3, <1>4, <1>5, <1>6, HeldApart

\* A call that a person has approved and that is open has not been run.
LEMMA ApprovedNotRun ==
  ASSUME Inv, NEW call \in Calls, view.approval_decisions[call] = "approved",
         call \in Truth.open_tool_calls
  PROVE  ran[call] = 0
<1>1. /\ Shape /\ Tidy(log) /\ Engine /\ ProperLog(log)
      /\ view.head_seq \in 0..Len(log) /\ view = Prefix(log, view.head_seq).view
  BY CaughtIs DEF Inv, Tidy, Engine
<1>2. DecisionsOK(view, log, view.head_seq)
  BY <1>1, AnswersInLog
<1>3. Asked(call, log, view.head_seq)
  BY <1>2, ProgramsAssumption DEF DecisionsOK
<1>4. PICK a \in 1..Len(log) : log[a].type = "suspended" /\ log[a].call = call
  <2>1. \A i \in 1..view.head_seq : i \in 1..Len(log)
    BY <1>1
  <2> QED BY <1>3, <2>1 DEF Asked
<1>5. Gate(call) = "ask"
  BY <1>1, <1>4 DEF Tidy, Sorts
<1>6. \A i : ~EndsAt(log, call, i)
  BY <1>1, CallsKnown DEF Truth
<1>7. ran[call] # 1
  BY <1>1, <1>5, <1>6 DEF Engine, RanOK
<1> QED BY <1>1, <1>7 DEF Shape

\* A call of a dead Attempt is closed.
LEMMA HeldSettleCall ==
  ASSUME Inv, LogKept, SettleCall
  PROVE  Held'
<1>1. Shape /\ Engine
  BY DEF Inv
<1>2. PICK call \in dangling :
        /\ ran' = (IF view.approval_decisions[call] = "approved"
                   THEN [ran EXCEPT ![call] = ran[call] + 1] ELSE ran)
        /\ dangling' = dangling \ {call}
  BY DEF SettleCall
<1>3. /\ attempt = "recovering" /\ UNCHANGED <<scene, mishaps, attempt, program, host, spent, child, toHost, toChild>>
  BY DEF SettleCall, LoopOnly, bounds, wire
<1>4. dangling = Truth.open_tool_calls /\ call \in Calls
  BY <1>1, <1>2, <1>3 DEF Engine, LoopOK, Shape
<1>5. ran' \in [Calls -> {0, 1}]
  <2>1. CASE view.approval_decisions[call] = "approved"
    <3>1. ran[call] = 0
      BY <1>2, <1>4, <2>1, ApprovedNotRun
    <3>2. ran' = [ran EXCEPT ![call] = 1]
      BY <1>2, <2>1, <3>1
    <3> QED BY <1>1, <3>2 DEF Shape
  <2>2. CASE view.approval_decisions[call] # "approved"
    BY <1>1, <1>2, <2>2 DEF Shape
  <2> QED BY <2>1, <2>2
<1>6. attempt' \in Phases /\ dangling' \subseteq Calls /\ program' \in CodeCalls \cup {None}
  BY <1>1, <1>2, <1>3 DEF Shape
<1> QED BY <1>3, <1>5, <1>6, HeldApart

\* A program begins with a channel of its own.
LEMMA HeldRunCode ==
  ASSUME Inv, LogKept, RunCode
  PROVE  Held'
<1>1. Shape /\ scene.frames \in Nat
  BY SceneIs DEF Inv
<1>2. PICK fresh : fresh = [Unstarted EXCEPT !.alive = TRUE]
  OBVIOUS
<1>3. PICK call : call = CHOOSE c \in CodeCalls \ Known : TRUE
  OBVIOUS
<1>4. /\ attempt' = "running" /\ program' = call /\ CodeCalls \ Known # {}
      /\ host' = Reading /\ spent' = 0 /\ child' = fresh /\ toHost' = <<>> /\ toChild' = <<>>
      /\ UNCHANGED <<dangling, ran, scene, mishaps>>
  BY <1>2, <1>3 DEF RunCode, bounds
<1>5. call \in CodeCalls
  BY <1>3, <1>4
<1>6. /\ fresh \in ChildStatesOf /\ fresh.alive = TRUE /\ fresh.next = 0
      /\ \A t \in Tasks : fresh.task[t].asked = None /\ fresh.task[t].got = None
  BY <1>2, Values DEF Unstarted, NotAsked
<1>7. host'.phase = "reading" /\ host'.call = None /\ host' \in [phase: HostPhases, id: Nat, call: Mays]
  BY <1>4, Values
<1>8. /\ \A id \in Nat, c \in Requests : ~Underway(id, c)'
      /\ Len(toHost') = 0 /\ Len(toChild') = 0 /\ Busy' = 0 /\ DOMAIN toHost' = {}
  BY <1>4, <1>7, NothingUnderway
<1>9. Shape'
  <2>1. toHost' \in Seq(Frames) /\ toChild' \in Seq([id: Nat, call: Mays])
    BY <1>4
  <2>2. spent' \in 0..MaxCalls /\ ran' \in [Calls -> {0, 1}] /\ attempt' \in Phases
    BY <1>1, <1>4, ProgramsAssumption DEF Shape, Phases
  <2>3. mishaps' \in 0..scene.mishaps /\ dangling' \subseteq Calls /\ program' \in CodeCalls \cup {None}
    BY <1>1, <1>4, <1>5 DEF Shape
  <2> QED BY <1>1, <1>4, <1>6, <1>7, <2>1, <2>2, <2>3, ShapeStep
<1>10. Wired'
  <2>1. (host.phase # "off" <=> attempt = "running")' /\ (host.phase = "off" => host = Off)'
        /\ (host.call = None <=> host.phase \in {"off", "reading"})' /\ (child.alive => attempt = "running")'
    BY <1>4, <1>7
  <2>2. (~child.alive => child = Unstarted)' /\ (child.next <= scene.frames)'
    BY <1>1, <1>4, <1>6
  <2>3. (Len(toHost) <= scene.frames + 1 /\ Len(toChild) <= scene.frames)'
    BY <1>1, <1>4, <1>8
  <2>4. Len(toHost') + Len(toChild') + Busy' <= child'.next
    BY <1>4, <1>6, <1>8
  <2>5. \A t \in Tasks : child'.task[t].asked = None /\ child'.task[t].got = None
    BY <1>4, <1>6
  <2> HIDE DEF Underway, Busy
  <2> QED BY <1>8, <2>1, <2>2, <2>3, <2>4, <2>5 DEF Wired, Requests
<1> QED BY <1>9, <1>10 DEF Held

-----------------------------------------------------------------------------
(* The invariant *)

\* It holds of a Run that was just admitted.
LEMMA InvInit ==
  ASSUME Init
  PROVE  Inv
<1>1. PICK rec : rec = [type |-> "run_admitted"]
  OBVIOUS
<1>2. /\ scene \in Scenes /\ log = <<rec>> /\ view = Truth
      /\ attempt = "off" /\ dangling = {} /\ program = None /\ host = Off /\ spent = 0
      /\ child = Unstarted /\ toHost = <<>> /\ toChild = <<>>
      /\ ran = [c \in Calls |-> 0] /\ mishaps = 0
  BY <1>1 DEF Init, Truth
<1>3. PICK e : e = <<>>
  OBVIOUS
<1>4. log = Append(e, rec) /\ Len(e) = 0 /\ rec.type = "run_admitted"
  BY <1>1, <1>2, <1>3
<1>5. Tidy(e) /\ Reduced(e).view = EmptyView
  <2>1. ProperLog(e) /\ Reduced(e).view = EmptyView
    BY <1>3, EmptyLog
  <2>2. DOMAIN e = {} /\ 1..Len(e) = {}
    BY <1>3
  <2>3. Sorts(e) /\ AskedOnce(e) /\ Contained(e)
    BY <2>2 DEF Sorts, AskedOnce, Contained
  <2>4. Budgeted(e)
    <3>1. ProgramCalls(e) = {} /\ \A p : CallsOf(e, p) = {}
      BY <2>2 DEF ProgramCalls, CallsOf, CallPlaces
    <3>2. Cardinality({}) = 0
      BY FS_EmptySet
    <3> QED BY <3>1, <3>2, ProgramsAssumption DEF Budgeted
  <2> QED BY <2>1, <2>3, <2>4 DEF Tidy
<1>6. MayAppend(e, rec)
  BY <1>4, <1>5 DEF MayAppend, RecordTypes, WellFormed, Accepts, RecordAccepted, EmptyView
<1>7. Extended(e, rec, log) /\ Tidy(log) /\ Effect(EmptyView, rec, Truth)
  BY <1>4, <1>5, <1>6, TidyAfter DEF Truth
<1>8. Len(log) = 1 /\ Len(log) \in Nat
  BY <1>4, <1>7 DEF Extended
<1>9. Truth.head_seq = 1 /\ view = Prefix(log, view.head_seq).view
  <2>1. Reduced(log) = Prefix(log, Len(log)) /\ Reduced(log).view.head_seq = Len(log)
    BY <1>7, ProperFold DEF Tidy
  <2> QED BY <1>2, <1>8, <2>1 DEF Truth
<1>10. Shape
  <2>1. mishaps \in 0..scene.mishaps
    BY <1>2, ProgramsAssumption
  <2>2. view.head_seq \in 1..Len(log)
    BY <1>2, <1>8, <1>9
  <2>3. spent \in 0..MaxCalls /\ ran \in [Calls -> {0, 1}] /\ attempt \in Phases
    BY <1>2, ProgramsAssumption DEF Phases
  <2>4. toHost \in Seq(Frames) /\ toChild \in Seq([id: Nat, call: Mays])
    BY <1>2
  <2>5. dangling \subseteq Calls /\ program \in CodeCalls \cup {None}
    BY <1>2
  <2> QED BY <1>2, <2>1, <2>2, <2>3, <2>4, <2>5, Values DEF Shape
<1>11. Wired
  <2>1. scene.frames \in Nat
    BY <1>10, SceneIs
  <2>2. host.phase = "off" /\ host.call = None /\ child.alive = FALSE /\ child.next = 0 /\ host = Off
    BY <1>2, Values
  <2>3. \A t \in Tasks : child.task[t].asked = None => child.task[t].got = None
    BY <1>2, Values
  <2>4. Len(toHost) = 0 /\ Len(toChild) = 0 /\ DOMAIN toHost = {}
    BY <1>2
  <2> QED BY <1>2, <2>1, <2>2, <2>3, <2>4 DEF Wired
<1>12. LoopOK
  <2>1. /\ EmptyView.settled = FALSE /\ EmptyView.turn_open = FALSE /\ EmptyView.model_call_open = FALSE
    BY DEF EmptyView
  <2>2. /\ Truth.admitted = TRUE /\ Truth.settled = FALSE /\ Truth.turn_open = FALSE
        /\ Truth.model_call_open = FALSE
    BY <1>4, <1>7, <2>1 DEF Effect, TurnOpenAfter, ModelCallOpenAfter
  <2> QED BY <1>2, <2>2 DEF LoopOK
<1>13. HostOK
  BY <1>2, Values DEF HostOK
<1>14. RanOK
  BY <1>2 DEF RanOK
<1> QED BY <1>7, <1>9, <1>10, <1>11, <1>12, <1>13, <1>14 DEF Inv, Engine

\* Every step keeps it.
LEMMA InvStep ==
  ASSUME Inv, [Next]_vars
  PROVE  Inv'
<1>1. Shape /\ Tidy(log) /\ Wired /\ Engine
  BY DEF Inv
<1>2. ASSUME LogKept, Held' PROVE Inv'
  BY <1>2 DEF LogKept, Held, Inv
<1>3. CASE Admit
  BY <1>1, <1>2, <1>3, LogOfAdmit, HeldAdmit
<1>4. CASE UseTool
  BY <1>1, <1>2, <1>4, LogOfUseTool, HeldUseTool
<1>5. CASE Deny \/ AskApproval \/ Withdraw \/ FinishCall
  BY <1>1, <1>2, <1>5, LogOfCallRecords, HeldRecords
<1>6. CASE Hear
  BY <1>1, <1>2, <1>6, LogOfHear, HeldEnds
<1>7. CASE Receive
  <2>1. LogKept
    BY <1>1, <1>7, LogOfOthers DEF Receive
  <2> QED BY <1>2, <1>7, <2>1, HeldReceive
<1>8. ASSUME NEW t \in scene.tasks, Call(t) PROVE Inv'
  <2>1. LogKept
    BY <1>1, <1>8, LogOfOthers DEF Call
  <2> QED BY <1>2, <1>8, <2>1, HeldCall
<1>9. ASSUME NEW t \in scene.tasks, GiveUp(t) PROVE Inv'
  <2>1. LogKept
    BY <1>1, <1>9, LogOfOthers DEF GiveUp
  <2> QED BY <1>2, <1>9, <2>1, HeldGiveUp
<1>10. CASE Return \/ Die
  <2>1. LogKept
    BY <1>1, <1>10, LogOfOthers DEF Return, Die
  <2> QED BY <1>2, <1>10, <2>1, HeldGone
<1>11. CASE BeginAttempt
  BY <1>1, <1>2, <1>11, LogOfBegin, HeldLoop
<1>12. CASE SettleCall
  BY <1>1, <1>2, <1>12, LogOfSettleCall, HeldSettleCall
<1>13. CASE Recovered \/ Park
  BY <1>1, <1>2, <1>13, LogOfPause, HeldLoop
<1>14. CASE RunCode
  BY <1>1, <1>2, <1>14, LogOfRunCode, HeldRunCode
<1>15. CASE Settle
  BY <1>1, <1>2, <1>15, LogOfSettle, HeldLoop
<1>16. CASE RecordProgram
  BY <1>1, <1>2, <1>16, LogOfRecordProgram, HeldLoop
<1>17. CASE CutShort("returning") \/ CutShort("leaving")
  BY <1>1, <1>2, <1>17, LogOfCutShort, HeldEnds
<1>18. CASE Crash
  BY <1>1, <1>2, <1>18, LogOfCrash, HeldCrash
<1>19. CASE Answer
  BY <1>1, <1>2, <1>19, LogOfAnswer, HeldLoop
<1>20. CASE UNCHANGED vars
  <2>1. /\ UNCHANGED <<log, view, loop, host, spent, ran>>
        /\ UNCHANGED <<scene, mishaps, host, spent, child, toHost, toChild, attempt, dangling, program, ran>>
    BY <1>20 DEF vars, loop, wire, bounds
  <2>2. LogKept
    BY <1>1, <2>1, LogOfOthers
  <2>3. attempt' \in Phases /\ dangling' \subseteq Calls /\ program' \in CodeCalls \cup {None} /\ ran' \in [Calls -> {0, 1}]
    BY <1>1, <2>1 DEF Shape
  <2> QED BY <1>2, <2>1, <2>2, <2>3, HeldApart
<1> QED BY <1>3, <1>4, <1>5, <1>6, <1>7, <1>8, <1>9, <1>10, <1>11, <1>12, <1>13, <1>14, <1>15, <1>16,
           <1>17, <1>18, <1>19, <1>20 DEF Next, HostMoves, ChildMoves, LoopMoves

-----------------------------------------------------------------------------
(* What it says *)

\* The types of the run.
LEMMA InvTypes == ASSUME Inv PROVE TypeOK
<1>1. /\ Shape /\ Wired /\ scene.frames \in Nat /\ scene.mishaps \in Nat
  BY SceneIs DEF Inv
<1>2. /\ view.head_seq \in 1..Len(log)
      /\ attempt \in Phases /\ dangling \subseteq Calls /\ program \in CodeCalls \cup {None}
      /\ spent \in 0..MaxCalls /\ mishaps \in 0..scene.mishaps
  BY <1>1 DEF Shape
<1>3. host.phase \in {"off", "reading", "gating", "using", "asked", "withdrawn"}
  BY <1>1, Fields DEF HostPhases
<1>4. child.next \in 0..scene.frames /\ child.alive \in BOOLEAN
  BY <1>1, Fields DEF Wired
<1>5. \A t \in Tasks : child.task[t].asked \in Requests \cup {None}
  BY <1>1, Fields DEF Mays
<1>6. Len(toHost) <= scene.frames + 1 /\ Len(toChild) <= scene.frames
  BY <1>1 DEF Wired
<1>7. ran \in [Calls -> 0..scene.mishaps + 1]
  <2>1. ran \in [Calls -> {0, 1}] /\ \A n \in {0, 1} : n \in 0..scene.mishaps + 1
    BY <1>1 DEF Shape
  <2> QED BY <2>1
<1> QED BY <1>2, <1>3, <1>4, <1>5, <1>6, <1>7 DEF TypeOK

\* Where a call of a program starts, and which program it is of.
LEMMA ParentIs ==
  ASSUME Inv, NEW c \in ProgramCalls(log)
  PROVE  /\ Parent(c) \in CodeCalls
         /\ \E a \in CallPlaces(log, Parent(c)) :
              log[a].call = c /\ \A j : StartsAt(log, c, j) => j = a
<1>1. /\ Tidy(log) /\ ProperLog(log) /\ Len(log) \in Nat /\ DOMAIN log = 1..Len(log)
  BY DEF Inv, Tidy, ProperLog
<1>2. PICK a \in 1..Len(log) : /\ log[a].type = "tool_call_started" /\ log[a].parent \in CodeCalls
                               /\ log[a].call = c
  BY <1>1 DEF ProgramCalls
<1>3. \A j : StartsAt(log, c, j) => j = a
  <2> SUFFICES ASSUME NEW j, StartsAt(log, c, j) PROVE j = a
    OBVIOUS
  <2>1. j \in 1..Len(log) /\ log[j].type = "tool_call_started" /\ log[j].call = log[a].call
    BY <1>2 DEF StartsAt
  <2>2. ~(a < j) /\ ~(j < a)
    BY <1>1, <1>2, <2>1, CallStartsInLog
  <2> QED BY <1>1, <2>1, <2>2
<1>4. a \in Position("tool_call_started", c) /\ \A j \in Position("tool_call_started", c) : j = a
  BY <1>1, <1>2, <1>3 DEF Position, StartsAt
<1>5. Parent(c) = log[a].parent
  <2>1. (CHOOSE i \in Position("tool_call_started", c) : TRUE) \in Position("tool_call_started", c)
    BY <1>4
  <2>2. (CHOOSE i \in Position("tool_call_started", c) : TRUE) = a
    BY <1>4, <2>1
  <2> QED BY <2>2 DEF Parent
<1> QED BY <1>2, <1>3, <1>5 DEF CallPlaces

\* A program's calls lie within it.
LEMMA InvContains == ASSUME Inv PROVE NothingOutlivesItsProgram
<1>1. Tidy(log) /\ Wired /\ DOMAIN log = 1..Len(log)
  BY DEF Inv, Tidy, ProperLog
<1>2. attempt \in {"looping", "settled"} => host = Off /\ ~child.alive
  BY <1>1 DEF Wired
<1>3. ASSUME NEW c \in ProgramCalls(log), NEW i \in Position("tool_call_started", Parent(c))
      PROVE  /\ \A j \in Position("tool_call_started", c) :
                  ~TakenOver(i, j) /\ \A k \in Position("tool_call_finished", Parent(c)) : j < k
             /\ \A j \in Position("tool_call_finished", c) :
                  TakenOver(i, j) \/ \A k \in Position("tool_call_finished", Parent(c)) : j < k
  <2>1. PICK p : p = Parent(c)
    OBVIOUS
  <2>2. p \in CodeCalls
    BY <2>1, ParentIs
  <2>3. PICK a \in CallPlaces(log, p) : log[a].call = c /\ \A j : StartsAt(log, c, j) => j = a
    BY <2>1, ParentIs
  <2>4. i \in 1..Len(log) /\ StartsAt(log, p, i)
    BY <1>1, <1>3, <2>1 DEF Position, StartsAt
  <2>5. /\ ~Over(log, i, a)
        /\ \A k \in 1..Len(log) : EndsAt(log, p, k) => a < k
        /\ \A e \in 1..Len(log) : EndsAt(log, log[a].call, e) =>
             Over(log, i, e) \/ \A k \in 1..Len(log) : EndsAt(log, p, k) => e < k
    BY <1>1, <2>2, <2>4 DEF Tidy, Contained
  <2>6. \A j \in Position("tool_call_started", c) : j = a
    BY <1>1, <2>3 DEF Position, StartsAt
  <2>7. \A x : \A k \in Position("tool_call_finished", x) : k \in 1..Len(log) /\ EndsAt(log, x, k)
    BY <1>1 DEF Position, EndsAt
  <2>8. \A x, y : TakenOver(x, y) <=> Over(log, x, y)
    BY DEF TakenOver, Over
  <2> QED BY <2>1, <2>3, <2>5, <2>6, <2>7, <2>8
<1> QED BY <1>2, <1>3 DEF NothingOutlivesItsProgram

\* The allowances hold.
LEMMA InvBudgets == ASSUME Inv PROVE BudgetsHold
<1>1. Tidy(log) /\ Len(log) \in Nat /\ DOMAIN log = 1..Len(log)
  BY DEF Inv, Tidy, ProperLog
<1>2. ASSUME NEW p \in CodeCalls
      PROVE  Cardinality({c \in ProgramCalls(log) : Parent(c) = p}) <= MaxCalls
  <2> DEFINE S == {c \in ProgramCalls(log) : Parent(c) = p}
  <2>1. S \subseteq CallsOf(log, p)
    BY ParentIs DEF CallsOf
  <2>2. IsFiniteSet(CallsOf(log, p)) /\ Cardinality(CallsOf(log, p)) \in Nat
    BY <1>1, FinitelyMany
  <2> HIDE DEF S
  <2>3. Cardinality(S) <= Cardinality(CallsOf(log, p)) /\ Cardinality(S) \in Nat
    BY <2>1, <2>2, FS_Subset, FS_CardinalityType
  <2>4. Cardinality(CallsOf(log, p)) <= MaxCalls
    BY <1>1 DEF Tidy, Budgeted
  <2>5. Cardinality(S) <= MaxCalls
    BY <2>2, <2>3, <2>4, ProgramsAssumption
  <2> QED BY <2>5 DEF S
<1> QED BY <1>1, <1>2 DEF BudgetsHold, Tidy, Budgeted

\* A coroutine hears of its own call only.
LEMMA InvAnswers == ASSUME Inv PROVE AnswersReachTheCaller
<1>1. Wired /\ Shape
  BY DEF Inv
<1>2. ASSUME NEW t \in Tasks PROVE child.task[t].got \in {child.task[t].asked, None}
  <2>1. CASE child.task[t].asked = None
    BY <1>1, <2>1 DEF Wired
  <2>2. CASE child.task[t].asked # None /\ child.alive
    BY <1>1, <2>2 DEF Wired
  <2>3. CASE ~child.alive
    BY <1>1, <2>3, Values DEF Wired
  <2> QED BY <2>1, <2>2, <2>3
<1> QED BY <1>2 DEF AnswersReachTheCaller

\* A tool runs for a call the log has, and when it may.
LEMMA InvRuns == ASSUME Inv PROVE OnlyAllowedToolsRun
<1>1. Shape /\ Engine /\ Tidy(log)
  BY DEF Inv
<1>2. ASSUME NEW c \in Requests, ran[c] > 0
      PROVE  c \in Known /\ (Gate(c) = "allow" \/ (Gate(c) = "ask" /\ view.approval_decisions[c] = "approved"))
  <2>1. c \in Calls /\ ran[c] \in {0, 1}
    BY <1>1 DEF Shape, Requests
  <2>2. ran[c] = 1
    BY <1>2, <2>1
  <2>3. /\ \E i \in 1..Len(log) : StartsAt(log, c, i)
        /\ Gate(c) = "allow" \/ (Gate(c) = "ask" /\ view.approval_decisions[c] = "approved")
    BY <1>1, <2>1, <2>2 DEF Engine, RanOK
  <2> QED BY <1>1, <2>3, KnownIs
<1> QED BY <1>2 DEF OnlyAllowedToolsRun

\* The programs of a Run are contained, in every behaviour: a program calls only
\* while it is under way, in the Attempt that runs it, and what it asked for is
\* over before its own record is written unless an Attempt died in between; the
\* budgets bound what is in the log over every program, Attempt and restart; a
\* coroutine hears of the call it made and of no other; and a tool runs once, for
\* a call that is in the log and that Policy or a person allows
\* (sandbox/protocol.py: run_protocol; sandbox/_bootstrap.py; tools/bindings.py:
\* budgeted; runtime/agent.py: call_as_binding, _settle_dangling_calls).
THEOREM ProgramsContained == Spec => []ProgramsAreContained
<1>1. Init => Inv
  BY InvInit
<1>2. Inv /\ [Next]_vars => Inv'
  BY InvStep
<1>3. Inv => ProgramsAreContained
  BY InvTypes, InvContains, InvBudgets, InvAnswers, InvRuns DEF ProgramsAreContained
<1> QED BY <1>1, <1>2, <1>3, PTL DEF Spec

\* The invariant itself: what the log, the channel and the Attempt say of each
\* other in every state.
THEOREM ProgramsInvariant == Spec => []Inv
<1>1. Init => Inv
  BY InvInit
<1>2. Inv /\ [Next]_vars => Inv'
  BY InvStep
<1> QED BY <1>1, <1>2, PTL DEF Spec
=============================================================================
