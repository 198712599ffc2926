------------------------------ MODULE Journal_proofs ------------------------------
(***************************************************************************)
(* Several writers on one log, for every number of Attempts and consumers  *)
(* and logs of every length.                                               *)
(*                                                                         *)
(* Sound is inductive and implies JournalsAreSound.  Its heart is that a   *)
(* Journal whose head is the log's accepts exactly what the log accepts:   *)
(* the fold it carries, continued over absorbed records, is alike to the   *)
(* fold of the whole log, except for used entry ids, which a send never    *)
(* repeats.                                                                *)
(*                                                                         *)
(* Everything the log promises a reader (NothingIsUsedTwice,               *)
(* NothingSteersAfterAbort) follows from its being sound.  That the        *)
(* Attempts take turns needs the authors: Apart is inductive relative to   *)
(* Sound.                                                                  *)
(***************************************************************************)
EXTENDS Journal, RunLog_proofs, FiniteSetTheorems

\* The entry ids of a log, and of the log.
EnqueuedIn(s) == {s[i].entry : i \in {k \in DOMAIN s : s[k].type = "queue_enqueued"}}

Enqueued == EnqueuedIn(log)

\* The phases in which a Journal holds a record for its second try.
Waiting == {"conflicted", "absorbed"}

\* One Journal against the log s: what it carries is a fold of a prefix, and the
\* entry id it holds is not in the log.
JournalOK(x, s) ==
  /\ DOMAIN x = {"phase", "state", "began", "record"}
  /\ x.phase \in Phases /\ x.began \in BOOLEAN
  /\ IF x.phase \in {"closed", "stopped"}
     THEN x.state = EmptyView
     ELSE x.state.head_seq \in 0..Len(s) /\ Alike(x.state, Prefix(s, x.state.head_seq).view)
  /\ IF x.phase \in Waiting
     THEN /\ WellFormed(x.record)
          /\ x.record.type = "queue_enqueued" => x.record.entry \notin EnqueuedIn(s)
     ELSE x.record = None

\* The log is one that reduce accepts.
LogOK ==
  /\ log \in Seq(InSeq(log))
  /\ author \in Seq(Journals \cup {None}) /\ Len(author) = Len(log)
  /\ \A i \in 1..Len(log) : WellFormed(log[i])
  /\ Reduced(log).sound = TRUE
  /\ Reduced(log).seen.enqueued \subseteq Enqueued

\* Journal j waits to enqueue entry.
Holds(j, entry) ==
  /\ journal[j].phase \in Waiting
  /\ journal[j].record.type = "queue_enqueued"
  /\ journal[j].record.entry = entry

\* No two Journals hold the same entry id.
HeldApart == \A i, j \in Journals : \A e \in Entries : Holds(i, e) /\ Holds(j, e) => i = j

\* The inductive invariant.  JournalsAreSound alone is not: a write is accepted
\* by the log only because the carried state is a fold of it, and, since a
\* continued fold forgets used entry ids, because a held id is nowhere else.
Sound ==
  /\ LogOK
  /\ journal = [j \in Journals |-> journal[j]]
  /\ \A j \in Journals : JournalOK(journal[j], log)
  /\ HeldApart

-----------------------------------------------------------------------------

\* The log create_run writes is sound and no Journal is open.
LEMMA InitSound ==
  Init => Sound
<1> SUFFICES ASSUME Init PROVE Sound
  OBVIOUS
<1> USE JournalAssumption
<1> DEFINE r == [type |-> "run_admitted"]
<1>1. log = <<r>> /\ Len(log) = 1 /\ log[1] = r /\ DOMAIN log = {1}
  BY DEF Init
<1>2. log \in Seq(InSeq(log))
  BY <1>1 DEF InSeq
<1>3. author \in Seq(Journals \cup {None}) /\ Len(author) = 1
  BY DEF Init
<1>4. WellFormed(r)
  BY DEF WellFormed
<1>5. Prefix(log, 1) = Folded(EmptyFold, r)
  <2>1. 1 \in 1..Len(log) /\ 1 - 1 = 0
    BY <1>1
  <2>2. Prefix(log, 1) = Folded(Prefix(log, 1 - 1), log[1])
    BY <1>2, <2>1, PrefixStep
  <2> QED BY <1>1, <1>2, <2>1, <2>2, PrefixNone
<1>6. Reduced(log) = Folded(EmptyFold, r)
  BY <1>1, <1>2, <1>5, PrefixAll
<1>7. EmptyFold.sound = TRUE /\ EmptyFold.view = EmptyView /\ EmptyFold.seen.enqueued = {}
  BY DEF EmptyFold, Started, SeenFrom, Pending, InSeq, EmptyView
<1>8. Accepts(EmptyFold, r)
  BY <1>7 DEF Accepts, RecordAccepted, EmptyView
<1>9. Reduced(log).sound = TRUE /\ Reduced(log).seen = EmptyFold.seen
  <2>1. Folded(EmptyFold, r).sound = TRUE
    BY <1>7, <1>8, FoldedAccepted
  <2>2. Folded(EmptyFold, r).seen = SeenAfter(EmptyFold.seen, r)
    BY <1>7, <1>8, FoldedAccepted
  <2> QED BY <1>6, <2>1, <2>2 DEF SeenAfter
<1>10. LogOK
  BY <1>1, <1>2, <1>3, <1>4, <1>7, <1>9 DEF LogOK, Enqueued, EnqueuedIn
<1>11. \A j \in Journals : journal[j] = Closedown
  BY DEF Init
<1>12. JournalOK(Closedown, log)
  BY DEF JournalOK, Closedown, Phases, Waiting
<1> QED BY <1>10, <1>11, <1>12 DEF Sound, HeldApart, Holds, Init, Closedown, Waiting
-----------------------------------------------------------------------------

\* A step that leaves the log alone keeps the invariant when the one Journal it
\* changes fits the log and holds no entry id that another holds.
LEMMA QuietStep ==
  ASSUME Sound, log' = log, author' = author, NEW j \in Journals, NEW x,
         journal' = [journal EXCEPT ![j] = x],
         JournalOK(x, log),
         x.phase \in Waiting /\ x.record.type = "queue_enqueued" =>
           \A i \in Journals \ {j} : ~Holds(i, x.record.entry)
  PROVE  Sound'
<1>1. LogOK'
  BY DEF Sound, LogOK, Enqueued, EnqueuedIn
<1>2. /\ journal' = [i \in Journals |-> journal'[i]]
      /\ journal'[j] = x
      /\ \A i \in Journals \ {j} : journal'[i] = journal[i]
  BY DEF Sound
<1>4. \A i \in Journals : JournalOK(journal'[i], log')
  BY <1>2 DEF Sound
<1>5. HeldApart'
  <2>1. \A i \in Journals \ {j} : \A e : Holds(i, e)' <=> Holds(i, e)
    BY <1>2 DEF Holds
  <2>2. \A e : Holds(j, e)' => \A i \in Journals \ {j} : ~Holds(i, e)
    BY <1>2 DEF Holds
  <2> QED BY <2>1, <2>2 DEF HeldApart, Sound
<1> QED BY <1>1, <1>2, <1>4, <1>5 DEF Sound

\* A record that a Journal with nothing missing accepts, the log accepts: what
\* _append_once checked on the carried state holds of the log it writes to.
LEMMA AcceptedByLog ==
  ASSUME Sound, NEW j \in Journals, Live(j), Len(log) = journal[j].state.head_seq,
         NEW rec, Accepted(j, rec), rec.type = "queue_enqueued" => rec.entry \notin Enqueued
  PROVE  /\ Follows(Started(journal[j].state), Reduced(log))
         /\ Accepts(Reduced(log), rec)
<1> DEFINE v == journal[j].state
<1>1. FoldOK(Reduced(log)) /\ Prefix(log, Len(log)) = Reduced(log)
  <2>1. Prefix(log, Len(log)) = Reduced(log)
    BY PrefixAll DEF Sound, LogOK
  <2>2. Len(log) \in 0..Len(log)
    BY DEF Sound, LogOK
  <2> QED BY <2>1, <2>2, SoundLog DEF Sound, LogOK
<1>2. Alike(v, Reduced(log).view)
  BY <1>1 DEF Sound, JournalOK, Live, Phases
<1>3. Follows(Started(v), Reduced(log))
  BY <1>1, <1>2, StartedFollows
<1>4. Accepts(Started(v), rec)
  BY DEF Accepted
<1>5. rec.type = "queue_enqueued" => rec.entry \notin Reduced(log).seen.enqueued
  BY DEF Sound, LogOK
<1> HIDE DEF v
<1>6. Accepts(Reduced(log), rec)
  BY <1>3, <1>4, <1>5, FollowedAccepts
<1> QED BY <1>3, <1>6 DEF v

\* The log after a write that it accepts.
LEMMA WrittenLog ==
  ASSUME Sound, NEW j \in Journals, NEW rec, WellFormed(rec), Accepts(Reduced(log), rec),
         log' = Append(log, rec), author' = Append(author, j)
  PROVE  /\ LogOK'
         /\ Reduced(log)' = Folded(Reduced(log), rec)
         /\ \A n \in 0..Len(log) : Prefix(log, n)' = Prefix(log, n)
         /\ Prefix(log', Len(log) + 1) = Folded(Reduced(log), rec)
         /\ Enqueued' = Enqueued \cup (IF rec.type = "queue_enqueued" THEN {rec.entry} ELSE {})
<1> DEFINE n == Len(log)
<1>1. /\ log' \in Seq(InSeq(log')) /\ Len(log') = n + 1 /\ n \in Nat
      /\ \A i \in 1..n : log'[i] = log[i]
      /\ log'[n + 1] = rec
      /\ DOMAIN log' = 1..n + 1 /\ DOMAIN log = 1..n
  BY AppendedLog DEF Sound, LogOK
<1>2. author' \in Seq(Journals \cup {None}) /\ Len(author') = n + 1
  BY <1>1 DEF Sound, LogOK
<1>3. \A k \in 0..n : Prefix(log', k) = Prefix(log, k)
  BY PrefixOfAppend DEF Sound, LogOK
<1>4. Reduced(log') = Folded(Reduced(log), rec)
  BY FoldAppend DEF Sound, LogOK, Reduced
<1>5. Prefix(log', n + 1) = Reduced(log')
  BY <1>1, PrefixAll
<1>6. Reduced(log').sound = TRUE /\ Reduced(log').seen = SeenAfter(Reduced(log).seen, rec)
  BY <1>4, FoldedAccepted DEF Sound, LogOK
<1>7. \A i \in 1..n + 1 : WellFormed(log'[i])
  BY <1>1 DEF Sound, LogOK
<1>8. Enqueued' = Enqueued \cup (IF rec.type = "queue_enqueued" THEN {rec.entry} ELSE {})
  <2>1. \A i \in 1..n + 1 : i \in 1..n \/ i = n + 1
    BY <1>1
  <2>2. \A i \in 1..n : i \in 1..n + 1
    BY <1>1
  <2>3. \A i \in 1..n : i # n + 1
    BY <1>1
  <2>4. ASSUME NEW e
        PROVE  e \in Enqueued' <=> e \in Enqueued \/ (rec.type = "queue_enqueued" /\ e = rec.entry)
    BY <1>1, <2>1, <2>2, <2>3 DEF Enqueued, EnqueuedIn
  <2> QED BY <2>4
<1>9. Reduced(log').seen.enqueued \subseteq Enqueued'
  <2>1. n \in 0..n /\ Prefix(log, n) = Reduced(log)
    BY <1>1, PrefixAll DEF Sound, LogOK
  <2>2. FoldOK(Prefix(log, n))
    BY <2>1, SoundLog DEF Sound, LogOK
  <2>3. DOMAIN Reduced(log).seen = {"enqueued", "cancelled", "consumed"}
    BY <2>1, <2>2 DEF FoldOK, SeenOK
  <2> QED BY <1>6, <1>8, <2>3 DEF Sound, LogOK, SeenAfter
<1> QED BY <1>1, <1>2, <1>3, <1>4, <1>5, <1>6, <1>7, <1>8, <1>9 DEF LogOK

\* A successful write, on the first or on the second try, keeps the invariant
\* and was accepted by the log itself.
LEMMA WriteStep ==
  ASSUME Sound, NEW j \in Journals, Live(j), NEW rec, WellFormed(rec), Accepted(j, rec),
         rec.type = "queue_enqueued" =>
           rec.entry \notin Enqueued /\ \A i \in Journals \ {j} : ~Holds(i, rec.entry),
         Written(j, rec)
  PROVE  /\ Sound'
         /\ Accepts(Reduced(log), rec)
         /\ Reduced(log)' = Folded(Reduced(log), rec)
<1> DEFINE n == Len(log)
           v == journal[j].state
           x == IF j \in Consumers THEN Closedown
                ELSE [phase |-> "open", state |-> Folded(Started(v), rec).view,
                      began |-> TRUE, record |-> None]
<1>1. /\ log' = Append(log, rec) /\ author' = Append(author, j) /\ Len(log) = v.head_seq
      /\ journal' = [journal EXCEPT ![j] = x]
  BY DEF Written
<1>2. Follows(Started(v), Reduced(log)) /\ Accepts(Reduced(log), rec)
  BY <1>1, AcceptedByLog
<1>3. /\ LogOK'
      /\ Reduced(log)' = Folded(Reduced(log), rec)
      /\ \A k \in 0..n : Prefix(log, k)' = Prefix(log, k)
      /\ Prefix(log', n + 1) = Folded(Reduced(log), rec)
      /\ Enqueued' = Enqueued \cup (IF rec.type = "queue_enqueued" THEN {rec.entry} ELSE {})
  BY <1>1, <1>2, WrittenLog
<1>4. Len(log') = n + 1 /\ n \in Nat
  BY <1>1 DEF Sound, LogOK
<1>5. JournalOK(x, log')
  <2>1. CASE j \in Consumers
    BY <2>1 DEF JournalOK, Closedown, Phases, Waiting
  <2>2. CASE j \notin Consumers
    <3> DEFINE g == Folded(Started(v), rec)
    <3>1. Follows(g, Folded(Reduced(log), rec))
      BY <1>2, FollowsStep
    <3>2. Alike(g.view, Prefix(log', n + 1).view)
      BY <1>3, <3>1 DEF Follows
    <3>3. Accepts(Started(v), rec) /\ Started(v).sound = TRUE /\ Started(v).view = v
      BY DEF Accepted, Started
    <3>4. g.view = NextView(v, rec)
      BY <3>3, FoldedAccepted
    <3>5. DOMAIN v = DOMAIN EmptyView
      BY <1>2 DEF Follows, Alike, Started
    <3>6. Effect(v, rec, g.view)
      BY <3>4, <3>5, NextViewFields
    <3>7. g.view.head_seq = n + 1
      BY <1>1, <3>6 DEF Effect
    <3>8. x = [phase |-> "open", state |-> g.view, began |-> TRUE, record |-> None]
      BY <2>2
    <3> HIDE DEF g, x
    <3>9. /\ DOMAIN x = {"phase", "state", "began", "record"} /\ x.phase = "open"
          /\ x.state = g.view /\ x.began = TRUE /\ x.record = None
      BY <3>8
    <3>10. x.state.head_seq \in 0..Len(log') /\ Alike(x.state, Prefix(log', x.state.head_seq).view)
      BY <1>4, <3>2, <3>7, <3>9
    <3>11. x.phase \in Phases /\ x.began \in BOOLEAN
      BY <3>9 DEF Phases
    <3> QED BY <3>9, <3>10, <3>11 DEF JournalOK, Waiting
  <2> QED BY <2>1, <2>2
<1>6. x.phase \notin Waiting
  BY DEF Closedown, Waiting
<1> HIDE DEF x
<1>7. /\ journal' = [i \in Journals |-> journal'[i]]
      /\ journal'[j] = x
      /\ \A i \in Journals \ {j} : journal'[i] = journal[i]
  BY <1>1 DEF Sound
<1>8. ASSUME NEW i \in Journals \ {j}
      PROVE  JournalOK(journal'[i], log')
  <2> DEFINE y == journal[i]
  <2>1. JournalOK(y, log) /\ journal'[i] = y
    BY <1>7 DEF Sound
  <2>2. y.phase \notin {"closed", "stopped"} =>
          /\ y.state.head_seq \in 0..Len(log')
          /\ Alike(y.state, Prefix(log', y.state.head_seq).view)
    BY <1>3, <1>4, <2>1 DEF JournalOK
  <2>3. y.phase \in Waiting /\ y.record.type = "queue_enqueued" => y.record.entry \notin Enqueued'
    BY <1>3, <1>8, <2>1 DEF JournalOK, Holds, Enqueued
  <2> HIDE DEF y
  <2>4. JournalOK(y, log')
    BY <2>1, <2>2, <2>3 DEF JournalOK, Enqueued
  <2> QED BY <2>1, <2>4
<1>9. \A i \in Journals : JournalOK(journal'[i], log')
  BY <1>5, <1>7, <1>8
<1>10. HeldApart'
  BY <1>6, <1>7 DEF HeldApart, Holds, Sound
<1> QED BY <1>2, <1>3, <1>7, <1>9, <1>10 DEF Sound

\* The state an open Journal carries is well formed.
LEMMA LiveView ==
  ASSUME Sound, NEW j \in Journals, Live(j)
  PROVE  ViewOK(journal[j].state)
<1> DEFINE v == journal[j].state
<1>1. v.head_seq \in 0..Len(log) /\ Alike(v, Prefix(log, v.head_seq).view)
  BY DEF Sound, JournalOK, Live
<1>2. ViewOK(Prefix(log, v.head_seq).view)
  <2>1. FoldOK(Prefix(log, v.head_seq))
    BY <1>1, SoundLog DEF Sound, LogOK
  <2> QED BY <2>1 DEF FoldOK
<1> QED BY <1>1, <1>2, AlikeOK

\* What an Attempt writes about turns and model calls.
LEMMA TurnRecordsOK ==
  ASSUME NEW v, NEW rec \in TurnRecords(v)
  PROVE  /\ rec.type \in {"turn_started", "model_call_started", "model_call_finished",
                          "model_call_failed"}
         /\ rec.type = "turn_started" => rec.turn = v.turn + 1
         /\ rec.type # "turn_started" => rec.turn = v.turn
BY DEF TurnRecords

\* What an Attempt writes about tool calls.
LEMMA ToolRecordsOK ==
  ASSUME NEW v, NEW rec \in ToolRecords(v)
  PROVE  /\ rec.type \in {"tool_call_started", "tool_call_finished"}
         /\ rec.type = "tool_call_started" => rec.call \in Calls
         /\ rec.type = "tool_call_finished" => rec.call \in v.open_tool_calls
BY DEF ToolRecords

\* What an Attempt writes about workflow steps.
LEMMA StepRecordsOK ==
  ASSUME NEW v, NEW rec \in StepRecords(v)
  PROVE  /\ rec.type \in {"step_started", "step_completed"}
         /\ rec.step \in Steps
         /\ rec.type = "step_completed" => rec.will_retry \in BOOLEAN
BY DEF StepRecords

\* What an Attempt writes about the Run itself.
LEMMA RunRecordsOK ==
  ASSUME NEW v, NEW rec \in RunRecords(v)
  PROVE  /\ rec.type \in {"queue_consumed", "subagent_spawned", "subagent_messaged", "suspended",
                          "resumed", "compaction_applied", "run_settled"}
         /\ rec.type = "subagent_spawned" => rec.child \in Children
BY DEF RunRecords

\* Everything a running Attempt writes names existing calls, steps and children.
LEMMA AttemptRecordsOK ==
  ASSUME NEW v, ViewOK(v), NEW rec \in AttemptRecords(v)
  PROVE  /\ WellFormed(rec) /\ rec.type \notin {"queue_enqueued", "attempt_started"}
<1>1. CASE rec \in TurnRecords(v)
  BY <1>1, TurnRecordsOK DEF WellFormed
<1>2. CASE rec \in ToolRecords(v)
  BY <1>2, ToolRecordsOK DEF WellFormed, ViewOK
<1>3. CASE rec \in StepRecords(v)
  BY <1>3, StepRecordsOK DEF WellFormed
<1>4. CASE rec \in RunRecords(v)
  BY <1>4, RunRecordsOK DEF WellFormed
<1> QED BY <1>1, <1>2, <1>3, <1>4 DEF AttemptRecords

\* Everything a consumer writes does so too, and a send mints a new entry id.
LEMMA ConsumerRecordsOK ==
  ASSUME Sound, NEW v, ViewOK(v), NEW rec \in ConsumerRecords(v)
  PROVE  /\ WellFormed(rec)
         /\ rec.type = "queue_enqueued" => rec.entry \in Entries \ Minted
BY DEF ConsumerRecords, WellFormed, ViewOK, Queues

\* A new entry id is neither in the log nor held by a Journal for its second
\* try.
LEMMA MintedIsFresh ==
  ASSUME Sound, NEW e, e \notin Minted
  PROVE  e \notin Enqueued /\ \A i \in Journals : ~Holds(i, e)
BY DEF Minted, Enqueued, EnqueuedIn, Holds, InSeq, Waiting

\* Both together, for any Journal.
LEMMA CandidatesOK ==
  ASSUME Sound, NEW j \in Journals, Live(j), NEW rec \in Candidates(j)
  PROVE  /\ WellFormed(rec)
         /\ rec.type = "queue_enqueued" =>
              rec.entry \notin Enqueued /\ \A i \in Journals : ~Holds(i, rec.entry)
<1>1. ViewOK(journal[j].state)
  BY LiveView
<1>2. CASE j \in Consumers
  BY <1>1, <1>2, ConsumerRecordsOK, MintedIsFresh DEF Candidates
<1>3. CASE j \notin Consumers /\ journal[j].began
  BY <1>1, <1>3, AttemptRecordsOK DEF Candidates
<1>4. CASE j \notin Consumers /\ ~journal[j].began
  BY <1>4 DEF Candidates, WellFormed
<1> QED BY <1>2, <1>3, <1>4

\* What _continue_from leaks into the prior state is in the shared fields.
LEMMA LeakedAlike ==
  ASSUME NEW v, NEW w, Alike(v, w), NEW rec
  PROVE  Alike(Leaked(v, rec), w) /\ Leaked(v, rec).head_seq = v.head_seq
BY DEF Alike, Leaked, EmptyView

\* A Journal that is dropped, by SeqConflict, CorruptLog or the end of the
\* call, leaves the invariant as it is.
LEMMA StopSound ==
  ASSUME Sound, NEW j \in Journals, Stop(j)
  PROVE  Sound'
<1> DEFINE x == Ended(j)
<1>1. x.phase \in {"closed", "stopped"} /\ JournalOK(x, log)
  BY DEF Ended, JournalOK, Closedown, Phases, Waiting
<1>2. x.phase \notin Waiting
  BY <1>1 DEF Waiting
<1>3. journal' = [journal EXCEPT ![j] = x] /\ log' = log /\ author' = author
  BY DEF Stop
<1> HIDE DEF x
<1> QED BY <1>1, <1>2, <1>3, QuietStep

\* Journal.open loads the fold of the log.
LEMMA OpenSound ==
  ASSUME Sound, NEW j \in Journals, Open(j)
  PROVE  Sound'
<1> DEFINE x == [Closedown EXCEPT !.phase = "open", !.state = Reduced(log).view]
<1>1. Len(log) \in 0..Len(log) /\ Prefix(log, Len(log)) = Reduced(log)
  BY PrefixAll DEF Sound, LogOK
<1>2. FoldOK(Reduced(log)) /\ Reduced(log).view.head_seq = Len(log)
  BY <1>1, SoundLog DEF Sound, LogOK
<1>3. Alike(Reduced(log).view, Reduced(log).view)
  BY <1>2, AlikeItself DEF FoldOK
<1>4. /\ DOMAIN x = {"phase", "state", "began", "record"} /\ x.phase = "open"
      /\ x.state = Reduced(log).view /\ x.began = FALSE /\ x.record = None
  BY DEF Closedown
<1>5. journal' = [journal EXCEPT ![j] = x] /\ log' = log /\ author' = author
  BY DEF Open
<1> HIDE DEF x
<1>6. x.state.head_seq \in 0..Len(log) /\ Alike(x.state, Prefix(log, x.state.head_seq).view)
  BY <1>1, <1>2, <1>3, <1>4
<1>7. x.phase \in Phases /\ x.began \in BOOLEAN /\ x.phase \notin Waiting
  BY <1>4 DEF Phases, Waiting
<1>8. JournalOK(x, log)
  BY <1>4, <1>6, <1>7 DEF JournalOK
<1> QED BY <1>5, <1>7, <1>8, QuietStep

\* The first try of _append_once, written or refused, keeps the invariant.
LEMMA AppendFirstSound ==
  ASSUME Sound, NEW j \in Journals, AppendFirst(j)
  PROVE  Sound'
<1>1. journal[j].phase = "open" /\ Live(j)
  BY DEF AppendFirst, Live
<1>2. PICK rec \in Candidates(j) :
        /\ Accepted(j, rec)
        /\ \/ Written(j, rec)
           \/ /\ journal' = [journal EXCEPT ![j] =
                   [@ EXCEPT !.phase = "conflicted", !.record = rec,
                             !.state = Leaked(journal[j].state, rec)]]
              /\ log' = log /\ author' = author
  BY DEF AppendFirst
<1>3. /\ WellFormed(rec)
      /\ rec.type = "queue_enqueued" =>
           rec.entry \notin Enqueued /\ \A i \in Journals : ~Holds(i, rec.entry)
  BY <1>1, CandidatesOK
<1>4. CASE Written(j, rec)
  BY <1>1, <1>2, <1>3, <1>4, WriteStep
<1>5. CASE ~Written(j, rec)
  <2> DEFINE x == [journal[j] EXCEPT !.phase = "conflicted", !.record = rec,
                                     !.state = Leaked(journal[j].state, rec)]
  <2>1. journal' = [journal EXCEPT ![j] = x] /\ log' = log /\ author' = author
    BY <1>2, <1>5
  <2>2. JournalOK(journal[j], log)
    BY DEF Sound
  <2>3. /\ DOMAIN x = {"phase", "state", "began", "record"} /\ x.phase = "conflicted"
        /\ x.record = rec /\ x.began = journal[j].began
        /\ x.state = Leaked(journal[j].state, rec)
    BY <2>2 DEF JournalOK
  <2> HIDE DEF x
  <2>4. x.state.head_seq \in 0..Len(log) /\ Alike(x.state, Prefix(log, x.state.head_seq).view)
    BY <1>1, <2>2, <2>3, LeakedAlike DEF JournalOK
  <2>5. x.phase \in Phases /\ x.phase \in Waiting /\ x.began \in BOOLEAN
    BY <2>2, <2>3 DEF Phases, Waiting, JournalOK
  <2>6. JournalOK(x, log)
    BY <1>3, <2>3, <2>4, <2>5 DEF JournalOK, Enqueued
  <2> QED BY <1>3, <2>1, <2>3, <2>6, QuietStep
<1> QED BY <1>4, <1>5

\* After _absorb_external_records a Journal carries the state of the whole log.
LEMMA AbsorbedState ==
  ASSUME Sound, NEW j \in Journals, Live(j)
  PROVE  LET w == ReducedFrom(journal[j].state, Foreign(j)).view IN
         w.head_seq = Len(log) /\ Alike(w, Prefix(log, Len(log)).view)
<1> DEFINE v == journal[j].state
<1>1. v.head_seq \in 0..Len(log) /\ Alike(v, Prefix(log, v.head_seq).view)
  BY DEF Sound, JournalOK, Live
<1>2. Follows(ReducedFrom(v, Foreign(j)), Reduced(log))
  BY <1>1, ContinuedFold DEF Foreign, Sound, LogOK
<1>3. Prefix(log, Len(log)) = Reduced(log) /\ Len(log) \in 0..Len(log)
  BY PrefixAll DEF Sound, LogOK
<1>4. Prefix(log, Len(log)).view.head_seq = Len(log)
  BY <1>3, SoundLog DEF Sound, LogOK
<1> QED BY <1>2, <1>3, <1>4 DEF Follows, Alike

\* Absorbing, after a conflict or for refresh, keeps the invariant.
LEMMA AbsorbSound ==
  ASSUME Sound, NEW j \in Journals, Live(j), NEW phase, Absorb(j, phase),
         (phase = "absorbed" /\ journal[j].phase = "conflicted")
           \/ (phase = "open" /\ journal[j].phase = "open")
  PROVE  Sound'
<1>1. CASE Stop(j)
  BY <1>1, StopSound
<1>2. CASE ~Stop(j)
  <2> DEFINE v == journal[j].state
             w == ReducedFrom(v, Foreign(j)).view
             x == [journal[j] EXCEPT !.phase = phase, !.state = w]
  <2>1. journal' = [journal EXCEPT ![j] = x] /\ log' = log /\ author' = author
    BY <1>2 DEF Absorb
  <2>2. JournalOK(journal[j], log)
    BY DEF Sound
  <2>5. Len(log) \in 0..Len(log)
    BY DEF Sound, LogOK
  <2>6. w.head_seq = Len(log) /\ Alike(w, Prefix(log, Len(log)).view)
    BY AbsorbedState
  <2> HIDE DEF w
  <2>7. /\ DOMAIN x = {"phase", "state", "began", "record"} /\ x.phase = phase
        /\ x.record = journal[j].record /\ x.began = journal[j].began /\ x.state = w
    BY <2>2 DEF JournalOK
  <2> HIDE DEF x
  <2>8. x.state.head_seq \in 0..Len(log) /\ Alike(x.state, Prefix(log, x.state.head_seq).view)
    BY <2>5, <2>6, <2>7
  <2>9. JournalOK(x, log)
    BY <2>2, <2>7, <2>8 DEF JournalOK, Phases, Waiting
  <2>10. x.phase \in Waiting /\ x.record.type = "queue_enqueued" =>
           \A i \in Journals \ {j} : ~Holds(i, x.record.entry)
    BY <2>2, <2>7 DEF Sound, HeldApart, Holds, JournalOK, Waiting, WellFormed
  <2> QED BY <2>1, <2>9, <2>10, QuietStep
<1> QED BY <1>1, <1>2

\* The second try of _append_once keeps the invariant.
LEMMA AppendAgainSound ==
  ASSUME Sound, NEW j \in Journals, AppendAgain(j)
  PROVE  Sound'
<1> DEFINE rec == journal[j].record
<1>1. journal[j].phase = "absorbed" /\ Live(j)
  BY DEF AppendAgain, Live
<1>2. CASE Stop(j)
  BY <1>2, StopSound
<1>3. CASE ~Stop(j)
  <2>1. Accepted(j, rec) /\ Written(j, rec)
    BY <1>3 DEF AppendAgain
  <2>2. WellFormed(rec) /\ (rec.type = "queue_enqueued" => rec.entry \notin Enqueued)
    BY <1>1 DEF Sound, JournalOK, Waiting, Enqueued
  <2>3. rec.type = "queue_enqueued" => \A i \in Journals \ {j} : ~Holds(i, rec.entry)
    BY <1>1, <2>2 DEF Sound, HeldApart, Holds, Waiting, WellFormed
  <2> HIDE DEF rec
  <2> QED BY <1>1, <2>1, <2>2, <2>3, WriteStep
<1> QED BY <1>2, <1>3

\* Every step of every Journal keeps the invariant.
LEMMA NextSound ==
  Sound /\ [Next]_vars => Sound'
<1> SUFFICES ASSUME Sound, [Next]_vars PROVE Sound'
  OBVIOUS
<1>1. CASE UNCHANGED vars
  BY <1>1 DEF vars, Sound, LogOK, HeldApart, Holds, Enqueued, EnqueuedIn
<1>2. CASE Next
  <2>1. PICK j \in Journals :
          Open(j) \/ AppendFirst(j) \/ AbsorbConflict(j) \/ AppendAgain(j) \/ Refresh(j)
    BY <1>2 DEF Next
  <2>2. CASE Open(j)
    BY <2>2, OpenSound
  <2>3. CASE AppendFirst(j)
    BY <2>3, AppendFirstSound
  <2>4. CASE AbsorbConflict(j)
    BY <2>4, AbsorbSound DEF AbsorbConflict, Live
  <2>5. CASE AppendAgain(j)
    BY <2>5, AppendAgainSound
  <2>6. CASE Refresh(j)
    BY <2>6, AbsorbSound DEF Refresh, Live
  <2> QED BY <2>1, <2>2, <2>3, <2>4, <2>5, <2>6
<1> QED BY <1>1, <1>2

\* Whatever Journals race on a log, every state they reach satisfies the
\* invariant: the log is accepted by reduce, each carried state is a fold of a
\* prefix of it, and an entry id waiting for its second try is nowhere else.
THEOREM AlwaysSound == Spec => []Sound
<1>1. Init => Sound
  BY InitSound
<1>2. Sound /\ [Next]_vars => Sound'
  BY NextSound
<1> QED BY <1>1, <1>2, PTL DEF Spec

\* States that are alike are equal in everything but the shared fields.
LEMMA AlikeIsUnshared ==
  ASSUME NEW v, NEW w, Alike(v, w)
  PROVE  Unshared(v) = Unshared(w)
<1>1. DOMAIN Unshared(v) = DOMAIN EmptyView /\ DOMAIN Unshared(w) = DOMAIN EmptyView
  BY DEF Unshared, Alike
<1>2. ASSUME NEW f \in DOMAIN EmptyView
      PROVE  Unshared(v)[f] = Unshared(w)[f]
  <2>1. CASE f = "repeat_counts"
    BY <2>1 DEF Unshared, Alike, EmptyView
  <2>2. CASE f = "approval_decisions"
    BY <2>2 DEF Unshared, Alike, EmptyView
  <2>3. CASE f \notin {"repeat_counts", "approval_decisions"}
    <3>1. Unshared(v)[f] = v[f] /\ Unshared(w)[f] = w[f]
      BY <2>3 DEF Unshared, Alike
    <3>2. v[f] = w[f]
      BY <2>3 DEF Alike, EmptyView
    <3> QED BY <3>1, <3>2
  <2> QED BY <2>1, <2>2, <2>3
<1> QED BY <1>1, <1>2 DEF Unshared, Alike

\* JournalsAreSound for every number of Attempts and consumers and for logs of
\* every length: a Journal never drifts from the log and the log never from
\* what a fresh reader accepts, although every append folds before it writes.
THEOREM JournalsStaySound == Spec => []JournalsAreSound
<1>1. Sound => JournalsAreSound
  <2> SUFFICES ASSUME Sound PROVE JournalsAreSound
    OBVIOUS
  <2>1. DOMAIN log = 1..Len(author) /\ InSeq(author) \subseteq Journals \cup {None}
    BY DEF Sound, LogOK, InSeq
  <2>2. ASSUME NEW j \in Journals
        PROVE  /\ journal[j].phase \in Phases
               /\ journal[j].state.head_seq \in 0..Len(log)
               /\ journal[j].record # None => journal[j].phase \in {"conflicted", "absorbed"}
    BY DEF Sound, LogOK, JournalOK, EmptyView, Waiting
  <2>3. CarriedStateIsFold
    BY AlikeIsUnshared DEF CarriedStateIsFold, Sound, JournalOK, Live, Prefix, Reduced
  <2> QED BY <2>1, <2>2, <2>3 DEF JournalsAreSound, TypeOK, LogStaysSound, Sound, LogOK
<1> QED BY <1>1, AlwaysSound, PTL

-----------------------------------------------------------------------------

\* A set of positions with at most one member is no larger than a set that has
\* one whenever it has.
LEMMA AtMost ==
  ASSUME NEW n \in Nat, NEW S, S \subseteq 1..n, NEW T, T \subseteq 1..n,
         \A x, y \in S : x = y, S # {} => T # {}
  PROVE  Cardinality(S) <= Cardinality(T) /\ Cardinality(S) <= 1
<1>1. IsFiniteSet(1..n)
  BY FS_Interval
<1>2. IsFiniteSet(T) /\ Cardinality(T) \in Nat
  BY <1>1, FS_Subset, FS_CardinalityType
<1>3. CASE S = {}
  BY <1>2, <1>3, FS_EmptySet
<1>4. CASE S # {}
  <2>0. PICK x \in S : TRUE
    BY <1>4
  <2>1. S = {x}
    BY <2>0
  <2>2. Cardinality(S) = 1
    BY <2>1, FS_Singleton
  <2>3. Cardinality(T) # 0
    BY <1>2, <1>4, FS_EmptySet
  <2> QED BY <1>2, <2>2, <2>3
<1> QED BY <1>3, <1>4

\* The invariant makes the log one the lemmas on accepted logs speak of.
LEMMA SoundIsProper ==
  ASSUME Sound
  PROVE  ProperLog(log) /\ DOMAIN log = 1..Len(log) /\ Len(log) \in Nat
BY DEF Sound, LogOK, ProperLog

\* In a sound log nothing is used twice.
LEMMA SoundUsesOnce ==
  ASSUME Sound
  PROVE  NothingIsUsedTwice
<1>1. ProperLog(log) /\ DOMAIN log = 1..Len(log) /\ Len(log) \in Nat
  BY SoundIsProper
<1> DEFINE N == Len(log)
<1>2. EachEntryUsedOnce
  <2> SUFFICES ASSUME NEW e \in Entries
               PROVE  Cardinality({i \in At("queue_consumed") \cup At("queue_cancelled") : log[i].entry = e})
                        <= Cardinality({i \in At("queue_enqueued") : log[i].entry = e})
    BY DEF EachEntryUsedOnce
  <2> DEFINE S == {i \in At("queue_consumed") \cup At("queue_cancelled") : log[i].entry = e}
             T == {i \in At("queue_enqueued") : log[i].entry = e}
  <2>1. S \subseteq 1..N /\ T \subseteq 1..N
    BY <1>1 DEF At
  <2>2. ASSUME NEW x \in S, NEW y \in S PROVE ~(x < y)
    <3>1. x \in 1..N /\ y \in 1..N /\ log[x].entry = log[y].entry
          /\ log[x].type \in {"queue_cancelled", "queue_consumed"}
          /\ log[y].type \in {"queue_cancelled", "queue_consumed"}
      BY <1>1 DEF At
    <3> QED BY <1>1, <3>1, EntriesInLog
  <2>3. \A x, y \in S : x = y
    <3> HIDE DEF S
    <3> QED BY <1>1, <2>1, <2>2
  <2>4. ASSUME NEW x \in S PROVE T # {}
    <3>1. x \in 1..N /\ log[x].entry = e /\ log[x].type \in {"queue_cancelled", "queue_consumed"}
      BY <1>1 DEF At
    <3>2. \E i \in 1..N : log[i].type = "queue_enqueued" /\ log[i].entry = log[x].entry
      BY <1>1, <3>1, EntriesInLog
    <3> QED BY <1>1, <3>1, <3>2 DEF At
  <2> HIDE DEF S, T
  <2>5. Cardinality(S) <= Cardinality(T)
    BY <1>1, <2>1, <2>3, <2>4, AtMost
  <2> QED BY <2>5 DEF S, T
<1>3. EachSuspensionAnsweredOnce
  <2> SUFFICES ASSUME NEW i \in At("resumed"), NEW k \in At("resumed"), i < k
               PROVE  \E s \in At("suspended") : i < s /\ s < k
    BY DEF EachSuspensionAnsweredOnce
  <2>1. i \in 1..N /\ k \in 1..N /\ log[i].type = "resumed" /\ log[k].type = "resumed"
    BY <1>1 DEF At
  <2>2. \E x \in 1..N : log[x].type = "suspended" /\ i < x /\ x < k
    BY <1>1, <2>1, ResumesInLog
  <2> QED BY <1>1, <2>2 DEF At
<1>4. EachChildFinishesOnce
  <2> SUFFICES ASSUME NEW c \in Children
               PROVE  Cardinality({i \in At("subagent_finished") : log[i].child = c})
                        <= Cardinality({i \in At("subagent_spawned") : log[i].child = c})
    BY DEF EachChildFinishesOnce
  <2> DEFINE S == {i \in At("subagent_finished") : log[i].child = c}
             T == {i \in At("subagent_spawned") : log[i].child = c}
  <2>1. S \subseteq 1..N /\ T \subseteq 1..N
    BY <1>1 DEF At
  <2>2. ASSUME NEW x \in S, NEW y \in S PROVE ~(x < y)
    <3>1. x \in 1..N /\ y \in 1..N /\ log[x].child = log[y].child
          /\ log[x].type = "subagent_finished" /\ log[y].type = "subagent_finished"
      BY <1>1 DEF At
    <3> QED BY <1>1, <3>1, ChildrenInLog
  <2>3. \A x, y \in S : x = y
    <3> HIDE DEF S
    <3> QED BY <1>1, <2>1, <2>2
  <2>4. ASSUME NEW x \in S PROVE T # {}
    <3>1. x \in 1..N /\ log[x].child = c /\ log[x].type = "subagent_finished"
      BY <1>1 DEF At
    <3>2. \E i \in 1..N : log[i].type = "subagent_spawned" /\ log[i].child = log[x].child
      BY <1>1, <3>1, ChildrenInLog
    <3> QED BY <1>1, <3>1, <3>2 DEF At
  <2> HIDE DEF S, T
  <2>5. Cardinality(S) <= Cardinality(T)
    BY <1>1, <2>1, <2>3, <2>4, AtMost
  <2> QED BY <2>5 DEF S, T
<1>5. EachCallAnsweredOnce
  <2> SUFFICES ASSUME NEW c \in Calls
               PROVE  LET starts == {i \in At("tool_call_started") : log[i].call = c}
                          ends == {i \in At("tool_call_finished") : log[i].call = c}
                      IN /\ Cardinality(starts) <= 1 /\ Cardinality(ends) <= Cardinality(starts)
                         /\ \A s \in starts, e \in ends : s < e
    BY DEF EachCallAnsweredOnce
  <2> DEFINE S == {i \in At("tool_call_finished") : log[i].call = c}
             T == {i \in At("tool_call_started") : log[i].call = c}
  <2>1. S \subseteq 1..N /\ T \subseteq 1..N
    BY <1>1 DEF At
  <2>2. ASSUME NEW x \in S, NEW y \in S PROVE ~(x < y)
    <3>1. x \in 1..N /\ y \in 1..N /\ log[x].call = log[y].call
          /\ log[x].type = "tool_call_finished" /\ log[y].type = "tool_call_finished"
      BY <1>1 DEF At
    <3> QED BY <1>1, <3>1, CallEndsInLog
  <2>3. \A x, y \in S : x = y
    <3> HIDE DEF S
    <3> QED BY <1>1, <2>1, <2>2
  <2>4. ASSUME NEW x \in S PROVE \E i \in T : i < x
    <3>1. x \in 1..N /\ log[x].call = c /\ log[x].type = "tool_call_finished"
      BY <1>1 DEF At
    <3>2. \E i \in 1..N : i < x /\ log[i].type = "tool_call_started" /\ log[i].call = log[x].call
      BY <1>1, <3>1, CallEndsInLog
    <3> QED BY <1>1, <3>1, <3>2 DEF At
  <2>5. ASSUME NEW x \in T, NEW y \in T PROVE ~(x < y)
    <3>1. x \in 1..N /\ y \in 1..N /\ log[x].call = log[y].call
          /\ log[x].type = "tool_call_started" /\ log[y].type = "tool_call_started"
      BY <1>1 DEF At
    <3> QED BY <1>1, <3>1, CallStartsInLog
  <2>6. \A x, y \in T : x = y
    <3> HIDE DEF T
    <3> QED BY <1>1, <2>1, <2>5
  <2> HIDE DEF S, T
  <2>7. Cardinality(S) <= Cardinality(T)
    BY <1>1, <2>1, <2>3, <2>4, AtMost
  <2>8. Cardinality(T) <= 1
    BY <1>1, <2>1, <2>6, AtMost
  <2>9. \A s \in T, e \in S : s < e
    BY <2>4, <2>6
  <2> QED BY <2>7, <2>8, <2>9 DEF S, T
<1>6. EachStepMemoisedOnce
  <2> SUFFICES ASSUME NEW i \in At("step_completed"),
                      NEW k \in At("step_started") \cup At("step_completed"),
                      i < k, log[i].step = log[k].step
               PROVE  log[i].will_retry
    BY DEF EachStepMemoisedOnce
  <2>1. i \in 1..N /\ k \in 1..N /\ log[i].type = "step_completed"
        /\ log[k].type \in {"step_started", "step_completed"}
    BY <1>1 DEF At
  <2> QED BY <1>1, <2>1, StepsInLog
<1> QED BY <1>2, <1>3, <1>4, <1>5, <1>6 DEF NothingIsUsedTwice

\* In a sound log nothing steers the Run after an abort.
LEMMA SoundStops ==
  ASSUME Sound
  PROVE  NothingSteersAfterAbort
<1>1. ProperLog(log) /\ DOMAIN log = 1..Len(log)
  BY SoundIsProper
<1> QED BY <1>1, AbortInLog DEF NothingSteersAfterAbort, At

\* NothingIsUsedTwice for every number of writers: queue entries, suspensions,
\* children, tool calls and steps are used up once, although two parties may
\* each believe that they are the one to do it (the consumer that withdraws an
\* entry and the Attempt that drains it, the notifier and the reconciler).
THEOREM UsedOnce == Spec => []NothingIsUsedTwice
BY SoundUsesOnce, AlwaysSound, PTL

\* NothingSteersAfterAbort for every number of writers: a send that races an
\* interrupt, and folded before it saw the abort, is never written after it.
THEOREM AbortWins == Spec => []NothingSteersAfterAbort
BY SoundStops, AlwaysSound, PTL

-----------------------------------------------------------------------------

\* What consumers may write (interrupt, send, resume, expire, notify_parent).
ConsumerTypes == External \cup {"run_settled"}

\* The log by author: consumers write nothing an Attempt starts with, an
\* Attempt's first record is attempt_started, and Attempts do not interleave.
LogApart(lg, au) ==
  /\ Len(lg) >= 1 /\ lg[1].type = "run_admitted" /\ au[1] = None
  /\ \A i \in 2..Len(lg) : au[i] \in Journals
  /\ \A i \in 1..Len(lg) : au[i] \in Consumers => lg[i].type \in ConsumerTypes
  /\ \A i \in 1..Len(lg) : au[i] \in Attempts =>
       \E p \in 1..Len(lg) : p <= i /\ au[p] = au[i] /\ lg[p].type = "attempt_started"
  /\ \A i, k, m \in 1..Len(lg) : i < k /\ k < m /\ au[i] \in Attempts /\ au[m] = au[i]
       => au[k] \in Consumers \cup {au[i]}

\* The same of a record that waits for its second try.
HeldInTurn(j, x) ==
  x.phase \in Waiting =>
    /\ j \in Consumers => x.record.type \in ConsumerTypes
    /\ j \in Attempts /\ ~x.began => x.record.type = "attempt_started"

\* One Journal by author: an Attempt that has written has begun, and nobody but
\* consumers has written after it, as far as it has read.
JournalApart(j, x, lg, au) ==
  /\ HeldInTurn(j, x)
  /\ j \in Attempts =>
       /\ (\E i \in 1..Len(lg) : au[i] = j) => x.phase = "stopped" \/ (x.phase # "closed" /\ x.began)
       /\ x.phase \notin {"closed", "stopped"} /\ x.began =>
            \E p \in 1..Len(lg) : au[p] = j /\ lg[p].type = "attempt_started"
       /\ x.phase \notin {"closed", "stopped"} =>
            \A i, k \in 1..Len(lg) : i < k /\ k <= x.state.head_seq /\ au[i] = j
              => au[k] \in Consumers \cup {j}

\* The second inductive invariant, relative to Sound.
Apart ==
  /\ LogApart(log, author)
  /\ \A j \in Journals : JournalApart(j, journal[j], log, author)

\* Nobody has written anything but the admission.
LEMMA InitApart ==
  Init => Apart
<1> SUFFICES ASSUME Init PROVE Apart
  OBVIOUS
<1> USE JournalAssumption
<1>1. Len(log) = 1 /\ log[1].type = "run_admitted" /\ author[1] = None
  BY DEF Init
<1>2. LogApart(log, author)
  BY <1>1 DEF LogApart, Journals
<1>3. \A j \in Journals : journal[j] = Closedown
  BY DEF Init
<1>4. ASSUME NEW j \in Journals
      PROVE  JournalApart(j, Closedown, log, author)
  BY <1>1 DEF JournalApart, HeldInTurn, Closedown, Waiting
<1> QED BY <1>2, <1>3, <1>4 DEF Apart

\* A step that leaves the log alone keeps the Attempts apart when the Journal
\* it changes does.
LEMMA QuietApart ==
  ASSUME Sound, Apart, log' = log, author' = author, NEW j \in Journals, NEW x,
         journal' = [journal EXCEPT ![j] = x],
         JournalApart(j, x, log, author)
  PROVE  Apart'
<1>1. /\ journal'[j] = x
      /\ \A i \in Journals \ {j} : journal'[i] = journal[i]
  BY DEF Sound
<1> QED BY <1>1 DEF Apart

\* A consumer writes external records and settlements only; an Attempt writes
\* attempt_started before anything else.
LEMMA CandidateKinds ==
  ASSUME NEW j \in Journals, NEW rec \in Candidates(j)
  PROVE  /\ j \in Consumers => rec.type \in ConsumerTypes
         /\ j \in Attempts /\ ~journal[j].began => rec.type = "attempt_started"
<1>1. CASE j \in Consumers
  BY <1>1, JournalAssumption DEF Candidates, ConsumerRecords, ConsumerTypes, External
<1>2. CASE j \notin Consumers
  BY <1>2 DEF Candidates, Journals
<1> QED BY <1>1, <1>2

\* A write keeps the Attempts apart: its author carries the whole log, so it
\* knows that no other Attempt has written since its own first record.
LEMMA WriteApart ==
  ASSUME Sound, Apart, NEW j \in Journals, Live(j), NEW rec, Written(j, rec),
         j \in Consumers => rec.type \in ConsumerTypes,
         j \in Attempts /\ ~journal[j].began => rec.type = "attempt_started"
  PROVE  Apart'
<1> USE JournalAssumption
<1> DEFINE n == Len(log)
           v == journal[j].state
           w == Folded(Started(v), rec).view
           x == IF j \in Consumers THEN Closedown
                ELSE [phase |-> "open", state |-> w, began |-> TRUE, record |-> None]
<1>1. /\ log' = Append(log, rec) /\ author' = Append(author, j) /\ Len(log) = v.head_seq
      /\ journal' = [journal EXCEPT ![j] = x]
  BY DEF Written
<1>11. n = journal[j].state.head_seq /\ n \in Nat
  BY <1>1 DEF Sound, LogOK
<1>2. /\ Len(log') = n + 1 /\ n \in Nat
      /\ \A i \in 1..n : log'[i] = log[i]
      /\ log'[n + 1] = rec
  BY <1>1, AppendedLog DEF Sound, LogOK
<1>3. /\ \A i \in 1..n : author'[i] = author[i]
      /\ author'[n + 1] = j
  BY <1>1 DEF Sound, LogOK
<1>4. /\ 1..n + 1 = (1..n) \cup {n + 1}
      /\ \A i \in 1..n : i < n + 1 /\ i # n + 1
  BY <1>2
<1>5. /\ journal'[j] = x
      /\ \A i \in Journals \ {j} : journal'[i] = journal[i]
  BY <1>1 DEF Sound
<1>6. LogApart(log, author) /\ JournalApart(j, journal[j], log, author)
  BY DEF Apart
<1>7. j \in Attempts => \E p \in 1..n + 1 : author'[p] = j /\ log'[p].type = "attempt_started"
  BY <1>2, <1>3, <1>4, <1>6 DEF JournalApart, Live
<1>8. LogApart(log', author')
  <2>1. Len(log') >= 1 /\ log'[1].type = "run_admitted" /\ author'[1] = None
    BY <1>2, <1>3, <1>6 DEF LogApart
  <2>2. \A i \in 2..n + 1 : author'[i] \in Journals
    BY <1>2, <1>3, <1>6 DEF LogApart
  <2>3. \A i \in 1..n + 1 : author'[i] \in Consumers => log'[i].type \in ConsumerTypes
    BY <1>2, <1>3, <1>4, <1>6 DEF LogApart
  <2>4. \A i \in 1..n + 1 : author'[i] \in Attempts =>
          \E p \in 1..n + 1 : p <= i /\ author'[p] = author'[i] /\ log'[p].type = "attempt_started"
    <3>1. ASSUME NEW i \in 1..n, author[i] \in Attempts
          PROVE  \E p \in 1..n + 1 : p <= i /\ author'[p] = author'[i] /\ log'[p].type = "attempt_started"
      <4>1. PICK p \in 1..n : p <= i /\ author[p] = author[i] /\ log[p].type = "attempt_started"
        BY <1>6, <3>1 DEF LogApart
      <4> QED BY <1>2, <1>3, <1>4, <4>1
    <3>2. j \in Attempts => \E p \in 1..n + 1 : p <= n + 1 /\ author'[p] = j /\ log'[p].type = "attempt_started"
      BY <1>2, <1>7
    <3> QED BY <1>3, <1>4, <3>1, <3>2
  <2>5. ASSUME NEW i \in 1..n + 1, NEW k \in 1..n + 1, NEW m \in 1..n + 1,
               i < k, k < m, author'[i] \in Attempts, author'[m] = author'[i]
        PROVE  author'[k] \in Consumers \cup {author'[i]}
    <3>1. i \in 1..n /\ k \in 1..n
      BY <1>2, <2>5
    <3>2. CASE m \in 1..n
      BY <1>3, <1>6, <2>5, <3>1, <3>2 DEF LogApart
    <3>3. CASE m = n + 1
      <4>0. author'[i] = author[i] /\ author'[m] = j
        BY <1>3, <3>1, <3>3
      <4>1. author[i] = j /\ j \in Attempts
        BY <2>5, <4>0
      <4>2. author[k] \in Consumers \cup {j}
        BY <1>6, <1>11, <2>5, <3>1, <4>1 DEF JournalApart, Live
      <4> QED BY <1>3, <3>1, <4>1, <4>2
    <3> QED BY <1>4, <3>2, <3>3
  <2> QED BY <1>2, <2>1, <2>2, <2>3, <2>4, <2>5 DEF LogApart
<1>9. JournalApart(j, x, log', author')
  <2>1. CASE j \in Consumers
    BY <2>1 DEF JournalApart, HeldInTurn, Closedown, Waiting
  <2>2. CASE j \in Attempts
    <3>1. x.phase = "open" /\ x.began /\ x.state = w
      BY <2>2
    <3>3. \A i, k \in 1..n + 1 : i < k /\ author'[i] = j => author'[k] \in Consumers \cup {j}
      <4> SUFFICES ASSUME NEW i \in 1..n + 1, NEW k \in 1..n + 1, i < k, author'[i] = j
                   PROVE  author'[k] \in Consumers \cup {j}
        OBVIOUS
      <4>1. i \in 1..n
        BY <1>2
      <4>2. CASE k \in 1..n
        <5>1. author[i] = j /\ author'[k] = author[k] /\ k <= journal[j].state.head_seq
          BY <1>3, <1>11, <4>1, <4>2
        <5>2. author[k] \in Consumers \cup {j}
          BY <1>6, <2>2, <4>1, <4>2, <5>1 DEF JournalApart, Live
        <5> QED BY <5>1, <5>2
      <4> QED BY <1>3, <1>4, <4>2
    <3> HIDE DEF x, w
    <3> QED BY <1>2, <1>7, <3>1, <3>3 DEF JournalApart, HeldInTurn, Waiting
  <2> QED BY <2>1, <2>2 DEF Journals
<1> HIDE DEF x
<1>10. ASSUME NEW a \in Journals \ {j}
       PROVE  JournalApart(a, journal[a], log', author')
  <2> DEFINE y == journal[a]
  <2>1. JournalApart(a, y, log, author)
    BY DEF Apart
  <2>2. y.phase \notin {"closed", "stopped"} => y.state.head_seq \in 0..n
    BY DEF Sound, JournalOK
  <2>3. (\E i \in 1..n + 1 : author'[i] = a) <=> (\E i \in 1..n : author[i] = a)
    BY <1>3, <1>4
  <2>4. y.phase \notin {"closed", "stopped"} =>
            \A i, k \in 1..n + 1 : i < k /\ k <= y.state.head_seq => i \in 1..n /\ k \in 1..n
    BY <1>2, <2>2
  <2>5. (\E p \in 1..n : author[p] = a /\ log[p].type = "attempt_started") =>
           \E p \in 1..n + 1 : author'[p] = a /\ log'[p].type = "attempt_started"
    BY <1>2, <1>3, <1>4
  <2> HIDE DEF y
  <2>6. a \in Attempts /\ y.phase \notin {"closed", "stopped"} =>
            \A i, k \in 1..n + 1 : i < k /\ k <= y.state.head_seq /\ author'[i] = a
              => author'[k] \in Consumers \cup {a}
    BY <1>3, <2>1, <2>4 DEF JournalApart
  <2>7. JournalApart(a, y, log', author')
    BY <1>2, <2>1, <2>3, <2>5, <2>6 DEF JournalApart
  <2> QED BY <2>7 DEF y
<1> QED BY <1>5, <1>8, <1>9, <1>10 DEF Apart

\* Absorbing keeps the Attempts apart: another Attempt's attempt_started is not
\* an external record, so it cannot be among what is absorbed, and that Attempt
\* would have to have started before this one wrote, against their order.
LEMMA AbsorbApart ==
  ASSUME Sound, Apart, NEW j \in Journals, Live(j), NEW phase, Absorb(j, phase), ~Stop(j),
         phase = "absorbed" => journal[j].phase = "conflicted",
         phase \in {"open", "absorbed"}
  PROVE  Apart'
<1> USE JournalAssumption
<1> DEFINE w == ReducedFrom(journal[j].state, Foreign(j)).view
           x == [journal[j] EXCEPT !.phase = phase, !.state = w]
           n == Len(log)
<1>1. /\ journal' = [journal EXCEPT ![j] = x] /\ log' = log /\ author' = author
      /\ AllExternal(Foreign(j))
  BY DEF Absorb
<1>2. w.head_seq = n
  BY AbsorbedState
<1>3. JournalOK(journal[j], log)
  BY DEF Sound
<1> HIDE DEF w
<1>4. /\ x.phase = phase /\ x.state = w /\ x.began = journal[j].began
      /\ x.record = journal[j].record
  BY <1>3 DEF JournalOK
<1> HIDE DEF x
<1>5. LogApart(log, author) /\ JournalApart(j, journal[j], log, author)
  BY DEF Apart
<1> DEFINE h == journal[j].state.head_seq
<1>6. h \in 0..n /\ n \in Nat
  BY <1>3 DEF JournalOK, Live, Sound, LogOK
<1>7. \A k \in h + 1..n : log[k].type \in External
  <2> SUFFICES ASSUME NEW k \in h + 1..n PROVE log[k].type \in External
    OBVIOUS
  <2>0. log \in Seq(InSeq(log))
    BY DEF Sound, LogOK
  <2>1. k - h \in 1..n - h
    BY <1>6
  <2>2. k - h \in DOMAIN Foreign(j) /\ Foreign(j)[k - h] = log[k]
    <3> DEFINE t == SubSeq(log, h + 1, n)
    <3>1. Len(t) = n - h /\ \A i \in 1..Len(t) : t[i] = log[h + i]
      <4> HIDE DEF h
      <4> QED BY <1>6, <2>0
    <3>2. DOMAIN t = 1..Len(t)
      <4> HIDE DEF h
      <4> QED BY <1>6, <2>0
    <3>3. h + (k - h) = k
      BY <1>6
    <3>4. t = Foreign(j)
      BY DEF Foreign
    <3> HIDE DEF t, h
    <3> QED BY <2>1, <3>1, <3>2, <3>3, <3>4
  <2> QED BY <1>1, <2>2 DEF AllExternal
<1>8. ASSUME j \in Attempts, NEW i \in 1..n, NEW k \in 1..n, i < k, author[i] = j
      PROVE  author[k] \in Consumers \cup {j}
  <2>1. CASE k <= h
    BY <1>5, <1>8, <2>1 DEF JournalApart, Live
  <2>2. CASE ~(k <= h)
    <3> SUFFICES ASSUME author[k] \notin Consumers \cup {j} PROVE FALSE
      OBVIOUS
    <3>1. author[k] \in Attempts
      <4>1. k \in 2..n
        BY <1>6, <1>8
      <4> QED BY <1>5, <4>1 DEF LogApart, Journals
    <3>2. PICK p \in 1..n : p <= k /\ author[p] = author[k] /\ log[p].type = "attempt_started"
      BY <1>5, <3>1 DEF LogApart
    <3>3. p <= h
      <4>1. p \notin h + 1..n
        BY <1>7, <3>2 DEF External
      <4> QED BY <1>6, <4>1
    <3>4. ~(i < p)
      BY <1>5, <1>8, <3>2, <3>3 DEF JournalApart, Live
    <3>5. p < i
      <4>1. p # i
        BY <1>8, <3>2
      <4> QED BY <1>6, <3>4, <4>1
    <3>6. author[i] \in Consumers \cup {author[p]}
      BY <1>5, <1>8, <3>1, <3>2, <3>5 DEF LogApart
    <3> QED BY <1>8, <3>2, <3>6
  <2> QED BY <2>1, <2>2
<1>9. HeldInTurn(j, x)
  BY <1>4, <1>5 DEF JournalApart, HeldInTurn, Waiting
<1>10. JournalApart(j, x, log, author)
  BY <1>4, <1>5, <1>8, <1>9 DEF JournalApart, Live
<1> QED BY <1>1, <1>10, QuietApart

\* A Journal that is dropped keeps the Attempts apart.
LEMMA StopApart ==
  ASSUME Sound, Apart, NEW j \in Journals, Stop(j)
  PROVE  Apart'
<1> USE JournalAssumption
<1> DEFINE x == Ended(j)
<1>1. /\ journal' = [journal EXCEPT ![j] = x] /\ log' = log /\ author' = author
  BY DEF Stop
<1>2. JournalApart(j, x, log, author)
  BY DEF JournalApart, HeldInTurn, Ended, Closedown, Waiting
<1> HIDE DEF x
<1> QED BY <1>1, <1>2, QuietApart

\* An Attempt that opens its Journal has written nothing.
LEMMA OpenApart ==
  ASSUME Sound, Apart, NEW j \in Journals, Open(j)
  PROVE  Apart'
<1> DEFINE x == [Closedown EXCEPT !.phase = "open", !.state = Reduced(log).view]
<1>1. journal' = [journal EXCEPT ![j] = x] /\ log' = log /\ author' = author
  BY DEF Open
<1>2. x.phase = "open" /\ x.began = FALSE
  BY DEF Closedown
<1>3. JournalApart(j, journal[j], log, author) /\ journal[j].phase = "closed"
  BY DEF Apart, Open
<1> HIDE DEF x
<1>4. JournalApart(j, x, log, author)
  BY <1>2, <1>3 DEF JournalApart, HeldInTurn, Waiting
<1> QED BY <1>1, <1>4, QuietApart

\* The first try of _append_once keeps the Attempts apart.
LEMMA AppendFirstApart ==
  ASSUME Sound, Apart, NEW j \in Journals, AppendFirst(j)
  PROVE  Apart'
<1>1. journal[j].phase = "open" /\ Live(j)
  BY DEF AppendFirst, Live
<1>2. PICK rec \in Candidates(j) :
        /\ Accepted(j, rec)
        /\ \/ Written(j, rec)
           \/ /\ journal' = [journal EXCEPT ![j] =
                   [@ EXCEPT !.phase = "conflicted", !.record = rec,
                             !.state = Leaked(journal[j].state, rec)]]
              /\ log' = log /\ author' = author
  BY DEF AppendFirst
<1>3. /\ j \in Consumers => rec.type \in ConsumerTypes
      /\ j \in Attempts /\ ~journal[j].began => rec.type = "attempt_started"
  BY CandidateKinds
<1>4. CASE Written(j, rec)
  BY <1>1, <1>2, <1>3, <1>4, WriteApart
<1>5. CASE ~Written(j, rec)
  <2> DEFINE x == [journal[j] EXCEPT !.phase = "conflicted", !.record = rec,
                                     !.state = Leaked(journal[j].state, rec)]
  <2>1. journal' = [journal EXCEPT ![j] = x] /\ log' = log /\ author' = author
    BY <1>2, <1>5
  <2>2. JournalOK(journal[j], log) /\ JournalApart(j, journal[j], log, author)
    BY DEF Sound, Apart
  <2>3. /\ x.phase = "conflicted" /\ x.record = rec /\ x.began = journal[j].began
        /\ x.state = Leaked(journal[j].state, rec)
    BY <2>2 DEF JournalOK
  <2> HIDE DEF x
  <2>4. x.state.head_seq = journal[j].state.head_seq
    BY <1>1, <2>2, <2>3, LeakedAlike DEF JournalOK
  <2>5. JournalApart(j, x, log, author)
    BY <1>1, <1>3, <2>2, <2>3, <2>4 DEF JournalApart, HeldInTurn, Waiting
  <2> QED BY <2>1, <2>5, QuietApart
<1> QED BY <1>4, <1>5

\* The second try of _append_once keeps the Attempts apart.
LEMMA AppendAgainApart ==
  ASSUME Sound, Apart, NEW j \in Journals, AppendAgain(j)
  PROVE  Apart'
<1> DEFINE rec == journal[j].record
<1>1. journal[j].phase = "absorbed" /\ Live(j)
  BY DEF AppendAgain, Live
<1>2. CASE Stop(j)
  BY <1>2, StopApart
<1>3. CASE ~Stop(j)
  <2>1. Accepted(j, rec) /\ Written(j, rec)
    BY <1>3 DEF AppendAgain
  <2>2. /\ j \in Consumers => rec.type \in ConsumerTypes
        /\ j \in Attempts /\ ~journal[j].began => rec.type = "attempt_started"
    BY <1>1 DEF Apart, JournalApart, HeldInTurn, Waiting
  <2> HIDE DEF rec
  <2> QED BY <1>1, <2>1, <2>2, WriteApart
<1> QED BY <1>2, <1>3

\* Every step of every Journal keeps the Attempts apart.
LEMMA NextApart ==
  Sound /\ Apart /\ [Next]_vars => Apart'
<1> SUFFICES ASSUME Sound, Apart, [Next]_vars PROVE Apart'
  OBVIOUS
<1>1. CASE UNCHANGED vars
  BY <1>1 DEF vars, Apart
<1>2. CASE Next
  <2>1. PICK j \in Journals :
          Open(j) \/ AppendFirst(j) \/ AbsorbConflict(j) \/ AppendAgain(j) \/ Refresh(j)
    BY <1>2 DEF Next
  <2>2. CASE Open(j)
    BY <2>2, OpenApart
  <2>3. CASE AppendFirst(j)
    BY <2>3, AppendFirstApart
  <2>4. CASE AbsorbConflict(j)
    BY <2>4, AbsorbApart, StopApart DEF AbsorbConflict, Live
  <2>5. CASE AppendAgain(j)
    BY <2>5, AppendAgainApart
  <2>6. CASE Refresh(j)
    BY <2>6, AbsorbApart, StopApart DEF Refresh, Live
  <2> QED BY <2>1, <2>2, <2>3, <2>4, <2>5, <2>6
<1> QED BY <1>1, <1>2

\* Attempts that are kept apart take turns, down to their model calls.
LEMMA ApartInTurn ==
  ASSUME Sound, Apart
  PROVE  OneAttemptAtATime
<1> USE JournalAssumption
<1>0. /\ ProperLog(log) /\ DOMAIN log = 1..Len(log) /\ DOMAIN author = 1..Len(log)
      /\ Len(log) \in Nat /\ LogApart(log, author)
  BY DEF Sound, LogOK, ProperLog, Apart
<1>1. AttemptsNeverInterleave
  BY <1>0 DEF AttemptsNeverInterleave, LogApart
<1>2. ASSUME NEW i \in 1..Len(log), log[i].type \in TurnRecord
      PROVE  author[i] \in Attempts
  <2>1. i # 1
    BY <1>0, <1>2 DEF LogApart, TurnRecord
  <2>2. author[i] \in Journals
    BY <1>0, <2>1 DEF LogApart
  <2>3. author[i] \notin Consumers
    BY <1>0, <1>2 DEF LogApart, TurnRecord, ConsumerTypes, External
  <2> QED BY <2>2, <2>3 DEF Journals
<1>3. EachTurnHasOneAttempt
  <2> SUFFICES ASSUME NEW i \in At("turn_started"),
                      NEW k \in At("model_call_started") \cup At("model_call_finished")
                                \cup At("model_call_failed"),
                      log[i].turn = log[k].turn
               PROVE  i < k /\ author[i] = author[k]
    BY DEF EachTurnHasOneAttempt
  <2>1. /\ i \in 1..Len(log) /\ k \in 1..Len(log)
        /\ log[i].type = "turn_started" /\ log[k].type \in ModelCallRecord
    BY <1>0 DEF At, ModelCallRecord
  <2>2. /\ i < k
        /\ \A p \in 1..Len(log) : i < p /\ p < k => log[p].type # "attempt_started"
    BY <1>0, <2>1, TurnsInLog
  <2>3. author[i] \in Attempts /\ author[k] \in Attempts
    BY <1>2, <2>1 DEF TurnRecord, ModelCallRecord
  <2>4. author[i] = author[k]
    <3> SUFFICES ASSUME author[i] # author[k] PROVE FALSE
      OBVIOUS
    <3>1. PICK p \in 1..Len(log) : p <= k /\ author[p] = author[k] /\ log[p].type = "attempt_started"
      BY <1>0, <2>1, <2>3 DEF LogApart
    <3>2. p # k /\ p # i
      BY <2>1, <3>1 DEF ModelCallRecord
    <3>3. p < i
      BY <1>0, <2>1, <2>2, <3>1, <3>2
    <3>4. author[i] \in Consumers \cup {author[p]}
      BY <1>0, <2>1, <2>2, <2>3, <3>1, <3>3 DEF LogApart
    <3> QED BY <2>3, <3>1, <3>4
  <2> QED BY <2>2, <2>4
<1> QED BY <1>1, <1>3 DEF OneAttemptAtATime

\* OneAttemptAtATime for every number of Attempts and consumers: once another
\* Attempt has written, an Attempt never writes again, and a turn belongs to
\* the Attempt that started it (the SeqConflict rule of
\* _absorb_external_records).
THEOREM AttemptsTakeTurns == Spec => []OneAttemptAtATime
<1>1. Init => Apart
  BY InitApart
<1>2. Sound /\ Apart /\ [Next]_vars => Apart'
  BY NextApart
<1>3. Sound /\ Apart => OneAttemptAtATime
  BY ApartInTurn
<1> QED BY <1>1, <1>2, <1>3, AlwaysSound, PTL DEF Spec
=============================================================================
