--------------------------- MODULE ChildRuns_proofs ---------------------------
(***************************************************************************)
(* A parent and its background children, for every number of children.     *)
(*                                                                         *)
(* Base says that the parent's log is accepted by reduce, that everyone's  *)
(* place in it exists, and that what it says of the children is true. The  *)
(* steps are put into kinds by what they do to the log, to the header and  *)
(* to a notifier, and three further invariants are kept by every kind:     *)
(* Straight (the parent knows whether it is suspended), Wake (a parent     *)
(* that falls asleep has a waker) and Deliver (a child that is not heard   *)
(* of has a notifier that will be heard).                                  *)
(*                                                                         *)
(* These three suppose that no notifier resumes a parent that is awake     *)
(* (late). With two children such a wake does no harm, with three it does  *)
(* (see ChildRuns).                                                        *)
(***************************************************************************)
EXTENDS ChildRuns, RunLog_proofs

\* Notifier k has missed nothing but what an append absorbs.
Fresh(k) == AllExternal(Missed(k))

\* Where the notifier of child k is: it exists once the child has settled, and
\* tries again only while it may.
NoteOK(k) ==
  /\ DOMAIN note[k] = DOMAIN Silent
  /\ note[k].phase \in NotePhases
  /\ note[k].head \in 0..Len(log)
  /\ note[k].tries \in 0..Tries
  /\ note[k].phase = "idle" <=> child[k] # "settled"
  /\ note[k].phase = "idle" => note[k].tries = 0
  /\ note[k].phase \in {"looking", "appending"} => note[k].tries < Tries

\* Where the parent is: it has the lease while it executes, and no child is alive
\* in the log that is not alive in its own state.
ParentOK ==
  /\ DOMAIN parent = DOMAIN Asleep
  /\ parent.phase \in ParentPhases
  /\ parent.head \in 0..Len(log)
  /\ parent.doing \subseteq Children
  /\ parent.verdict \in {"none", "settled", "suspended", "runnable"}
  /\ Is("releasing") => parent.verdict # "none"
  /\ ~Is("off") => header = "running" /\ Alive(Truth) \subseteq Alive(View)

\* The invariant everything rests on.
Base ==
  /\ ProperLog(log) /\ ParentOK
  /\ header \in {"runnable", "running", "suspended", "settled"}
  /\ child \in [Children -> {"none", "running", "settled"}]
  /\ DOMAIN note = Children /\ \A k \in Children : NoteOK(k)
  /\ HeardOnlyWhatHappened
  /\ mishaps \subseteq Faults /\ late \in BOOLEAN

-----------------------------------------------------------------------------
(* What a step does to what the log says *)

\* Nothing is written: the log says what it said, and who reads to its end has
\* read it all.
Still ==
  /\ Truth' = Truth
  /\ parent'.head = parent.head => View' = View
  /\ parent'.head = Len(log) => View' = Truth
  /\ \A k \in Children : /\ note'[k].head = note[k].head => (Fresh(k)' <=> Fresh(k))
                         /\ note'[k].head = Len(log) => Fresh(k)'

\* The children that are alive after a record.
AliveAfter(rec) ==
  CASE rec.type = "subagent_spawned" -> Alive(Truth) \cup {rec.child}
    [] rec.type = "subagent_finished" -> Alive(Truth) \ {rec.child}
    [] OTHER -> Alive(Truth)

\* The record rec is written: what changes in what the log says, as far as the
\* invariants below can tell.
Says(rec) ==
  /\ ProperLog(log') /\ Len(log') = Len(log) + 1
  /\ Truth'.suspended = SuspendedAfter(Truth, rec)
  /\ Truth'.settled = (Truth.settled \/ rec.type = "run_settled")
  /\ Alive(Truth') = AliveAfter(rec)
  /\ \A k \in Children : Truth'.children[k] = "finished" =>
       Truth.children[k] = "finished" \/ (rec.type = "subagent_finished" /\ rec.child = k)
  /\ parent'.head = parent.head => View' = View
  /\ parent'.head = Len(log) + 1 => View' = Truth'
  /\ \A k \in Children : note'[k].head = note[k].head =>
       (Fresh(k)' <=> (Fresh(k) /\ rec.type \in External))
  /\ Truth.settled => rec.type = "run_settled"

\* A step that writes nothing leaves what the log says, and what each reader has
\* read, as it is.
LEMMA StillStep ==
  ASSUME Base, log' = log
  PROVE  Still
<1>1. Truth' = Truth
  BY DEF Truth
<1>2. parent'.head = parent.head => View' = View
  BY DEF View
<1>3. ASSUME parent'.head = Len(log) PROVE View' = Truth
  <2>1. SubSeq(log, 1, Len(log)) = log
    BY DEF Base, ProperLog
  <2> QED BY <1>3, <2>1 DEF View, Truth
<1>4. ASSUME NEW k \in Children
      PROVE  /\ note'[k].head = note[k].head => (Fresh(k)' <=> Fresh(k))
             /\ note'[k].head = Len(log) => Fresh(k)'
  <2>1. note'[k].head = note[k].head => (Fresh(k)' <=> Fresh(k))
    BY DEF Fresh, Missed
  <2>2. ASSUME note'[k].head = Len(log) PROVE Fresh(k)'
    <3>1. Len(log) \in 0..Len(log) /\ ProperLog(log)
      BY DEF Base, ProperLog
    <3>2. AllExternal(SubSeq(log, Len(log) + 1, Len(log)))
      BY <3>1, ExternalSuffix
    <3>3. Missed(k)' = SubSeq(log, Len(log) + 1, Len(log))
      BY <2>2 DEF Missed
    <3> QED BY <3>2, <3>3 DEF Fresh
  <2> QED BY <2>1, <2>2
<1> QED BY <1>1, <1>2, <1>3, <1>4 DEF Still

\* A step that appends an accepted record does what Says lists.
LEMMA SaysStep ==
  ASSUME Base, NEW rec, WellFormed(rec), Accepts(Reduced(log), rec), log' = Append(log, rec)
  PROVE  Says(rec) /\ RecordAccepted(Truth, Reduced(log).seen, rec) /\ ViewOK(Truth)
<1> DEFINE t == Append(log, rec)
<1>1. /\ ProperLog(t) /\ Len(t) = Len(log) + 1 /\ Len(log) \in Nat
      /\ \A n \in 0..Len(log) : Prefix(t, n) = Prefix(log, n)
      /\ \A i \in 1..Len(log) : t[i] = log[i]
      /\ t[Len(log) + 1] = rec
      /\ Effect(Truth, rec, Reduced(t).view)
  <2>1. ProperLog(log)
    BY DEF Base
  <2> HIDE DEF t
  <2>2. t = Append(log, rec) /\ Truth = Reduced(log).view
    BY DEF t, Truth
  <2> QED BY <2>1, <2>2, ProperAppend, SMTT(30)
<1>2. ViewOK(Truth)
  BY ProperFold DEF Base, Truth
<1>3. Truth' = Reduced(t).view
  BY DEF Truth
<1>4. RecordAccepted(Truth, Reduced(log).seen, rec) /\ (Truth.settled => rec.type = "run_settled")
  BY DEF Accepts, Truth
<1> HIDE DEF t
<1>5. /\ Truth'.suspended = SuspendedAfter(Truth, rec)
      /\ Truth'.settled = (Truth.settled \/ rec.type = "run_settled")
      /\ Truth'.children = ChildrenAfter(Truth, rec)
  BY <1>1, <1>2, <1>3 DEF Effect, ViewOK
<1>6. DOMAIN Truth.children = Children
  BY <1>2 DEF ViewOK
<1>7. rec.type \in {"subagent_spawned", "subagent_finished"} => rec.child \in Children
  BY DEF WellFormed
<1>8. Alive(Truth') = AliveAfter(rec)
  <2>1. CASE rec.type = "subagent_spawned"
    BY <1>5, <1>6, <1>7, <2>1 DEF Alive, AliveAfter, ChildrenAfter
  <2>2. CASE rec.type = "subagent_finished"
    BY <1>5, <1>6, <1>7, <2>2 DEF Alive, AliveAfter, ChildrenAfter
  <2>3. CASE rec.type \notin {"subagent_spawned", "subagent_finished"}
    BY <1>5, <2>3 DEF Alive, AliveAfter, ChildrenAfter
  <2> QED BY <2>1, <2>2, <2>3
<1>9. ASSUME NEW k \in Children, Truth'.children[k] = "finished"
      PROVE  Truth.children[k] = "finished" \/ (rec.type = "subagent_finished" /\ rec.child = k)
  <2>1. CASE rec.type = "subagent_spawned"
    BY <1>5, <1>6, <1>7, <1>9, <2>1 DEF ChildrenAfter
  <2>2. CASE rec.type = "subagent_finished"
    BY <1>5, <1>6, <1>7, <1>9, <2>2 DEF ChildrenAfter
  <2>3. CASE rec.type \notin {"subagent_spawned", "subagent_finished"}
    BY <1>5, <1>9, <2>3 DEF ChildrenAfter
  <2> QED BY <2>1, <2>2, <2>3
<1>10. parent'.head = parent.head => View' = View
  <2>1. View = Prefix(log, parent.head).view
    BY DEF View, Prefix, Reduced
  <2>2. parent'.head = parent.head => View' = Prefix(t, parent.head).view
    BY DEF View, Prefix, Reduced, t
  <2>3. parent.head \in 0..Len(log)
    BY DEF Base, ParentOK
  <2> QED BY <1>1, <2>1, <2>2, <2>3
<1>11. parent'.head = Len(log) + 1 => View' = Truth'
  <2>1. SubSeq(t, 1, Len(t)) = t
    BY <1>1 DEF ProperLog
  <2>2. log' = t
    BY DEF t
  <2> QED BY <1>1, <2>1, <2>2 DEF View, Truth
<1>12. ASSUME NEW k \in Children, note'[k].head = note[k].head
       PROVE  Fresh(k)' <=> (Fresh(k) /\ rec.type \in External)
  <2> DEFINE h == note[k].head
  <2>1. h \in 0..Len(log) /\ h \in 0..Len(t) /\ ProperLog(log)
    BY <1>1 DEF Base, NoteOK
  <2> HIDE DEF h
  <2>2. AllExternal(SubSeq(log, h + 1, Len(log))) <=> \A i \in h + 1..Len(log) : log[i].type \in External
    BY <2>1, ExternalSuffix
  <2>3. AllExternal(SubSeq(t, h + 1, Len(t))) <=> \A i \in h + 1..Len(t) : t[i].type \in External
    BY <1>1, <2>1, ExternalSuffix
  <2>4. h + 1..Len(t) = (h + 1..Len(log)) \cup {Len(log) + 1} /\ h + 1..Len(log) \subseteq 1..Len(log)
    BY <1>1, <2>1
  <2>5. AllExternal(SubSeq(t, h + 1, Len(t)))
          <=> (AllExternal(SubSeq(log, h + 1, Len(log))) /\ rec.type \in External)
    BY <1>1, <2>2, <2>3, <2>4
  <2>6. Fresh(k) <=> AllExternal(SubSeq(log, h + 1, Len(log)))
    BY DEF Fresh, Missed, h
  <2>7. Fresh(k)' <=> AllExternal(SubSeq(t, h + 1, Len(t)))
    BY <1>12 DEF Fresh, Missed, h, t
  <2> QED BY <2>5, <2>6, <2>7
<1>13. ProperLog(log') /\ Len(log') = Len(log) + 1
  BY <1>1 DEF t
<1> QED BY <1>2, <1>4, <1>5, <1>8, <1>9, <1>10, <1>11, <1>12, <1>13 DEF Says

-----------------------------------------------------------------------------
(* The steps, by what they do to the log, the parent and the notifiers *)

\* The parent reads no further, or to the end of the log.
Keeps == parent'.head = parent.head
Reads == parent'.head = Len(log)

\* The parent moves on and writes nothing.
Goes ==
  /\ Still /\ UNCHANGED <<header, child, note, mishaps, late>>
  /\ ~Is("off") /\ parent'.phase # "off"
  /\ \/ Keeps /\ parent'.phase = "corrupt"
     \/ Is("claimed") /\ Keeps /\ parent'.phase = "unwinding"
     \/ Is("looping") /\ Keeps /\ parent'.phase = "leaving" /\ View.suspended
     \/ Is("looping") /\ Reads /\ parent'.phase = "turning" /\ ~View.suspended
     \/ Is("turning") /\ Keeps /\ parent'.phase = "leaving" /\ Alive(View) = {}
     \/ /\ Is("turning") /\ Keeps /\ parent'.phase = "reconciling" /\ parent'.doing = Alive(View)
     \/ /\ Is("reconciling") /\ Keeps /\ parent'.phase = "reconciling"
        /\ \E k \in Children : child[k] = "running" /\ parent'.doing = parent.doing \ {k}
     \/ Is("reconciling") /\ Keeps /\ parent'.phase = "looping"
     \/ Is("refreshing") /\ Reads /\ parent'.phase = "selfwaking"
     \/ Is("refreshing") /\ Reads /\ parent'.phase = "leaving" /\ Alive(Truth) # {}
     \/ Is("leaving") /\ Keeps /\ parent'.phase = "unwinding"
     \/ /\ Is("unwinding") /\ Keeps /\ parent'.phase = "releasing"
        /\ parent'.verdict = IF Truth.settled THEN "settled"
                             ELSE IF Truth.suspended THEN "suspended" ELSE "runnable"

\* The parent writes.
Speaks(rec) ==
  /\ Says(rec) /\ UNCHANGED <<header, child, note, mishaps, late>>
  /\ ~Is("off") /\ parent'.phase # "off" /\ parent'.head = Len(log) + 1
  /\ \/ Is("claimed") /\ parent'.phase = "looping" /\ rec.type = "attempt_started"
     \/ Is("spawning") /\ parent'.phase = "looping" /\ rec.type = "subagent_spawned"
     \/ /\ Is("reconciling") /\ parent'.phase = "reconciling"
        /\ rec.type = "subagent_finished" /\ parent'.doing = parent.doing \ {rec.child}
     \/ /\ Is("reconciling") /\ parent.doing = {} /\ parent'.phase = "refreshing"
        /\ rec.type = "suspended" /\ ~Truth.suspended
     \/ Is("selfwaking") /\ parent'.phase = "looping" /\ rec.type = "resumed"
     \/ /\ Is("leaving") /\ parent'.phase = "unwinding" /\ rec.type = "run_settled"
        /\ ~View.settled /\ ~View.suspended

\* A step of the parent that writes nothing keeps Base.
LEMMA GoesBase ==
  ASSUME Base, ~Is("off"), log' = log, UNCHANGED others,
         DOMAIN parent' = DOMAIN Asleep, parent'.phase \in ParentPhases \ {"off"},
         parent'.head \in {parent.head, Len(log)}, parent'.doing \subseteq Children,
         parent'.verdict \in {"none", "settled", "suspended", "runnable"},
         parent'.phase = "releasing" => parent'.verdict # "none"
  PROVE  Base' /\ Still
<1>1. Still
  BY StillStep
<1>2. Len(log) \in 0..Len(log)
  BY DEF Base, ProperLog
<1>3. ParentOK'
  BY <1>1, <1>2 DEF Base, ParentOK, Is, others, Still, Alive
<1>4. \A k \in Children : NoteOK(k)'
  BY DEF Base, NoteOK, others
<1> QED BY <1>1, <1>3, <1>4 DEF Base, others, HeardOnlyWhatHappened, Still

\* Journal.append by the parent keeps Base, whether it writes or raises.
LEMMA AppendBase ==
  ASSUME Base, ~Is("off"), UNCHANGED others, NEW rec, WellFormed(rec), NEW new, ParentAppend(rec, new),
         DOMAIN new = DOMAIN Asleep, new.phase \in ParentPhases \ {"off", "releasing"},
         new.doing \subseteq Children, new.verdict = parent.verdict,
         rec.type = "subagent_finished" => child[rec.child] = "settled"
  PROVE  /\ Base' /\ parent'.phase # "off"
         /\ \/ Still /\ Keeps /\ parent'.phase = "corrupt"
            \/ /\ Says(rec) /\ RecordAccepted(Truth, Reduced(log).seen, rec)
               /\ parent'.phase = new.phase /\ parent'.doing = new.doing
               /\ parent'.head = Len(log) + 1
<1>1. CASE /\ Accepts(Reduced(log), rec) /\ log' = Append(log, rec)
           /\ parent' = [new EXCEPT !.head = Len(log) + 1]
  <2>1. Says(rec) /\ RecordAccepted(Truth, Reduced(log).seen, rec)
    BY <1>1, SaysStep
  <2>2. /\ DOMAIN parent' = DOMAIN Asleep /\ parent'.head = Len(log) + 1
        /\ parent'.phase = new.phase /\ parent'.doing = new.doing /\ parent'.verdict = new.verdict
    BY <1>1 DEF Asleep
  <2>3. Len(log) \in Nat /\ Len(log') = Len(log) + 1 /\ ProperLog(log')
    BY <2>1 DEF Base, ProperLog, Says
  <2>4. ParentOK'
    BY <2>1, <2>2, <2>3 DEF Base, ParentOK, Is, others, Says
  <2>5. \A k \in Children : NoteOK(k)'
    BY <2>3 DEF Base, NoteOK, others
  <2>6. HeardOnlyWhatHappened'
    BY <2>1 DEF Base, HeardOnlyWhatHappened, Says, others
  <2>7. Base'
    BY <2>3, <2>4, <2>5, <2>6 DEF Base, others
  <2> QED BY <2>1, <2>2, <2>7
<1>2. CASE GoesTo("corrupt") /\ log' = log
  <2>1. /\ DOMAIN parent' = DOMAIN Asleep /\ parent'.head = parent.head /\ parent'.phase = "corrupt"
        /\ parent'.doing = parent.doing /\ parent'.verdict = parent.verdict
    BY <1>2 DEF GoesTo, Base, ParentOK, Asleep
  <2>2. Base' /\ Still
    BY <1>2, <2>1, GoesBase DEF Base, ParentOK, ParentPhases
  <2> QED BY <2>1, <2>2 DEF Keeps
<1> QED BY <1>1, <1>2 DEF ParentAppend

\* The parent's own steps, but for those that begin and end its Attempt.
LEMMA ParentMoves ==
  ASSUME Base,
         \/ Begin \/ BeginTurn \/ RecordSpawn \/ FinishTurn \/ Suspend \/ LookAgain
         \/ WakeItself \/ Leave \/ Unwind \/ \E k \in Children : Reconcile(k)
  PROVE  Base' /\ (Goes \/ \E rec : Speaks(rec))
<1>0. /\ DOMAIN parent = DOMAIN Asleep /\ parent.doing \subseteq Children
      /\ parent.verdict \in {"none", "settled", "suspended", "runnable"}
  BY DEF Base, ParentOK
<1>1. CASE Begin
  <2>1. CASE View.settled
    <3>1. /\ DOMAIN parent' = DOMAIN Asleep /\ parent'.phase = "unwinding" /\ parent'.head = parent.head
          /\ parent'.doing = parent.doing /\ parent'.verdict = parent.verdict /\ log' = log
      BY <1>0, <1>1, <2>1 DEF Begin, GoesTo, Asleep
    <3>2. Base' /\ Still
      BY <1>0, <1>1, <3>1, GoesBase DEF Begin, Is, ParentPhases
    <3> QED BY <1>1, <3>1, <3>2 DEF Begin, Goes, Is, others, Keeps
  <2>2. CASE ~View.settled
    <3> DEFINE rec == [type |-> "attempt_started", number |-> View.attempt_count + 1]
               new == [parent EXCEPT !.phase = "looping"]
    <3>1. DOMAIN new = DOMAIN Asleep /\ new.phase = "looping" /\ new.doing = parent.doing /\ new.verdict = parent.verdict
      BY <1>0 DEF Asleep
    <3>2. ParentAppend(rec, new) /\ Is("claimed") /\ UNCHANGED others
      BY <1>1, <2>2 DEF Begin
    <3>3. rec.type = "attempt_started" /\ WellFormed(rec)
      BY DEF WellFormed
    <3> HIDE DEF rec, new
    <3>4. /\ Base' /\ parent'.phase # "off"
          /\ \/ Still /\ Keeps /\ parent'.phase = "corrupt"
             \/ Says(rec) /\ parent'.phase = "looping" /\ parent'.head = Len(log) + 1
      BY <1>0, <3>1, <3>2, <3>3, AppendBase DEF Is, ParentPhases
    <3>5. Goes \/ Speaks(rec)
      BY <3>2, <3>3, <3>4 DEF Goes, Speaks, Is, others
    <3> QED BY <3>4, <3>5
  <2> QED BY <2>1, <2>2
<1>2. CASE BeginTurn
  <2>1. CASE View.suspended
    <3>1. /\ DOMAIN parent' = DOMAIN Asleep /\ parent'.phase = "leaving" /\ parent'.head = parent.head
          /\ parent'.doing = parent.doing /\ parent'.verdict = parent.verdict /\ log' = log
      BY <1>0, <1>2, <2>1 DEF BeginTurn, Asleep
    <3>2. Base' /\ Still
      BY <1>0, <1>2, <3>1, GoesBase DEF BeginTurn, Is, ParentPhases
    <3> QED BY <1>2, <2>1, <3>1, <3>2 DEF BeginTurn, Goes, Is, others, Keeps
  <2>2. CASE ~View.suspended
    <3>1. /\ DOMAIN parent' = DOMAIN Asleep /\ parent'.phase = "turning" /\ parent'.head = Len(log)
          /\ parent'.doing = parent.doing /\ parent'.verdict = parent.verdict /\ log' = log
      BY <1>0, <1>2, <2>2 DEF BeginTurn, Asleep
    <3>2. Base' /\ Still
      BY <1>0, <1>2, <3>1, GoesBase DEF BeginTurn, Is, ParentPhases
    <3> QED BY <1>2, <2>2, <3>1, <3>2 DEF BeginTurn, Goes, Is, others, Reads
  <2> QED BY <2>1, <2>2
<1>3. CASE RecordSpawn
  <2>1. PICK k \in parent.doing :
          ParentAppend([type |-> "subagent_spawned", child |-> k],
                       [parent EXCEPT !.phase = "looping", !.doing = {}])
    BY <1>3 DEF RecordSpawn
  <2> DEFINE rec == [type |-> "subagent_spawned", child |-> k]
             new == [parent EXCEPT !.phase = "looping", !.doing = {}]
  <2>2. DOMAIN new = DOMAIN Asleep /\ new.phase = "looping" /\ new.doing = {} /\ new.verdict = parent.verdict
    BY <1>0 DEF Asleep
  <2>3. ParentAppend(rec, new) /\ Is("spawning") /\ UNCHANGED others
    BY <1>3, <2>1 DEF RecordSpawn
  <2>4. rec.type = "subagent_spawned" /\ WellFormed(rec)
    BY <1>0 DEF WellFormed
  <2> HIDE DEF rec, new
  <2>5. /\ Base' /\ parent'.phase # "off"
        /\ \/ Still /\ Keeps /\ parent'.phase = "corrupt"
           \/ Says(rec) /\ parent'.phase = "looping" /\ parent'.head = Len(log) + 1
    BY <1>0, <2>2, <2>3, <2>4, AppendBase DEF Is, ParentPhases
  <2>6. Goes \/ Speaks(rec)
    BY <2>3, <2>4, <2>5 DEF Goes, Speaks, Is, others
  <2> QED BY <2>5, <2>6
<1>4. CASE FinishTurn
  <2>0. Alive(View) \subseteq Children
    BY DEF Alive
  <2>1. CASE Alive(View) = {}
    <3>1. /\ DOMAIN parent' = DOMAIN Asleep /\ parent'.phase = "leaving" /\ parent'.head = parent.head
          /\ parent'.doing = parent.doing /\ parent'.verdict = parent.verdict /\ log' = log
      BY <1>0, <1>4, <2>1 DEF FinishTurn, Asleep
    <3>2. Base' /\ Still
      BY <1>0, <1>4, <3>1, GoesBase DEF FinishTurn, Is, ParentPhases
    <3> QED BY <1>4, <2>1, <3>1, <3>2 DEF FinishTurn, Goes, Is, others, Keeps
  <2>2. CASE Alive(View) # {}
    <3>1. /\ DOMAIN parent' = DOMAIN Asleep /\ parent'.phase = "reconciling" /\ parent'.head = parent.head
          /\ parent'.doing = Alive(View) /\ parent'.verdict = parent.verdict /\ log' = log
      BY <1>0, <1>4, <2>2 DEF FinishTurn, Asleep
    <3>2. Base' /\ Still
      BY <1>0, <1>4, <2>0, <3>1, GoesBase DEF FinishTurn, Is, ParentPhases
    <3> QED BY <1>4, <2>2, <3>1, <3>2 DEF FinishTurn, Goes, Is, others, Keeps
  <2> QED BY <2>1, <2>2
<1>5. CASE Suspend
  <2>1. CASE Alive(View) = {} /\ GoesTo("looping") /\ UNCHANGED log
    <3>1. /\ DOMAIN parent' = DOMAIN Asleep /\ parent'.phase = "looping" /\ parent'.head = parent.head
          /\ parent'.doing = parent.doing /\ parent'.verdict = parent.verdict /\ log' = log
      BY <1>0, <2>1 DEF GoesTo, Asleep
    <3>2. Base' /\ Still
      BY <1>0, <1>5, <3>1, GoesBase DEF Suspend, Is, ParentPhases
    <3> QED BY <1>5, <3>1, <3>2 DEF Suspend, Goes, Is, others, Keeps
  <2>2. CASE ParentAppend([type |-> "suspended", reason |-> "children", call |-> None, step |-> None],
                          [parent EXCEPT !.phase = "refreshing"])
    <3> DEFINE rec == [type |-> "suspended", reason |-> "children", call |-> None, step |-> None]
               new == [parent EXCEPT !.phase = "refreshing"]
    <3>1. DOMAIN new = DOMAIN Asleep /\ new.phase = "refreshing" /\ new.doing = parent.doing /\ new.verdict = parent.verdict
      BY <1>0 DEF Asleep
    <3>2. ParentAppend(rec, new) /\ Is("reconciling") /\ parent.doing = {} /\ UNCHANGED others
      BY <1>5, <2>2 DEF Suspend
    <3>3. rec.type = "suspended" /\ WellFormed(rec)
      BY DEF WellFormed
    <3> HIDE DEF rec, new
    <3>4. /\ Base' /\ parent'.phase # "off"
          /\ \/ Still /\ Keeps /\ parent'.phase = "corrupt"
             \/ /\ Says(rec) /\ parent'.phase = "refreshing" /\ parent'.head = Len(log) + 1
                /\ RecordAccepted(Truth, Reduced(log).seen, rec)
      BY <1>0, <3>1, <3>2, <3>3, AppendBase DEF Is, ParentPhases
    <3>5. RecordAccepted(Truth, Reduced(log).seen, rec) => ~Truth.suspended
      BY <3>3 DEF RecordAccepted, SuspendAccepted
    <3>6. Goes \/ Speaks(rec)
      BY <3>2, <3>3, <3>4, <3>5 DEF Goes, Speaks, Is, others
    <3> QED BY <3>4, <3>6
  <2> QED BY <1>5, <2>1, <2>2 DEF Suspend
<1>6. CASE LookAgain
  <2> DEFINE p == IF Alive(Truth) = {} THEN "selfwaking" ELSE "leaving"
  <2>1. /\ DOMAIN parent' = DOMAIN Asleep /\ parent'.phase = p /\ parent'.head = Len(log)
        /\ parent'.doing = parent.doing /\ parent'.verdict = parent.verdict /\ log' = log
    BY <1>0, <1>6 DEF LookAgain, Asleep
  <2>2. Base' /\ Still
    BY <1>0, <1>6, <2>1, GoesBase DEF LookAgain, Is, ParentPhases
  <2> QED BY <1>6, <2>1, <2>2 DEF LookAgain, Goes, Is, others, Reads
<1>7. CASE WakeItself
  <2> DEFINE rec == Resumed
             new == [parent EXCEPT !.phase = "looping"]
  <2>1. DOMAIN new = DOMAIN Asleep /\ new.phase = "looping" /\ new.doing = parent.doing /\ new.verdict = parent.verdict
    BY <1>0 DEF Asleep
  <2>2. ParentAppend(rec, new) /\ Is("selfwaking") /\ UNCHANGED others
    BY <1>7 DEF WakeItself
  <2>3. rec.type = "resumed" /\ WellFormed(rec)
    BY DEF WellFormed, Resumed
  <2> HIDE DEF rec, new
  <2>4. /\ Base' /\ parent'.phase # "off"
        /\ \/ Still /\ Keeps /\ parent'.phase = "corrupt"
           \/ Says(rec) /\ parent'.phase = "looping" /\ parent'.head = Len(log) + 1
    BY <1>0, <2>1, <2>2, <2>3, AppendBase DEF Is, ParentPhases
  <2>5. Goes \/ Speaks(rec)
    BY <2>2, <2>3, <2>4 DEF Goes, Speaks, Is, others
  <2> QED BY <2>4, <2>5
<1>8. CASE Leave
  <2>1. CASE View.settled \/ View.suspended
    <3>1. /\ DOMAIN parent' = DOMAIN Asleep /\ parent'.phase = "unwinding" /\ parent'.head = parent.head
          /\ parent'.doing = parent.doing /\ parent'.verdict = parent.verdict /\ log' = log
      BY <1>0, <1>8, <2>1 DEF Leave, GoesTo, Asleep
    <3>2. Base' /\ Still
      BY <1>0, <1>8, <3>1, GoesBase DEF Leave, Is, ParentPhases
    <3> QED BY <1>8, <3>1, <3>2 DEF Leave, Goes, Is, others, Keeps
  <2>2. CASE ~(View.settled \/ View.suspended)
    <3> DEFINE rec == [type |-> "run_settled", state |-> "completed"]
               new == [parent EXCEPT !.phase = "unwinding"]
    <3>1. DOMAIN new = DOMAIN Asleep /\ new.phase = "unwinding" /\ new.doing = parent.doing /\ new.verdict = parent.verdict
      BY <1>0 DEF Asleep
    <3>2. ParentAppend(rec, new) /\ Is("leaving") /\ UNCHANGED others
      BY <1>8, <2>2 DEF Leave
    <3>3. rec.type = "run_settled" /\ WellFormed(rec)
      BY DEF WellFormed
    <3> HIDE DEF rec, new
    <3>4. /\ Base' /\ parent'.phase # "off"
          /\ \/ Still /\ Keeps /\ parent'.phase = "corrupt"
             \/ Says(rec) /\ parent'.phase = "unwinding" /\ parent'.head = Len(log) + 1
      BY <1>0, <3>1, <3>2, <3>3, AppendBase DEF Is, ParentPhases
    <3>5. Goes \/ Speaks(rec)
      BY <2>2, <3>2, <3>3, <3>4 DEF Goes, Speaks, Is, others
    <3> QED BY <3>4, <3>5
  <2> QED BY <2>1, <2>2
<1>9. CASE Unwind
  <2> DEFINE v == IF Truth.settled THEN "settled" ELSE IF Truth.suspended THEN "suspended" ELSE "runnable"
  <2>1. /\ DOMAIN parent' = DOMAIN Asleep /\ parent'.phase = "releasing" /\ parent'.head = parent.head
        /\ parent'.doing = parent.doing /\ parent'.verdict = v /\ log' = log
    BY <1>0, <1>9 DEF Unwind, Asleep
  <2>2. v \in {"settled", "suspended", "runnable"}
    OBVIOUS
  <2>3. Base' /\ Still
    BY <1>0, <1>9, <2>1, <2>2, GoesBase DEF Unwind, Is, ParentPhases
  <2> QED BY <1>9, <2>1, <2>3 DEF Unwind, Goes, Is, others, Keeps
<1>10. ASSUME NEW k \in Children, Reconcile(k) PROVE Base' /\ (Goes \/ \E rec : Speaks(rec))
  <2>1. CASE child[k] = "settled" /\ ParentAppend(Finished(k), [parent EXCEPT !.doing = parent.doing \ {k}])
    <3> DEFINE rec == Finished(k)
               new == [parent EXCEPT !.doing = parent.doing \ {k}]
    <3>0. Is("reconciling") /\ UNCHANGED others
      BY <1>10 DEF Reconcile
    <3>1. DOMAIN new = DOMAIN Asleep /\ new.phase = "reconciling" /\ new.doing = parent.doing \ {k} /\ new.verdict = parent.verdict
      BY <1>0, <3>0 DEF Asleep, Is
    <3>2. ParentAppend(rec, new)
      BY <2>1
    <3>3. rec.type = "subagent_finished" /\ rec.child = k /\ WellFormed(rec)
      BY DEF WellFormed, Finished
    <3> HIDE DEF rec, new
    <3>4. /\ Base' /\ parent'.phase # "off"
          /\ \/ Still /\ Keeps /\ parent'.phase = "corrupt"
             \/ /\ Says(rec) /\ parent'.phase = "reconciling" /\ parent'.doing = parent.doing \ {k}
                /\ parent'.head = Len(log) + 1
      BY <1>0, <2>1, <3>0, <3>1, <3>2, <3>3, AppendBase DEF Is, ParentPhases
    <3>5. Goes \/ Speaks(rec)
      BY <3>0, <3>3, <3>4 DEF Goes, Speaks, Is, others
    <3> QED BY <3>4, <3>5
  <2>2. CASE child[k] = "running" /\ parent' = [parent EXCEPT !.doing = parent.doing \ {k}] /\ UNCHANGED log
    <3>1. /\ DOMAIN parent' = DOMAIN Asleep /\ parent'.phase = "reconciling" /\ parent'.head = parent.head
          /\ parent'.doing = parent.doing \ {k} /\ parent'.verdict = parent.verdict /\ log' = log
      BY <1>0, <1>10, <2>2 DEF Reconcile, Is, Asleep
    <3>2. Base' /\ Still
      BY <1>0, <1>10, <3>1, GoesBase DEF Reconcile, Is, ParentPhases
    <3> QED BY <1>10, <2>2, <3>1, <3>2 DEF Reconcile, Goes, Is, others, Keeps
  <2> QED BY <1>10, <2>1, <2>2 DEF Reconcile
<1> QED BY <1>1, <1>2, <1>3, <1>4, <1>5, <1>6, <1>7, <1>8, <1>9, <1>10

-----------------------------------------------------------------------------
(* The other steps *)

\* A Worker claims the parent.
Claims ==
  /\ Still /\ UNCHANGED <<child, note, mishaps, late>>
  /\ Is("off") /\ header \in {"runnable", "running"} /\ header' = "running"
  /\ parent'.phase = "claimed" /\ Reads

\* The parent's Attempt ends: released, given up, or dead.
Stops ==
  /\ Still /\ UNCHANGED <<child, note, late>> /\ parent'.phase = "off"
  /\ \/ Is("releasing") /\ header' = parent.verdict /\ mishaps' = mishaps
     \/ Is("corrupt") /\ header' = "settled" /\ mishaps' = mishaps
     \/ header' = header /\ mishaps' = mishaps \cup {"crash"}

\* The parent dispatches a child.
Dispatches ==
  /\ Still /\ UNCHANGED <<header, note, mishaps, late>> /\ Keeps
  /\ Is("turning") /\ parent'.phase = "spawning"
  /\ \A k \in Children : child'[k] = "settled" => child[k] = "settled"

\* No notifier but that of k changes.
Only(k) == \A j \in Children \ {k} : note'[j] = note[j]

\* The notifier of k has read no further and tried no further.
Same(k) == note'[k].head = note[k].head /\ note'[k].tries = note[k].tries

\* A child settles and its notifier begins.
Settles(k) ==
  /\ Still /\ UNCHANGED <<header, parent, mishaps, late>> /\ Only(k) /\ Same(k)
  /\ child[k] = "running" /\ child'[k] = "settled"
  /\ \A j \in Children \ {k} : child'[j] = child[j]
  /\ note'[k].phase = "looking"

\* The parent still waits to hear of k.
Awaited(k) == k \in Alive(Truth) /\ ~Truth.settled

\* A notifier moves on and writes nothing.
NoteGoes(k) ==
  /\ Still /\ UNCHANGED <<header, parent, child, mishaps, late>> /\ Only(k)
  /\ \/ NoteIs(k, "looking") /\ note'[k].phase = "over" /\ ~Awaited(k)
     \/ /\ NoteIs(k, "looking") /\ note'[k].phase = "appending"
        /\ note'[k].tries = note[k].tries /\ note'[k].head = Len(log)
     \/ NoteIs(k, "appending") /\ Fresh(k) /\ note'[k].phase = "over" /\ ~Awaited(k)
     \/ /\ NoteIs(k, "appending") /\ ~Fresh(k) /\ note'[k].tries = note[k].tries + 1
        /\ note'[k].phase = IF note[k].tries + 1 < Tries THEN "looking" ELSE "over"
     \/ NoteIs(k, "waking") /\ note'[k].phase = "over" /\ header = "settled"
     \/ NoteIs(k, "waking") /\ note'[k].phase \in {"opening", "checking"} /\ Same(k)
     \/ NoteIs(k, "checking") /\ note'[k].phase = "waking" /\ Same(k)
     \/ NoteIs(k, "checking") /\ note'[k].phase = "over" /\ ~Truth.suspended
     \/ NoteIs(k, "opening") /\ note'[k].phase = "resuming" /\ note'[k].head = Len(log)
     \/ NoteIs(k, "opening") /\ note'[k].phase = "over" /\ ~Truth.suspended
     \/ /\ NoteIs(k, "resuming") /\ note'[k].phase = "over"
        /\ Fresh(k) => ~Truth.suspended \/ Truth.settled

\* A notifier dies or stops waiting.
Silences(k) ==
  /\ Still /\ UNCHANGED <<header, parent, child, late>> /\ Only(k)
  /\ note'[k].phase = "over"
  /\ \/ mishaps' = mishaps \cup {"lost_notice"} /\ note[k].phase \in {"looking", "appending"}
     \/ mishaps' = mishaps \cup {"lost_wake"}
     \/ mishaps' = mishaps \cup {"timeout"}

\* A notifier writes.
NoteSpeaks(k, rec) ==
  /\ Says(rec) /\ UNCHANGED <<header, parent, child, mishaps>> /\ Only(k) /\ Same(k)
  /\ \/ /\ NoteIs(k, "appending") /\ note'[k].phase = "waking"
        /\ rec.type = "subagent_finished" /\ rec.child = k /\ late' = late
     \/ /\ NoteIs(k, "resuming") /\ note'[k].phase = "setting"
        /\ rec.type = "resumed" /\ Truth.suspended
        /\ late' = (late \/ header # "suspended")

\* A notifier makes the parent runnable.
Sets(k) ==
  /\ Still /\ UNCHANGED <<parent, child, mishaps, late>> /\ Only(k) /\ Same(k)
  /\ NoteIs(k, "setting") /\ note'[k].phase = "over"
  /\ header' = IF header = "suspended" THEN "runnable" ELSE header

\* What a step may be.  Each invariant below is shown to be kept by every kind of
\* step and then needs none of the actions.
Kinds ==
  \/ Claims \/ Stops \/ Dispatches \/ Goes \/ \E rec : Speaks(rec)
  \/ \E k \in Children : Settles(k) \/ NoteGoes(k) \/ Silences(k) \/ Sets(k) \/ \E rec : NoteSpeaks(k, rec)

\* A step of one notifier that writes nothing keeps Base.
LEMMA NoteBase ==
  ASSUME Base, log' = log, UNCHANGED <<parent, child>>,
         header' \in {header, "runnable"}, ~Is("off") => header' = header,
         mishaps' \subseteq Faults, late' \in BOOLEAN,
         NEW k \in Children, NEW x, note' = [note EXCEPT ![k] = x],
         DOMAIN x = DOMAIN Silent, x.phase \in NotePhases \ {"idle"}, x.head \in {note[k].head, Len(log)},
         note[k].phase # "idle", x.tries \in 0..Tries,
         x.phase \in {"looking", "appending"} => x.tries < Tries
  PROVE  Base' /\ Still /\ Only(k) /\ note'[k] = x
<1>1. Still
  BY StillStep
<1>2. Only(k) /\ note'[k] = x /\ DOMAIN note' = Children
  BY DEF Base, Only
<1>3. Len(log) \in 0..Len(log)
  BY DEF Base, ProperLog
<1>4. \A j \in Children : NoteOK(j)'
  BY <1>2, <1>3 DEF Base, NoteOK, Only
<1>5. ParentOK'
  BY <1>1 DEF Base, ParentOK, Is, Still, Alive
<1>6. HeardOnlyWhatHappened'
  BY <1>1 DEF Base, HeardOnlyWhatHappened, Still
<1>7. header' \in {"runnable", "running", "suspended", "settled"}
  BY DEF Base
<1> QED BY <1>1, <1>2, <1>4, <1>5, <1>6, <1>7 DEF Base

\* A step of one notifier that writes keeps Base.
LEMMA NoteSaysBase ==
  ASSUME Base, UNCHANGED <<header, parent, child, mishaps>>, late' \in BOOLEAN,
         NEW rec, WellFormed(rec), Accepts(Reduced(log), rec), log' = Append(log, rec),
         rec.type \in {"subagent_finished", "resumed"},
         rec.type = "subagent_finished" => child[rec.child] = "settled",
         NEW k \in Children, NEW phase \in {"waking", "setting"}, NoteGoesTo(k, phase), note[k].phase # "idle"
  PROVE  /\ Base' /\ Says(rec) /\ Only(k) /\ Same(k) /\ note'[k].phase = phase
         /\ RecordAccepted(Truth, Reduced(log).seen, rec)
<1>1. Says(rec) /\ RecordAccepted(Truth, Reduced(log).seen, rec)
  BY SaysStep
<1>2. /\ Only(k) /\ Same(k) /\ DOMAIN note' = Children
      /\ note'[k].phase = phase /\ DOMAIN note'[k] = DOMAIN Silent
  BY DEF Base, Only, Same, NoteGoesTo, NoteOK, Silent
<1>3. Len(log) \in Nat /\ Len(log') = Len(log) + 1 /\ ProperLog(log')
  BY <1>1 DEF Base, ProperLog, Says
<1>4. \A j \in Children : NoteOK(j)'
  <2>1. NoteOK(k)'
    BY <1>2, <1>3 DEF Base, NoteOK, Same, NotePhases
  <2>2. ASSUME NEW j \in Children \ {k} PROVE NoteOK(j)'
    BY <1>2, <1>3 DEF Base, NoteOK, Only
  <2> QED BY <2>1, <2>2
<1>5. Alive(Truth') \subseteq Alive(Truth) /\ View' = View
  BY <1>1 DEF Says, AliveAfter
<1>6. ParentOK'
  <2>1. Alive(Truth)' = Alive(Truth') /\ Alive(View)' = Alive(View)
    BY <1>5 DEF Alive
  <2> QED BY <1>3, <1>5, <2>1 DEF Base, ParentOK, Is
<1>7. HeardOnlyWhatHappened'
  BY <1>1 DEF Base, HeardOnlyWhatHappened, Says
<1> QED BY <1>1, <1>2, <1>3, <1>4, <1>6, <1>7 DEF Base

\* The beginning and the end of the parent's Attempt.
LEMMA AttemptMoves ==
  ASSUME Base, Claim \/ Release \/ GiveUp \/ Crash
  PROVE  Base' /\ (Claims \/ Stops)
<1>0. log' = log /\ Still /\ Len(log) \in 0..Len(log) /\ UNCHANGED <<child, note, late>>
  <2>1. log' = log /\ UNCHANGED <<child, note, late>>
    BY DEF Claim, Release, GiveUp, Crash
  <2>2. Still
    BY <2>1, StillStep
  <2>3. Len(log) \in 0..Len(log)
    BY DEF Base, ProperLog
  <2> QED BY <2>1, <2>2, <2>3
<1>1. /\ \A k \in Children : NoteOK(k)'
      /\ HeardOnlyWhatHappened' /\ ProperLog(log') /\ DOMAIN note' = Children
      /\ child' \in [Children -> {"none", "running", "settled"}] /\ late' \in BOOLEAN
  BY <1>0 DEF Base, NoteOK, HeardOnlyWhatHappened, Still
<1>2. /\ DOMAIN Asleep = {"phase", "head", "doing", "verdict"}
      /\ Asleep.phase = "off" /\ Asleep.head = 0 /\ Asleep.doing = {} /\ Asleep.verdict = "none"
  BY DEF Asleep
<1>3. CASE Claim
  <2>1. /\ DOMAIN parent' = DOMAIN Asleep /\ parent'.phase = "claimed" /\ parent'.head = Len(log)
        /\ parent'.doing = {} /\ parent'.verdict = "none"
    BY <1>2, <1>3 DEF Claim
  <2>2. Claims
    BY <1>0, <1>3, <2>1 DEF Claims, Claim, Reads
  <2>3. Alive(Truth') = Alive(View')
    BY <1>0, <2>1 DEF Still
  <2>4. ParentOK'
    BY <1>0, <1>3, <2>1, <2>3 DEF ParentOK, Claim, Is, Still, Alive, ParentPhases
  <2> QED BY <1>0, <1>1, <1>3, <2>2, <2>4 DEF Base, Claim
<1>4. CASE Release \/ GiveUp \/ Crash
  <2>1. parent' = Asleep
    BY <1>4 DEF Release, GiveUp, Crash
  <2>2. ParentOK'
    BY <1>0, <1>2, <2>1 DEF ParentOK, Is, ParentPhases
  <2>3. header' \in {"runnable", "running", "suspended", "settled"} /\ mishaps' \subseteq Faults
    BY <1>4 DEF Release, GiveUp, Crash, Happens, Base, ParentOK, Is
  <2>4. Stops
    BY <1>0, <1>2, <1>4, <2>1 DEF Stops, Release, GiveUp, Crash, Happens
  <2> QED BY <1>0, <1>1, <2>2, <2>3, <2>4 DEF Base
<1> QED BY <1>3, <1>4

\* The children: dispatched, and settled.
LEMMA ChildMoves ==
  ASSUME Base, NEW k \in Children, Dispatch(k) \/ ChildSettles(k)
  PROVE  Base' /\ (Dispatches \/ Settles(k))
<1>0. log' = log /\ Still /\ Len(log) \in 0..Len(log) /\ UNCHANGED <<header, mishaps, late>>
  <2>1. log' = log /\ UNCHANGED <<header, mishaps, late>>
    BY DEF Dispatch, ChildSettles
  <2>2. Still
    BY <2>1, StillStep
  <2>3. Len(log) \in 0..Len(log)
    BY DEF Base, ProperLog
  <2> QED BY <2>1, <2>2, <2>3
<1>1. CASE Dispatch(k)
  <2>1. /\ DOMAIN parent' = DOMAIN Asleep /\ parent'.phase = "spawning" /\ parent'.head = parent.head
        /\ parent'.doing = {k} /\ parent'.verdict = parent.verdict /\ note' = note
    BY <1>1 DEF Dispatch, Base, ParentOK, Asleep
  <2>2. /\ child' \in [Children -> {"none", "running", "settled"}]
        /\ \A j \in Children : child'[j] = "settled" <=> child[j] = "settled"
    BY <1>1 DEF Dispatch, Base
  <2>3. Dispatches
    BY <1>0, <1>1, <2>1, <2>2 DEF Dispatches, Dispatch, Keeps
  <2>4. ParentOK'
    BY <1>0, <1>1, <2>1 DEF Dispatch, Base, ParentOK, Is, Still, Alive, ParentPhases
  <2>5. \A j \in Children : NoteOK(j)'
    BY <1>0, <2>1, <2>2 DEF Base, NoteOK
  <2>6. HeardOnlyWhatHappened'
    BY <1>0, <2>2 DEF Base, HeardOnlyWhatHappened, Still
  <2> QED BY <1>0, <2>1, <2>2, <2>3, <2>4, <2>5, <2>6 DEF Base
<1>2. CASE ChildSettles(k)
  <2>1. /\ Only(k) /\ Same(k) /\ DOMAIN note' = Children
        /\ note'[k].phase = "looking" /\ DOMAIN note'[k] = DOMAIN Silent /\ parent' = parent
    BY <1>2 DEF ChildSettles, Base, Only, Same, NoteGoesTo, NoteOK, Silent
  <2>2. /\ child' \in [Children -> {"none", "running", "settled"}]
        /\ child'[k] = "settled" /\ child[k] = "running" /\ \A j \in Children \ {k} : child'[j] = child[j]
    BY <1>2 DEF ChildSettles, Base
  <2>3. Settles(k)
    BY <1>0, <2>1, <2>2 DEF Settles
  <2>4. ParentOK'
    BY <1>0, <2>1 DEF Base, ParentOK, Is, Still, Alive
  <2>5. NoteOK(k)'
    BY <1>0, <2>1, <2>2, ChildRunsAssumption DEF Base, NoteOK, Same, NotePhases
  <2>6. ASSUME NEW j \in Children \ {k} PROVE NoteOK(j)'
    BY <1>0, <2>1, <2>2 DEF Base, NoteOK, Only
  <2>7. HeardOnlyWhatHappened'
    BY <1>0, <2>2 DEF Base, HeardOnlyWhatHappened, Still
  <2> QED BY <1>0, <2>1, <2>2, <2>3, <2>4, <2>5, <2>6, <2>7 DEF Base
<1> QED BY <1>1, <1>2

\* The notifiers.
LEMMA NoteMoves ==
  ASSUME Base, NEW k \in Children, NoteStep(k) \/ NotifierStops(k)
  PROVE  Base' /\ (NoteGoes(k) \/ Silences(k) \/ Sets(k) \/ \E rec : NoteSpeaks(k, rec))
<1>0. /\ NoteOK(k) /\ DOMAIN note[k] = DOMAIN Silent /\ Len(log) \in 0..Len(log)
      /\ mishaps \subseteq Faults /\ late \in BOOLEAN /\ header \in {"runnable", "running", "suspended", "settled"}
      /\ ViewOK(Truth) /\ Tries \in Nat \ {0}
  <2>1. ViewOK(Truth)
    BY ProperFold DEF Base, Truth
  <2>2. Len(log) \in 0..Len(log)
    BY DEF Base, ProperLog
  <2> QED BY <2>1, <2>2, ChildRunsAssumption DEF Base, NoteOK
<1>1. CASE Look(k)
  <2> DEFINE go == Truth.children[k] # "alive" \/ Truth.settled
             x == IF go THEN [note[k] EXCEPT !.phase = "over"]
                  ELSE [note[k] EXCEPT !.phase = "appending", !.head = Len(log)]
  <2>1. /\ DOMAIN x = DOMAIN Silent /\ x.tries = note[k].tries
        /\ x.phase = IF go THEN "over" ELSE "appending"
        /\ x.head = IF go THEN note[k].head ELSE Len(log)
    BY <1>0 DEF Silent
  <2>2. note' = [note EXCEPT ![k] = x] /\ log' = log /\ UNCHANGED <<header, parent, child, mishaps, late>> /\ NoteIs(k, "looking")
    BY <1>1 DEF Look
  <2>3. go <=> ~Awaited(k)
    BY DEF Awaited, Alive
  <2> HIDE DEF go, x
  <2>4. Base' /\ Still /\ Only(k) /\ note'[k] = x
    BY <1>0, <2>1, <2>2, NoteBase DEF NoteOK, NoteIs, NotePhases
  <2>5. NoteGoes(k)
    BY <2>1, <2>2, <2>3, <2>4 DEF NoteGoes
  <2> QED BY <2>4, <2>5
<1>2. CASE Notify(k)
  <2>0. NoteIs(k, "appending") /\ UNCHANGED <<header, parent, child, mishaps, late>> /\ child[k] = "settled"
    BY <1>0, <1>2 DEF Notify, NoteIs, NoteOK
  <2>1. CASE /\ AllExternal(Missed(k)) /\ Accepts(Reduced(log), Finished(k))
             /\ log' = Append(log, Finished(k)) /\ NoteGoesTo(k, "waking")
    <3> DEFINE rec == Finished(k)
    <3>1. rec.type = "subagent_finished" /\ rec.child = k /\ WellFormed(rec)
      BY DEF WellFormed, Finished
    <3>2. Accepts(Reduced(log), rec) /\ log' = Append(log, rec) /\ NoteGoesTo(k, "waking")
      BY <2>1
    <3> HIDE DEF rec
    <3>3. Base' /\ Says(rec) /\ Only(k) /\ Same(k) /\ note'[k].phase = "waking"
      BY <1>0, <2>0, <3>1, <3>2, NoteSaysBase DEF NoteIs
    <3>4. NoteSpeaks(k, rec)
      BY <2>0, <3>1, <3>3 DEF NoteSpeaks
    <3> QED BY <3>3, <3>4
  <2>2. CASE /\ AllExternal(Missed(k)) /\ ~Accepts(Reduced(log), Finished(k))
             /\ NoteGoesTo(k, "over") /\ UNCHANGED log
    <3> DEFINE x == [note[k] EXCEPT !.phase = "over"]
    <3>1. DOMAIN x = DOMAIN Silent /\ x.tries = note[k].tries /\ x.phase = "over" /\ x.head = note[k].head
      BY <1>0 DEF Silent
    <3>2. note' = [note EXCEPT ![k] = x] /\ log' = log
      BY <2>2 DEF NoteGoesTo
    <3> HIDE DEF x
    <3>3. Base' /\ Still /\ Only(k) /\ note'[k] = x
      BY <1>0, <2>0, <3>1, <3>2, NoteBase DEF NoteOK, NoteIs, NotePhases
    <3>4. ~Awaited(k)
      <4>1. Finished(k).type = "subagent_finished" /\ Finished(k).child = k
        BY DEF Finished
      <4> QED BY <2>2, <4>1 DEF Awaited, Alive, Accepts, RecordAccepted, Truth
    <3>5. NoteGoes(k)
      BY <2>0, <2>2, <3>1, <3>3, <3>4 DEF NoteGoes, Fresh
    <3> QED BY <3>3, <3>5
  <2>3. CASE /\ ~AllExternal(Missed(k)) /\ UNCHANGED log
             /\ note' = [note EXCEPT ![k] =
                  [note[k] EXCEPT !.phase = IF note[k].tries + 1 < Tries THEN "looking" ELSE "over",
                                  !.tries = note[k].tries + 1]]
    <3> DEFINE p == IF note[k].tries + 1 < Tries THEN "looking" ELSE "over"
               x == [note[k] EXCEPT !.phase = p, !.tries = note[k].tries + 1]
    <3>1. DOMAIN x = DOMAIN Silent /\ x.tries = note[k].tries + 1 /\ x.phase = p /\ x.head = note[k].head
      BY <1>0 DEF Silent
    <3>2. note' = [note EXCEPT ![k] = x] /\ log' = log
      BY <2>3
    <3>3. x.tries \in 0..Tries /\ (p = "looking" => x.tries < Tries) /\ p \in {"looking", "over"}
      BY <1>0, <2>0, <3>1 DEF NoteOK, NoteIs
    <3> HIDE DEF x
    <3>4. Base' /\ Still /\ Only(k) /\ note'[k] = x
      BY <1>0, <2>0, <3>1, <3>2, <3>3, NoteBase DEF NoteIs, NotePhases
    <3>5. NoteGoes(k)
      BY <2>0, <2>3, <3>1, <3>4 DEF NoteGoes, Fresh
    <3> QED BY <3>4, <3>5
  <2> QED BY <1>2, <2>1, <2>2, <2>3 DEF Notify
<1>3. CASE ReadHeader(k)
  <2> DEFINE p == CASE header = "settled" -> "over"
                    [] header = "suspended" -> "opening"
                    [] OTHER -> "checking"
             x == [note[k] EXCEPT !.phase = p]
  <2>1. DOMAIN x = DOMAIN Silent /\ x.tries = note[k].tries /\ x.phase = p /\ x.head = note[k].head
    BY <1>0 DEF Silent
  <2>2. note' = [note EXCEPT ![k] = x] /\ log' = log /\ UNCHANGED <<header, parent, child, mishaps, late>> /\ NoteIs(k, "waking")
    BY <1>3 DEF ReadHeader, NoteGoesTo
  <2>3. p \in {"over", "opening", "checking"} /\ (p = "over" => header = "settled")
    OBVIOUS
  <2> HIDE DEF p, x
  <2>4. Base' /\ Still /\ Only(k) /\ note'[k] = x
    BY <1>0, <2>1, <2>2, <2>3, NoteBase DEF NoteOK, NoteIs, NotePhases
  <2>5. NoteGoes(k)
    BY <2>1, <2>2, <2>3, <2>4 DEF NoteGoes, Same
  <2> QED BY <2>4, <2>5
<1>4. CASE CheckAsleep(k)
  <2> DEFINE p == IF Truth.suspended THEN "waking" ELSE "over"
             x == [note[k] EXCEPT !.phase = p]
  <2>1. DOMAIN x = DOMAIN Silent /\ x.tries = note[k].tries /\ x.phase = p /\ x.head = note[k].head
    BY <1>0 DEF Silent
  <2>2. note' = [note EXCEPT ![k] = x] /\ log' = log /\ UNCHANGED <<header, parent, child, mishaps, late>> /\ NoteIs(k, "checking")
    BY <1>4 DEF CheckAsleep, NoteGoesTo
  <2>3. p \in {"over", "waking"} /\ (p = "over" => ~Truth.suspended)
    OBVIOUS
  <2> HIDE DEF p, x
  <2>4. Base' /\ Still /\ Only(k) /\ note'[k] = x
    BY <1>0, <2>1, <2>2, <2>3, NoteBase DEF NoteOK, NoteIs, NotePhases
  <2>5. NoteGoes(k)
    BY <2>1, <2>2, <2>3, <2>4 DEF NoteGoes, Same
  <2> QED BY <2>4, <2>5
<1>5. CASE OpenParent(k)
  <2> DEFINE x == IF Truth.suspended THEN [note[k] EXCEPT !.phase = "resuming", !.head = Len(log)]
                  ELSE [note[k] EXCEPT !.phase = "over"]
  <2>1. /\ DOMAIN x = DOMAIN Silent /\ x.tries = note[k].tries
        /\ x.phase = IF Truth.suspended THEN "resuming" ELSE "over"
        /\ x.head = IF Truth.suspended THEN Len(log) ELSE note[k].head
    BY <1>0 DEF Silent
  <2>2. note' = [note EXCEPT ![k] = x] /\ log' = log /\ UNCHANGED <<header, parent, child, mishaps, late>> /\ NoteIs(k, "opening")
    BY <1>5 DEF OpenParent
  <2> HIDE DEF x
  <2>3. Base' /\ Still /\ Only(k) /\ note'[k] = x
    BY <1>0, <2>1, <2>2, NoteBase DEF NoteOK, NoteIs, NotePhases
  <2>4. NoteGoes(k)
    BY <2>1, <2>2, <2>3 DEF NoteGoes, Same
  <2> QED BY <2>3, <2>4
<1>6. CASE ResumeParent(k)
  <2>0. NoteIs(k, "resuming") /\ UNCHANGED <<header, parent, child, mishaps>>
    BY <1>6 DEF ResumeParent
  <2>1. CASE /\ Accepts(Reduced(log), Resumed) /\ log' = Append(log, Resumed)
             /\ NoteGoesTo(k, "setting") /\ late' = (late \/ header # "suspended")
    <3> DEFINE rec == Resumed
    <3>1. rec.type = "resumed" /\ WellFormed(rec)
      BY DEF WellFormed, Resumed
    <3>2. Accepts(Reduced(log), rec) /\ log' = Append(log, rec) /\ NoteGoesTo(k, "setting") /\ late' \in BOOLEAN
      BY <1>0, <2>1
    <3> HIDE DEF rec
    <3>3. /\ Base' /\ Says(rec) /\ Only(k) /\ Same(k) /\ note'[k].phase = "setting"
          /\ RecordAccepted(Truth, Reduced(log).seen, rec)
      BY <1>0, <2>0, <3>1, <3>2, NoteSaysBase DEF NoteIs
    <3>4. Truth.suspended
      BY <3>1, <3>3 DEF RecordAccepted
    <3>5. NoteSpeaks(k, rec)
      BY <2>0, <2>1, <3>1, <3>3, <3>4 DEF NoteSpeaks
    <3> QED BY <3>3, <3>5
  <2>2. CASE /\ ~AllExternal(Missed(k)) \/ ~Accepts(Reduced(log), Resumed)
             /\ NoteGoesTo(k, "over") /\ UNCHANGED <<log, late>>
    <3> DEFINE x == [note[k] EXCEPT !.phase = "over"]
    <3>1. DOMAIN x = DOMAIN Silent /\ x.tries = note[k].tries /\ x.phase = "over" /\ x.head = note[k].head
      BY <1>0 DEF Silent
    <3>2. note' = [note EXCEPT ![k] = x] /\ log' = log
      BY <2>2 DEF NoteGoesTo
    <3> HIDE DEF x
    <3>3. Base' /\ Still /\ Only(k) /\ note'[k] = x
      BY <1>0, <2>0, <2>2, <3>1, <3>2, NoteBase DEF NoteOK, NoteIs, NotePhases
    <3>4. Fresh(k) => ~Truth.suspended \/ Truth.settled
      <4>1. Resumed.type = "resumed"
        BY DEF Resumed
      <4> QED BY <2>2, <4>1 DEF Fresh, Accepts, RecordAccepted, Truth
    <3>5. NoteGoes(k)
      BY <2>0, <2>2, <3>1, <3>3, <3>4 DEF NoteGoes
    <3> QED BY <3>3, <3>5
  <2> QED BY <1>6, <2>1, <2>2 DEF ResumeParent
<1>7. CASE MakeRunnable(k)
  <2> DEFINE x == [note[k] EXCEPT !.phase = "over"]
  <2>1. DOMAIN x = DOMAIN Silent /\ x.tries = note[k].tries /\ x.phase = "over" /\ x.head = note[k].head
    BY <1>0 DEF Silent
  <2>2. note' = [note EXCEPT ![k] = x] /\ log' = log /\ UNCHANGED <<parent, child, mishaps, late>> /\ NoteIs(k, "setting")
    BY <1>7 DEF MakeRunnable, NoteGoesTo
  <2>3. /\ header' = IF header = "suspended" THEN "runnable" ELSE header
        /\ header' \in {header, "runnable"} /\ (~Is("off") => header' = header)
    BY <1>7 DEF MakeRunnable, Base, ParentOK
  <2> HIDE DEF x
  <2>4. Base' /\ Still /\ Only(k) /\ note'[k] = x
    BY <1>0, <2>1, <2>2, <2>3, NoteBase DEF NoteOK, NoteIs, NotePhases
  <2>5. Sets(k)
    BY <2>1, <2>2, <2>3, <2>4 DEF Sets, Same
  <2> QED BY <2>4, <2>5
<1>8. CASE NotifierStops(k)
  <2> DEFINE x == [note[k] EXCEPT !.phase = "over"]
  <2>1. DOMAIN x = DOMAIN Silent /\ x.tries = note[k].tries /\ x.phase = "over" /\ x.head = note[k].head
    BY <1>0 DEF Silent
  <2>2. note' = [note EXCEPT ![k] = x] /\ log' = log /\ UNCHANGED <<header, parent, child, late>>
    BY <1>8 DEF NotifierStops, NoteGoesTo
  <2>3. /\ mishaps' \subseteq Faults /\ note[k].phase # "idle"
        /\ \/ mishaps' = mishaps \cup {"lost_notice"} /\ note[k].phase \in {"looking", "appending"}
           \/ mishaps' = mishaps \cup {"lost_wake"}
           \/ mishaps' = mishaps \cup {"timeout"}
    BY <1>0, <1>8 DEF NotifierStops, Happens, NoteIs
  <2> HIDE DEF x
  <2>4. Base' /\ Still /\ Only(k) /\ note'[k] = x
    BY <1>0, <2>1, <2>2, <2>3, NoteBase DEF NoteOK, NotePhases
  <2>5. Silences(k)
    BY <2>1, <2>2, <2>3, <2>4 DEF Silences
  <2> QED BY <2>4, <2>5
<1> QED BY <1>1, <1>2, <1>3, <1>4, <1>5, <1>6, <1>7, <1>8 DEF NoteStep

\* Every step keeps Base and is of one of the kinds.
LEMMA EveryMove ==
  ASSUME Base, [Next]_vars
  PROVE  Base' /\ (Kinds \/ UNCHANGED vars)
<1>1. CASE UNCHANGED vars
  <2>1. Base'
    BY <1>1 DEF vars, Base, ParentOK, Is, Alive, Truth, View, NoteOK, HeardOnlyWhatHappened
  <2> QED BY <1>1, <2>1
<1>2. CASE Begin \/ BeginTurn \/ RecordSpawn \/ FinishTurn \/ Suspend \/ LookAgain
           \/ WakeItself \/ Leave \/ Unwind \/ \E k \in Children : Reconcile(k)
  BY <1>2, ParentMoves DEF Kinds
<1>3. CASE Claim \/ Release \/ GiveUp \/ Crash
  BY <1>3, AttemptMoves DEF Kinds
<1>4. CASE \E k \in Children : Dispatch(k) \/ ChildSettles(k)
  BY <1>4, ChildMoves DEF Kinds
<1>5. CASE \E k \in Children : NoteStep(k) \/ NotifierStops(k)
  BY <1>5, NoteMoves DEF Kinds
<1> QED BY <1>1, <1>2, <1>3, <1>4, <1>5 DEF Next, ParentStep

\* What the log says when the Run is admitted.
LEMMA InitTruth ==
  ASSUME Init
  PROVE  /\ ProperLog(log) /\ Len(log) = 1
         /\ Truth.suspended = FALSE /\ Truth.settled = FALSE
         /\ Alive(Truth) = {} /\ \A k \in Children : Truth.children[k] # "finished"
<1> DEFINE rec == [type |-> "run_admitted"]
<1>0. rec.type = "run_admitted"
  OBVIOUS
<1>1. WellFormed(rec)
  BY DEF WellFormed
<1>2. ProperLog(<<>>) /\ Reduced(<<>>) = EmptyFold /\ EmptyFold.view = EmptyView
  BY EmptyLog
<1>3. /\ EmptyView.settled = FALSE /\ EmptyView.suspended = FALSE /\ EmptyView.admitted = FALSE
      /\ EmptyView.children = [k \in Children |-> "unknown"]
  BY DEF EmptyView
<1> HIDE DEF rec
<1>4. Accepts(Reduced(<<>>), rec)
  BY <1>0, <1>2, <1>3 DEF Accepts, RecordAccepted
<1> DEFINE t == Append(<<>>, rec)
<1>5. ProperLog(t) /\ Len(t) = 1 /\ Effect(EmptyView, rec, Reduced(t).view)
  <2>1. /\ ProperLog(t) /\ Len(t) = Len(<<>>) + 1
        /\ Effect(Reduced(<<>>).view, rec, Reduced(t).view)
    BY <1>1, <1>2, <1>4, ProperAppend
  <2> HIDE DEF t
  <2> QED BY <1>2, <2>1
<1>6. log = t
  BY DEF Init, rec
<1> HIDE DEF t
<1>7. /\ Reduced(t).view.suspended = FALSE /\ Reduced(t).view.settled = FALSE
      /\ Reduced(t).view.children = [k \in Children |-> "unknown"]
  BY <1>0, <1>3, <1>5 DEF Effect, SuspendedAfter, ChildrenAfter
<1> QED BY <1>5, <1>6, <1>7 DEF Truth, Alive

\* Base holds when the Run is admitted.
LEMMA InitBase == Init => Base
<1> SUFFICES ASSUME Init PROVE Base
  OBVIOUS
<1>1. /\ ProperLog(log) /\ Len(log) = 1 /\ \A k \in Children : Truth.children[k] # "finished"
  BY InitTruth
<1>2. /\ DOMAIN parent = DOMAIN Asleep /\ parent.phase = "off" /\ parent.head = 0
      /\ parent.doing = {} /\ parent.verdict = "none"
  BY DEF Init, Asleep
<1>3. ParentOK
  BY <1>1, <1>2 DEF ParentOK, Is, ParentPhases
<1>4. \A k \in Children : NoteOK(k)
  BY <1>1, ChildRunsAssumption DEF Init, NoteOK, Silent, NotePhases
<1>5. HeardOnlyWhatHappened
  BY <1>1 DEF HeardOnlyWhatHappened
<1> QED BY <1>1, <1>3, <1>4, <1>5 DEF Base, Init

\* Base holds in every state, whichever faults happen: the parent's log is
\* accepted by reduce and everyone's place in it exists.
THEOREM BaseHolds == Spec => []Base
<1>1. Base /\ [Next]_vars => Base'
  BY EveryMove
<1> QED BY InitBase, <1>1, PTL DEF Spec

\* A parent hears that a child finished only of a child that did, for any number
\* of children, faults and attempts at the append.
THEOREM NewsStaysTrue == Spec => []NewsIsTrue
<1>1. Base => NewsIsTrue
  BY DEF Base, ProperLog, ParentOK, NoteOK, NewsIsTrue, TypeOK
<1> QED BY <1>1, BaseHolds, PTL

-----------------------------------------------------------------------------
(* What the parent knows of its own sleep, and of the children it leaves *)

\* While no notifier resumes a parent that is awake, the parent knows whether its
\* log is suspended, leaves its loop only suspended or with no child to wait for,
\* and completes only with all its children heard.
Straight ==
  ~late =>
    /\ ~Is("off") => View.suspended = Truth.suspended
    /\ Is("refreshing") \/ Is("selfwaking") => Truth.suspended
    /\ Is("turning") \/ Is("spawning") \/ Is("reconciling") => ~Truth.suspended
    /\ Is("leaving") => View.suspended \/ Alive(View) = {}
    /\ Truth.settled => Alive(Truth) = {} /\ ~Truth.suspended

\* Every kind of step keeps Straight.
LEMMA StraightKept ==
  ASSUME Base, Base', Straight, Kinds
  PROVE  Straight'
<1> SUFFICES ASSUME ~late' PROVE Straight'
  BY DEF Straight
<1>0. late \in BOOLEAN /\ Truth.suspended \in BOOLEAN /\ Truth.settled \in BOOLEAN
      /\ (~Is("off") => header = "running" /\ Alive(Truth) \subseteq Alive(View))
  BY ProperFold DEF Base, ParentOK, Truth, ViewOK
<1>1. CASE Claims
  BY <1>1 DEF Claims, Still, Reads, Straight, Is
<1>2. CASE Stops
  BY <1>2 DEF Stops, Still, Straight, Is
<1>3. CASE Dispatches
  BY <1>3 DEF Dispatches, Still, Keeps, Straight, Is
<1>4. CASE Goes
  BY <1>4 DEF Goes, Still, Keeps, Reads, Straight, Is
<1>5. ASSUME NEW rec, Speaks(rec) PROVE Straight'
  BY <1>0, <1>5 DEF Speaks, Says, SuspendedAfter, AliveAfter, Straight, Is
<1>6. ASSUME NEW k \in Children, Settles(k) \/ NoteGoes(k) \/ Silences(k) \/ Sets(k) PROVE Straight'
  <2>1. Still /\ UNCHANGED <<parent, late>>
    BY <1>6 DEF Settles, NoteGoes, Silences, Sets
  <2> QED BY <2>1 DEF Still, Straight, Is
<1>7. ASSUME NEW k \in Children, NEW rec, NoteSpeaks(k, rec) PROVE Straight'
  <2>1. /\ Says(rec) /\ parent' = parent /\ rec.type \in {"subagent_finished", "resumed"}
        /\ rec.type = "resumed" => header = "suspended"
        /\ ~late
    BY <1>0, <1>7 DEF NoteSpeaks
  <2> QED BY <1>0, <2>1 DEF Says, SuspendedAfter, AliveAfter, Straight, Is
<1> QED BY <1>1, <1>2, <1>3, <1>4, <1>5, <1>6, <1>7 DEF Kinds

\* So does every step.
LEMMA StraightStep ==
  ASSUME Base, Straight, [Next]_vars
  PROVE  Base' /\ Straight'
<1>1. Base' /\ (Kinds \/ UNCHANGED vars)
  BY EveryMove
<1>2. CASE Kinds
  BY <1>1, <1>2, StraightKept
<1>3. CASE UNCHANGED vars
  BY <1>1, <1>3 DEF vars, Straight, Is, Truth, View, Alive
<1> QED BY <1>1, <1>2, <1>3

\* Straight holds in every state.
LEMMA StraightHolds == Spec => [](Base /\ Straight)
<1>1. Init => Straight
  <2> SUFFICES ASSUME Init PROVE Straight
    OBVIOUS
  <2>1. Is("off") /\ Truth.settled = FALSE
    BY InitTruth DEF Init, Asleep, Is
  <2> QED BY <2>1 DEF Straight, Is
<1>2. (Base /\ Straight) /\ [Next]_vars => (Base /\ Straight)'
  BY StraightStep
<1> QED BY InitBase, <1>1, <1>2, PTL DEF Spec

-----------------------------------------------------------------------------
(* Who wakes the parent *)

\* A notifier that will resume the parent if it is asleep.
Good(k) == NoteIs(k, "waking") \/ NoteIs(k, "checking") \/ NoteIs(k, "opening")
             \/ (NoteIs(k, "resuming") /\ Fresh(k))

\* The header says running while somebody executes, and else not: nobody crashed.
Held == Is("off") => header # "running"

\* A parent that may be claimed, or begins, is not suspended in its log.
AwakeIsResumed == header = "runnable" \/ Is("claimed") \/ Is("looping") => ~Truth.suspended

\* What the parent is about to release with is still what its log says.
VerdictIsTrue ==
  Is("releasing") => /\ parent.verdict = "suspended" => Truth.suspended
                     /\ parent.verdict = "runnable" => ~Truth.suspended

\* Between the resume and set_runnable_at the header sleeps and the log does not,
\* and no second notifier is there.
OneSetter ==
  \A k \in Children : NoteIs(k, "setting") =>
    /\ header = "suspended" /\ ~Truth.suspended
    /\ \A j \in Children : NoteIs(j, "setting") => j = k

\* A header that sleeps over a log that was resumed is about to be set.
ResumedIsSet == header = "suspended" /\ ~Truth.suspended => \E k \in Children : NoteIs(k, "setting")

\* The parent sleeps or does nothing more but release.
GoingToSleep == header = "suspended" \/ Is("leaving") \/ Is("unwinding") \/ Is("releasing")

\* The last child's notifier is on its way to a parent that sleeps, or will.  Not
\* before the second look: a notifier that finished in between may be gone, and
\* the parent then sees it.
LastHasWaker ==
  Truth.suspended /\ GoingToSleep /\ Alive(Truth) = {} => \E k \in Children : Good(k)

\* Nothing has happened that keeps a notifier from waking the parent.
Calm == ~late /\ mishaps \subseteq {"lost_notice"}

\* The invariant of the waking, in its parts.
Watched == Held /\ AwakeIsResumed /\ VerdictIsTrue /\ OneSetter /\ ResumedIsSet /\ LastHasWaker

\* SleeperHasWaker is not inductive: that a waker is there while the parent
\* sleeps takes one while it falls asleep, and that it can wake takes a header
\* and a log that agree.
Wake == Calm => Watched

\* Every kind of step keeps Wake.
LEMMA WakeKept ==
  ASSUME Base, Base', Straight, Straight', Wake, Kinds
  PROVE  Wake'
<1> SUFFICES ASSUME Calm' PROVE Watched'
  BY DEF Wake
<1>0. /\ late \in BOOLEAN /\ Truth.suspended \in BOOLEAN /\ Truth.settled \in BOOLEAN
      /\ (~Is("off") => header = "running")
      /\ header \in {"runnable", "running", "suspended", "settled"}
      /\ parent.verdict \in {"none", "settled", "suspended", "runnable"}
  BY ProperFold DEF Base, ParentOK, Truth, ViewOK
<1>1. CASE Claims
  <2>1. Calm /\ UNCHANGED <<child, note, mishaps, late>> /\ Truth' = Truth
    BY <1>1 DEF Claims, Calm, Still
  <2> QED BY <1>1, <2>1 DEF Claims, Wake, Watched, Held, AwakeIsResumed, VerdictIsTrue, OneSetter, ResumedIsSet,
                            LastHasWaker, GoingToSleep, Is, NoteIs
<1>2. CASE Stops
  <2>1. /\ Calm /\ UNCHANGED <<child, note, mishaps, late>> /\ Truth' = Truth
        /\ \A k \in Children : Good(k)' <=> Good(k)
    BY <1>2 DEF Stops, Calm, Still, Good, NoteIs
  <2>2. \/ Is("releasing") /\ header' = parent.verdict
        \/ Is("corrupt") /\ header' = "settled"
    BY <1>2, <2>1 DEF Stops, Calm
  <2> QED BY <1>0, <1>2, <2>1, <2>2 DEF Stops, Wake, Watched, Held, AwakeIsResumed, VerdictIsTrue, OneSetter, ResumedIsSet,
                            LastHasWaker, GoingToSleep, Is, NoteIs
<1>3. CASE Dispatches
  <2>1. Calm /\ UNCHANGED <<note, mishaps, late>> /\ Truth' = Truth /\ ~Truth.suspended
    BY <1>3 DEF Dispatches, Calm, Still, Straight
  <2> QED BY <1>0, <1>3, <2>1 DEF Dispatches, Wake, Watched, Held, AwakeIsResumed, VerdictIsTrue, OneSetter, ResumedIsSet,
                            LastHasWaker, GoingToSleep, Is, NoteIs
<1>4. CASE Goes
  <2>1. /\ Calm /\ UNCHANGED <<header, note, mishaps, late>> /\ Truth' = Truth
        /\ \A k \in Children : Good(k)' <=> Good(k)
    BY <1>4 DEF Goes, Calm, Still, Good, NoteIs
  <2>2. header = "running" /\ ~Is("off") /\ ~Is("off")'
    BY <1>0, <1>4 DEF Goes, Is
  <2>3. (Held /\ OneSetter /\ ResumedIsSet)'
    BY <2>1, <2>2 DEF Wake, Watched, Held, OneSetter, ResumedIsSet, NoteIs
  <2>4. AwakeIsResumed' /\ VerdictIsTrue'
    BY <1>0, <1>4, <2>1, <2>2 DEF Goes, Wake, Watched, AwakeIsResumed, VerdictIsTrue, Is, Straight, Calm
  <2>5. ASSUME Truth.suspended, Alive(Truth) = {} PROVE GoingToSleep' => GoingToSleep
    BY <1>0, <1>4, <2>1, <2>2, <2>5 DEF Goes, Wake, Watched, AwakeIsResumed, GoingToSleep, Is, Straight, Calm
  <2>6. LastHasWaker'
    BY <1>0, <2>1, <2>5 DEF Wake, Watched, LastHasWaker
  <2> QED BY <2>3, <2>4, <2>6 DEF Watched
<1>5. ASSUME NEW rec, Speaks(rec) PROVE Watched'
  <2>1. /\ Calm /\ UNCHANGED <<header, note, mishaps, late>> /\ header = "running"
        /\ Truth'.suspended = SuspendedAfter(Truth, rec)
    BY <1>0, <1>5 DEF Speaks, Calm, Says
  <2>2. ~Truth.suspended \/ rec.type = "resumed"
    BY <1>5, <2>1 DEF Speaks, Wake, Watched, AwakeIsResumed, Straight, Calm, Is
  <2>3. IF rec.type = "suspended" THEN Is("reconciling") /\ parent'.phase = "refreshing" ELSE ~Truth'.suspended
    BY <1>5, <2>1, <2>2 DEF Speaks, SuspendedAfter
  <2> QED BY <1>0, <1>5, <2>1, <2>3 DEF Speaks, Wake, Watched, Held, AwakeIsResumed, VerdictIsTrue, OneSetter, ResumedIsSet,
                            LastHasWaker, GoingToSleep, Is, NoteIs
<1>6. ASSUME NEW k \in Children, Settles(k)
      PROVE Watched'
  <2>1. /\ Calm /\ UNCHANGED <<header, parent, mishaps, late>> /\ Truth' = Truth
        /\ NoteIs(k, "idle") /\ note'[k].phase = "looking"
    BY <1>6 DEF Settles, Calm, Still, Base, NoteOK, NoteIs
  <2>2. \A j \in Children : (Good(j)' <=> Good(j)) /\ (NoteIs(j, "setting")' <=> NoteIs(j, "setting"))
    BY <1>6, <2>1 DEF Settles, Only, Good, NoteIs, Still
  <2> QED BY <2>1, <2>2 DEF Wake, Watched, Held, AwakeIsResumed, VerdictIsTrue, OneSetter, ResumedIsSet,
                            LastHasWaker, GoingToSleep, Is
<1>7. ASSUME NEW k \in Children, NoteGoes(k)
      PROVE Watched'
  <2>1. /\ Calm /\ UNCHANGED <<header, parent, mishaps, late>> /\ Truth' = Truth
    BY <1>7 DEF NoteGoes, Calm, Still
  <2>2. \A j \in Children : NoteIs(j, "setting")' <=> NoteIs(j, "setting")
    BY <1>7 DEF NoteGoes, Only, NoteIs
  <2>3. \A j \in Children \ {k} : Good(j)' <=> Good(j)
    BY <1>7 DEF NoteGoes, Only, Good, NoteIs, Still
  <2>4. Truth.suspended => ~Truth.settled
    BY <2>1 DEF Straight, Calm
  <2>5. Good(k) => Good(k)' \/ ~Truth.suspended \/ header = "settled"
    BY <1>7, <2>4 DEF NoteGoes, Good, NoteIs, Still
  <2>6. LastHasWaker'
    BY <1>0, <2>1, <2>3, <2>5 DEF Wake, Watched, LastHasWaker, GoingToSleep, Is
  <2> QED BY <2>1, <2>2, <2>6 DEF Wake, Watched, Held, AwakeIsResumed, VerdictIsTrue, OneSetter, ResumedIsSet, Is
<1>8. ASSUME NEW k \in Children, Silences(k)
      PROVE Watched'
  <2>1. /\ Calm /\ UNCHANGED <<header, parent, late>> /\ Truth' = Truth
        /\ note[k].phase \in {"looking", "appending"}
    BY <1>8 DEF Silences, Calm, Still
  <2>2. \A j \in Children : (Good(j)' <=> Good(j)) /\ (NoteIs(j, "setting")' <=> NoteIs(j, "setting"))
    BY <1>8, <2>1 DEF Silences, Only, Good, NoteIs, Still
  <2> QED BY <2>1, <2>2 DEF Wake, Watched, Held, AwakeIsResumed, VerdictIsTrue, OneSetter, ResumedIsSet,
                            LastHasWaker, GoingToSleep, Is
<1>9. ASSUME NEW k \in Children, Sets(k)
      PROVE Watched'
  <2>1. /\ Calm /\ UNCHANGED <<parent, mishaps, late>> /\ Truth' = Truth
    BY <1>9 DEF Sets, Calm, Still
  <2>2. header = "suspended" /\ header' = "runnable" /\ ~Truth.suspended /\ Is("off")
    BY <1>0, <1>9, <2>1 DEF Sets, Wake, Watched, OneSetter
  <2>3. \A j \in Children : ~NoteIs(j, "setting")'
    BY <1>9, <2>1 DEF Sets, Wake, Watched, OneSetter, Only, NoteIs
  <2> QED BY <2>1, <2>2, <2>3 DEF Watched, Held, AwakeIsResumed, VerdictIsTrue, OneSetter, ResumedIsSet,
                            LastHasWaker, GoingToSleep, Is
<1>10. ASSUME NEW k \in Children, NEW rec, NoteSpeaks(k, rec)
       PROVE Watched'
  <2>1. /\ UNCHANGED <<header, parent, mishaps>> /\ ~late /\ Calm
        /\ Truth'.suspended = SuspendedAfter(Truth, rec)
    BY <1>0, <1>10 DEF NoteSpeaks, Calm, Says
  <2>2. CASE rec.type = "subagent_finished"
    <3>1. Truth'.suspended = Truth.suspended /\ note'[k].phase = "waking" /\ NoteIs(k, "appending")
      BY <1>10, <2>1, <2>2 DEF NoteSpeaks, SuspendedAfter
    <3>2. \A j \in Children : NoteIs(j, "setting")' <=> NoteIs(j, "setting")
      BY <1>10, <3>1 DEF NoteSpeaks, Only, NoteIs
    <3>3. Good(k)'
      BY <3>1 DEF Good, NoteIs
    <3> QED BY <2>1, <3>1, <3>2, <3>3 DEF Wake, Watched, Held, AwakeIsResumed, VerdictIsTrue, OneSetter, ResumedIsSet,
                            LastHasWaker, Is
  <2>3. CASE rec.type # "subagent_finished"
    <3>1. /\ header = "suspended" /\ Truth.suspended /\ ~Truth'.suspended /\ Is("off")
          /\ note'[k].phase = "setting"
      BY <1>0, <1>10, <2>1, <2>3 DEF NoteSpeaks, SuspendedAfter, Calm
    <3>2. \A j \in Children \ {k} : ~NoteIs(j, "setting")'
      BY <1>10, <2>1, <3>1 DEF NoteSpeaks, Only, NoteIs, Wake, Watched, OneSetter
    <3>3. NoteIs(k, "setting")'
      BY <3>1 DEF NoteIs
    <3> QED BY <2>1, <3>1, <3>2, <3>3 DEF Watched, Held, AwakeIsResumed, VerdictIsTrue, OneSetter, ResumedIsSet,
                            LastHasWaker, Is
  <2> QED BY <2>2, <2>3
<1> QED BY <1>1, <1>2, <1>3, <1>4, <1>5, <1>6, <1>7, <1>8, <1>9, <1>10 DEF Kinds

\* So does every step.
LEMMA WakeStep ==
  ASSUME Base, Straight, Wake, [Next]_vars
  PROVE  Base' /\ Straight' /\ Wake'
<1>1. Base' /\ Straight' /\ (Kinds \/ UNCHANGED vars)
  BY EveryMove, StraightStep
<1>2. CASE Kinds
  BY <1>1, <1>2, WakeKept
<1>3. CASE UNCHANGED vars
  BY <1>1, <1>3 DEF vars, Wake, Watched, Calm, Held, AwakeIsResumed, VerdictIsTrue, OneSetter, ResumedIsSet,
                    LastHasWaker, GoingToSleep, Good, Fresh, Missed, NoteIs, Is, Truth, Alive
<1> QED BY <1>1, <1>2, <1>3

\* Nobody sleeps and nobody is owed a wake when the Run is admitted.
LEMMA InitWake == Init => Straight /\ Wake
<1> SUFFICES ASSUME Init PROVE Straight /\ Wake
  OBVIOUS
<1>1. /\ Is("off") /\ header = "runnable" /\ \A k \in Children : note[k].phase = "idle"
      /\ Truth.suspended = FALSE /\ Truth.settled = FALSE
  BY InitTruth DEF Init, Asleep, Silent, Is
<1> QED BY <1>1 DEF Straight, Wake, Watched, Held, AwakeIsResumed, VerdictIsTrue, OneSetter, ResumedIsSet,
                    LastHasWaker, Is, NoteIs

\* Wake holds in every state.
LEMMA WakeHolds == Spec => [](Base /\ Straight /\ Wake)
<1>1. (Base /\ Straight /\ Wake) /\ [Next]_vars => (Base /\ Straight /\ Wake)'
  BY WakeStep
<1> QED BY InitBase, InitWake, <1>1, PTL DEF Spec

\* "One of the two always fires" (notify.py) for any number of children: a parent
\* that sleeps with no child left to wait for has a notifier that has not given
\* up, unless a notifier woke a parent that was awake, or one died between
\* appending and waking.
THEOREM TheLastChildWakes == Spec => []SleeperHasWaker
<1>1. Base /\ Straight /\ Wake => SleeperHasWaker
  <2> SUFFICES ASSUME Base, Wake, Calm, Is("off"), header = "suspended", Alive(Truth) = {}
               PROVE  \E k \in Children : Waking(k)
    BY DEF SleeperHasWaker, Calm
  <2>1. CASE Truth.suspended
    BY <2>1 DEF Wake, Watched, LastHasWaker, GoingToSleep, Good, Waking, NoteIs
  <2>2. CASE ~Truth.suspended
    BY <2>2 DEF Wake, Watched, ResumedIsSet, Waking, NoteIs
  <2> QED BY <2>1, <2>2
<1> QED BY <1>1, WakeHolds, PTL

-----------------------------------------------------------------------------
(* Who tells the parent *)

\* Child k has settled and the parent's log does not say so.
Missing(k) == child[k] = "settled" /\ k \in Alive(Truth)

\* A notifier whose next append only a reported child can come before.
Sure(k) == NoteIs(k, "looking") \/ (NoteIs(k, "appending") /\ Fresh(k))

\* A child that settled after reconcile passed it by has its notifier before its
\* first conflict with the suspension.
MissedHasTeller(k) == Is("reconciling") /\ k \notin parent.doing => note[k].tries = 0 /\ Sure(k)

\* A suspended parent's unheard child has a notifier that lost at most one try.
SleeperHasTeller(k) ==
  Truth.suspended => \/ note[k].tries = 0 /\ (NoteIs(k, "looking") \/ NoteIs(k, "appending"))
                     \/ note[k].tries = 1 /\ Sure(k)

\* EveryChildIsHeard speaks of the states where all has stopped; this is what
\* makes the news arrive before that.
Deliver ==
  ~late /\ mishaps = {} =>
    \A k \in Children : Missing(k) => MissedHasTeller(k) /\ SleeperHasTeller(k)

\* Every kind of step keeps Deliver.
LEMMA DeliverKept ==
  ASSUME Base, Base', Straight, Straight', Wake, Deliver, Kinds, Tries > 1
  PROVE  Deliver'
<1> SUFFICES ASSUME ~late', mishaps' = {}, NEW k \in Children, Missing(k)'
             PROVE  (MissedHasTeller(k) /\ SleeperHasTeller(k))'
  BY DEF Deliver
<1>0. /\ late \in BOOLEAN /\ Truth.suspended \in BOOLEAN /\ Truth.settled \in BOOLEAN
      /\ (~Is("off") => header = "running" /\ Alive(Truth) \subseteq Alive(View))
      /\ note[k].tries \in Nat /\ Tries \in Nat
      /\ (note[k].phase = "idle" <=> child[k] # "settled")
      /\ (note[k].phase = "idle" => note[k].tries = 0)
  BY ProperFold, ChildRunsAssumption DEF Base, ParentOK, Truth, ViewOK, NoteOK
<1>1. CASE Claims
  <2>1. ~late /\ mishaps = {} /\ UNCHANGED <<child, note>> /\ Truth' = Truth /\ Missing(k) /\ (Fresh(k)' <=> Fresh(k))
    BY <1>1 DEF Claims, Still, Missing
  <2> QED BY <1>1, <2>1 DEF Claims, Deliver, MissedHasTeller, SleeperHasTeller, Sure, Is, NoteIs
<1>2. CASE Stops
  <2>1. ~late /\ mishaps = {} /\ UNCHANGED <<child, note>> /\ Truth' = Truth /\ Missing(k) /\ (Fresh(k)' <=> Fresh(k))
    BY <1>2 DEF Stops, Still, Missing
  <2> QED BY <1>2, <2>1 DEF Stops, Deliver, MissedHasTeller, SleeperHasTeller, Sure, Is, NoteIs
<1>3. CASE Dispatches
  <2>1. ~late /\ UNCHANGED <<note>> /\ Truth' = Truth /\ ~Truth.suspended
    BY <1>3 DEF Dispatches, Still, Straight
  <2> QED BY <1>3, <2>1 DEF Dispatches, MissedHasTeller, SleeperHasTeller, Is
<1>4. CASE Goes
  <2>1. ~late /\ mishaps = {} /\ UNCHANGED <<child, note>> /\ Truth' = Truth /\ Missing(k) /\ (Fresh(k)' <=> Fresh(k))
    BY <1>4 DEF Goes, Still, Missing
  <2>2. MissedHasTeller(k) /\ SleeperHasTeller(k)
    BY <2>1 DEF Deliver
  <2>3. SleeperHasTeller(k)'
    BY <2>1, <2>2 DEF SleeperHasTeller, Sure, NoteIs
  <2>4. ASSUME Is("reconciling")', k \notin parent'.doing PROVE Is("reconciling") /\ k \notin parent.doing
    BY <1>0, <1>4, <2>1, <2>4 DEF Goes, Is, Missing
  <2>5. MissedHasTeller(k)'
    BY <2>1, <2>2, <2>4 DEF MissedHasTeller, Sure, NoteIs
  <2> QED BY <2>3, <2>5
<1>5. ASSUME NEW rec, Speaks(rec) PROVE (MissedHasTeller(k) /\ SleeperHasTeller(k))'
  <2>1. /\ ~late /\ mishaps = {} /\ UNCHANGED <<header, child, note>>
        /\ Truth'.suspended = SuspendedAfter(Truth, rec) /\ Alive(Truth') = AliveAfter(rec)
        /\ (Fresh(k)' <=> (Fresh(k) /\ rec.type \in External))
    BY <1>5 DEF Speaks, Says
  <2>2. ~Truth.suspended \/ rec.type = "resumed"
    BY <1>5, <2>1 DEF Speaks, Wake, Watched, AwakeIsResumed, Straight, Calm, Is
  <2>3. CASE rec.type = "subagent_finished"
    <3>1. k # rec.child /\ Missing(k)
      BY <2>1, <2>3 DEF AliveAfter, Missing
    <3>2. Is("reconciling") /\ parent'.doing = parent.doing \ {rec.child} /\ ~Truth'.suspended
      BY <1>5, <2>1, <2>2, <2>3 DEF Speaks, SuspendedAfter
    <3> QED BY <2>1, <2>3, <3>1, <3>2 DEF Deliver, MissedHasTeller, SleeperHasTeller, Sure, Is, NoteIs, External
  <2>4. CASE rec.type = "suspended"
    <3>1. Missing(k) /\ Is("reconciling") /\ parent.doing = {} /\ parent'.phase = "refreshing"
      BY <1>5, <2>1, <2>4 DEF Speaks, AliveAfter, Missing
    <3> QED BY <2>1, <2>4, <3>1 DEF Deliver, MissedHasTeller, SleeperHasTeller, Sure, Is, NoteIs
  <2>5. CASE rec.type \notin {"subagent_finished", "suspended"}
    <3>1. ~Truth'.suspended /\ parent'.phase # "reconciling"
      BY <1>5, <2>1, <2>2, <2>5 DEF Speaks, SuspendedAfter
    <3> QED BY <3>1 DEF MissedHasTeller, SleeperHasTeller, Is
  <2> QED BY <2>3, <2>4, <2>5
<1>6. ASSUME NEW j \in Children, Settles(j) PROVE (MissedHasTeller(k) /\ SleeperHasTeller(k))'
  <2>1. ~late /\ mishaps = {} /\ UNCHANGED <<header, parent>> /\ Truth' = Truth
    BY <1>6 DEF Settles, Still
  <2>2. CASE j = k
    <3>1. note'[k].phase = "looking" /\ note'[k].tries = 0
      BY <1>0, <1>6, <2>2 DEF Settles, Same
    <3> QED BY <3>1 DEF MissedHasTeller, SleeperHasTeller, Sure, NoteIs
  <2>3. CASE j # k
    <3>1. note'[k] = note[k] /\ Missing(k) /\ (Fresh(k)' <=> Fresh(k))
      BY <1>6, <2>1, <2>3 DEF Settles, Only, Missing, Still
    <3> QED BY <2>1, <3>1 DEF Deliver, MissedHasTeller, SleeperHasTeller, Sure, Is, NoteIs
  <2> QED BY <2>2, <2>3
<1>7. ASSUME NEW j \in Children, NoteGoes(j) PROVE (MissedHasTeller(k) /\ SleeperHasTeller(k))'
  <2>1. ~late /\ mishaps = {} /\ UNCHANGED <<header, parent, child>> /\ Truth' = Truth /\ Missing(k)
    BY <1>7 DEF NoteGoes, Still, Missing
  <2>2. MissedHasTeller(k) /\ SleeperHasTeller(k) /\ Awaited(k)
    BY <2>1 DEF Deliver, Straight, Awaited, Missing
  <2>3. CASE j = k
    <3>1. (note[k].tries = 0 /\ Sure(k)) => (note'[k].tries = 0 /\ Sure(k)')
      BY <1>7, <2>2, <2>3 DEF NoteGoes, Sure, NoteIs, Still
    <3>2. (note[k].tries = 1 /\ Sure(k)) => (note'[k].tries = 1 /\ Sure(k)')
      BY <1>7, <2>2, <2>3 DEF NoteGoes, Sure, NoteIs, Still
    <3>3. note[k].tries = 0 /\ (NoteIs(k, "looking") \/ NoteIs(k, "appending")) =>
            \/ note'[k].tries = 0 /\ (NoteIs(k, "looking") \/ NoteIs(k, "appending"))'
            \/ note'[k].tries = 1 /\ Sure(k)'
      BY <1>0, <1>7, <2>2, <2>3 DEF NoteGoes, Sure, NoteIs, Still
    <3> QED BY <2>1, <2>2, <3>1, <3>2, <3>3 DEF MissedHasTeller, SleeperHasTeller, Is
  <2>4. CASE j # k
    <3>1. note'[k] = note[k] /\ (Fresh(k)' <=> Fresh(k))
      BY <1>7, <2>4 DEF NoteGoes, Only, Still
    <3> QED BY <2>1, <2>2, <3>1 DEF MissedHasTeller, SleeperHasTeller, Sure, Is, NoteIs
  <2> QED BY <2>3, <2>4
<1>8. ASSUME NEW j \in Children, Silences(j) PROVE FALSE
  BY <1>8 DEF Silences
<1>9. ASSUME NEW j \in Children, Sets(j) PROVE (MissedHasTeller(k) /\ SleeperHasTeller(k))'
  <2>1. /\ ~late /\ mishaps = {} /\ UNCHANGED <<parent, child>> /\ Truth' = Truth /\ Missing(k)
        /\ NoteIs(j, "setting")
    BY <1>9 DEF Sets, Still, Missing
  <2>2. ~Truth.suspended /\ parent.phase = "off"
    BY <1>0, <2>1 DEF Wake, Watched, OneSetter, Calm, Is
  <2> QED BY <2>1, <2>2 DEF MissedHasTeller, SleeperHasTeller, Is
<1>10. ASSUME NEW j \in Children, NEW rec, NoteSpeaks(j, rec) PROVE (MissedHasTeller(k) /\ SleeperHasTeller(k))'
  <2>1. /\ ~late /\ mishaps = {} /\ UNCHANGED <<header, parent, child>>
        /\ Truth'.suspended = SuspendedAfter(Truth, rec) /\ Alive(Truth') = AliveAfter(rec)
    BY <1>0, <1>10 DEF NoteSpeaks, Says
  <2>2. CASE rec.type = "resumed"
    <3>1. header = "suspended" /\ ~Truth'.suspended
      BY <1>0, <1>10, <2>1, <2>2 DEF NoteSpeaks, SuspendedAfter
    <3>2. parent'.phase = "off"
      BY <1>0, <2>1, <3>1 DEF Is
    <3> QED BY <3>1, <3>2 DEF MissedHasTeller, SleeperHasTeller, Is
  <2>3. CASE rec.type # "resumed"
    <3>1. rec.type = "subagent_finished" /\ rec.child = j
      BY <1>10, <2>3 DEF NoteSpeaks
    <3>2. Missing(k) /\ j # k /\ Truth'.suspended = Truth.suspended
      BY <2>1, <3>1 DEF Missing, AliveAfter, SuspendedAfter
    <3>3. note'[k] = note[k] /\ (Fresh(k)' <=> Fresh(k))
      BY <1>10, <3>1, <3>2 DEF NoteSpeaks, Only, Says, External
    <3> QED BY <2>1, <3>2, <3>3 DEF Deliver, MissedHasTeller, SleeperHasTeller, Sure, Is, NoteIs
  <2> QED BY <2>2, <2>3
<1> QED BY <1>1, <1>2, <1>3, <1>4, <1>5, <1>6, <1>7, <1>8, <1>9, <1>10 DEF Kinds

\* Deliver holds in every state.
LEMMA DeliverHolds == ASSUME Tries > 1 PROVE Spec => [](Base /\ Straight /\ Wake /\ Deliver)
<1>1. Init => Deliver
  <2> SUFFICES ASSUME Init PROVE Deliver
    OBVIOUS
  <2>1. Alive(Truth) = {}
    BY InitTruth
  <2> QED BY <2>1 DEF Deliver, Missing
<1>2. (Base /\ Straight /\ Wake /\ Deliver) /\ [Next]_vars => (Base /\ Straight /\ Wake /\ Deliver)'
  <2> SUFFICES ASSUME Base, Straight, Wake, Deliver, [Next]_vars
               PROVE  (Base /\ Straight /\ Wake /\ Deliver)'
    OBVIOUS
  <2>1. Base' /\ Straight' /\ Wake' /\ (Kinds \/ UNCHANGED vars)
    BY WakeStep, EveryMove
  <2>2. CASE Kinds
    BY <2>1, <2>2, DeliverKept
  <2>3. CASE UNCHANGED vars
    BY <2>1, <2>3 DEF vars, Deliver, Missing, MissedHasTeller, SleeperHasTeller, Sure, Fresh, Missed,
                      NoteIs, Is, Truth, Alive
  <2> QED BY <2>1, <2>2, <2>3
<1> QED BY InitBase, InitWake, <1>1, <1>2, PTL DEF Spec

\* A parent that stopped for good has heard of every child that settled, for any
\* number of children.  Two attempts at the append are enough: once the parent
\* sleeps nothing but reports of other children can come before a report, and
\* those are absorbed.  The code makes eight (_APPEND_ATTEMPTS); with one, a
\* child that settles while its parent falls asleep is never heard of.
THEOREM NewsIsDelivered == ASSUME Tries > 1 PROVE Spec => []EveryChildIsHeard
<1>1. Base /\ Straight /\ Wake /\ Deliver => EveryChildIsHeard
  <2> SUFFICES ASSUME Base, Straight, Wake, Deliver, AtRest, ~late, NEW k \in Children,
                      child[k] = "settled", Truth.children[k] = "alive",
                      ~(header = "settled" /\ ~Truth.settled), mishaps = {} \/ header # "suspended"
               PROVE  FALSE
    BY DEF EveryChildIsHeard
  <2>1. Missing(k)
    BY DEF Missing, Alive
  <2>2. header = "suspended" /\ mishaps = {}
    BY <2>1 DEF AtRest, Straight, Missing
  <2>3. \A j \in Children : ~NoteIs(j, "setting") /\ ~NoteIs(j, "looking") /\ ~NoteIs(j, "appending")
    BY DEF AtRest, NoteIs
  <2>4. Truth.suspended
    BY <2>2, <2>3 DEF Wake, Watched, Calm, ResumedIsSet
  <2> QED BY <2>1, <2>2, <2>3, <2>4 DEF Deliver, SleeperHasTeller, Sure
<1> QED BY <1>1, DeliverHolds, PTL
=============================================================================
