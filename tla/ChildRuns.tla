------------------------------- MODULE ChildRuns -------------------------------
(***************************************************************************)
(* A parent Run and the background children it spawns (runtime/notify.py,  *)
(* the _ComposedChildren of runtime/execute.py and _wait_for_children of   *)
(* runtime/agent.py).  A child that settles appends subagent_finished to   *)
(* its parent's log and then wakes the parent if it sleeps; the parent     *)
(* looks at its children before it sleeps and at its log once more after   *)
(* it said so.                                                             *)
(*                                                                         *)
(* The parent's log is complete but for its turns and tool calls; a child  *)
(* is running or settled.  Leases are left out (Attempts has them): one    *)
(* Worker at a time has the parent, and when it dies the Run can be        *)
(* claimed.  The only other writers of the log are the children's          *)
(* notifiers, and what they write is external: an append of the parent     *)
(* absorbs it, and raises CorruptLog when the record no longer fits.  The  *)
(* second conflict of one append, the limits on turns and attempts, aborts *)
(* and the expiry of the suspension are left out.                          *)
(***************************************************************************)
EXTENDS RunLog, FiniteSets

CONSTANTS
  Tries,     \* _APPEND_ATTEMPTS
  Faults,    \* which of AllFaults this instance has, each of them at most once
  MaxFaults  \* bound: how many of them one behaviour has

\* "crash": the parent's Worker dies.  "lost_notice", "lost_wake": a child's
\* Worker dies before or after its append.  "timeout": a notifier stops waiting.
AllFaults == {"crash", "lost_notice", "lost_wake", "timeout"}

ASSUME ChildRunsAssumption ==
  Tries \in Nat \ {0} /\ Faults \subseteq AllFaults /\ MaxFaults \in Nat

VARIABLES
  log,      \* the parent's log
  header,   \* the state in the parent's header
  parent,   \* the fiber that executes the parent
  child,    \* child[k]: "none" before its dispatch, "running", "settled"
  note,     \* note[k]: the notify_parent of child k
  mishaps,  \* history: the faults that happened
  late      \* history: a notifier has resumed a parent that was awake

vars == <<log, header, parent, child, note, mishaps, late>>

Asleep == [phase |-> "off", head |-> 0, doing |-> {}, verdict |-> "none"]
Silent == [phase |-> "idle", head |-> 0, tries |-> 0]

ParentPhases ==
  {"off", "claimed", "looping", "turning", "spawning", "reconciling", "refreshing",
   "selfwaking", "leaving", "unwinding", "releasing", "corrupt"}
NotePhases ==
  {"idle", "looking", "appending", "waking", "checking", "opening", "resuming",
   "setting", "over"}

View == Reduced(SubSeq(log, 1, parent.head)).view
Truth == Reduced(log).view
Alive(v) == {k \in Children : v.children[k] = "alive"}

Is(phase) == parent.phase = phase
GoesTo(phase) == parent' = [parent EXCEPT !.phase = phase]

\* Mutation: the record is not folded again after a conflict.
ParentAppendUnfolded(rec, new) ==
  /\ log' = Append(log, rec)
  /\ parent' = [new EXCEPT !.head = Len(log) + 1]

\* Journal.append by the parent.
ParentAppend(rec, new) ==
  \/ /\ Accepts(Reduced(log), rec)
     /\ log' = Append(log, rec)
     /\ parent' = [new EXCEPT !.head = Len(log) + 1]
  \/ /\ ~Accepts(Reduced(log), rec)
     /\ GoesTo("corrupt") /\ UNCHANGED log

Finished(k) == [type |-> "subagent_finished", child |-> k]
Resumed == [type |-> "resumed", approved |-> None]

others == <<header, child, note, mishaps, late>>

-----------------------------------------------------------------------------
(* The parent's Attempt *)

Claim ==
  /\ Is("off")
  /\ header \in {"runnable", "running"}
  /\ header' = "running"
  /\ parent' = [Asleep EXCEPT !.phase = "claimed", !.head = Len(log)]
  /\ UNCHANGED <<log, child, note, mishaps, late>>

Begin ==
  /\ Is("claimed")
  /\ IF View.settled
     THEN GoesTo("unwinding") /\ UNCHANGED log
     ELSE ParentAppend([type |-> "attempt_started", number |-> View.attempt_count + 1],
                       [parent EXCEPT !.phase = "looping"])
  /\ UNCHANGED others

BeginTurn ==
  /\ Is("looping")
  /\ parent' = IF View.suspended
               THEN [parent EXCEPT !.phase = "leaving"]
               ELSE [parent EXCEPT !.phase = "turning", !.head = Len(log)]
  /\ UNCHANGED <<log, others>>

\* spawn_subagent: the child is dispatched first and recorded second.
Dispatch(k) ==
  /\ Is("turning")
  /\ child[k] = "none"
  /\ child' = [child EXCEPT ![k] = "running"]
  /\ parent' = [parent EXCEPT !.phase = "spawning", !.doing = {k}]
  /\ UNCHANGED <<log, header, note, mishaps, late>>

RecordSpawn ==
  /\ Is("spawning")
  /\ \E k \in parent.doing :
       ParentAppend([type |-> "subagent_spawned", child |-> k],
                    [parent EXCEPT !.phase = "looping", !.doing = {}])
  /\ UNCHANGED others

\* Mutation: the children's logs are not read before the parent sleeps.
FinishUnreconciled ==
  /\ Is("turning")
  /\ GoesTo(IF Alive(View) = {} THEN "leaving" ELSE "reconciling")
  /\ UNCHANGED <<log, others>>

\* The model has nothing left to do; its children may have.
FinishTurn ==
  /\ Is("turning")
  /\ parent' = IF Alive(View) = {}
               THEN [parent EXCEPT !.phase = "leaving"]
               ELSE [parent EXCEPT !.phase = "reconciling", !.doing = Alive(View)]
  /\ UNCHANGED <<log, others>>

\* Mutation: the child's log is not asked whether it is settled.
ReconcileUnread(k) ==
  /\ Is("reconciling") /\ k \in parent.doing
  /\ ParentAppend(Finished(k), [parent EXCEPT !.doing = parent.doing \ {k}])
  /\ UNCHANGED others

\* reconcile, one child that was alive when it began.
Reconcile(k) ==
  /\ Is("reconciling") /\ k \in parent.doing
  /\ \/ /\ child[k] = "settled"
        /\ ParentAppend(Finished(k), [parent EXCEPT !.doing = parent.doing \ {k}])
     \/ /\ child[k] = "running"
        /\ parent' = [parent EXCEPT !.doing = parent.doing \ {k}] /\ UNCHANGED log
  /\ UNCHANGED others

Suspend ==
  /\ Is("reconciling") /\ parent.doing = {}
  /\ \/ Alive(View) = {} /\ GoesTo("looping") /\ UNCHANGED log
     \/ /\ Alive(View) # {}
        /\ ParentAppend([type |-> "suspended", reason |-> "children", call |-> None,
                        step |-> None],
                        [parent EXCEPT !.phase = "refreshing"])
  /\ UNCHANGED others

\* Mutation: the log is not folded again after the suspension.
LookAgainNot ==
  /\ Is("refreshing")
  /\ GoesTo("leaving")
  /\ UNCHANGED <<log, others>>

\* The second look.
LookAgain ==
  /\ Is("refreshing")
  /\ parent' = [parent EXCEPT !.head = Len(log),
                              !.phase = IF Alive(Truth) = {} THEN "selfwaking" ELSE "leaving"]
  /\ UNCHANGED <<log, others>>

WakeItself ==
  /\ Is("selfwaking")
  /\ ParentAppend(Resumed, [parent EXCEPT !.phase = "looping"])
  /\ UNCHANGED others

\* _run_agent: settle, unless the Run is suspended.
Leave ==
  /\ Is("leaving")
  /\ IF View.settled \/ View.suspended
     THEN GoesTo("unwinding") /\ UNCHANGED log
     ELSE ParentAppend([type |-> "run_settled", state |-> "completed"],
                       [parent EXCEPT !.phase = "unwinding"])
  /\ UNCHANGED others

\* _release reads the log and then releases.
Unwind ==
  /\ Is("unwinding")
  /\ parent' = [parent EXCEPT !.phase = "releasing",
       !.verdict = IF Truth.settled THEN "settled"
                   ELSE IF Truth.suspended THEN "suspended" ELSE "runnable"]
  /\ UNCHANGED <<log, others>>

Release ==
  /\ Is("releasing")
  /\ header' = parent.verdict
  /\ parent' = Asleep
  /\ UNCHANGED <<log, child, note, mishaps, late>>

\* A CorruptLog releases the Run as settled.
GiveUp ==
  /\ Is("corrupt")
  /\ header' = "settled"
  /\ parent' = Asleep
  /\ UNCHANGED <<log, child, note, mishaps, late>>

-----------------------------------------------------------------------------
(* A child's end, and the notifier in its Worker *)

NoteIs(k, phase) == note[k].phase = phase
NoteGoesTo(k, phase) == note' = [note EXCEPT ![k].phase = phase]

ChildSettles(k) ==
  /\ child[k] = "running"
  /\ child' = [child EXCEPT ![k] = "settled"]
  /\ NoteGoesTo(k, "looking")
  /\ UNCHANGED <<log, header, parent, mishaps, late>>

\* _append_finished: fold the parent's log and see whether it waits for k.
Look(k) ==
  /\ NoteIs(k, "looking")
  /\ note' = [note EXCEPT ![k] =
       IF Truth.children[k] # "alive" \/ Truth.settled
       THEN [note[k] EXCEPT !.phase = "over"]
       ELSE [note[k] EXCEPT !.phase = "appending", !.head = Len(log)]]
  /\ UNCHANGED <<log, header, parent, child, mishaps, late>>

Missed(k) == SubSeq(log, note[k].head + 1, Len(log))

\* The append.  A conflict with the parent's own records starts over, a record
\* that came to be unacceptable is logged and dropped.
Notify(k) ==
  /\ NoteIs(k, "appending")
  /\ \/ /\ AllExternal(Missed(k)) /\ Accepts(Reduced(log), Finished(k))
        /\ log' = Append(log, Finished(k))
        /\ NoteGoesTo(k, "waking")
     \/ /\ AllExternal(Missed(k)) /\ ~Accepts(Reduced(log), Finished(k))
        /\ NoteGoesTo(k, "over") /\ UNCHANGED log
     \/ /\ ~AllExternal(Missed(k))
        /\ note' = [note EXCEPT ![k] =
             [note[k] EXCEPT !.phase = IF note[k].tries + 1 < Tries THEN "looking" ELSE "over",
                             !.tries = note[k].tries + 1]]
        /\ UNCHANGED log
  /\ UNCHANGED <<header, parent, child, mishaps, late>>

\* _wake: read the header, then, if that does not settle it, the log.
ReadHeader(k) ==
  /\ NoteIs(k, "waking")
  /\ NoteGoesTo(k, CASE header = "settled" -> "over"
                     [] header = "suspended" -> "opening"
                     [] OTHER -> "checking")
  /\ UNCHANGED <<log, header, parent, child, mishaps, late>>

CheckAsleep(k) ==
  /\ NoteIs(k, "checking")
  /\ NoteGoesTo(k, IF Truth.suspended THEN "waking" ELSE "over")
  /\ UNCHANGED <<log, header, parent, child, mishaps, late>>

\* resume: open the log, append, set_runnable_at.
OpenParent(k) ==
  /\ NoteIs(k, "opening")
  /\ note' = [note EXCEPT ![k] =
       IF Truth.suspended THEN [note[k] EXCEPT !.phase = "resuming", !.head = Len(log)]
       ELSE [note[k] EXCEPT !.phase = "over"]]
  /\ UNCHANGED <<log, header, parent, child, mishaps, late>>

\* SeqConflict and CorruptLog end the notifier as well.
ResumeParent(k) ==
  /\ NoteIs(k, "resuming")
  /\ \/ /\ AllExternal(Missed(k)) /\ Accepts(Reduced(log), Resumed)
        /\ log' = Append(log, Resumed)
        /\ NoteGoesTo(k, "setting")
        /\ late' = (late \/ header # "suspended")
     \/ /\ ~AllExternal(Missed(k)) \/ ~Accepts(Reduced(log), Resumed)
        /\ NoteGoesTo(k, "over") /\ UNCHANGED <<log, late>>
  /\ UNCHANGED <<header, parent, child, mishaps>>

MakeRunnable(k) ==
  /\ NoteIs(k, "setting")
  /\ header' = IF header = "suspended" THEN "runnable" ELSE header
  /\ NoteGoesTo(k, "over")
  /\ UNCHANGED <<log, parent, child, mishaps, late>>

-----------------------------------------------------------------------------
(* Faults *)

Happens(fault) ==
  /\ fault \in Faults \ mishaps /\ Cardinality(mishaps) < MaxFaults
  /\ mishaps' = mishaps \cup {fault}

\* The lease runs out and the Run can be claimed, which Claim allows.
Crash ==
  /\ Happens("crash") /\ ~Is("off")
  /\ parent' = Asleep
  /\ UNCHANGED <<log, header, child, note, late>>

NotifierStops(k) ==
  /\ \/ Happens("lost_notice") /\ note[k].phase \in {"looking", "appending"}
     \/ Happens("lost_wake") /\ note[k].phase \in {"waking", "checking", "opening", "resuming", "setting"}
     \/ Happens("timeout") /\ NoteIs(k, "waking")
  /\ NoteGoesTo(k, "over")
  /\ UNCHANGED <<log, header, parent, child, late>>

-----------------------------------------------------------------------------

Init ==
  /\ log = <<[type |-> "run_admitted"]>>
  /\ header = "runnable"
  /\ parent = Asleep
  /\ child = [k \in Children |-> "none"]
  /\ note = [k \in Children |-> Silent]
  /\ mishaps = {} /\ late = FALSE

ParentStep ==
  \/ Claim \/ Begin \/ BeginTurn \/ RecordSpawn \/ FinishTurn \/ Suspend \/ LookAgain
  \/ WakeItself \/ Leave \/ Unwind \/ Release \/ GiveUp
  \/ \E k \in Children : Reconcile(k)

NoteStep(k) ==
  \/ Look(k) \/ Notify(k) \/ ReadHeader(k) \/ CheckAsleep(k) \/ OpenParent(k)
  \/ ResumeParent(k) \/ MakeRunnable(k)

Next ==
  \/ ParentStep
  \/ \E k \in Children : Dispatch(k) \/ ChildSettles(k) \/ NoteStep(k) \/ NotifierStops(k)
  \/ Crash

Spec == Init /\ [][Next]_vars

-----------------------------------------------------------------------------
(* Properties *)

TypeOK ==
  /\ Reduced(log).sound
  /\ header \in {"runnable", "running", "suspended", "settled"}
  /\ parent.phase \in ParentPhases /\ parent.head \in 0..Len(log) /\ parent.doing \subseteq Children
  /\ \A k \in Children :
       /\ child[k] \in {"none", "running", "settled"}
       /\ note[k].phase \in NotePhases /\ note[k].head \in 0..Len(log) /\ note[k].tries \in 0..Tries
  /\ mishaps \subseteq Faults /\ late \in BOOLEAN

\* A parent hears that a child finished only of a child that did, whichever of
\* the notifier and the reconciling parent writes it and whoever dies between.
HeardOnlyWhatHappened ==
  \A k \in Children : Truth.children[k] = "finished" => child[k] = "settled"

\* What the parent has been told is true, at every step of the telling.
NewsIsTrue == TypeOK /\ HeardOnlyWhatHappened

\* A notifier that has news to deliver and a parent to wake.
Waking(k) == note[k].phase \in {"waking", "checking", "opening", "resuming", "setting"}

\* "One of the two always fires" (notify.py): a parent that sleeps with no child
\* left to wait for has a notifier on its way to wake it, although both looked
\* at a log and a header that the other was about to change.  Refuted for three
\* children without ~late: a notifier that is late resumes the parent between its
\* next suspension and its release, so the header sleeps over a log that does
\* not, and the last notifier takes the parent for one that is awake.
SleeperHasWaker ==
  mishaps \subseteq {"lost_notice"} /\ ~late =>
    (Is("off") /\ header = "suspended" /\ Alive(Truth) = {} => \E k \in Children : Waking(k))

\* No step of the parent, of a child or of a notifier is left to take.
AtRest ==
  /\ Is("off") /\ header \in {"suspended", "settled"}
  /\ \A k \in Children : child[k] # "running" /\ note[k].phase \in {"idle", "over"}

\* What is left when everything stopped: no news is undelivered, not even of a
\* child that settled before the parent had recorded it, whose notifier found
\* nobody to tell, or of one whose notifier died.  Only a parent that already
\* slept, or that gave up, does not hear; nor, with three children, one that a
\* late notifier resumed while it was awake.
EveryChildIsHeard ==
  AtRest /\ ~late => \A k \in Children :
    (child[k] = "settled" /\ Truth.children[k] = "alive") =>
      (header = "suspended" /\ mishaps # {}) \/ (header = "settled" /\ ~Truth.settled)

\* A notification is a record "a parent's own Attempt tolerates arriving
\* underneath it" (notify.py): the parent's header is settled only when its log
\* is.  Refuted: reconcile and a notifier that write the same child's end.
SettledParentHasSettledLog == header = "settled" => Truth.settled

\* "Completing here would settle the Run with the answers it asked for still in
\* flight" (_finish_turn).  Refuted with three children: a notifier that is late
\* resumes the parent between its next suspension and its second look.
CompletedHeardAll == Truth.settled => Alive(Truth) = {}
=============================================================================
