------------------------------ MODULE Attempts_proofs ------------------------------
(***************************************************************************)
(* One Run, its Attempts and its Workers, for every number of Workers,     *)
(* claims and calls, and for every set of worlds.                          *)
(*                                                                         *)
(* Base says that the log is accepted and that each fiber fits it.  Every  *)
(* step of the consumer, of the loop, of a fiber and of a Worker keeps it. *)
(* Then the steps are put into seven kinds by what they do to the log and  *)
(* to a fiber's place in it, and each further invariant is kept by every   *)
(* kind: the approvals (how often a tool runs, and with whose leave), the  *)
(* order of the writers (a fiber that lost its lease writes nothing that   *)
(* counts), and the turns (no call is left open).                          *)
(*                                                                         *)
(* Four theorems have a hypothesis on the constants, met by every          *)
(* instance that is model-checked; the comment of each says what the code  *)
(* does without it.                                                        *)
(***************************************************************************)
EXTENDS Attempts, RunLog_proofs

\* The phases in which a fiber may append: it holds a Journal.
Busy == {"opened", "cancelled"} \cup Working

\* Why a cancel token fired.
Reasons == {"none", "lease_lost", "deadline", "shutdown"}
\* The state a fiber is to release its Run with.
Verdicts == {"none", "settled", "suspended", "runnable"}

\* The fields of a fiber and what they may hold.
FiberShape(f) ==
  /\ DOMAIN f = DOMAIN Unclaimed
  /\ f.worker \in Workers \cup {Nobody}
  /\ f.phase \in Phases
  /\ f.reason \in Reasons /\ f.clock \in {"ahead", "fired"}
  /\ f.grip \in Nat /\ f.head \in Nat
  /\ f.doing \in Calls \cup {None}
  /\ f.verdict \in Verdicts

\* The fiber of claim n against the log s.
FiberOK(n, f, s) ==
  /\ FiberShape(f)
  /\ f.head <= Len(s) /\ f.grip <= Len(s)
  /\ f.phase = "unclaimed" <=> f.worker = Nobody
  /\ f.phase \in Busy => s # <<>>
  /\ f.phase \in {"gating", "executing", "answering"} => f.doing \in Calls
  /\ f.verdict = "settled" => Reduced(s).view.settled
  /\ f.phase = "releasing" => f.verdict # "none"
  /\ n > MaxAttempts => f.phase \in {"unclaimed", "exhausted", "releasing", "over"}
  /\ f.phase = "exhausted" => n > MaxAttempts

\* Every fiber fits the log.
FibersOK == DOMAIN fiber = Claims /\ \A n \in Claims : FiberOK(n, fiber[n], log)

\* The log is one that reduce accepts, each record has an author, and a forced
\* settlement left no call open.
LogOK ==
  /\ ProperLog(log)
  /\ author \in Seq({0} \cup Claims) /\ Len(author) = Len(log)
  /\ consumer = "admitting" => log = <<>>
  /\ Truth.terminal_state = "force_settled" => Truth.settled /\ Truth.open_tool_calls = {}

\* What a Worker supervises it has claimed, and not as exhausted.
ActiveOK ==
  /\ active \in [Workers -> 0..MaxClaims]
  /\ \A w \in Workers : active[w] # 0 => fiber[active[w]].worker = w /\ active[w] <= MaxAttempts

\* The header, the processes, the world and the tools' counters; a settled header
\* has a settled log.
StoreOK ==
  /\ header \in Headers
  /\ header.state = "settled" => Truth.settled
  /\ process \in [Workers -> {"up", "stopping", "down"}]
  /\ world \in [faults : SUBSET AllFaults, claims : 1..MaxClaims, calls : SUBSET Calls,
                overdue : {"no", "yes"}]
  /\ executed \in [Calls -> Nat]
  /\ consumer \in {"admitting", "idle", "waking"}

\* The invariant everything rests on.  TypeOK and SettledHeaderHasSettledLog are
\* not inductive: that no append makes a log reduce refuses, and that release
\* never settles a header too early, take what each fiber holds of the log.
Base == LogOK /\ FibersOK /\ ActiveOK /\ StoreOK

\* The claim, the heartbeat and the passing of a lease keep a header one.
LEMMA HeaderOps ==
  ASSUME NEW h \in Headers, NEW w \in Workers, NEW n \in Nat
  PROVE  /\ [Claimed(h, w) EXCEPT !.attempt_count = n] \in Headers
         /\ [Claimed(h, w) EXCEPT !.attempt_count = n].state = "running"
         /\ Renewed(h) \in Headers /\ Renewed(h).state = h.state
         /\ Aged(h, TRUE, FALSE) \in Headers /\ Aged(h, TRUE, FALSE).state = h.state
<1> USE DEF Headers, RunStates
<1>1. /\ [Claimed(h, w) EXCEPT !.attempt_count = n] \in Headers
      /\ [Claimed(h, w) EXCEPT !.attempt_count = n].state = "running"
  BY DEF Claimed
<1>2. Renewed(h) \in Headers /\ Renewed(h).state = h.state
  BY DEF Renewed
<1>5. Aged(h, TRUE, FALSE) \in Headers /\ Aged(h, TRUE, FALSE).state = h.state
  BY DEF Aged, LeaseAged, GateAged
<1> QED BY <1>1, <1>2, <1>5

\* set_runnable_at neither settles a header nor revives it.
LEMMA WokenOK ==
  ASSUME NEW h \in Headers
  PROVE  Woken(h) \in Headers /\ (Woken(h).state = "settled" <=> h.state = "settled")
BY DEF Headers, RunStates, Woken, StateWoken

\* release sets the state it is given, or none.
LEMMA ReleasedOK ==
  ASSUME NEW h \in Headers, NEW w, NEW state \in RunStates
  PROVE  /\ Released(h, w, state) \in Headers
         /\ Released(h, w, state).state \in {h.state, state}
BY DEF Headers, RunStates, Released, Holds

\* A fiber that fits the log fits every continuation of it.
LEMMA FiberOKLater ==
  ASSUME NEW s, ProperLog(s), NEW rec, WellFormed(rec), Accepts(Reduced(s), rec),
         NEW n \in Claims, NEW f, FiberOK(n, f, s)
  PROVE  FiberOK(n, f, Append(s, rec))
<1> DEFINE t == Append(s, rec)
<1>1. ProperLog(t) /\ Len(t) = Len(s) + 1 /\ Len(s) \in Nat /\ Prefix(t, Len(s)) = Prefix(s, Len(s))
  <2>1. Len(s) \in 0..Len(s)
    BY DEF ProperLog
  <2> QED BY <2>1, ProperAppend
<1>2. Reduced(s).view.settled => Reduced(t).view.settled
  <2>1. Len(s) \in 0..Len(t)
    BY <1>1
  <2>2. Later(Prefix(t, Len(s)).view, Reduced(t).view)
    BY <1>1, <2>1, Lasting
  <2> QED BY <1>1, <2>2, ProperFold DEF Later
<1> HIDE DEF t
<1>3. t # <<>>
  BY <1>1
<1>4. f.head <= Len(t) /\ f.grip <= Len(t)
  BY <1>1 DEF FiberOK, FiberShape
<1>5. FiberOK(n, f, t)
  BY <1>2, <1>3, <1>4 DEF FiberOK
<1> QED BY <1>5 DEF t

\* A record that the log accepts, whoever writes it: the log stays accepted and
\* every fiber still fits.
LEMMA Written ==
  ASSUME Base, NEW rec, WellFormed(rec), Accepts(Reduced(log), rec),
         NEW a \in {0} \cup Claims, log' = Append(log, rec), author' = Append(author, a),
         rec.type = "run_settled" /\ rec.state = "force_settled" => Truth.open_tool_calls = {},
         consumer' # "admitting"
  PROVE  /\ LogOK'
         /\ Later(Truth, Truth')
         /\ Effect(Truth, rec, Truth') /\ ViewOK(Truth)
         /\ \A n \in Claims : \A f : FiberOK(n, f, log) => FiberOK(n, f, log')
         /\ Len(log') = Len(log) + 1 /\ Len(log) \in Nat
         /\ log'[Len(log) + 1] = rec
<1>1. /\ ProperLog(log') /\ Len(log') = Len(log) + 1 /\ Len(log) \in Nat
      /\ log'[Len(log) + 1] = rec
      /\ Effect(Reduced(log).view, rec, Reduced(log').view)
  BY ProperAppend DEF Base, LogOK
<1>2. ViewOK(Truth)
  BY ProperFold DEF Base, LogOK, Truth
<1>3. Effect(Truth, rec, Truth')
  BY <1>1 DEF Truth
<1>4. RecordAccepted(Truth, Reduced(log).seen, rec) /\ (Truth.settled => rec.type = "run_settled")
  BY DEF Accepts, Truth
<1>5. Later(Truth, Truth')
  BY <1>2, <1>3, <1>4, LaterStep
<1>6. author' \in Seq({0} \cup Claims) /\ Len(author') = Len(log')
  BY <1>1 DEF Base, LogOK
<1>7. Truth'.terminal_state = "force_settled" => Truth'.settled /\ Truth'.open_tool_calls = {}
  <2>1. CASE rec.type = "run_settled"
    BY <1>3, <2>1 DEF Base, LogOK, Effect, OpenCallsAfter
  <2>2. CASE rec.type # "run_settled"
    BY <1>3, <1>4, <2>2 DEF Base, LogOK, Effect, OpenCallsAfter
  <2> QED BY <2>1, <2>2
<1>8. LogOK'
  BY <1>1, <1>6, <1>7 DEF LogOK
<1>9. \A n \in Claims : \A f : FiberOK(n, f, log) => FiberOK(n, f, log')
  BY FiberOKLater DEF Base, LogOK
<1> QED BY <1>1, <1>2, <1>3, <1>5, <1>8, <1>9

-----------------------------------------------------------------------------
(* Steps of one kind keep Base *)

\* Changing one fiber.
LEMMA OneFiber ==
  ASSUME Base, NEW n \in Claims, NEW f, FiberOK(n, f, log'),
         \A m \in Claims : \A g : FiberOK(m, g, log) => FiberOK(m, g, log'),
         fiber' = [fiber EXCEPT ![n] = f]
  PROVE  /\ FibersOK' /\ fiber'[n] = f
         /\ \A m \in Claims \ {n} : fiber'[m] = fiber[m]
         /\ f.worker = fiber[n].worker /\ active' = active => ActiveOK'
<1>1. fiber'[n] = f /\ DOMAIN fiber' = Claims /\ \A m \in Claims \ {n} : fiber'[m] = fiber[m]
  BY DEF Base, FibersOK
<1>2. \A m \in Claims : FiberOK(m, fiber'[m], log')
  BY <1>1 DEF Base, FibersOK
<1>3. f.worker = fiber[n].worker /\ active' = active => ActiveOK'
  <2> SUFFICES ASSUME f.worker = fiber[n].worker, active' = active PROVE ActiveOK'
    OBVIOUS
  <2>1. \A m \in Claims : fiber'[m].worker = fiber[m].worker
    BY <1>1
  <2>2. \A w \in Workers : active[w] # 0 => active[w] \in Claims
    BY FibersAssumption DEF Base, ActiveOK, Claims
  <2> QED BY <2>1, <2>2 DEF Base, ActiveOK
<1> QED BY <1>1, <1>2, <1>3 DEF FibersOK

\* A step of one fiber that writes nothing keeps Base.
LEMMA QuietMove ==
  ASSUME Base, log' = log, author' = author, NEW n \in Claims, NEW f, FiberOK(n, f, log),
         fiber' = [fiber EXCEPT ![n] = f], f.worker = fiber[n].worker, active' = active,
         UNCHANGED <<process, world>>, header' \in Headers, header'.state = "settled" => Truth.settled,
         executed' \in [Calls -> Nat], consumer' = consumer
  PROVE  Base'
<1>1. FibersOK' /\ ActiveOK'
  BY OneFiber
<1>2. LogOK'
  BY DEF Base, LogOK, Truth
<1>3. StoreOK'
  BY DEF Base, StoreOK, Truth
<1> QED BY <1>1, <1>2, <1>3 DEF Base

\* A step of one fiber that writes a record keeps Base.
LEMMA WriteMove ==
  ASSUME Base, NEW rec, WellFormed(rec), Accepts(Reduced(log), rec),
         NEW a \in {0} \cup Claims, log' = Append(log, rec), author' = Append(author, a),
         rec.type = "run_settled" /\ rec.state = "force_settled" => Truth.open_tool_calls = {},
         consumer' \in {"idle", "waking"},
         NEW n \in Claims, NEW f, FiberOK(n, f, log'),
         fiber' = [fiber EXCEPT ![n] = f], f.worker = fiber[n].worker, active' = active,
         UNCHANGED <<header, process, world>>, executed' \in [Calls -> Nat]
  PROVE  Base'
<1>1. /\ LogOK' /\ Later(Truth, Truth')
      /\ \A m \in Claims : \A g : FiberOK(m, g, log) => FiberOK(m, g, log')
  BY Written
<1>2. FibersOK' /\ ActiveOK'
  BY <1>1, OneFiber
<1>3. StoreOK'
  BY <1>1 DEF Base, StoreOK, Later
<1> QED BY <1>1, <1>2, <1>3 DEF Base

\* A record of the consumer keeps Base.
LEMMA ConsumerMove ==
  ASSUME Base, NEW rec, WellFormed(rec), Accepts(Reduced(log), rec),
         ConsumerAppend(rec), rec.type = "run_settled" => rec.state # "force_settled",
         consumer' \in {"idle", "waking"}
  PROVE  Base'
<1>0. log' = Append(log, rec) /\ author' = Append(author, 0)
      /\ UNCHANGED <<header, fiber, active, process, world, executed>>
  BY DEF ConsumerAppend, LogAppend
<1>1. /\ LogOK' /\ Later(Truth, Truth')
      /\ \A m \in Claims : \A g : FiberOK(m, g, log) => FiberOK(m, g, log')
  BY <1>0, Written
<1>2. FibersOK' /\ ActiveOK'
  BY <1>0, <1>1 DEF Base, FibersOK, ActiveOK
<1>3. StoreOK'
  BY <1>0, <1>1 DEF Base, StoreOK, Later
<1> QED BY <1>1, <1>2, <1>3 DEF Base

\* The phases with a condition of their own.
Special == {"unclaimed", "exhausted", "releasing", "gating", "executing", "answering"}

\* Phases a fiber that holds a Journal can be left in.
LEMMA BusyFiber ==
  ASSUME Base, NEW n \in Claims, fiber[n].phase \in Busy
  PROVE  /\ FiberOK(n, fiber[n], log) /\ fiber[n].worker \in Workers /\ n <= MaxAttempts
         /\ log # <<>> /\ consumer \in {"idle", "waking"}
         /\ \A phase \in Phases \ Special :
              FiberOK(n, At(n, phase), log)
<1> DEFINE x == fiber[n]
<1>1. FiberOK(n, x, log)
  BY DEF Base, FibersOK
<1>2. x.worker \in Workers /\ log # <<>> /\ consumer \in {"idle", "waking"}
  BY <1>1, NobodyAssumption DEF FiberOK, FiberShape, Busy, Working, Base, LogOK, StoreOK
<1>3. n <= MaxAttempts
  BY <1>1, FibersAssumption DEF FiberOK, Busy, Working, Claims
<1>4. ASSUME NEW phase \in Phases \ Special
      PROVE  FiberOK(n, At(n, phase), log)
  <2> DEFINE y == [x EXCEPT !.phase = phase]
  <2> HIDE DEF x
  <2>1. /\ DOMAIN y = DOMAIN x /\ y.phase = phase /\ y.worker = x.worker /\ y.reason = x.reason
        /\ y.clock = x.clock /\ y.grip = x.grip /\ y.head = x.head /\ y.doing = x.doing
        /\ y.verdict = x.verdict
    BY <1>1 DEF FiberOK, FiberShape, Unclaimed
  <2> HIDE DEF y
  <2>2. FiberOK(n, y, log)
    BY <1>1, <1>2, <1>3, <2>1, NobodyAssumption, FibersAssumption DEF FiberOK, FiberShape, Claims, Special
  <2> QED BY <2>2 DEF x, y, At
<1> QED BY <1>1, <1>2, <1>3, <1>4

\* Journal.append keeps Base, whether it writes or not.
LEMMA JournalMove ==
  ASSUME Base, NEW n \in Claims, fiber[n].phase \in Busy, NEW rec, WellFormed(rec),
         NEW f, FiberOK(n, f, log), f.worker = fiber[n].worker, f.phase # "exhausted",
         JournalAppend(n, rec, f),
         rec.type = "run_settled" => rec.state # "force_settled",
         UNCHANGED <<header, active, process, world, executed, consumer>>
  PROVE  Base'
<1>1. /\ fiber[n].worker \in Workers /\ n <= MaxAttempts
      /\ log # <<>> /\ consumer \in {"idle", "waking"}
      /\ FiberOK(n, At(n, "unwinding"), log)
  BY BusyFiber DEF Phases, Working, Special
<1>2. executed' \in [Calls -> Nat]
  BY DEF Base, StoreOK
<1>3. CASE /\ Accepts(Reduced(log), rec) /\ LogAppend(rec, n)
           /\ Becomes(n, [f EXCEPT !.head = Len(log) + 1])
  <2>1. log' = Append(log, rec) /\ author' = Append(author, n)
    BY <1>3 DEF LogAppend
  <2>2. FiberOK(n, f, log') /\ Len(log') = Len(log) + 1 /\ Len(log) \in Nat
    BY <1>1, <1>3, <2>1, Written
  <2> DEFINE y == [f EXCEPT !.head = Len(log) + 1]
  <2>3. /\ DOMAIN y = DOMAIN f /\ y.phase = f.phase /\ y.worker = f.worker /\ y.reason = f.reason
        /\ y.clock = f.clock /\ y.grip = f.grip /\ y.head = Len(log) + 1 /\ y.doing = f.doing
        /\ y.verdict = f.verdict
    BY DEF FiberOK, FiberShape, Unclaimed
  <2>4. fiber' = [fiber EXCEPT ![n] = y]
    BY <1>3 DEF Becomes
  <2> HIDE DEF y
  <2>5. FiberOK(n, y, log')
    BY <2>2, <2>3 DEF FiberOK, FiberShape
  <2> QED BY <1>1, <1>2, <1>3, <2>1, <2>3, <2>4, <2>5, WriteMove
<1>4. CASE GoesTo(n, "unwinding") /\ UNCHANGED <<log, author>>
  <2>1. At(n, "unwinding").worker = fiber[n].worker
    BY <1>1 DEF At
  <2>2. fiber' = [fiber EXCEPT ![n] = At(n, "unwinding")]
    BY <1>4 DEF GoesTo, Becomes
  <2> QED BY <1>1, <1>2, <1>4, <2>1, <2>2, QuietMove DEF Base, StoreOK
<1> QED BY <1>3, <1>4 DEF JournalAppend

-----------------------------------------------------------------------------
(* The agent loop *)

\* The same for a phase that is about one call.
LEMMA BusyWith ==
  ASSUME Base, NEW n \in Claims, fiber[n].phase \in Busy,
         NEW phase \in Phases \ {"unclaimed", "exhausted", "releasing"}, NEW c \in Calls \cup {None},
         phase \in {"gating", "executing", "answering"} => c \in Calls
  PROVE  LET f == [At(n, phase) EXCEPT !.doing = c] IN
         FiberOK(n, f, log) /\ f.worker = fiber[n].worker /\ f.phase = phase
<1> DEFINE x == fiber[n]
<1>1. /\ FiberOK(n, x, log) /\ x.worker \in Workers /\ n <= MaxAttempts /\ log # <<>>
  BY BusyFiber
<1> DEFINE y == [[x EXCEPT !.phase = phase] EXCEPT !.doing = c]
<1> HIDE DEF x
<1>2. /\ DOMAIN y = DOMAIN x /\ y.phase = phase /\ y.worker = x.worker /\ y.reason = x.reason
      /\ y.clock = x.clock /\ y.grip = x.grip /\ y.head = x.head /\ y.doing = c
      /\ y.verdict = x.verdict
  BY <1>1 DEF FiberOK, FiberShape, Unclaimed
<1> HIDE DEF y
<1>3. FiberOK(n, y, log)
  BY <1>1, <1>2, NobodyAssumption, FibersAssumption DEF FiberOK, FiberShape, Claims
<1> QED BY <1>2, <1>3 DEF x, y, At

\* The state a fiber carries is the fold of the prefix it has read.
LEMMA BusyView ==
  ASSUME Base, NEW n \in Claims
  PROVE  View(n) = Prefix(log, fiber[n].head).view /\ ViewOK(View(n)) /\ fiber[n].head \in 0..Len(log)
<1>1. fiber[n].head \in 0..Len(log)
  BY DEF Base, FibersOK, FiberOK, FiberShape, LogOK, ProperLog
<1>2. View(n) = Prefix(log, fiber[n].head).view
  BY DEF View, Prefix, Reduced
<1> QED BY <1>1, <1>2, ProperPrefix DEF Base, LogOK

\* A step that moves a busy fiber to another phase and writes nothing.
LEMMA BusyGoes ==
  ASSUME Base, NEW n \in Claims, fiber[n].phase \in Busy,
         NEW phase \in Phases \ Special,
         GoesTo(n, phase), UNCHANGED <<log, author, executed, storeOnly>>
  PROVE  Base'
<1>1. FiberOK(n, At(n, phase), log) /\ At(n, phase).worker = fiber[n].worker
  BY BusyFiber DEF At
<1>2. fiber' = [fiber EXCEPT ![n] = At(n, phase)]
  BY DEF GoesTo, Becomes
<1> QED BY <1>1, <1>2, QuietMove DEF Base, StoreOK, storeOnly

\* Entering a tool keeps Base.
LEMMA EnterToolBase ==
  ASSUME Base, NEW n \in Claims, fiber[n].phase \in Busy, NEW c \in Calls, EnterTool(n, c),
         UNCHANGED storeOnly
  PROVE  Base'
<1> DEFINE f == [At(n, "executing") EXCEPT !.doing = c]
<1>1. FiberOK(n, f, log) /\ f.worker = fiber[n].worker
  BY BusyWith DEF Phases, Working, Special
<1>2. fiber' = [fiber EXCEPT ![n] = f] /\ log' = log /\ author' = author
      /\ executed' = [executed EXCEPT ![c] = @ + 1]
  BY DEF EnterTool, Becomes
<1> HIDE DEF f
<1>3. executed' \in [Calls -> Nat]
  BY <1>2 DEF Base, StoreOK
<1> QED BY <1>1, <1>2, <1>3, QuietMove DEF Base, StoreOK, storeOnly

\* Recording a call keeps Base.
LEMMA StartsBase ==
  ASSUME Base, NEW n \in Claims, fiber[n].phase \in Busy, NEW phase \in {"gating", "answering"},
         NEW c \in Calls, JournalAppend(n, CallStarted(View(n), c), [At(n, phase) EXCEPT !.doing = c]),
         UNCHANGED <<executed, storeOnly>>
  PROVE  Base'
<1> DEFINE f == [At(n, phase) EXCEPT !.doing = c]
           rec == CallStarted(View(n), c)
<1>1. FiberOK(n, f, log) /\ f.worker = fiber[n].worker /\ f.phase = phase
  BY BusyWith DEF Phases, Working, Special
<1>2. WellFormed(rec) /\ rec.type # "run_settled"
  BY DEF CallStarted, WellFormed
<1> HIDE DEF f, rec
<1> QED BY <1>1, <1>2, JournalMove DEF storeOnly, f, rec

\* Recording the outcome of a call keeps Base.
LEMMA FinishesBase ==
  ASSUME Base, NEW n \in Claims, fiber[n].phase \in Busy, NEW c \in Calls, NEW outcome,
         NEW f, FiberOK(n, f, log), f.worker = fiber[n].worker, f.phase # "exhausted",
         JournalAppend(n, CallFinished(c, outcome), f),
         UNCHANGED <<executed, storeOnly>>
  PROVE  Base'
<1> DEFINE rec == CallFinished(c, outcome)
<1>2. WellFormed(rec) /\ rec.type # "run_settled"
  BY DEF CallFinished, WellFormed
<1> HIDE DEF rec
<1> QED BY <1>2, JournalMove DEF storeOnly, rec

\* Settling from within the Attempt keeps Base.
LEMMA SettlesBase ==
  ASSUME Base, NEW n \in Claims, fiber[n].phase \in Busy, NEW state, state # "force_settled",
         JournalAppend(n, Settlement(state), At(n, "unwinding")),
         UNCHANGED <<executed, storeOnly>>
  PROVE  Base'
<1> DEFINE rec == Settlement(state)
           f == At(n, "unwinding")
<1>1. FiberOK(n, f, log) /\ f.worker = fiber[n].worker /\ f.phase # "exhausted"
  <2>1. FiberOK(n, f, log) /\ FiberOK(n, fiber[n], log)
    BY BusyFiber DEF Phases, Working, Special
  <2> QED BY <2>1 DEF At, FiberOK, FiberShape, Unclaimed
<1>2. WellFormed(rec) /\ rec.type = "run_settled" /\ rec.state = state
  BY DEF Settlement, WellFormed
<1> HIDE DEF f, rec
<1> QED BY <1>1, <1>2, JournalMove DEF storeOnly, f, rec

\* Every step of the loop keeps Base.
LEMMA LoopBase ==
  ASSUME Base, NEW n \in Claims, LoopStep(n) \/ Raise(n)
  PROVE  Base'
<1>1. ASSUME NEW c \in Calls, Recover(n, c) PROVE Base'
  <2>1. fiber[n].phase = "recovering" /\ fiber[n].phase \in Busy /\ UNCHANGED storeOnly
    BY <1>1 DEF Recover, Busy, Working
  <2>2. CASE EnterTool(n, c)
    BY <2>1, <2>2, EnterToolBase
  <2>3. ASSUME NEW outcome, JournalAppend(n, CallFinished(c, outcome), fiber[n]), UNCHANGED executed
        PROVE  Base'
    BY <2>1, <2>3, BusyFiber, FinishesBase
  <2> QED BY <1>1, <2>2, <2>3 DEF Recover
<1>2. ASSUME NEW c \in Calls, StartCall(n, c) PROVE Base'
  BY <1>2, StartsBase DEF StartCall, Busy, Working
<1>3. ASSUME NEW c \in Calls, AnswerUnstarted(n, c) PROVE Base'
  BY <1>3, StartsBase DEF AnswerUnstarted, Busy, Working
<1>4. CASE Recovered(n)
  BY <1>4, BusyGoes DEF Recovered, Busy, Working, Phases, Special
<1>5. CASE BeginTurn(n)
  <2>1. fiber[n].phase \in Busy /\ UNCHANGED <<log, author, executed, storeOnly>>
    BY <1>5 DEF BeginTurn, Busy, Working
  <2>2. CASE Becomes(n, [At(n, "turning") EXCEPT !.head = Len(log)])
    <3> DEFINE x == fiber[n]
               y == [[x EXCEPT !.phase = "turning"] EXCEPT !.head = Len(log)]
    <3>1. /\ FiberOK(n, x, log) /\ x.worker \in Workers /\ n <= MaxAttempts /\ log # <<>>
      BY <2>1, BusyFiber
    <3> HIDE DEF x
    <3>2. Len(log) \in Nat
      BY DEF Base, LogOK, ProperLog
    <3>3. /\ DOMAIN y = DOMAIN x /\ y.phase = "turning" /\ y.worker = x.worker /\ y.reason = x.reason
          /\ y.clock = x.clock /\ y.grip = x.grip /\ y.head = Len(log) /\ y.doing = x.doing
          /\ y.verdict = x.verdict
      BY <3>1 DEF FiberOK, FiberShape, Unclaimed
    <3> HIDE DEF y
    <3>4. FiberOK(n, y, log)
      BY <3>1, <3>2, <3>3, NobodyAssumption, FibersAssumption DEF FiberOK, FiberShape, Claims, Phases, Working
    <3>5. fiber' = [fiber EXCEPT ![n] = y]
      BY <2>2 DEF Becomes, At, x, y
    <3> QED BY <2>1, <3>3, <3>4, <3>5, QuietMove DEF Base, StoreOK, storeOnly, x
  <2>3. CASE GoesTo(n, "unwinding")
    BY <2>1, <2>3, BusyGoes DEF Phases, Working, Special
  <2> QED BY <1>5, <2>2, <2>3 DEF BeginTurn
<1>6. CASE StopLoop(n)
  BY <1>6, BusyGoes, SettlesBase DEF StopLoop, Busy, Working, Phases, Special
<1>7. CASE Complete(n)
  BY <1>7, BusyGoes, SettlesBase DEF Complete, Busy, Working, Phases, Special
<1>8. CASE Gate(n)
  <2> DEFINE c == fiber[n].doing
  <2>1. fiber[n].phase \in Busy /\ c \in Calls /\ UNCHANGED storeOnly
    BY <1>8 DEF Gate, Busy, Working, Base, FibersOK, FiberOK
  <2>2. CASE EnterTool(n, c)
    BY <2>1, <2>2, EnterToolBase
  <2>3. CASE /\ JournalAppend(n, [type |-> "suspended", reason |-> "approval", call |-> c, step |-> None],
                              At(n, "suspending"))
             /\ UNCHANGED executed
    <3> DEFINE rec == [type |-> "suspended", reason |-> "approval", call |-> c, step |-> None]
               f == At(n, "suspending")
    <3>1. WellFormed(rec) /\ rec.type # "run_settled"
      BY DEF WellFormed
    <3>2. FiberOK(n, f, log) /\ f.worker = fiber[n].worker /\ f.phase # "exhausted"
      <4>1. FiberOK(n, f, log) /\ FiberOK(n, fiber[n], log)
        BY <2>1, BusyFiber DEF Phases, Working, Special
      <4> QED BY <4>1 DEF At, FiberOK, FiberShape, Unclaimed
    <3> HIDE DEF rec, f
    <3> QED BY <2>1, <2>3, <3>1, <3>2, JournalMove DEF rec, f, storeOnly
  <2> QED BY <1>8, <2>2, <2>3 DEF Gate
<1>9. CASE FinishCall(n)
  <2> DEFINE f == [At(n, "recovering") EXCEPT !.doing = None]
             c == fiber[n].doing
  <2>1. fiber[n].phase \in Busy /\ c \in Calls
    BY <1>9 DEF FinishCall, Busy, Working, Base, FibersOK, FiberOK
  <2>2. FiberOK(n, f, log) /\ f.worker = fiber[n].worker /\ f.phase = "recovering"
    BY <2>1, BusyWith DEF Phases, Working, Special
  <2> HIDE DEF f, c
  <2> QED BY <1>9, <2>1, <2>2, FinishesBase DEF FinishCall, f, c
<1>10. CASE AnswerNotExecuted(n)
  <2> DEFINE f == At(n, "suspending")
             c == fiber[n].doing
  <2>1. fiber[n].phase \in Busy /\ c \in Calls
    BY <1>10 DEF AnswerNotExecuted, Busy, Working, Base, FibersOK, FiberOK
  <2>2. FiberOK(n, f, log) /\ f.worker = fiber[n].worker /\ f.phase # "exhausted"
    <3>1. FiberOK(n, f, log) /\ FiberOK(n, fiber[n], log)
      BY <2>1, BusyFiber DEF Phases, Working, Special
    <3> QED BY <3>1 DEF At, FiberOK, FiberShape, Unclaimed
  <2> HIDE DEF f, c
  <2> QED BY <1>10, <2>1, <2>2, FinishesBase DEF AnswerNotExecuted, f, c
<1>11. CASE BatchAnswered(n)
  BY <1>11, BusyGoes DEF BatchAnswered, Busy, Working, Phases, Special
<1>12. CASE CancelWork(n)
  <2> DEFINE f == At(n, "cancelled")
             c == fiber[n].doing
  <2>1. fiber[n].phase \in Busy
    BY <1>12 DEF CancelWork, Busy
  <2>2. CASE fiber[n].phase = "executing" /\ JournalAppend(n, CallFinished(c, "aborted"), f)
    <3>1. c \in Calls
      BY <2>2 DEF Base, FibersOK, FiberOK
    <3>2. FiberOK(n, f, log) /\ f.worker = fiber[n].worker /\ f.phase # "exhausted"
      <4>1. FiberOK(n, f, log) /\ FiberOK(n, fiber[n], log)
        BY <2>1, BusyFiber DEF Phases, Working, Special
      <4> QED BY <4>1 DEF At, FiberOK, FiberShape, Unclaimed
    <3> HIDE DEF f, c
    <3> QED BY <1>12, <2>1, <2>2, <3>1, <3>2, FinishesBase DEF CancelWork
  <2>3. CASE GoesTo(n, "cancelled") /\ UNCHANGED <<log, author>>
    BY <1>12, <2>1, <2>3, BusyGoes DEF CancelWork, Phases, Working, Special
  <2> QED BY <1>12, <2>2, <2>3 DEF CancelWork
<1>13. CASE SettleCancelled(n)
  BY <1>13, BusyGoes, SettlesBase DEF SettleCancelled, Busy, Working, Phases, Special
<1>14. CASE Raise(n)
  BY <1>14, BusyGoes DEF Raise, Busy, Working, Phases, Special
<1> QED BY <1>1, <1>2, <1>3, <1>4, <1>5, <1>6, <1>7, <1>8, <1>9, <1>10, <1>11, <1>12, <1>13, <1>14
     DEF LoopStep

-----------------------------------------------------------------------------
(* The consumer *)

\* Every step of the consumer keeps Base: each checks the log it writes to.
LEMMA ConsumerBase ==
  ASSUME Base,
         Admit \/ Interrupt \/ Wake \/ Vanish \/ Expire \/ \E d \in {"approved", "denied"} : Answer(d)
  PROVE  Base'
<1>0. Reduced(log).view = Truth /\ Reduced(log).seen = Reduced(log).seen /\ ViewOK(Truth)
  BY ProperFold DEF Base, LogOK, Truth
<1>1. CASE Admit
  <2> DEFINE rec == [type |-> "run_admitted"]
  <2>1. log = <<>>
    BY <1>1 DEF Admit, Base, LogOK
  <2>2. Accepts(Reduced(log), rec)
    BY <2>1, EmptyLog DEF Accepts, RecordAccepted, EmptyView
  <2>3. WellFormed(rec) /\ rec.type # "run_settled"
    BY DEF WellFormed
  <2> HIDE DEF rec
  <2> QED BY <1>1, <2>2, <2>3, ConsumerMove DEF Admit, rec
<1>2. CASE Interrupt
  <2> DEFINE rec == [type |-> "abort_requested"]
  <2>1. log # <<>> /\ ~Truth.settled /\ consumer' = consumer /\ ConsumerAppend(rec)
    BY <1>2 DEF Interrupt, Unadmitted
  <2>2. Accepts(Reduced(log), rec)
    BY <1>0, <2>1 DEF Accepts, RecordAccepted
  <2>3. WellFormed(rec) /\ rec.type # "run_settled"
    BY DEF WellFormed
  <2>4. consumer' \in {"idle", "waking"}
    BY <2>1 DEF Base, LogOK, StoreOK
  <2> HIDE DEF rec
  <2> QED BY <2>1, <2>2, <2>3, <2>4, ConsumerMove
<1>3. CASE Wake
  <2>1. header' \in Headers /\ (header'.state = "settled" <=> header.state = "settled")
    <3>1. header' = Woken(header)
      BY <1>3 DEF Wake
    <3> QED BY <3>1, WokenOK DEF Base, StoreOK
  <2>2. UNCHANGED <<log, author, fiber, active, process, world, executed>> /\ consumer' = "idle"
    BY <1>3 DEF Wake
  <2> QED BY <2>1, <2>2 DEF Base, LogOK, FibersOK, ActiveOK, StoreOK, Truth
<1>4. CASE Vanish
  <2>1. UNCHANGED <<header, log, author, fiber, active, process, world, executed>> /\ consumer' = "idle"
    BY <1>4 DEF Vanish, fiberVars
  <2> QED BY <2>1 DEF Base, LogOK, FibersOK, ActiveOK, StoreOK, Truth
<1>5. CASE Expire
  <2> DEFINE rec == Settlement("abandoned")
  <2>1. Truth.suspended /\ ~Truth.settled /\ consumer' = consumer /\ ConsumerAppend(rec)
    BY <1>5 DEF Expire
  <2>2. log # <<>>
    BY <1>0, <2>1, EmptyLog DEF EmptyView
  <2>3. WellFormed(rec) /\ rec.type = "run_settled" /\ rec.state = "abandoned"
    BY DEF WellFormed, Settlement
  <2> HIDE DEF rec
  <2>4. Accepts(Reduced(log), rec)
    BY <1>0, <2>1, <2>3 DEF Accepts, RecordAccepted
  <2>5. consumer' \in {"idle", "waking"}
    BY <2>1, <2>2 DEF Base, LogOK, StoreOK
  <2> QED BY <2>1, <2>3, <2>4, <2>5, ConsumerMove
<1>6. ASSUME NEW d, Answer(d) PROVE Base'
  <2> DEFINE rec == [type |-> "resumed", approved |-> d]
  <2>1. Truth.suspended /\ ~Truth.settled /\ consumer' = "waking" /\ ConsumerAppend(rec)
    BY <1>6 DEF Answer
  <2>3. WellFormed(rec) /\ rec.type = "resumed"
    BY DEF WellFormed
  <2> HIDE DEF rec
  <2>4. Accepts(Reduced(log), rec)
    BY <1>0, <2>1, <2>3 DEF Accepts, RecordAccepted
  <2> QED BY <2>1, <2>3, <2>4, ConsumerMove
<1> QED BY <1>1, <1>2, <1>3, <1>4, <1>5, <1>6

-----------------------------------------------------------------------------
(* The Workers *)

\* Supervision lets go of a fiber.
LEMMA Dropped ==
  ASSUME Base, NEW n \in Claims, NEW f, FiberOK(n, f, log'),
         \A m \in Claims : \A g : FiberOK(m, g, log) => FiberOK(m, g, log'),
         fiber' = [fiber EXCEPT ![n] = f], f.worker = fiber[n].worker,
         NEW w, active' = [active EXCEPT ![w] = 0]
  PROVE  FibersOK' /\ ActiveOK'
<1>1. /\ FibersOK' /\ fiber'[n] = f
      /\ \A m \in Claims \ {n} : fiber'[m] = fiber[m]
  BY OneFiber
<1>2. \A m \in Claims : fiber'[m].worker = fiber[m].worker
  BY <1>1
<1>3. /\ active' \in [Workers -> 0..MaxClaims]
      /\ \A v \in Workers : active'[v] \in {0, active[v]}
  <2>1. 0 \in 0..MaxClaims /\ active \in [Workers -> 0..MaxClaims]
    BY FibersAssumption DEF Base, ActiveOK
  <2> QED BY <2>1
<1>4. \A v \in Workers : active[v] # 0 => active[v] \in Claims
  BY FibersAssumption DEF Base, ActiveOK, Claims
<1>5. ActiveOK'
  BY <1>2, <1>3, <1>4 DEF Base, ActiveOK
<1> QED BY <1>1, <1>5

\* A fiber that was claimed can end at any moment.
LEMMA OverOK ==
  ASSUME Base, NEW n \in Claims, fiber[n].phase # "unclaimed"
  PROVE  /\ FiberOK(n, Over(n), log) /\ Over(n).worker = fiber[n].worker
         /\ FiberOK(n, [Over(n) EXCEPT !.grip = 0], log)
         /\ [Over(n) EXCEPT !.grip = 0].worker = fiber[n].worker
<1> DEFINE x == fiber[n]
<1>1. FiberOK(n, x, log) /\ Len(log) \in Nat
  BY DEF Base, FibersOK, LogOK, ProperLog
<1> DEFINE y == Over(n)
           z == [y EXCEPT !.grip = 0]
<1>2. /\ DOMAIN y = DOMAIN Unclaimed /\ y.worker = x.worker /\ y.phase = "over" /\ y.reason = "none"
      /\ y.clock = "ahead" /\ y.grip = x.grip /\ y.head = 0 /\ y.doing = None /\ y.verdict = "none"
  BY DEF Over, Unclaimed
<1> HIDE DEF x, y
<1>3. /\ DOMAIN z = DOMAIN Unclaimed /\ z.worker = x.worker /\ z.phase = "over" /\ z.reason = "none"
      /\ z.clock = "ahead" /\ z.grip = 0 /\ z.head = 0 /\ z.doing = None /\ z.verdict = "none"
  BY <1>2 DEF Unclaimed
<1> HIDE DEF z
<1>4. FiberOK(n, y, log) /\ FiberOK(n, z, log)
  BY <1>1, <1>2, <1>3, FibersAssumption DEF FiberOK, FiberShape, Unclaimed, Phases, Busy, Working,
        Reasons, Verdicts, Claims, x
<1> QED BY <1>2, <1>3, <1>4 DEF x, y, z

\* claim_due keeps Base.
LEMMA ClaimBase ==
  ASSUME Base, NEW w \in Workers, Claim(w), UNCHANGED <<executed, consumer>>
  PROVE  Base'
<1> DEFINE n == IF header.attempt_count < world.claims THEN header.attempt_count + 1 ELSE world.claims
           f(p) == [Unclaimed EXCEPT !.worker = w, !.phase = p]
<1>1. n \in Claims /\ n \in Nat /\ w # Nobody
  <2>1. header.attempt_count \in Nat /\ world.claims \in 1..MaxClaims /\ MaxClaims \in Nat
    BY FibersAssumption DEF Base, StoreOK, Headers
  <2> QED BY <2>1, NobodyAssumption DEF Claims
<1>2. /\ Claimable(header)
      /\ fiber[n].phase = "unclaimed" \/ (n > MaxAttempts /\ fiber[n].phase = "over")
      /\ header' = [Claimed(header, w) EXCEPT !.attempt_count = n]
      /\ \/ n <= MaxAttempts /\ fiber' = [fiber EXCEPT ![n] = f("claimed")]
            /\ active' = [active EXCEPT ![w] = n]
         \/ n > MaxAttempts /\ fiber' = [fiber EXCEPT ![n] = f("exhausted")] /\ active' = active
      /\ UNCHANGED <<log, author, process, world>>
  BY DEF Claim, Becomes
<1> HIDE DEF n
<1>3. MaxAttempts \in Nat /\ Len(log) \in Nat
  BY FibersAssumption DEF Base, LogOK, ProperLog
<1>4. ASSUME NEW p \in {"claimed", "exhausted"}, p = "claimed" <=> n <= MaxAttempts
      PROVE  FiberOK(n, f(p), log) /\ f(p).worker = w
  <2> DEFINE y == f(p)
  <2>1. /\ DOMAIN y = DOMAIN Unclaimed /\ y.worker = w /\ y.phase = p /\ y.reason = "none"
        /\ y.clock = "ahead" /\ y.grip = 0 /\ y.head = 0 /\ y.doing = None /\ y.verdict = "none"
    BY DEF Unclaimed
  <2> HIDE DEF y
  <2>2. FiberOK(n, y, log) /\ y.worker = w
    BY <1>1, <1>3, <1>4, <2>1 DEF FiberOK, FiberShape, Unclaimed, Phases, Busy, Working,
        Reasons, Verdicts
  <2> QED BY <2>2 DEF y
<1>5. fiber[n].phase = "unclaimed" => fiber[n].worker = Nobody
  BY <1>1 DEF Base, FibersOK, FiberOK
<1>6. \A v \in Workers : active[v] # 0 => active[v] # n /\ active[v] \in Claims
  <2>1. \A v \in Workers : active[v] # 0 => active[v] <= MaxAttempts /\ fiber[active[v]].worker # Nobody
                            /\ active[v] \in Claims
    BY NobodyAssumption, FibersAssumption DEF Base, ActiveOK, Claims
  <2> QED BY <1>1, <1>2, <1>3, <1>5, <2>1
<1>7. FibersOK' /\ ActiveOK'
  <2>1. CASE n <= MaxAttempts
    <3> DEFINE y == f("claimed")
    <3>1. FiberOK(n, y, log) /\ y.worker = w
      BY <1>4, <2>1
    <3>2. fiber' = [fiber EXCEPT ![n] = y] /\ active' = [active EXCEPT ![w] = n] /\ log' = log
      BY <1>1, <1>2, <1>3, <2>1
    <3> HIDE DEF y
    <3>3. FibersOK' /\ fiber'[n] = y /\ \A m \in Claims \ {n} : fiber'[m] = fiber[m]
      BY <1>1, <3>1, <3>2, OneFiber
    <3>4. ActiveOK'
      BY <1>1, <1>6, <2>1, <3>1, <3>2, <3>3 DEF Base, ActiveOK, Claims
    <3> QED BY <3>3, <3>4
  <2>2. CASE ~(n <= MaxAttempts)
    <3> DEFINE y == f("exhausted")
    <3>1. FiberOK(n, y, log) /\ y.worker = w
      BY <1>4, <2>2
    <3>2. fiber' = [fiber EXCEPT ![n] = y] /\ active' = active /\ log' = log
      BY <1>1, <1>2, <1>3, <2>2
    <3> HIDE DEF y
    <3>3. FibersOK' /\ fiber'[n] = y /\ \A m \in Claims \ {n} : fiber'[m] = fiber[m]
      BY <1>1, <3>1, <3>2, OneFiber
    <3>4. ActiveOK'
      BY <1>1, <1>6, <3>1, <3>2, <3>3 DEF Base, ActiveOK, Claims
    <3> QED BY <3>3, <3>4
  <2> QED BY <2>1, <2>2
<1>8. header' \in Headers /\ header'.state = "running"
  BY <1>1, <1>2, HeaderOps DEF Base, StoreOK
<1> QED BY <1>2, <1>7, <1>8 DEF Base, LogOK, StoreOK, Truth

\* settle_unless_settled keeps Base: it writes over a log that is not settled,
\* and finds the settlement otherwise.
LEMMA SettleMove ==
  ASSUME Base, NEW n \in Claims, NEW state, state # "force_settled", log # <<>>,
         SettleUnlessSettled(n, state), NEW f, f.worker = fiber[n].worker,
         FiberOK(n, [f EXCEPT !.verdict = "runnable"], log), FiberShape(f),
         f.phase = "releasing" => f.verdict # "none",
         fiber' = [fiber EXCEPT ![n] = f], UNCHANGED <<header, active, process, world, executed, consumer>>
  PROVE  Base'
<1> DEFINE rec == Settlement(state)
           y == [f EXCEPT !.verdict = "runnable"]
<1>1. /\ DOMAIN y = DOMAIN f /\ y.phase = f.phase /\ y.worker = f.worker /\ y.reason = f.reason
      /\ y.clock = f.clock /\ y.grip = f.grip /\ y.head = f.head /\ y.doing = f.doing
  BY DEF FiberShape, Unclaimed
<1> HIDE DEF y
<1>2. WellFormed(rec) /\ rec.type = "run_settled" /\ rec.state = state
  BY DEF WellFormed, Settlement
<1>3. executed' \in [Calls -> Nat] /\ consumer' = consumer /\ consumer \in {"idle", "waking"}
  BY DEF Base, StoreOK, LogOK
<1>4. CASE ~Truth.settled /\ LogAppend(rec, n)
  <2>1. log' = Append(log, rec) /\ author' = Append(author, n)
    BY <1>4 DEF LogAppend
  <2> HIDE DEF rec
  <2>2. Accepts(Reduced(log), rec)
    BY <1>2 DEF Accepts, RecordAccepted
  <2>3. FiberOK(n, y, log') /\ Effect(Truth, rec, Truth')
    BY <1>2, <1>3, <2>1, <2>2, Written DEF y
  <2>4. Truth'.settled
    BY <1>2, <2>3 DEF Effect
  <2>5. FiberOK(n, f, log')
    BY <1>1, <2>3, <2>4 DEF FiberOK, Truth
  <2> QED BY <1>2, <1>3, <2>1, <2>2, <2>5, WriteMove
<1>5. CASE Truth.settled /\ UNCHANGED <<log, author>>
  <2>1. FiberOK(n, f, log)
    BY <1>1, <1>5 DEF FiberOK, Truth, y
  <2> QED BY <1>3, <1>5, <2>1, QuietMove DEF Base, StoreOK
<1> QED BY <1>4, <1>5 DEF SettleUnlessSettled

\* Every step of execute outside the loop keeps Base.
LEMMA FiberStepBase ==
  ASSUME Base, NEW n \in Claims, FiberStep(n), UNCHANGED <<executed, consumer>>
  PROVE  Base'
<1> DEFINE x == fiber[n]
<1>0. FiberOK(n, x, log) /\ Len(log) \in Nat /\ DOMAIN x = DOMAIN Unclaimed
  BY DEF Base, FibersOK, FiberOK, FiberShape, LogOK, ProperLog
<1>01. header \in Headers /\ (header.state = "settled" => Truth.settled) /\ executed' \in [Calls -> Nat]
  BY DEF Base, StoreOK
<1>1. CASE FailExhausted(n)
  <2>1. x.phase = "exhausted" /\ UNCHANGED <<header, active, process, world, executed, consumer>>
    BY <1>1 DEF FailExhausted
  <2>2. CASE /\ ~Unadmitted /\ SettleUnlessSettled(n, "failed")
             /\ Becomes(n, [At(n, "releasing") EXCEPT !.verdict = "settled"])
    <3> DEFINE f == [At(n, "releasing") EXCEPT !.verdict = "settled"]
               g == [f EXCEPT !.verdict = "runnable"]
    <3>1. /\ DOMAIN f = DOMAIN x /\ f.phase = "releasing" /\ f.worker = x.worker /\ f.reason = x.reason
          /\ f.clock = x.clock /\ f.grip = x.grip /\ f.head = x.head /\ f.doing = x.doing
          /\ f.verdict = "settled"
      BY <1>0 DEF At, Unclaimed
    <3>2. fiber' = [fiber EXCEPT ![n] = f]
      BY <2>2 DEF Becomes
    <3> HIDE DEF f, x
    <3>3. /\ DOMAIN g = DOMAIN x /\ g.phase = "releasing" /\ g.worker = x.worker /\ g.reason = x.reason
          /\ g.clock = x.clock /\ g.grip = x.grip /\ g.head = x.head /\ g.doing = x.doing
          /\ g.verdict = "runnable"
      BY <1>0, <3>1 DEF Unclaimed
    <3> HIDE DEF g
    <3>4. FiberOK(n, g, log) /\ FiberShape(f)
      BY <1>0, <2>1, <3>1, <3>3, FibersAssumption DEF FiberOK, FiberShape, Phases, Busy, Working, Verdicts, Claims
    <3> QED BY <2>1, <2>2, <3>1, <3>2, <3>4, SettleMove DEF g, Unadmitted, x
  <2>3. CASE Becomes(n, Over(n)) /\ UNCHANGED <<log, author>>
    <3>1. FiberOK(n, Over(n), log) /\ Over(n).worker = fiber[n].worker
      BY <2>1, OverOK
    <3> QED BY <1>01, <2>1, <2>3, <3>1, QuietMove DEF Becomes
  <2> QED BY <1>1, <2>2, <2>3 DEF FailExhausted
<1>2. CASE Open(n)
  <2>1. /\ x.phase = "claimed" /\ UNCHANGED <<header, log, author, active, process, world, executed, consumer>>
        /\ fiber' = [fiber EXCEPT ![n] = [At(n, AfterOpen) EXCEPT !.head = Len(log)]]
    BY <1>2 DEF Open, Becomes
  <2> DEFINE f == [At(n, AfterOpen) EXCEPT !.head = Len(log)]
  <2>2. /\ DOMAIN f = DOMAIN x /\ f.phase = AfterOpen /\ f.worker = x.worker /\ f.reason = x.reason
        /\ f.clock = x.clock /\ f.grip = x.grip /\ f.head = Len(log) /\ f.doing = x.doing
        /\ f.verdict = x.verdict
    BY <1>0 DEF At, Unclaimed
  <2>3. AfterOpen \in {"failing", "unwinding", "opened"} /\ (AfterOpen = "opened" => log # <<>>)
    BY DEF AfterOpen, Unadmitted
  <2> HIDE DEF f, x
  <2>4. FiberOK(n, f, log)
    BY <1>0, <2>1, <2>2, <2>3 DEF FiberOK, FiberShape, Phases, Busy, Working, Unadmitted
  <2> QED BY <1>01, <2>1, <2>2, <2>4, QuietMove DEF f, x
<1>3. CASE Begin(n)
  <2> DEFINE rec == [type |-> "attempt_started", number |-> View(n).attempt_count + 1]
             f == At(n, "recovering")
  <2>1. x.phase \in Busy /\ JournalAppend(n, rec, f) /\ UNCHANGED <<header, active, process, world>>
    BY <1>3 DEF Begin, Busy
  <2>2. WellFormed(rec) /\ rec.type # "run_settled"
    BY DEF WellFormed
  <2>3. FiberOK(n, f, log) /\ f.worker = x.worker /\ f.phase # "exhausted"
    <3>1. FiberOK(n, f, log)
      BY <2>1, BusyFiber DEF Phases, Working, Special
    <3> QED BY <1>0, <3>1 DEF At, Unclaimed
  <2> HIDE DEF rec, f
  <2> QED BY <2>1, <2>2, <2>3, JournalMove
<1>4. CASE SettleFailure(n)
  <2> DEFINE f == At(n, "unwinding")
             g == [f EXCEPT !.verdict = "runnable"]
  <2>1. x.phase = "failing" /\ UNCHANGED <<header, active, process, world, executed, consumer>>
        /\ fiber' = [fiber EXCEPT ![n] = f]
    BY <1>4 DEF SettleFailure, GoesTo, Becomes
  <2>2. /\ DOMAIN f = DOMAIN x /\ f.phase = "unwinding" /\ f.worker = x.worker /\ f.reason = x.reason
        /\ f.clock = x.clock /\ f.grip = x.grip /\ f.head = x.head /\ f.doing = x.doing
        /\ f.verdict = x.verdict
    BY <1>0 DEF At, Unclaimed
  <2> HIDE DEF f, x
  <2>3. /\ DOMAIN g = DOMAIN x /\ g.phase = "unwinding" /\ g.worker = x.worker /\ g.reason = x.reason
        /\ g.clock = x.clock /\ g.grip = x.grip /\ g.head = x.head /\ g.doing = x.doing
        /\ g.verdict = "runnable"
    BY <1>0, <2>2 DEF Unclaimed
  <2> HIDE DEF g
  <2>4. FiberOK(n, g, log) /\ FiberOK(n, f, log)
    BY <1>0, <2>1, <2>2, <2>3 DEF FiberOK, FiberShape, Phases, Busy, Working, Verdicts
  <2>5. CASE ~Unadmitted /\ SettleUnlessSettled(n, "failed")
    BY <2>1, <2>2, <2>4, <2>5, SettleMove DEF g, Unadmitted, FiberOK, x
  <2>6. CASE UNCHANGED <<log, author>>
    BY <1>01, <2>1, <2>2, <2>4, <2>6, QuietMove DEF x
  <2> QED BY <1>4, <2>5, <2>6 DEF SettleFailure
<1>5. CASE Unwind(n)
  <2>1. x.phase = "unwinding" /\ UNCHANGED <<header, log, author, process, world>>
        /\ active' = [active EXCEPT ![x.worker] = 0]
        /\ \/ fiber' = [fiber EXCEPT ![n] = Over(n)]
           \/ fiber' = [fiber EXCEPT ![n] = [At(n, "releasing") EXCEPT !.verdict = VerdictOf(Truth)]]
    BY <1>5 DEF Unwind, Becomes
  <2> DEFINE f == [At(n, "releasing") EXCEPT !.verdict = VerdictOf(Truth)]
  <2>2. /\ DOMAIN f = DOMAIN x /\ f.phase = "releasing" /\ f.worker = x.worker /\ f.reason = x.reason
        /\ f.clock = x.clock /\ f.grip = x.grip /\ f.head = x.head /\ f.doing = x.doing
        /\ f.verdict = VerdictOf(Truth)
    BY <1>0 DEF At, Unclaimed
  <2>3. VerdictOf(Truth) \in Verdicts \ {"none"} /\ (VerdictOf(Truth) = "settled" => Truth.settled)
    BY DEF VerdictOf, Verdicts
  <2> HIDE DEF f
  <2>4. FiberOK(n, f, log)
    <3> HIDE DEF x
    <3> QED BY <1>0, <2>1, <2>2, <2>3 DEF FiberOK, FiberShape, Phases, Busy, Working, Truth
  <2>5. FiberOK(n, Over(n), log) /\ Over(n).worker = x.worker
    BY <2>1, OverOK
  <2>6. FibersOK' /\ ActiveOK'
    BY <2>1, <2>2, <2>4, <2>5, Dropped DEF f
  <2> QED BY <1>01, <2>1, <2>6 DEF Base, LogOK, StoreOK, Truth
<1>6. CASE Release(n)
  <2>1. x.phase = "releasing" /\ UNCHANGED <<log, author, active, process, world>>
        /\ header' = Released(header, x.worker, x.verdict)
        /\ fiber' = [fiber EXCEPT ![n] = Over(n)]
    BY <1>6 DEF Release, Becomes
  <2>2. FiberOK(n, Over(n), log) /\ Over(n).worker = x.worker
    BY <2>1, OverOK
  <2>3. header' \in Headers /\ (header'.state = "settled" => Truth.settled)
    <3>1. x.verdict \in RunStates
      BY <1>0, <2>1 DEF FiberOK, FiberShape, Verdicts, RunStates
    <3>2. header' \in Headers /\ header'.state \in {header.state, x.verdict}
      BY <1>01, <2>1, <3>1, ReleasedOK
    <3> QED BY <1>0, <1>01, <3>2 DEF FiberOK, Truth
  <2> QED BY <1>01, <2>1, <2>2, <2>3, QuietMove
<1> QED BY <1>1, <1>2, <1>3, <1>4, <1>5, <1>6 DEF FiberStep

\* Firing the cancel token changes nothing but the reason.
LEMMA FiredOK ==
  ASSUME Base, NEW n \in Claims, fiber[n].phase # "unclaimed", NEW reason \in Reasons
  PROVE  LET f == Fired(fiber[n], reason)
             g == [f EXCEPT !.clock = "fired"]
         IN /\ FiberOK(n, f, log) /\ f.worker = fiber[n].worker
            /\ f.phase = fiber[n].phase /\ f.head = fiber[n].head /\ f.doing = fiber[n].doing
            /\ f.grip = fiber[n].grip /\ f.clock = fiber[n].clock
            /\ FiberOK(n, g, log) /\ g.worker = fiber[n].worker
            /\ g.phase = fiber[n].phase /\ g.head = fiber[n].head /\ g.doing = fiber[n].doing
<1> DEFINE x == fiber[n]
           f == Fired(x, reason)
           g == [f EXCEPT !.clock = "fired"]
<1>1. FiberOK(n, x, log) /\ DOMAIN x = DOMAIN Unclaimed
  BY DEF Base, FibersOK, FiberOK, FiberShape
<1> HIDE DEF x
<1>2. /\ DOMAIN f = DOMAIN x /\ f.phase = x.phase /\ f.worker = x.worker /\ f.reason \in Reasons
      /\ f.clock = x.clock /\ f.grip = x.grip /\ f.head = x.head /\ f.doing = x.doing
      /\ f.verdict = x.verdict
  BY <1>1 DEF Fired, Unclaimed, FiberOK, FiberShape
<1> HIDE DEF f
<1>3. /\ DOMAIN g = DOMAIN x /\ g.phase = x.phase /\ g.worker = x.worker /\ g.reason \in Reasons
      /\ g.clock = "fired" /\ g.grip = x.grip /\ g.head = x.head /\ g.doing = x.doing
      /\ g.verdict = x.verdict
  BY <1>1, <1>2 DEF Unclaimed
<1> HIDE DEF g
<1>4. FiberOK(n, f, log) /\ FiberOK(n, g, log)
  BY <1>1, <1>2, <1>3 DEF FiberOK, FiberShape
<1> QED BY <1>2, <1>3, <1>4 DEF f, g, x

\* What _tick and _close look at is a fiber of that Worker's.
LEMMA SupervisedFiber ==
  ASSUME Base, NEW n \in Claims, NEW w \in Workers, Supervised(w, n)
  PROVE  fiber[n].phase # "unclaimed" /\ n <= MaxAttempts /\ fiber[n].worker = w
<1>1. active[w] = n /\ n # 0
  BY DEF Supervised, Claims
<1> QED BY <1>1, NobodyAssumption DEF Base, ActiveOK, FibersOK, FiberOK

\* The state _force_settle loaded: its own writes and what others may write
\* have changed nothing in it that it acts on.
LEMMA GripOK ==
  ASSUME Base, NEW n \in Claims, fiber[n].grip > 0, AllExternal(SubSeq(log, fiber[n].grip + 1, Len(log)))
  PROVE  Unmoved(Gripped(n), Truth)
<1>1. fiber[n].grip \in 0..Len(log)
  BY DEF Base, FibersOK, FiberOK, FiberShape, LogOK, ProperLog
<1>2. Unmoved(Prefix(log, fiber[n].grip).view, Reduced(log).view)
  BY <1>1, ExternalKeeps DEF Base, LogOK
<1> QED BY <1>2 DEF Gripped, Truth, Prefix, Reduced

\* _force_settle closes a call or settles, and keeps Base.
LEMMA ForceCloseBase ==
  ASSUME Base, NEW n \in Claims, ForceClose(n), UNCHANGED <<executed, consumer>>
  PROVE  Base'
<1> DEFINE x == fiber[n]
<1>0. FiberOK(n, x, log) /\ Len(log) \in Nat /\ DOMAIN x = DOMAIN Unclaimed /\ x.grip > 0
  BY DEF Base, FibersOK, FiberOK, FiberShape, LogOK, ProperLog, ForceClose, ForceSettling
<1>1. ~Gripped(n).settled /\ UNCHANGED <<header, active, process, world, executed, consumer>>
  BY DEF ForceClose
<1>2. executed' \in [Calls -> Nat] /\ consumer' \in {"idle", "waking"} /\ header \in Headers
      /\ (header.state = "settled" => Truth.settled)
  <2>1. Len(log) > 0
    BY <1>0 DEF FiberOK, FiberShape
  <2>2. log # <<>>
    <3>1. Len(<<>>) = 0
      OBVIOUS
    <3> QED BY <2>1, <3>1
  <2> QED BY <1>1, <2>2 DEF Base, StoreOK, LogOK
<1>3. PICK rec \in ForcedRecords(Gripped(n)) :
       \/ /\ AllExternal(SubSeq(log, fiber[n].grip + 1, Len(log)))
          /\ LogAppend(rec, n)
          /\ Becomes(n, [fiber[n] EXCEPT !.grip = Len(log) + 1])
       \/ /\ Becomes(n, [fiber[n] EXCEPT !.grip = 0])
          /\ UNCHANGED <<log, author>>
  BY DEF ForceClose
<1> DEFINE f == [x EXCEPT !.grip = Len(log) + 1]
           g == [x EXCEPT !.grip = 0]
<1>4. CASE /\ AllExternal(SubSeq(log, fiber[n].grip + 1, Len(log)))
           /\ LogAppend(rec, n) /\ Becomes(n, f)
  <2>1. Unmoved(Gripped(n), Truth)
    BY <1>0, <1>4, GripOK
  <2>2. \/ /\ rec.type = "tool_call_finished" /\ rec.call \in Gripped(n).open_tool_calls
        \/ /\ rec.type = "run_settled" /\ Gripped(n).open_tool_calls = {}
    <3> DEFINE v == Gripped(n)
               A == [type : {"tool_call_finished"}, call : v.open_tool_calls, outcome : {"unknown"},
                     answer : {None}, elided : {FALSE}]
               B == {Settlement(s) : s \in IF v.open_tool_calls = {} THEN {"force_settled"} ELSE {}}
    <3>1. rec \in A \cup B
      BY <1>3 DEF ForcedRecords
    <3>2. CASE rec \in A
      BY <3>2
    <3>3. CASE rec \in B
      <4>1. PICK s \in IF v.open_tool_calls = {} THEN {"force_settled"} ELSE {} : rec = Settlement(s)
        BY <3>3
      <4> QED BY <4>1 DEF Settlement
    <3> HIDE DEF A, B
    <3> QED BY <3>1, <3>2, <3>3
  <2>3. ViewOK(Truth)
    BY ProperFold DEF Base, LogOK, Truth
  <2>4. WellFormed(rec)
    BY <2>1, <2>2, <2>3 DEF WellFormed, Unmoved, ViewOK
  <2>5. Accepts(Reduced(log), rec)
    BY <1>1, <2>1, <2>2 DEF Accepts, RecordAccepted, Unmoved, Truth
  <2>6. log' = Append(log, rec) /\ author' = Append(author, n) /\ fiber' = [fiber EXCEPT ![n] = f]
    BY <1>4 DEF LogAppend, Becomes
  <2>7. rec.type = "run_settled" => Truth.open_tool_calls = {}
    BY <2>1, <2>2 DEF Unmoved
  <2>8. FiberOK(n, x, log') /\ Len(log') = Len(log) + 1
    BY <1>0, <1>2, <2>4, <2>5, <2>6, <2>7, Written
  <2>9. /\ DOMAIN f = DOMAIN x /\ f.phase = x.phase /\ f.worker = x.worker /\ f.reason = x.reason
        /\ f.clock = x.clock /\ f.grip = Len(log) + 1 /\ f.head = x.head /\ f.doing = x.doing
        /\ f.verdict = x.verdict
    BY <1>0 DEF Unclaimed
  <2> HIDE DEF f, x
  <2>10. FiberOK(n, f, log')
    BY <1>0, <2>8, <2>9 DEF FiberOK, FiberShape
  <2> QED BY <1>1, <1>2, <2>4, <2>5, <2>6, <2>7, <2>9, <2>10, WriteMove DEF x
<1>5. CASE Becomes(n, g) /\ UNCHANGED <<log, author>>
  <2>9. /\ DOMAIN g = DOMAIN x /\ g.phase = x.phase /\ g.worker = x.worker /\ g.reason = x.reason
        /\ g.clock = x.clock /\ g.grip = 0 /\ g.head = x.head /\ g.doing = x.doing
        /\ g.verdict = x.verdict
    BY <1>0 DEF Unclaimed
  <2>1. fiber' = [fiber EXCEPT ![n] = g]
    BY <1>5 DEF Becomes
  <2> HIDE DEF g, x
  <2>10. FiberOK(n, g, log)
    BY <1>0, <2>9 DEF FiberOK, FiberShape
  <2> QED BY <1>1, <1>2, <1>5, <2>1, <2>9, <2>10, QuietMove DEF x
<1> QED BY <1>3, <1>4, <1>5

\* _force_settle releases and forgets the fiber.
LEMMA ForceForgetBase ==
  ASSUME Base, NEW n \in Claims, ForceForget(n), UNCHANGED <<executed, consumer>>
  PROVE  Base'
<1> DEFINE x == fiber[n]
<1>0. FiberOK(n, x, log) /\ Len(log) \in Nat /\ DOMAIN x = DOMAIN Unclaimed /\ x.grip > 0
      /\ x.grip \in 0..Len(log)
  BY DEF Base, FibersOK, FiberOK, FiberShape, LogOK, ProperLog, ForceForget, ForceSettling
<1>1. /\ Gripped(n).settled /\ UNCHANGED <<log, author, process, world, executed, consumer>>
      /\ active' = [active EXCEPT ![x.worker] = 0]
      /\ header' = Released(header, x.worker, "settled")
  BY DEF ForceForget
<1>2. Truth.settled
  <2>1. Later(Prefix(log, x.grip).view, Reduced(log).view)
    BY <1>0, Lasting DEF Base, LogOK
  <2> QED BY <1>1, <2>1 DEF Later, Gripped, Truth, Prefix, Reduced
<1>3. header' \in Headers
  BY <1>1, ReleasedOK DEF Base, StoreOK, RunStates
<1>4. PICK phase \in CancelledPhases(x.phase) :
        fiber' = [fiber EXCEPT ![n] = [IF phase = "over" THEN Over(n) ELSE At(n, phase) EXCEPT !.grip = 0]]
  BY DEF ForceForget, Becomes
<1> DEFINE f == [IF phase = "over" THEN Over(n) ELSE At(n, phase) EXCEPT !.grip = 0]
<1>5. FiberOK(n, f, log) /\ f.worker = x.worker
  <2>1. CASE phase = "over"
    <3>1. f = [Over(n) EXCEPT !.grip = 0]
      BY <2>1
    <3>2. x.phase # "unclaimed"
      BY <2>1, <1>4 DEF CancelledPhases
    <3> QED BY <3>1, <3>2, OverOK
  <2>2. CASE phase # "over"
    <3> DEFINE y == [x EXCEPT !.phase = phase]
               z == [y EXCEPT !.grip = 0]
    <3>1. f = z
      BY <2>2 DEF At
    <3> HIDE DEF x
    <3>2. /\ DOMAIN y = DOMAIN x /\ y.phase = phase /\ y.worker = x.worker /\ y.reason = x.reason
          /\ y.clock = x.clock /\ y.grip = x.grip /\ y.head = x.head /\ y.doing = x.doing
          /\ y.verdict = x.verdict
      BY <1>0 DEF Unclaimed
    <3> HIDE DEF y
    <3>3. /\ DOMAIN z = DOMAIN x /\ z.phase = phase /\ z.worker = x.worker /\ z.reason = x.reason
          /\ z.clock = x.clock /\ z.grip = 0 /\ z.head = x.head /\ z.doing = x.doing
          /\ z.verdict = x.verdict
      BY <1>0, <3>2 DEF Unclaimed
    <3>4. phase = x.phase \/ (x.phase \in {"claimed", "opened", "failing"} /\ phase = "unwinding")
      BY <2>2, <1>4 DEF CancelledPhases
    <3> HIDE DEF z, f
    <3>5. FiberOK(n, z, log)
      BY <1>0, <3>3, <3>4 DEF FiberOK, FiberShape, Phases, Busy, Working
    <3> QED BY <3>1, <3>3, <3>5
  <2> QED BY <2>1, <2>2
<1> HIDE DEF f
<1>6. FibersOK' /\ ActiveOK'
  BY <1>1, <1>4, <1>5, Dropped DEF f
<1> QED BY <1>1, <1>2, <1>3, <1>6 DEF Base, LogOK, StoreOK, Truth

\* A crash or a shutdown of a Worker keeps Base.
LEMMA CrashBase ==
  ASSUME Base, NEW w \in Workers, Crash(w) \/ Stop(w), UNCHANGED <<executed, consumer>>
  PROVE  Base'
<1>1. UNCHANGED <<header, log, author, world>> /\ DOMAIN fiber' = Claims
      /\ process' \in [Workers -> {"up", "stopping", "down"}]
  BY DEF Crash, Stop, Base, StoreOK
<1>2. ASSUME NEW m \in Claims
      PROVE  FiberOK(m, fiber'[m], log) /\ fiber'[m].worker = fiber[m].worker
  <2>0. FiberOK(m, fiber[m], log)
    BY DEF Base, FibersOK
  <2>1. CASE Crash(w) /\ fiber[m].worker = w
    <3>1. fiber'[m] = [Over(m) EXCEPT !.grip = 0]
      BY <2>1 DEF Crash
    <3>2. fiber[m].phase # "unclaimed"
      BY <2>0, <2>1, NobodyAssumption DEF FiberOK
    <3> QED BY <3>1, <3>2, OverOK
  <2>2. CASE Stop(w) /\ active[w] = m
    <3>1. fiber'[m] = Fired(fiber[m], "shutdown")
      BY <2>2 DEF Stop
    <3>2. fiber[m].phase # "unclaimed"
      BY <2>0, <2>2, NobodyAssumption DEF FiberOK, Base, ActiveOK, Claims
    <3> QED BY <3>1, <3>2, FiredOK DEF Reasons
  <2>3. CASE fiber'[m] = fiber[m]
    BY <2>0, <2>3
  <2> QED BY <2>1, <2>2, <2>3 DEF Crash, Stop
<1>3. FibersOK'
  BY <1>1, <1>2 DEF FibersOK
<1>4. ActiveOK'
  <2>1. /\ active' \in [Workers -> 0..MaxClaims]
        /\ \A v \in Workers : active'[v] \in {0, active[v]}
    <3>1. 0 \in 0..MaxClaims /\ active \in [Workers -> 0..MaxClaims]
      BY FibersAssumption DEF Base, ActiveOK
    <3> QED BY <3>1 DEF Crash, Stop
  <2>2. \A v \in Workers : active[v] # 0 => active[v] \in Claims
    BY FibersAssumption DEF Base, ActiveOK, Claims
  <2> QED BY <1>2, <2>1, <2>2 DEF Base, ActiveOK
<1> QED BY <1>1, <1>3, <1>4 DEF Base, LogOK, StoreOK, Truth

\* Every step of the Workers keeps Base.
LEMMA WorkerBase ==
  ASSUME Base, WorkersStep
  PROVE  Base'
<1>0. UNCHANGED <<executed, consumer>> /\ executed' \in [Calls -> Nat] /\ header \in Headers
      /\ (header.state = "settled" => Truth.settled) /\ Len(log) \in Nat
  BY DEF WorkersStep, Base, StoreOK, LogOK, ProperLog
<1>1. ASSUME NEW w \in Workers, Claim(w) \/ Crash(w) \/ Stop(w) PROVE Base'
  BY <1>0, <1>1, ClaimBase, CrashBase
<1>2. ASSUME NEW w \in Workers, NEW n \in Claims, FireDeadline(w, n) PROVE Base'
  <2>1. /\ fiber' = [fiber EXCEPT ![n] = [Fired(fiber[n], "deadline") EXCEPT !.clock = "fired"]]
        /\ UNCHANGED <<header, log, author, active, process, world>>
    BY <1>2 DEF FireDeadline, Becomes
  <2>2. fiber[n].phase # "unclaimed"
    BY <1>2, SupervisedFiber DEF FireDeadline
  <2> DEFINE f == [Fired(fiber[n], "deadline") EXCEPT !.clock = "fired"]
  <2>3. FiberOK(n, f, log) /\ f.worker = fiber[n].worker
    BY <2>2, FiredOK DEF Reasons
  <2> HIDE DEF f
  <2> QED BY <1>0, <2>1, <2>3, QuietMove DEF f
<1>3. ASSUME NEW w \in Workers, NEW n \in Claims, GraceEnds(w, n) PROVE Base'
  <2> DEFINE x == fiber[n]
             f == [x EXCEPT !.grip = Len(log)]
  <2>1. /\ fiber' = [fiber EXCEPT ![n] = f]
        /\ UNCHANGED <<header, log, author, active, process, world>>
    BY <1>3 DEF GraceEnds, Becomes
  <2>2. FiberOK(n, x, log) /\ DOMAIN x = DOMAIN Unclaimed
    BY DEF Base, FibersOK, FiberOK, FiberShape
  <2>3. /\ DOMAIN f = DOMAIN x /\ f.phase = x.phase /\ f.worker = x.worker /\ f.reason = x.reason
        /\ f.clock = x.clock /\ f.grip = Len(log) /\ f.head = x.head /\ f.doing = x.doing
        /\ f.verdict = x.verdict
    BY <2>2 DEF Unclaimed
  <2> HIDE DEF f, x
  <2>4. FiberOK(n, f, log)
    BY <1>0, <2>2, <2>3 DEF FiberOK, FiberShape
  <2> QED BY <1>0, <2>1, <2>3, <2>4, QuietMove DEF x
<1>4. ASSUME NEW n \in Claims, FiberStep(n) PROVE Base'
  BY <1>0, <1>4, FiberStepBase
<1>5. ASSUME NEW n \in Claims, Heartbeat(n) PROVE Base'
  <2>1. fiber[n].phase # "unclaimed" /\ UNCHANGED <<log, author, active, process, world>>
    BY <1>5 DEF Heartbeat, Beating, Working
  <2>2. CASE header' = Renewed(header) /\ UNCHANGED fiber
    <3>1. header' \in Headers /\ header'.state = header.state
      BY <1>0, <2>2 DEF Headers, Renewed
    <3> QED BY <1>0, <2>1, <2>2, <3>1 DEF Base, LogOK, FibersOK, ActiveOK, StoreOK, Truth
  <2>3. CASE Becomes(n, Fired(fiber[n], "lease_lost")) /\ UNCHANGED header
    <3> DEFINE f == Fired(fiber[n], "lease_lost")
    <3>1. FiberOK(n, f, log) /\ f.worker = fiber[n].worker
      BY <2>1, FiredOK DEF Reasons
    <3> QED BY <1>0, <2>1, <2>3, <3>1, QuietMove DEF Becomes
  <2> QED BY <1>5, <2>2, <2>3 DEF Heartbeat
<1>6. ASSUME NEW n \in Claims, ForceClose(n) \/ ForceForget(n) PROVE Base'
  BY <1>0, <1>6, ForceCloseBase, ForceForgetBase
<1>7. CASE LeaseExpires
  <2>1. UNCHANGED <<log, author, fiber, active, process, world>> /\ header' = Aged(header, TRUE, FALSE)
    BY <1>7 DEF LeaseExpires
  <2>2. header' \in Headers /\ header'.state = header.state
    BY <1>0, <2>1 DEF Headers, Aged, LeaseAged, GateAged
  <2> QED BY <1>0, <2>1, <2>2 DEF Base, LogOK, FibersOK, ActiveOK, StoreOK, Truth
<1>8. CASE DeadlinePasses
  <2>1. UNCHANGED <<header, log, author, fiber, active, process>> /\ world' = [world EXCEPT !.overdue = "yes"]
    BY <1>8 DEF DeadlinePasses
  <2>2. world' \in [faults : SUBSET AllFaults, claims : 1..MaxClaims, calls : SUBSET Calls,
                    overdue : {"no", "yes"}]
    BY <2>1 DEF Base, StoreOK
  <2> QED BY <1>0, <2>1, <2>2 DEF Base, LogOK, FibersOK, ActiveOK, StoreOK, Truth
<1> QED BY <1>1, <1>2, <1>3, <1>4, <1>5, <1>6, <1>7, <1>8 DEF WorkersStep, WorkerStep

\* Base holds before the consumer has called anything.
LEMMA InitBase == Init => Base
<1> SUFFICES ASSUME Init PROVE Base
  OBVIOUS
<1> USE FibersAssumption, NobodyAssumption DEF Init, FibersInit
<1>1. log = <<>> /\ ProperLog(log) /\ Truth = EmptyView
  BY EmptyLog DEF Truth
<1>2. LogOK
  BY <1>1, AttemptsAssumption DEF LogOK, EmptyView
<1>3. FibersOK
  BY <1>1 DEF FibersOK, FiberOK, FiberShape, Unclaimed, Claims, Phases, Busy, Working, Reasons, Verdicts
<1>4. ActiveOK
  BY DEF ActiveOK
<1>5. StoreOK
  BY DEF StoreOK, Headers, AdmittedHeader, RunStates
<1> QED BY <1>2, <1>3, <1>4, <1>5 DEF Base

\* Every step keeps Base.
LEMMA BaseStep == Base /\ [Next]_vars => Base'
<1>1. ASSUME Base, Next PROVE Base'
  <2>1. ASSUME NEW n \in Claims, LoopStep(n) \/ Raise(n) PROVE Base'
    BY <1>1, <2>1, LoopBase
  <2> QED BY <1>1, <2>1, WorkerBase, ConsumerBase DEF Next
<1>2. ASSUME Base, UNCHANGED vars PROVE Base'
  BY <1>2 DEF vars, fiberVars, Base, LogOK, FibersOK, ActiveOK, StoreOK, Truth
<1> QED BY <1>1, <1>2

\* Base holds in every state: whatever fails, the log is accepted by reduce, and
\* every fiber fits it.
THEOREM BaseHolds == Spec => []Base
BY InitBase, BaseStep, PTL DEF Spec

\* The type invariant is part of Base.
LEMMA BaseTypes == Base => TypeOK
<1> SUFFICES ASSUME Base PROVE TypeOK
  OBVIOUS
<1>1. DOMAIN log = DOMAIN author /\ \A i \in DOMAIN author : author[i] \in {0} \cup Claims
  BY DEF Base, LogOK, ProperLog
<1>2. \A n \in Claims :
       /\ fiber[n].phase \in Phases /\ fiber[n].worker \in Workers \cup {Nobody}
       /\ {fiber[n].head, fiber[n].grip} \subseteq 0..Len(log)
       /\ fiber[n].doing \in Calls \cup {None}
  BY DEF Base, FibersOK, FiberOK, FiberShape, LogOK, ProperLog
<1> QED BY <1>1, <1>2 DEF TypeOK, Base, ActiveOK, StoreOK

\* TypeOK for all Workers, calls, worlds and numbers of claims.
THEOREM TypeCorrect == Spec => []TypeOK
BY BaseHolds, BaseTypes, PTL

\* SettledHeaderHasSettledLog for the same: complete and release give the header
\* the state settled only after the log has its settlement, in whatever order
\* fibers of different claims and a forced end come to release.
THEOREM SettledTogether == Spec => []SettledHeaderHasSettledLog
<1>1. Base => SettledHeaderHasSettledLog
  BY DEF Base, StoreOK, SettledHeaderHasSettledLog
<1> QED BY <1>1, BaseHolds, PTL

-----------------------------------------------------------------------------
(* What a step does to the log and to the fibers *)

\* No fiber but that of claim n changes.
Alone(n) == \A m \in Claims \ {n} : fiber'[m] = fiber[m]

\* A fiber's place in the code and in the log stays.
Rests(n) ==
  /\ fiber'[n].phase = fiber[n].phase
  /\ fiber'[n].head = fiber[n].head
  /\ fiber'[n].doing = fiber[n].doing

\* Nothing is written and no tool runs; fibers start, stop or are cancelled.
Silent ==
  /\ UNCHANGED <<log, author, executed>>
  /\ \A n \in Claims :
       \/ Rests(n)
       \/ fiber'[n].phase \in {"unwinding", "releasing", "over"}
       \/ /\ fiber[n].phase \in Working /\ fiber'[n].phase = "cancelled"
          /\ fiber'[n].head = fiber[n].head
       \/ /\ fiber[n].phase = "unclaimed" \/ (n > MaxAttempts /\ fiber[n].phase = "over")
          /\ fiber'[n].phase \in {"claimed", "exhausted"}
       \/ /\ fiber[n].phase = "claimed" /\ fiber'[n].phase \in {"failing", "opened"}
          /\ fiber'[n].head = Len(log)
       \/ Happens("raise") /\ fiber'[n].phase = "failing"

\* The loop moves on: past recovery, into a turn, back from the questions.
Turns(n) ==
  /\ UNCHANGED <<log, author, executed>> /\ Alone(n)
  /\ \/ /\ fiber[n].phase = "recovering" /\ View(n).open_tool_calls = {}
        /\ fiber'[n].phase = "looping" /\ fiber'[n].head = fiber[n].head
     \/ /\ fiber[n].phase = "looping" /\ ~View(n).suspended /\ AllExternal(Missed(n))
        /\ fiber'[n].phase = "turning" /\ fiber'[n].head = Len(log)
     \/ /\ fiber[n].phase = "suspending"
        /\ fiber'[n].phase = "looping" /\ fiber'[n].head = fiber[n].head

\* A tool runs, recovered or past its gate.
Enters(n, c) ==
  /\ UNCHANGED <<log, author>> /\ Alone(n)
  /\ executed' = [executed EXCEPT ![c] = @ + 1]
  /\ fiber'[n].phase = "executing" /\ fiber'[n].head = fiber[n].head
  /\ \/ /\ fiber[n].phase = "recovering" /\ c \in View(n).open_tool_calls
        /\ \/ View(n).approval_decisions[c] = "approved"
           \/ View(n).approval_decisions[c] = None /\ c \in Safe
     \/ fiber[n].phase = "gating" /\ c = fiber[n].doing /\ c \notin NeedsApproval

\* A fiber with a Journal appends.
Writes(n, rec) ==
  /\ AllExternal(Missed(n)) /\ LogAppend(rec, n)
  /\ UNCHANGED executed /\ Alone(n)
  /\ fiber[n].phase \in Busy /\ fiber'[n].head = Len(log) + 1
  /\ \/ /\ rec.type \in {"attempt_started", "tool_call_finished"}
        /\ fiber'[n].phase \in {"recovering", "cancelled"}
     \/ /\ rec.type = "tool_call_finished"
        /\ fiber[n].phase = "answering" /\ fiber'[n].phase = "suspending"
     \/ /\ rec.type = "run_settled" /\ fiber'[n].phase = "unwinding"
     \/ /\ rec.type = "tool_call_started" /\ rec.call \in Calls
        /\ fiber[n].phase = "turning" /\ fiber'[n].phase = "gating"
        /\ fiber'[n].doing = rec.call
     \/ /\ rec.type = "tool_call_started"
        /\ fiber[n].phase = "suspending" /\ fiber'[n].phase = "answering"
     \/ /\ rec.type = "suspended" /\ rec.call = fiber[n].doing /\ rec.call \in NeedsApproval
        /\ fiber[n].phase = "gating" /\ fiber'[n].phase = "suspending"

\* _fail_exhausted and the failure handler settle a log they opened anew.
SettlesFor(n, rec) ==
  /\ ~Truth.settled /\ rec.type = "run_settled" /\ LogAppend(rec, n)
  /\ UNCHANGED executed /\ Alone(n)
  /\ fiber[n].phase \in {"exhausted", "failing"}
  /\ fiber'[n].phase \in {"releasing", "unwinding"}

\* _force_settle writes for a fiber.
Forces(n, rec) ==
  /\ fiber[n].grip > 0 /\ rec.type \in {"tool_call_finished", "run_settled"} /\ LogAppend(rec, n)
  /\ UNCHANGED executed /\ \A m \in Claims : Rests(m)

\* The consumer writes.
Consumes(rec) ==
  /\ LogAppend(rec, 0) /\ UNCHANGED <<fiber, executed>>
  /\ rec.type \in {"run_admitted", "abort_requested", "resumed", "run_settled"}
  /\ rec.type = "resumed" => Happens("answer")

\* No deadline has fired.
Calm == world.overdue = "no" /\ \A n \in Claims : fiber[n].clock = "ahead" /\ fiber[n].grip = 0

\* The faults of a world are fixed, and no deadline fires where none may.
Steady ==
  /\ world'.faults = world.faults
  /\ Calm /\ ~Happens("deadline") => Calm'

\* What a step may be, as far as the invariants below can tell.
Kinds ==
  \/ Silent
  \/ \E n \in Claims : Turns(n)
  \/ \E n \in Claims, c \in Calls : Enters(n, c)
  \/ \E n \in Claims : \E rec : Writes(n, rec)
  \/ \E n \in Claims : \E rec : SettlesFor(n, rec)
  \/ \E n \in Claims : \E rec : Forces(n, rec)
  \/ \E rec : Consumes(rec)

\* A step as those invariants see it: each is shown to be kept by every kind of
\* step and then needs none of the actions.
Moved == Kinds /\ Steady

\* GoesTo, field by field.
LEMMA AtFields ==
  ASSUME Base, NEW n \in Claims, NEW p
  PROVE  /\ DOMAIN At(n, p) = DOMAIN Unclaimed
         /\ At(n, p).phase = p /\ At(n, p).head = fiber[n].head /\ At(n, p).doing = fiber[n].doing
         /\ At(n, p).clock = fiber[n].clock /\ At(n, p).grip = fiber[n].grip
BY DEF Base, FibersOK, FiberOK, FiberShape, At, Unclaimed

\* EXCEPT, field by field.
LEMMA FieldSet ==
  ASSUME NEW f, DOMAIN f = DOMAIN Unclaimed, NEW x
  PROVE  LET g == [f EXCEPT !.doing = x]
             h == [f EXCEPT !.head = x]
             v == [f EXCEPT !.verdict = x]
             k == [f EXCEPT !.grip = x]
         IN
         /\ DOMAIN g = DOMAIN f /\ g.phase = f.phase /\ g.head = f.head /\ g.doing = x
         /\ g.clock = f.clock /\ g.grip = f.grip
         /\ DOMAIN h = DOMAIN f /\ h.phase = f.phase /\ h.head = x /\ h.doing = f.doing
         /\ h.clock = f.clock /\ h.grip = f.grip
         /\ DOMAIN v = DOMAIN f /\ v.phase = f.phase /\ v.head = f.head /\ v.doing = f.doing
         /\ v.clock = f.clock /\ v.grip = f.grip
         /\ DOMAIN k = DOMAIN f /\ k.phase = f.phase /\ k.head = f.head /\ k.doing = f.doing
         /\ k.clock = f.clock /\ k.grip = x
BY DEF Unclaimed

\* A step of one fiber leaves the others alone.
LEMMA OneMoves ==
  ASSUME Base, NEW n \in Claims, NEW f, Becomes(n, f)
  PROVE  fiber'[n] = f /\ Alone(n)
BY DEF Base, FibersOK, Becomes, Alone

\* A step of one fiber that fires no clock and loads nothing to force.
LEMMA SteadyStep ==
  ASSUME Base, NEW n \in Claims, Alone(n), world' = world,
         fiber'[n].clock \in {fiber[n].clock, "ahead"}, fiber'[n].grip \in {fiber[n].grip, 0}
  PROVE  Steady
BY DEF Steady, Calm, Alone

\* A step of one fiber that is of the first kind.
LEMMA AloneSilent ==
  ASSUME NEW n \in Claims, Alone(n), UNCHANGED <<log, author, executed>>,
         \/ Rests(n)
         \/ fiber'[n].phase \in {"unwinding", "releasing", "over"}
         \/ /\ fiber[n].phase \in Working /\ fiber'[n].phase = "cancelled"
            /\ fiber'[n].head = fiber[n].head
         \/ /\ fiber[n].phase = "unclaimed" \/ (n > MaxAttempts /\ fiber[n].phase = "over")
            /\ fiber'[n].phase \in {"claimed", "exhausted"}
         \/ /\ fiber[n].phase = "claimed" /\ fiber'[n].phase \in {"failing", "opened"}
            /\ fiber'[n].head = Len(log)
         \/ Happens("raise") /\ fiber'[n].phase = "failing"
  PROVE  Silent
<1>1. \A m \in Claims \ {n} : Rests(m)
  BY DEF Alone, Rests
<1> QED BY <1>1 DEF Silent

\* Journal.append writes, having missed only what others may write, or ends the
\* loop.
LEMMA JournalMoves ==
  ASSUME Base, NEW n \in Claims, NEW rec, NEW f, JournalAppend(n, rec, f),
         DOMAIN f = DOMAIN Unclaimed, f.clock = fiber[n].clock, f.grip = fiber[n].grip,
         UNCHANGED <<executed, world>>
  PROVE  /\ Steady
         /\ \/ Silent
            \/ /\ AllExternal(Missed(n)) /\ LogAppend(rec, n) /\ Alone(n)
               /\ fiber'[n].phase = f.phase /\ fiber'[n].doing = f.doing
               /\ fiber'[n].head = Len(log) + 1
<1>1. CASE AllExternal(Missed(n)) /\ LogAppend(rec, n) /\ Becomes(n, [f EXCEPT !.head = Len(log) + 1])
  <2> DEFINE g == [f EXCEPT !.head = Len(log) + 1]
  <2>1. /\ g.phase = f.phase /\ g.head = Len(log) + 1 /\ g.doing = f.doing
        /\ g.clock = f.clock /\ g.grip = f.grip
    BY FieldSet
  <2> HIDE DEF g
  <2>2. fiber'[n] = g /\ Alone(n)
    BY <1>1, OneMoves DEF g
  <2> QED BY <1>1, <2>1, <2>2, SteadyStep
<1>2. CASE GoesTo(n, "unwinding") /\ UNCHANGED <<log, author>>
  <2>1. fiber'[n] = At(n, "unwinding") /\ Alone(n)
    BY <1>2, OneMoves DEF GoesTo
  <2>2. fiber'[n].phase = "unwinding" /\ fiber'[n].clock = fiber[n].clock /\ fiber'[n].grip = fiber[n].grip
    BY <2>1, AtFields
  <2> QED BY <1>2, <2>1, <2>2, SteadyStep, AloneSilent
<1> QED BY <1>1, <1>2 DEF JournalAppend

\* A step of the loop to another phase.
LEMMA GoesMoves ==
  ASSUME Base, NEW n \in Claims, NEW p, GoesTo(n, p), UNCHANGED world
  PROVE  /\ Steady /\ Alone(n)
         /\ fiber'[n].phase = p /\ fiber'[n].head = fiber[n].head /\ fiber'[n].doing = fiber[n].doing
<1>1. fiber'[n] = At(n, p) /\ Alone(n)
  BY OneMoves DEF GoesTo
<1>2. /\ fiber'[n].phase = p /\ fiber'[n].head = fiber[n].head /\ fiber'[n].doing = fiber[n].doing
      /\ fiber'[n].clock = fiber[n].clock /\ fiber'[n].grip = fiber[n].grip
  BY <1>1, AtFields
<1> QED BY <1>1, <1>2, SteadyStep

\* A step into a tool.
LEMMA EntersMoves ==
  ASSUME Base, NEW n \in Claims, NEW c, EnterTool(n, c), UNCHANGED world
  PROVE  /\ Steady /\ Alone(n) /\ UNCHANGED <<log, author>>
         /\ executed' = [executed EXCEPT ![c] = @ + 1]
         /\ fiber'[n].phase = "executing" /\ fiber'[n].head = fiber[n].head
<1> DEFINE f == [At(n, "executing") EXCEPT !.doing = c]
<1>1. /\ f.phase = "executing" /\ f.head = fiber[n].head /\ f.clock = fiber[n].clock
      /\ f.grip = fiber[n].grip
  BY AtFields, FieldSet
<1> HIDE DEF f
<1>2. fiber'[n] = f /\ Alone(n)
  BY OneMoves DEF EnterTool, f
<1> QED BY <1>1, <1>2, SteadyStep DEF EnterTool

\* The steps of the loop, classified.
LEMMA LoopMoves ==
  ASSUME Base, NEW n \in Claims, LoopStep(n) \/ Raise(n)
  PROVE  Moved
<1>0. /\ world' = world /\ DOMAIN fiber[n] = DOMAIN Unclaimed
      /\ \A p \in {"gating", "executing", "answering"} : fiber[n].phase = p => fiber[n].doing \in Calls
  BY DEF LoopStep, Raise, Recover, StartCall, AnswerUnstarted, Recovered, BeginTurn, StopLoop, Complete,
         Gate, FinishCall, AnswerNotExecuted, BatchAnswered, CancelWork, SettleCancelled, storeOnly,
         Base, FibersOK, FiberOK, FiberShape
<1> USE DEF Moved, Kinds
<1>1. ASSUME NEW c \in Calls, Recover(n, c) PROVE Moved
  <2>1. CASE EnterTool(n, c) /\ (View(n).approval_decisions[c] = "approved"
                                  \/ (View(n).approval_decisions[c] = None /\ c \in Safe))
    BY <1>0, <1>1, <2>1, EntersMoves DEF Recover, Enters
  <2>2. ASSUME NEW outcome, JournalAppend(n, CallFinished(c, outcome), fiber[n]), UNCHANGED executed
        PROVE  Moved
    <3> DEFINE rec == CallFinished(c, outcome)
    <3>1. rec.type = "tool_call_finished"
      BY DEF CallFinished
    <3> HIDE DEF rec
    <3>2. Steady /\ (Silent \/ (/\ AllExternal(Missed(n)) /\ LogAppend(rec, n) /\ Alone(n)
               /\ fiber'[n].phase = fiber[n].phase /\ fiber'[n].doing = fiber[n].doing
               /\ fiber'[n].head = Len(log) + 1))
      BY <1>0, <2>2, JournalMoves DEF rec
    <3> QED BY <1>1, <2>2, <3>1, <3>2 DEF Recover, Writes, Busy, Working
  <2> QED BY <1>1, <2>1, <2>2 DEF Recover
<1>2. ASSUME NEW c \in Calls, NEW p \in {"gating", "answering"}, UNCHANGED executed,
             JournalAppend(n, CallStarted(View(n), c), [At(n, p) EXCEPT !.doing = c])
      PROVE  /\ Steady
             /\ Silent \/ (\E rec : /\ AllExternal(Missed(n)) /\ LogAppend(rec, n) /\ Alone(n)
                                    /\ rec.type = "tool_call_started" /\ rec.call = c
                                    /\ fiber'[n].phase = p /\ fiber'[n].doing = c
                                    /\ fiber'[n].head = Len(log) + 1)
  <2> DEFINE f == [At(n, p) EXCEPT !.doing = c]
             rec == CallStarted(View(n), c)
  <2>1. /\ DOMAIN f = DOMAIN Unclaimed /\ f.phase = p /\ f.doing = c /\ f.clock = fiber[n].clock
        /\ f.grip = fiber[n].grip
    BY AtFields, FieldSet
  <2>2. rec.type = "tool_call_started" /\ rec.call = c
    BY DEF CallStarted
  <2> HIDE DEF f, rec
  <2> QED BY <1>0, <1>2, <2>1, <2>2, JournalMoves DEF f, rec
<1>3. ASSUME NEW c \in Calls, StartCall(n, c) PROVE Moved
  <2>1. /\ Steady /\ UNCHANGED executed
        /\ Silent \/ (\E rec : /\ AllExternal(Missed(n)) /\ LogAppend(rec, n) /\ Alone(n)
                               /\ rec.type = "tool_call_started" /\ rec.call = c
                               /\ fiber'[n].phase = "gating" /\ fiber'[n].doing = c
                               /\ fiber'[n].head = Len(log) + 1)
    BY <1>2, <1>3 DEF StartCall
  <2> QED BY <1>3, <2>1 DEF StartCall, Writes, Busy, Working
<1>4. ASSUME NEW c \in Calls, AnswerUnstarted(n, c) PROVE Moved
  <2>1. /\ Steady /\ UNCHANGED executed
        /\ Silent \/ (\E rec : /\ AllExternal(Missed(n)) /\ LogAppend(rec, n) /\ Alone(n)
                               /\ rec.type = "tool_call_started" /\ rec.call = c
                               /\ fiber'[n].phase = "answering" /\ fiber'[n].doing = c
                               /\ fiber'[n].head = Len(log) + 1)
    BY <1>2, <1>4 DEF AnswerUnstarted
  <2> QED BY <1>4, <2>1 DEF AnswerUnstarted, Writes, Busy, Working
<1>5. CASE Recovered(n)
  BY <1>0, <1>5, GoesMoves DEF Recovered, Turns
<1>6. CASE BeginTurn(n)
  <2>1. CASE AllExternal(Missed(n)) /\ Becomes(n, [At(n, "turning") EXCEPT !.head = Len(log)])
    <3> DEFINE f == [At(n, "turning") EXCEPT !.head = Len(log)]
    <3>1. f.phase = "turning" /\ f.head = Len(log) /\ f.clock = fiber[n].clock /\ f.grip = fiber[n].grip
      BY AtFields, FieldSet
    <3> HIDE DEF f
    <3>2. fiber'[n] = f /\ Alone(n)
      BY <2>1, OneMoves DEF f
    <3> QED BY <1>0, <1>6, <2>1, <3>1, <3>2, SteadyStep DEF BeginTurn, Turns
  <2>2. CASE GoesTo(n, "unwinding")
    BY <1>0, <1>6, <2>2, GoesMoves, AloneSilent DEF BeginTurn
  <2> QED BY <1>6, <2>1, <2>2 DEF BeginTurn
<1>7. ASSUME NEW state, JournalAppend(n, Settlement(state), At(n, "unwinding")), UNCHANGED executed,
             fiber[n].phase \in Busy
      PROVE  Moved
  <2> DEFINE f == At(n, "unwinding")
             rec == Settlement(state)
  <2>1. /\ DOMAIN f = DOMAIN Unclaimed /\ f.phase = "unwinding" /\ f.clock = fiber[n].clock
        /\ f.grip = fiber[n].grip
    BY AtFields
  <2>2. rec.type = "run_settled"
    BY DEF Settlement
  <2> HIDE DEF f, rec
  <2>3. Steady /\ (Silent \/ (/\ AllExternal(Missed(n)) /\ LogAppend(rec, n) /\ Alone(n)
               /\ fiber'[n].phase = f.phase /\ fiber'[n].doing = f.doing
               /\ fiber'[n].head = Len(log) + 1))
    BY <1>0, <1>7, <2>1, JournalMoves DEF f, rec
  <2> QED BY <1>7, <2>1, <2>2, <2>3 DEF Writes
<1>8. ASSUME GoesTo(n, "unwinding"), UNCHANGED <<log, author, executed>> PROVE Moved
  BY <1>0, <1>8, GoesMoves, AloneSilent
<1>9. CASE StopLoop(n)
  BY <1>7, <1>8, <1>9 DEF StopLoop, Busy, Working
<1>10. CASE Complete(n)
  BY <1>7, <1>8, <1>10 DEF Complete, Busy, Working
<1>11. CASE Gate(n)
  <2>1. CASE EnterTool(n, fiber[n].doing) /\ fiber[n].doing \notin NeedsApproval
    BY <1>0, <1>11, <2>1, EntersMoves DEF Gate, Enters
  <2>2. CASE /\ fiber[n].doing \in NeedsApproval
             /\ JournalAppend(n, [type |-> "suspended", reason |-> "approval", call |-> fiber[n].doing,
                                  step |-> None], At(n, "suspending"))
             /\ UNCHANGED executed
    <3> DEFINE f == At(n, "suspending")
               rec == [type |-> "suspended", reason |-> "approval", call |-> fiber[n].doing, step |-> None]
    <3>1. /\ DOMAIN f = DOMAIN Unclaimed /\ f.phase = "suspending" /\ f.clock = fiber[n].clock
          /\ f.grip = fiber[n].grip
      BY AtFields
    <3>2. rec.type = "suspended" /\ rec.call = fiber[n].doing
      OBVIOUS
    <3> HIDE DEF f, rec
    <3>3. Steady /\ (Silent \/ (/\ AllExternal(Missed(n)) /\ LogAppend(rec, n) /\ Alone(n)
               /\ fiber'[n].phase = f.phase /\ fiber'[n].doing = f.doing
               /\ fiber'[n].head = Len(log) + 1))
      BY <1>0, <2>2, <3>1, JournalMoves DEF f, rec
    <3> QED BY <1>11, <2>2, <3>1, <3>2, <3>3 DEF Gate, Writes, Busy, Working
  <2> QED BY <1>11, <2>1, <2>2 DEF Gate
<1>12. ASSUME NEW c, NEW outcome, NEW f, JournalAppend(n, CallFinished(c, outcome), f), UNCHANGED executed,
              fiber[n].phase \in Busy, DOMAIN f = DOMAIN Unclaimed, f.clock = fiber[n].clock,
              f.grip = fiber[n].grip,
              \/ f.phase \in {"recovering", "cancelled"}
              \/ fiber[n].phase = "answering" /\ f.phase = "suspending"
       PROVE  Moved
  <2> DEFINE rec == CallFinished(c, outcome)
  <2>1. rec.type = "tool_call_finished"
    BY DEF CallFinished
  <2> HIDE DEF rec
  <2>2. Steady /\ (Silent \/ (/\ AllExternal(Missed(n)) /\ LogAppend(rec, n) /\ Alone(n)
             /\ fiber'[n].phase = f.phase /\ fiber'[n].doing = f.doing
             /\ fiber'[n].head = Len(log) + 1))
    BY <1>0, <1>12, JournalMoves DEF rec
  <2> QED BY <1>12, <2>1, <2>2 DEF Writes
<1>13. CASE FinishCall(n)
  <2> DEFINE f == [At(n, "recovering") EXCEPT !.doing = None]
  <2>1. /\ DOMAIN f = DOMAIN Unclaimed /\ f.phase = "recovering" /\ f.clock = fiber[n].clock
        /\ f.grip = fiber[n].grip
    BY AtFields, FieldSet
  <2> HIDE DEF f
  <2> QED BY <1>12, <1>13, <2>1 DEF FinishCall, Busy, Working, f
<1>14. CASE AnswerNotExecuted(n)
  BY <1>12, <1>14, AtFields DEF AnswerNotExecuted, Busy, Working
<1>15. CASE BatchAnswered(n)
  BY <1>0, <1>15, GoesMoves DEF BatchAnswered, Turns
<1>16. CASE CancelWork(n)
  <2>1. CASE fiber[n].phase = "executing" /\ JournalAppend(n, CallFinished(fiber[n].doing, "aborted"), At(n, "cancelled"))
    BY <1>12, <1>16, <2>1, AtFields DEF CancelWork, Busy
  <2>2. CASE GoesTo(n, "cancelled") /\ UNCHANGED <<log, author>>
    BY <1>0, <1>16, <2>2, GoesMoves, AloneSilent DEF CancelWork
  <2> QED BY <1>16, <2>1, <2>2 DEF CancelWork
<1>17. CASE SettleCancelled(n)
  BY <1>7, <1>8, <1>17 DEF SettleCancelled, Busy, Working
<1>18. CASE Raise(n)
  BY <1>0, <1>18, GoesMoves, AloneSilent DEF Raise
<1> QED BY <1>1, <1>3, <1>4, <1>5, <1>6, <1>9, <1>10, <1>11, <1>13, <1>14, <1>15, <1>16, <1>17, <1>18
     DEF LoopStep

\* The other steps of execute, classified.
LEMMA FiberStepMoves ==
  ASSUME Base, NEW n \in Claims, FiberStep(n), UNCHANGED executed
  PROVE  Moved
<1>0. world' = world /\ DOMAIN fiber[n] = DOMAIN Unclaimed
  BY DEF FiberStep, FailExhausted, Open, Begin, SettleFailure, Unwind, Release,
         Base, FibersOK, FiberOK, FiberShape
<1> USE DEF Moved, Kinds
<1>1. ASSUME Becomes(n, Over(n)), UNCHANGED <<log, author>> PROVE Moved
  <2>1. /\ Over(n).phase = "over" /\ Over(n).clock = "ahead" /\ Over(n).grip = fiber[n].grip
    BY DEF Over, Unclaimed
  <2>2. fiber'[n] = Over(n) /\ Alone(n)
    BY <1>1, OneMoves
  <2> QED BY <1>0, <1>1, <2>1, <2>2, SteadyStep, AloneSilent
<1>2. ASSUME NEW v, Becomes(n, [At(n, "releasing") EXCEPT !.verdict = v])
      PROVE  Steady /\ Alone(n) /\ fiber'[n].phase = "releasing"
  <2> DEFINE f == [At(n, "releasing") EXCEPT !.verdict = v]
  <2>1. f.phase = "releasing" /\ f.clock = fiber[n].clock /\ f.grip = fiber[n].grip
    BY AtFields, FieldSet
  <2> HIDE DEF f
  <2>2. fiber'[n] = f /\ Alone(n)
    BY <1>2, OneMoves DEF f
  <2> QED BY <1>0, <2>1, <2>2, SteadyStep
<1>3. ASSUME SettleUnlessSettled(n, "failed"), Steady, Alone(n), fiber'[n].phase \in {"releasing", "unwinding"},
             fiber[n].phase \in {"exhausted", "failing"}
      PROVE  Moved
  <2> DEFINE rec == Settlement("failed")
  <2>1. rec.type = "run_settled"
    BY DEF Settlement
  <2>2. (~Truth.settled /\ LogAppend(rec, n)) \/ UNCHANGED <<log, author>>
    BY <1>3 DEF SettleUnlessSettled
  <2> HIDE DEF rec
  <2> QED BY <1>3, <2>1, <2>2, AloneSilent DEF SettlesFor
<1>4. CASE FailExhausted(n)
  <2>1. CASE /\ SettleUnlessSettled(n, "failed")
             /\ Becomes(n, [At(n, "releasing") EXCEPT !.verdict = "settled"])
    <3>1. Steady /\ Alone(n) /\ fiber'[n].phase = "releasing"
      BY <1>2, <2>1
    <3> QED BY <1>3, <1>4, <2>1, <3>1 DEF FailExhausted
  <2> QED BY <1>1, <1>4, <2>1 DEF FailExhausted
<1>5. CASE Open(n)
  <2> DEFINE f == [At(n, AfterOpen) EXCEPT !.head = Len(log)]
  <2>1. /\ f.phase = AfterOpen /\ f.head = Len(log) /\ f.clock = fiber[n].clock
        /\ f.grip = fiber[n].grip
    BY AtFields, FieldSet
  <2>2. AfterOpen \in {"failing", "unwinding", "opened"}
    BY DEF AfterOpen
  <2> HIDE DEF f
  <2>3. fiber'[n] = f /\ Alone(n)
    BY <1>5, OneMoves DEF f, Open
  <2> QED BY <1>0, <1>5, <2>1, <2>2, <2>3, SteadyStep, AloneSilent DEF Open
<1>6. CASE Begin(n)
  <2> DEFINE rec == [type |-> "attempt_started", number |-> View(n).attempt_count + 1]
             f == At(n, "recovering")
  <2>1. /\ DOMAIN f = DOMAIN Unclaimed /\ f.phase = "recovering" /\ f.clock = fiber[n].clock
        /\ f.grip = fiber[n].grip
    BY AtFields
  <2>2. rec.type = "attempt_started"
    OBVIOUS
  <2> HIDE DEF rec, f
  <2>3. Steady /\ (Silent \/ (/\ AllExternal(Missed(n)) /\ LogAppend(rec, n) /\ Alone(n)
             /\ fiber'[n].phase = f.phase /\ fiber'[n].doing = f.doing
             /\ fiber'[n].head = Len(log) + 1))
    BY <1>0, <1>6, <2>1, JournalMoves DEF Begin, f, rec
  <2> QED BY <1>6, <2>1, <2>2, <2>3 DEF Begin, Writes, Busy
<1>7. CASE SettleFailure(n)
  <2>1. Steady /\ Alone(n) /\ fiber'[n].phase = "unwinding"
    BY <1>0, <1>7, GoesMoves DEF SettleFailure
  <2> QED BY <1>3, <1>7, <2>1, AloneSilent DEF SettleFailure
<1>8. CASE Unwind(n)
  <2>1. CASE Becomes(n, [At(n, "releasing") EXCEPT !.verdict = VerdictOf(Truth)])
    <3>1. Steady /\ Alone(n) /\ fiber'[n].phase = "releasing"
      BY <1>2, <2>1
    <3> QED BY <1>8, <3>1, AloneSilent DEF Unwind
  <2> QED BY <1>1, <1>8, <2>1 DEF Unwind
<1>9. CASE Release(n)
  BY <1>1, <1>9 DEF Release
<1> QED BY <1>4, <1>5, <1>6, <1>7, <1>8, <1>9 DEF FiberStep

\* The steps of the Workers, classified.
LEMMA WorkerMoves ==
  ASSUME Base, WorkersStep
  PROVE  Moved
<1>0. /\ UNCHANGED executed
      /\ \A n \in Claims : DOMAIN fiber[n] = DOMAIN Unclaimed
      /\ DOMAIN fiber = Claims
  BY DEF WorkersStep, Base, FibersOK, FiberOK, FiberShape
<1> USE DEF Moved, Kinds
<1>1. ASSUME UNCHANGED <<log, author, fiber>>, world'.faults = world.faults,
             world'.overdue = world.overdue \/ Happens("deadline")
      PROVE  Moved
  BY <1>0, <1>1 DEF Steady, Calm, Silent, Rests
<1>2. ASSUME NEW w \in Workers, Claim(w) PROVE Moved
  <2> DEFINE n == IF header.attempt_count < world.claims THEN header.attempt_count + 1 ELSE world.claims
             f(p) == [Unclaimed EXCEPT !.worker = w, !.phase = p]
  <2>1. n \in Claims
    <3>1. header.attempt_count \in Nat /\ world.claims \in 1..MaxClaims /\ MaxClaims \in Nat
      BY FibersAssumption DEF Base, StoreOK, Headers
    <3> QED BY <3>1 DEF Claims
  <2>2. /\ fiber[n].phase = "unclaimed" \/ (n > MaxAttempts /\ fiber[n].phase = "over")
        /\ Becomes(n, f("claimed")) \/ Becomes(n, f("exhausted"))
        /\ UNCHANGED <<log, author, world>>
    BY <1>2 DEF Claim
  <2> HIDE DEF n
  <2>3. \A p : f(p).phase = p /\ f(p).clock = "ahead" /\ f(p).grip = 0
    BY DEF Unclaimed
  <2> HIDE DEF f
  <2>4. Alone(n) /\ fiber'[n].phase \in {"claimed", "exhausted"} /\ fiber'[n].clock = "ahead"
        /\ fiber'[n].grip = 0
    BY <2>1, <2>2, <2>3, OneMoves
  <2> QED BY <1>0, <2>1, <2>2, <2>4, SteadyStep, AloneSilent
<1>3. ASSUME NEW w \in Workers, Crash(w) PROVE Moved
  <2>1. UNCHANGED <<log, author, world>>
    BY <1>3 DEF Crash
  <2>2. ASSUME NEW n \in Claims
        PROVE  \/ fiber'[n] = fiber[n]
               \/ fiber'[n].phase = "over" /\ fiber'[n].clock = "ahead" /\ fiber'[n].grip = 0
    <3> DEFINE y == Over(n)
    <3>1. DOMAIN y = DOMAIN Unclaimed /\ y.phase = "over" /\ y.clock = "ahead"
      BY DEF Over, Unclaimed
    <3>2. fiber'[n] = fiber[n] \/ fiber'[n] = [y EXCEPT !.grip = 0]
      BY <1>3 DEF Crash
    <3> HIDE DEF y
    <3>3. fiber'[n] = [y EXCEPT !.grip = 0] =>
            fiber'[n].phase = "over" /\ fiber'[n].clock = "ahead" /\ fiber'[n].grip = 0
      BY <3>1, FieldSet
    <3> QED BY <3>2, <3>3
  <2> QED BY <1>0, <2>1, <2>2 DEF Steady, Calm, Silent, Rests
<1>4. ASSUME NEW n \in Claims, NEW reason
      PROVE  LET f == Fired(fiber[n], reason) IN
             /\ f.phase = fiber[n].phase /\ f.head = fiber[n].head /\ f.doing = fiber[n].doing
             /\ f.clock = fiber[n].clock /\ f.grip = fiber[n].grip /\ DOMAIN f = DOMAIN Unclaimed
  BY <1>0 DEF Fired, Unclaimed
<1>5. ASSUME NEW w \in Workers, Stop(w) PROVE Moved
  <2>1. UNCHANGED <<log, author, world>>
    BY <1>5 DEF Stop
  <2>2. ASSUME NEW n \in Claims
        PROVE  Rests(n) /\ fiber'[n].clock = fiber[n].clock /\ fiber'[n].grip = fiber[n].grip
    <3>1. fiber'[n] = fiber[n] \/ fiber'[n] = Fired(fiber[n], "shutdown")
      BY <1>5 DEF Stop
    <3> QED BY <1>4, <3>1 DEF Rests
  <2> QED BY <1>0, <2>1, <2>2 DEF Steady, Calm, Silent
<1>6. ASSUME NEW w \in Workers, NEW n \in Claims, FireDeadline(w, n) PROVE Moved
  <2> DEFINE f == Fired(fiber[n], "deadline")
             g == [f EXCEPT !.clock = "fired"]
  <2>1. /\ f.phase = fiber[n].phase /\ f.head = fiber[n].head /\ f.doing = fiber[n].doing
        /\ DOMAIN f = DOMAIN Unclaimed
    BY <1>4
  <2> HIDE DEF f
  <2>2. g.phase = fiber[n].phase /\ g.head = fiber[n].head /\ g.doing = fiber[n].doing
    BY <2>1 DEF Unclaimed
  <2> HIDE DEF g
  <2>3. fiber'[n] = g /\ Alone(n)
    BY <1>6, OneMoves DEF FireDeadline, f, g
  <2>4. UNCHANGED <<log, author, world>> /\ ~Calm
    BY <1>6 DEF FireDeadline, Calm
  <2> QED BY <1>0, <2>2, <2>3, <2>4, AloneSilent DEF Steady, Rests
<1>7. ASSUME NEW n \in Claims, NEW m, Becomes(n, [fiber[n] EXCEPT !.grip = m])
      PROVE  Rests(n) /\ Alone(n) /\ fiber'[n].grip = m /\ fiber'[n].clock = fiber[n].clock
  <2> DEFINE x == fiber[n]
             g == [x EXCEPT !.grip = m]
  <2>1. /\ g.phase = x.phase /\ g.head = x.head /\ g.doing = x.doing
        /\ g.clock = x.clock /\ g.grip = m
    <3> HIDE DEF x
    <3> QED BY <1>0, FieldSet DEF x
  <2>2. fiber'[n] = g /\ Alone(n)
    BY <1>7, OneMoves
  <2> QED BY <2>1, <2>2 DEF Rests
<1>8. ASSUME NEW w \in Workers, NEW n \in Claims, GraceEnds(w, n) PROVE Moved
  <2>1. UNCHANGED <<log, author, world>> /\ ~Calm
    BY <1>8 DEF GraceEnds, Calm
  <2> QED BY <1>0, <1>7, <1>8, <2>1, AloneSilent DEF Steady, GraceEnds
<1>9. ASSUME NEW n \in Claims, FiberStep(n) PROVE Moved
  BY <1>0, <1>9, FiberStepMoves
<1>10. ASSUME NEW n \in Claims, Heartbeat(n) PROVE Moved
  <2>1. UNCHANGED <<log, author, world>>
    BY <1>10 DEF Heartbeat
  <2>2. CASE Becomes(n, Fired(fiber[n], "lease_lost"))
    <3>1. fiber'[n] = Fired(fiber[n], "lease_lost") /\ Alone(n)
      BY <2>2, OneMoves
    <3>2. Rests(n) /\ fiber'[n].clock = fiber[n].clock /\ fiber'[n].grip = fiber[n].grip
      BY <1>4, <3>1 DEF Rests
    <3> QED BY <1>0, <2>1, <3>1, <3>2, SteadyStep, AloneSilent
  <2> QED BY <1>1, <1>10, <2>1, <2>2 DEF Heartbeat
<1>11. ASSUME NEW n \in Claims, ForceClose(n) PROVE Moved
  <2>1. world' = world /\ ~Calm /\ fiber[n].grip > 0
    <3>1. fiber[n].grip > 0 /\ ~(0 > 0)
      BY <1>11 DEF ForceClose, ForceSettling
    <3> QED BY <1>11, <3>1 DEF ForceClose, Calm
  <2>2. PICK rec \in ForcedRecords(Gripped(n)) :
         \/ /\ LogAppend(rec, n)
            /\ Becomes(n, [fiber[n] EXCEPT !.grip = Len(log) + 1])
         \/ /\ Becomes(n, [fiber[n] EXCEPT !.grip = 0])
            /\ UNCHANGED <<log, author>>
    BY <1>11 DEF ForceClose
  <2>3. rec.type \in {"tool_call_finished", "run_settled"}
    <3> DEFINE v == Gripped(n)
               A == [type : {"tool_call_finished"}, call : v.open_tool_calls, outcome : {"unknown"},
                     answer : {None}, elided : {FALSE}]
               B == {Settlement(s) : s \in IF v.open_tool_calls = {} THEN {"force_settled"} ELSE {}}
    <3>1. rec \in A \cup B
      BY <2>2 DEF ForcedRecords
    <3>2. CASE rec \in A
      BY <3>2
    <3>3. CASE rec \in B
      BY <3>3 DEF Settlement
    <3> HIDE DEF A, B
    <3> QED BY <3>1, <3>2, <3>3
  <2>4. Rests(n) /\ Alone(n)
    BY <1>7, <2>2
  <2>5. \A m \in Claims : Rests(m)
    BY <2>4 DEF Alone, Rests
  <2> QED BY <1>0, <2>1, <2>2, <2>3, <2>4, <2>5 DEF Steady, Forces, Silent
<1>12. ASSUME NEW n \in Claims, ForceForget(n) PROVE Moved
  <2>1. UNCHANGED <<log, author, world>> /\ ~Calm
    <3>1. fiber[n].grip > 0 /\ ~(0 > 0)
      BY <1>12 DEF ForceForget, ForceSettling
    <3> QED BY <1>12, <3>1 DEF ForceForget, Calm
  <2>2. PICK p \in CancelledPhases(fiber[n].phase) :
         Becomes(n, [IF p = "over" THEN Over(n) ELSE At(n, p) EXCEPT !.grip = 0])
    BY <1>12 DEF ForceForget
  <2> DEFINE y == IF p = "over" THEN Over(n) ELSE At(n, p)
  <2>3. /\ DOMAIN y = DOMAIN Unclaimed /\ y.phase = p
        /\ p # "over" => y.head = fiber[n].head /\ y.doing = fiber[n].doing
    BY AtFields DEF Over, Unclaimed
  <2> HIDE DEF y
  <2>4. fiber'[n] = [y EXCEPT !.grip = 0] /\ Alone(n)
    BY <2>2, OneMoves DEF y
  <2>5. p = fiber[n].phase \/ p \in {"unwinding", "releasing", "over"}
    BY <2>2 DEF CancelledPhases
  <2>6. /\ fiber'[n].phase = p
        /\ p # "over" => fiber'[n].head = fiber[n].head /\ fiber'[n].doing = fiber[n].doing
    BY <2>3, <2>4, FieldSet
  <2> QED BY <1>0, <2>1, <2>4, <2>5, <2>6, AloneSilent DEF Steady, Rests
<1>13. CASE LeaseExpires
  BY <1>1, <1>13 DEF LeaseExpires
<1>14. CASE DeadlinePasses
  <2>1. world'.faults = world.faults
    <3>1. world' = [world EXCEPT !.overdue = "yes"]
      BY <1>14 DEF DeadlinePasses
    <3>2. DOMAIN world = {"faults", "claims", "calls", "overdue"}
      BY DEF Base, StoreOK
    <3> QED BY <3>1, <3>2
  <2> QED BY <1>1, <1>14, <2>1 DEF DeadlinePasses
<1> QED BY <1>2, <1>3, <1>5, <1>6, <1>8, <1>9, <1>10, <1>11, <1>12, <1>13, <1>14
     DEF WorkersStep, WorkerStep

\* The steps of the consumer, classified.
LEMMA ConsumerMoves ==
  ASSUME Base,
         Admit \/ Interrupt \/ Wake \/ Vanish \/ Expire \/ \E d \in {"approved", "denied"} : Answer(d)
  PROVE  Moved
<1> USE DEF Moved, Kinds
<1>1. ASSUME NEW rec, ConsumerAppend(rec),
             rec.type \in {"run_admitted", "abort_requested", "resumed", "run_settled"},
             rec.type = "resumed" => Happens("answer")
      PROVE  Moved
  <2>1. Consumes(rec) /\ world' = world /\ fiber' = fiber
    BY <1>1 DEF ConsumerAppend, Consumes
  <2> QED BY <2>1 DEF Steady, Calm
<1>2. CASE Admit \/ Interrupt
  BY <1>1, <1>2 DEF Admit, Interrupt
<1>3. CASE Wake \/ Vanish
  <2>1. UNCHANGED <<log, author, fiber, world, executed>>
    BY <1>3 DEF Wake, Vanish, fiberVars
  <2> QED BY <2>1 DEF Steady, Calm, Silent, Rests
<1>4. CASE Expire
  <2> DEFINE rec == Settlement("abandoned")
  <2>1. rec.type = "run_settled" /\ ConsumerAppend(rec)
    BY <1>4 DEF Settlement, Expire
  <2> HIDE DEF rec
  <2> QED BY <1>1, <2>1
<1>5. ASSUME NEW d, Answer(d) PROVE Moved
  BY <1>1, <1>5 DEF Answer
<1> QED BY <1>2, <1>3, <1>4, <1>5

\* Every step is of one of the kinds.
LEMMA StepMoves ==
  ASSUME Base, [Next]_vars
  PROVE  Moved
<1>1. CASE Next
  <2>1. ASSUME NEW n \in Claims, LoopStep(n) \/ Raise(n) PROVE Moved
    BY <2>1, LoopMoves
  <2> QED BY <1>1, <2>1, WorkerMoves, ConsumerMoves DEF Next
<1>2. CASE UNCHANGED vars
  BY <1>2 DEF vars, fiberVars, Moved, Kinds, Steady, Calm, Silent, Rests
<1> QED BY <1>1, <1>2

-----------------------------------------------------------------------------
(* Approvals, and how often a tool is entered *)

\* What a record that was written did to the log, to its fold and to the authors.
LEMMA Wrote ==
  ASSUME Base, Base', NEW rec, NEW a, LogAppend(rec, a)
  PROVE  /\ WellFormed(rec) /\ Accepts(Reduced(log), rec)
         /\ ViewOK(Truth) /\ Effect(Truth, rec, Truth') /\ Later(Truth, Truth')
         /\ Len(log) \in Nat /\ Len(log') = Len(log) + 1
         /\ log'[Len(log) + 1] = rec /\ \A i \in 1..Len(log) : log'[i] = log[i]
         /\ Len(author') = Len(author) + 1 /\ Len(author) = Len(log)
         /\ author'[Len(log) + 1] = a /\ \A i \in 1..Len(log) : author'[i] = author[i]
         /\ \A k \in 0..Len(log) : Prefix(log', k) = Prefix(log, k)
<1> DEFINE N == Len(log)
<1>1. log' = Append(log, rec) /\ ProperLog(log) /\ ProperLog(log') /\ Len(author) = N
      /\ author \in Seq({0} \cup Claims)
  BY DEF LogAppend, Base, LogOK
<1>2. /\ Len(log') = N + 1 /\ N \in Nat /\ log'[N + 1] = rec
      /\ \A i \in 1..N : log'[i] = log[i]
  BY <1>1, AppendedLog DEF ProperLog
<1>3. \A k \in 0..N : Prefix(log', k) = Prefix(log, k)
  BY <1>1, PrefixOfAppend DEF ProperLog
<1>4. /\ Len(author') = N + 1 /\ author'[N + 1] = a /\ \A i \in 1..N : author'[i] = author[i]
  <2>1. author' = Append(author, a)
    BY DEF LogAppend
  <2>2. author' \in Seq({0, a} \cup Claims)
    BY <1>1, <2>1
  <2> QED BY <1>1, <2>1, <2>2
<1>5. ViewOK(Truth) /\ Reduced(log) = Prefix(log, N) /\ Reduced(log') = Prefix(log', N + 1)
  BY <1>1, <1>2, ProperFold DEF Truth
<1>6. /\ WellFormed(rec) /\ Accepts(Reduced(log), rec) /\ Effect(Truth, rec, Truth')
  <2>1. N + 1 \in 1..Len(log') /\ (N + 1) - 1 = N /\ N \in 0..N
    BY <1>2
  <2>2. Prefix(log', (N + 1) - 1) = Reduced(log)
    BY <1>3, <1>5, <2>1
  <2>3. /\ WellFormed(log'[N + 1]) /\ Accepts(Prefix(log', (N + 1) - 1), log'[N + 1])
        /\ Effect(Prefix(log', (N + 1) - 1).view, log'[N + 1], Prefix(log', N + 1).view)
    BY <1>1, <2>1, ProperStep
  <2> QED BY <1>2, <1>5, <2>2, <2>3 DEF Truth
<1>7. Later(Truth, Truth')
  BY <1>5, <1>6, LaterStep DEF Accepts, Truth
<1> QED BY <1>1, <1>2, <1>3, <1>4, <1>5, <1>6, <1>7

\* Call c of claim n is started and waits to be let in.
AtGate(n, c) == fiber[n].phase = "gating" /\ fiber[n].doing = c

\* A call waits at one gate and nobody has been asked about it; what is asked
\* about was started, needs approval and is asked about once.
GatesOK ==
  /\ \A n \in Claims, c \in Calls : AtGate(n, c) =>
       /\ c \in StartedCalls(Truth) /\ ~Asked(c, log, Len(log))
       /\ \A m \in Claims : AtGate(m, c) => m = n
  /\ \A i \in 1..Len(log) : log[i].type = "suspended" =>
       log[i].call \in NeedsApproval /\ log[i].call \in StartedCalls(Truth)
  /\ AskedOnce(log)

\* What ran was started; unsafe calls that need no approval ran at most once and
\* not before their gate; unsafe calls that need it ran only when approved.
RunsOK ==
  /\ \A c \in Calls : executed[c] > 0 => c \in StartedCalls(Truth)
  /\ \A c \in Calls \ (Safe \cup NeedsApproval) :
       executed[c] <= 1 /\ \A n \in Claims : AtGate(n, c) => executed[c] = 0
  /\ \A c \in NeedsApproval \ Safe :
       executed[c] > 0 => Truth.approval_decisions[c] = "approved"

\* The invariant of the approvals.  How often a tool ran depends on what is still
\* to come: a call at its gate must not have run, and no question may be asked
\* twice, or a second answer would overrule the first.
Asking == GatesOK /\ RunsOK

\* No call comes to its gate.
NoNewGate == \A n \in Claims, c \in Calls : AtGate(n, c)' => AtGate(n, c)

\* A step without a record or a tool run, and no new call at its gate.
LEMMA AskingQuiet ==
  ASSUME Asking, UNCHANGED <<log, executed>>, NoNewGate
  PROVE  Asking'
<1>1. Truth' = Truth
  BY DEF Truth
<1>2. GatesOK'
  BY <1>1 DEF Asking, GatesOK, NoNewGate, AskedOnce, Asked
<1>3. RunsOK'
  BY <1>1 DEF Asking, RunsOK, NoNewGate
<1> QED BY <1>2, <1>3 DEF Asking

\* Which calls a human has been asked about, after a record.
LEMMA AskedMore ==
  ASSUME Base, Base', NEW rec, NEW a, LogAppend(rec, a), NEW c
  PROVE  Asked(c, log', Len(log')) <=> (Asked(c, log, Len(log)) \/ (rec.type = "suspended" /\ rec.call = c))
<1>1. /\ Len(log) \in Nat /\ Len(log') = Len(log) + 1
      /\ log'[Len(log) + 1] = rec /\ \A i \in 1..Len(log) : log'[i] = log[i]
  BY Wrote
<1>2. \A i : i \in 1..Len(log) + 1 <=> i \in 1..Len(log) \/ i = Len(log) + 1
  BY <1>1
<1> QED BY <1>1, <1>2 DEF Asked

\* A decision stays when the log asks about each call once.
LEMMA DecisionsStay ==
  ASSUME Base, Base', NEW rec, NEW a, LogAppend(rec, a), AskedOnce(log'), NEW c \in Calls,
         Truth.approval_decisions[c] # None
  PROVE  Truth'.approval_decisions[c] = Truth.approval_decisions[c]
<1>1. /\ Len(log) \in Nat /\ Len(log') = Len(log) + 1
      /\ \A k \in 0..Len(log) : Prefix(log', k) = Prefix(log, k)
  BY Wrote
<1>2. Reduced(log) = Prefix(log', Len(log)) /\ Len(log) \in 0..Len(log') /\ ProperLog(log')
  BY <1>1, ProperFold DEF Base, LogOK
<1>3. c # None
  BY AttemptsAssumption
<1> QED BY <1>2, <1>3, AnswersStand DEF Truth

\* A record keeps the invariant if a question is about a call that waited at its
\* gate and has left it, and a call comes to its gate with its start.
LEMMA AskingWrite ==
  ASSUME Base, Base', Asking, NEW rec, NEW a, LogAppend(rec, a), UNCHANGED executed,
         rec.type = "suspended" =>
            rec.call \in NeedsApproval /\ rec.call \in StartedCalls(Truth)
              /\ ~Asked(rec.call, log, Len(log)) /\ \A n \in Claims : ~AtGate(n, rec.call)',
         \A n \in Claims, c \in Calls : AtGate(n, c)' =>
            AtGate(n, c) \/ (rec.type = "tool_call_started" /\ rec.call = c
                              /\ \A m \in Claims : AtGate(m, c)' => m = n)
  PROVE  Asking'
<1>1. /\ Len(log) \in Nat /\ Len(log') = Len(log) + 1
      /\ log'[Len(log) + 1] = rec /\ \A i \in 1..Len(log) : log'[i] = log[i]
      /\ WellFormed(rec) /\ Accepts(Reduced(log), rec)
      /\ ViewOK(Truth) /\ Effect(Truth, rec, Truth') /\ StartedCalls(Truth) \subseteq StartedCalls(Truth')
  BY Wrote DEF Later
<1>2. \A i : i \in 1..Len(log') <=> i \in 1..Len(log) \/ i = Len(log) + 1
  BY <1>1
<1>3. rec.type = "tool_call_started" =>
        rec.call \notin StartedCalls(Truth) /\ rec.call \in StartedCalls(Truth')
  <2>1. rec.type = "tool_call_started" => Truth'.open_tool_calls = Truth.open_tool_calls \cup {rec.call}
    BY <1>1 DEF Effect, OpenCallsAfter
  <2>2. rec.type = "tool_call_started" => rec.call \notin StartedCalls(Truth)
    BY <1>1 DEF Accepts, RecordAccepted, ToolCallAccepted, Truth
  <2> QED BY <2>1, <2>2 DEF StartedCalls
<1>4. \A c : Asked(c, log, Len(log)) => c \in StartedCalls(Truth)
  BY DEF Asked, Asking, GatesOK
<1>5. AskedOnce(log')
  <2> SUFFICES ASSUME NEW i \in 1..Len(log'), NEW k \in 1..Len(log'),
                      log'[i].type = "suspended", log'[k].type = "suspended", log'[i].call = log'[k].call,
                      log'[i].call # None
               PROVE  i = k
    BY DEF AskedOnce
  <2>1. CASE i \in 1..Len(log) /\ k \in 1..Len(log)
    BY <1>1, <2>1 DEF Asking, GatesOK, AskedOnce
  <2>2. CASE i \in 1..Len(log) /\ k = Len(log) + 1
    BY <1>1, <2>2 DEF Asked
  <2>3. CASE i = Len(log) + 1 /\ k \in 1..Len(log)
    BY <1>1, <2>3 DEF Asked
  <2> QED BY <1>2, <2>1, <2>2, <2>3
<1>6. ASSUME NEW n \in Claims, NEW c \in Calls, AtGate(n, c)'
      PROVE  /\ c \in StartedCalls(Truth') /\ ~Asked(c, log', Len(log'))
             /\ \A m \in Claims : AtGate(m, c)' => m = n
  <2>1. ~(rec.type = "suspended" /\ rec.call = c)
    BY <1>6
  <2>2. CASE AtGate(n, c)
    <3>1. c \in StartedCalls(Truth) /\ ~Asked(c, log, Len(log)) /\ \A m \in Claims : AtGate(m, c) => m = n
      BY <2>2 DEF Asking, GatesOK
    <3>2. ~(rec.type = "tool_call_started" /\ rec.call = c)
      BY <1>3, <3>1
    <3>3. \A m \in Claims : AtGate(m, c)' => m = n
      BY <3>1, <3>2
    <3> QED BY <1>1, <2>1, <3>1, <3>3, AskedMore
  <2>3. CASE rec.type = "tool_call_started" /\ rec.call = c /\ \A m \in Claims : AtGate(m, c)' => m = n
    <3>1. ~Asked(c, log, Len(log))
      BY <1>3, <1>4, <2>3
    <3> QED BY <1>3, <2>1, <2>3, <3>1, AskedMore
  <2> QED BY <1>6, <2>2, <2>3
<1>7. GatesOK'
  <2>1. \A i \in 1..Len(log') : log'[i].type = "suspended" =>
          log'[i].call \in NeedsApproval /\ log'[i].call \in StartedCalls(Truth')
    BY <1>1, <1>2 DEF Asking, GatesOK
  <2> QED BY <1>5, <1>6, <2>1 DEF GatesOK
<1>8. RunsOK'
  <2>1. \A c \in Calls : executed'[c] > 0 => c \in StartedCalls(Truth')
    BY <1>1 DEF Asking, RunsOK
  <2>2. ASSUME NEW c \in Calls \ (Safe \cup NeedsApproval)
        PROVE  executed'[c] <= 1 /\ \A n \in Claims : AtGate(n, c)' => executed'[c] = 0
    <3>1. executed[c] <= 1 /\ \A n \in Claims : AtGate(n, c) => executed[c] = 0
      BY DEF Asking, RunsOK
    <3>2. rec.type = "tool_call_started" /\ rec.call = c => executed[c] = 0
      <4>1. executed[c] \in Nat /\ (executed[c] > 0 => c \in StartedCalls(Truth))
        BY DEF Base, StoreOK, Asking, RunsOK
      <4> QED BY <1>3, <4>1
    <3> QED BY <3>1, <3>2
  <2>3. ASSUME NEW c \in NeedsApproval \ Safe, executed'[c] > 0
        PROVE  Truth'.approval_decisions[c] = "approved"
    <3>1. c \in Calls /\ "approved" # None
      BY AttemptsAssumption
    <3>2. Truth.approval_decisions[c] = "approved"
      BY <2>3 DEF Asking, RunsOK
    <3> QED BY <1>5, <3>1, <3>2, DecisionsStay
  <2> QED BY <2>1, <2>2, <2>3 DEF RunsOK
<1> QED BY <1>7, <1>8 DEF Asking

\* Running a tool keeps it: what is recovered is safe or was approved, and at
\* its gate a call has not run.
LEMMA AskingEnter ==
  ASSUME Base, Asking, NEW n \in Claims, NEW c \in Calls, Enters(n, c)
  PROVE  Asking'
<1>0. log' = log /\ Truth' = Truth /\ executed' = [executed EXCEPT ![c] = @ + 1]
      /\ executed \in [Calls -> Nat] /\ c # None /\ "approved" # None
  BY AttemptsAssumption DEF Enters, Truth, Base, StoreOK
<1>1. \A m \in Claims, d \in Calls : AtGate(m, d)' => AtGate(m, d) /\ m # n
  BY DEF Enters, Alone, AtGate
<1>2. GatesOK'
  BY <1>0, <1>1 DEF Asking, GatesOK, AskedOnce, Asked
<1>3. ASSUME View(n).approval_decisions[c] # None
      PROVE  /\ c \in NeedsApproval /\ c \in StartedCalls(Truth)
             /\ Truth.approval_decisions[c] = View(n).approval_decisions[c]
  <2>1. View(n) = Prefix(log, fiber[n].head).view /\ fiber[n].head \in 0..Len(log) /\ ProperLog(log)
    BY BusyView DEF Base, LogOK
  <2>2. Asked(c, log, fiber[n].head)
    BY <1>0, <1>3, <2>1, AnswersInLog DEF DecisionsOK
  <2>3. c \in NeedsApproval /\ c \in StartedCalls(Truth)
    BY <2>1, <2>2 DEF Asked, Asking, GatesOK
  <2>4. Truth.approval_decisions[c] = View(n).approval_decisions[c]
    BY <1>0, <1>3, <2>1, AnswersStand DEF Asking, GatesOK, Truth
  <2> QED BY <2>3, <2>4
<1>4. CASE AtGate(n, c) /\ c \notin NeedsApproval
  <2>1. c \in StartedCalls(Truth) /\ \A m \in Claims : AtGate(m, c) => m = n
    BY <1>4 DEF Asking, GatesOK
  <2>2. c \notin Safe => executed[c] = 0
    BY <1>4 DEF Asking, RunsOK
  <2>3. RunsOK'
    BY <1>0, <1>1, <1>4, <2>1, <2>2 DEF Asking, RunsOK
  <2> QED BY <1>2, <2>3 DEF Asking
<1>5. CASE c \in StartedCalls(Truth) /\ (c \in Safe \/ (c \in NeedsApproval /\ Truth.approval_decisions[c] = "approved"))
  <2>3. RunsOK'
    BY <1>0, <1>1, <1>5 DEF Asking, RunsOK
  <2> QED BY <1>2, <2>3 DEF Asking
<1>6. CASE c \in View(n).open_tool_calls /\ View(n).approval_decisions[c] = None /\ c \in Safe
  <2>1. View(n) = Prefix(log, fiber[n].head).view /\ fiber[n].head \in 0..Len(log) /\ ProperLog(log)
    BY BusyView DEF Base, LogOK
  <2>2. Later(View(n), Truth)
    BY <2>1, Lasting DEF Truth
  <2>3. c \in StartedCalls(Truth)
    BY <1>6, <2>2 DEF Later, StartedCalls
  <2> QED BY <1>5, <1>6, <2>3
<1> QED BY <1>0, <1>3, <1>4, <1>5, <1>6 DEF Enters, AtGate

\* Every kind of step keeps it.
LEMMA AskingMoves ==
  ASSUME Base, Base', Asking, Kinds
  PROVE  Asking'
<1>1. CASE Silent
  <2>1. NoNewGate
    BY <1>1 DEF Silent, NoNewGate, AtGate, Rests
  <2> QED BY <1>1, <2>1, AskingQuiet DEF Silent
<1>2. ASSUME NEW n \in Claims, Turns(n) PROVE Asking'
  <2>1. NoNewGate
    BY <1>2 DEF Turns, NoNewGate, AtGate, Alone
  <2> QED BY <1>2, <2>1, AskingQuiet DEF Turns
<1>3. ASSUME NEW n \in Claims, NEW c \in Calls, Enters(n, c) PROVE Asking'
  BY <1>3, AskingEnter
<1>4. ASSUME NEW n \in Claims, NEW rec, Writes(n, rec) PROVE Asking'
  <2>1. LogAppend(rec, n) /\ UNCHANGED executed /\ \A m \in Claims \ {n} : fiber'[m] = fiber[m]
    BY <1>4 DEF Writes, Alone
  <2>2. CASE fiber'[n].phase # "gating" /\ rec.type # "suspended"
    <3>1. NoNewGate
      BY <2>1, <2>2 DEF NoNewGate, AtGate
    <3> QED BY <2>1, <2>2, <3>1, AskingWrite DEF NoNewGate
  <2>3. CASE /\ rec.type = "tool_call_started" /\ rec.call \in Calls
             /\ fiber[n].phase = "turning" /\ fiber'[n].phase = "gating"
             /\ fiber'[n].doing = rec.call
    <3>1. rec.call \notin StartedCalls(Truth)
      <4>1. Accepts(Reduced(log), rec)
        BY <2>1, Wrote
      <4> QED BY <2>3, <4>1 DEF Accepts, RecordAccepted, ToolCallAccepted, Truth
    <3>2. \A m \in Claims : ~AtGate(m, rec.call)
      BY <2>3, <3>1 DEF Asking, GatesOK
    <3>3. \A m \in Claims, c \in Calls : AtGate(m, c)' =>
            AtGate(m, c) \/ (rec.call = c /\ \A k \in Claims : AtGate(k, c)' => k = m)
      BY <2>1, <2>3, <3>2 DEF AtGate
    <3> QED BY <2>1, <2>3, <3>3, AskingWrite
  <2>4. CASE /\ rec.type = "suspended" /\ rec.call = fiber[n].doing /\ rec.call \in NeedsApproval
             /\ fiber[n].phase = "gating" /\ fiber'[n].phase = "suspending"
    <3>1. rec.call \in Calls /\ AtGate(n, rec.call)
      BY <2>4, AttemptsAssumption DEF AtGate
    <3>2. NoNewGate
      BY <2>1, <2>4 DEF NoNewGate, AtGate
    <3>3. /\ rec.call \in StartedCalls(Truth) /\ ~Asked(rec.call, log, Len(log))
          /\ \A m \in Claims : AtGate(m, rec.call) => m = n
      BY <3>1 DEF Asking, GatesOK
    <3>4. \A m \in Claims : ~AtGate(m, rec.call)'
      BY <2>4, <3>1, <3>2, <3>3 DEF NoNewGate, AtGate
    <3> QED BY <2>1, <2>4, <3>2, <3>3, <3>4, AskingWrite DEF NoNewGate
  <2> QED BY <1>4, <2>2, <2>3, <2>4 DEF Writes
<1>5. ASSUME NEW n \in Claims, NEW rec, SettlesFor(n, rec) PROVE Asking'
  <2>1. NoNewGate
    BY <1>5 DEF SettlesFor, NoNewGate, AtGate, Alone
  <2> QED BY <1>5, <2>1, AskingWrite DEF SettlesFor, NoNewGate
<1>6. ASSUME NEW n \in Claims, NEW rec, Forces(n, rec) PROVE Asking'
  <2>1. NoNewGate
    BY <1>6 DEF Forces, NoNewGate, AtGate, Rests
  <2> QED BY <1>6, <2>1, AskingWrite DEF Forces, NoNewGate
<1>7. ASSUME NEW rec, Consumes(rec) PROVE Asking'
  <2>1. NoNewGate
    BY <1>7 DEF Consumes, NoNewGate, AtGate
  <2> QED BY <1>7, <2>1, AskingWrite DEF Consumes, NoNewGate
<1> QED BY <1>1, <1>2, <1>3, <1>4, <1>5, <1>6, <1>7 DEF Kinds

\* No call has run and none is asked about before the Run is admitted.
LEMMA AskingInit == Init => Asking
<1> SUFFICES ASSUME Init PROVE Asking
  OBVIOUS
<1>1. log = <<>> /\ Len(log) = 0 /\ executed = [c \in Calls |-> 0]
      /\ \A n \in Claims : fiber[n].phase = "unclaimed"
  BY DEF Init, FibersInit, Unclaimed
<1>2. \A c \in Calls : ~(executed[c] > 0) /\ executed[c] <= 1
  BY <1>1
<1>3. GatesOK
  BY <1>1 DEF GatesOK, AtGate, AskedOnce
<1>4. RunsOK
  BY <1>1, <1>2, AttemptsAssumption DEF RunsOK, AtGate
<1> QED BY <1>3, <1>4 DEF Asking

\* The invariant of the approvals, in every state.
THEOREM AskingHolds == Spec => [](Base /\ Asking)
<1>1. Init => Base /\ Asking
  BY InitBase, AskingInit
<1>2. Base /\ Asking /\ [Next]_vars => (Base /\ Asking)'
  BY BaseStep, StepMoves, AskingMoves DEF Moved
<1> QED BY <1>1, <1>2, PTL DEF Spec

\* UnsafeCallRunsOnce where approval is asked for safe calls only: whichever
\* Workers die between a call's start and its finish, _settle_open_tool_calls
\* never runs an unsafe call again.  The hypothesis is needed: an approved call
\* is recovered by running it, safe or not, so an unsafe one that needed
\* approval can run in every Attempt.
THEOREM RunsOnce ==
  ASSUME NeedsApproval \subseteq Safe
  PROVE  Spec => []UnsafeCallRunsOnce
<1>1. Asking => UnsafeCallRunsOnce
  BY DEF Asking, RunsOK, UnsafeCallRunsOnce
<1> QED BY <1>1, AskingHolds, PTL

\* ApprovedBeforeRun where approval is asked for unsafe calls only: a denial or
\* an expiry that arrives while a Worker dies never lets a tool run.  The
\* hypothesis is needed: a safe call without a decision is recovered by running
\* it, whether or not its gate was reached.
THEOREM ApprovalFirst ==
  ASSUME NeedsApproval \cap Safe = {}
  PROVE  Spec => []ApprovedBeforeRun
<1>1. Asking => ApprovedBeforeRun
  BY DEF Asking, RunsOK, ApprovedBeforeRun
<1> QED BY <1>1, AskingHolds, PTL

-----------------------------------------------------------------------------
(* One Attempt after the other *)

\* Nobody writes for a fiber that has lost its log.
Orderly == ~Happens("raise") /\ ~Happens("deadline")

\* From position i to position h of s only n and the consumer wrote.
OnlyWriter(s, n, i, h) == \A k \in 1..Len(s) : i <= k /\ k <= h => s[k] \in {0, n}

\* The fiber of claim n wrote a record.
HasWritten(n) == \E i \in 1..Len(author) : author[i] = n

\* Between two records of one fiber nobody but the consumer wrote, and a fiber
\* that is still busy has seen to the end of what it wrote; one that has not
\* begun wrote nothing; external records are the consumer's.
WritersOK ==
  /\ \A i \in 1..Len(log) : author[i] # 0 => log[i].type \notin External
  /\ \A i, m \in 1..Len(author) : i < m /\ author[i] > 0 /\ author[m] = author[i] =>
       OnlyWriter(author, author[i], i, m)
  /\ \A n \in Claims : fiber[n].phase \in Busy =>
       \A i \in 1..Len(author) : author[i] = n =>
         i <= fiber[n].head /\ OnlyWriter(author, n, i, fiber[n].head)
  /\ \A n \in Claims : n <= MaxAttempts /\ fiber[n].phase \in {"unclaimed", "claimed", "failing"} =>
       ~HasWritten(n)
  /\ \A n \in Claims : n > MaxAttempts /\ HasWritten(n) => Truth.settled

\* The invariant of the writers, for worlds in which each writes for itself.
OneWriter == Orderly => Calm /\ WritersOK

\* A busy fiber whose append goes through has missed records of the consumer
\* only.
LEMMA MissedAreForeign ==
  ASSUME Base, WritersOK, NEW n \in Claims, AllExternal(Missed(n)),
         NEW k \in 1..Len(author), k > fiber[n].head
  PROVE  author[k] = 0
<1>1. fiber[n].head \in 0..Len(log) /\ ProperLog(log) /\ Len(author) = Len(log) /\ Len(log) \in Nat
  <2>1. fiber[n].head \in 0..Len(log)
    BY BusyView
  <2> QED BY <2>1 DEF Base, LogOK, ProperLog
<1>2. \A i \in fiber[n].head + 1..Len(log) : log[i].type \in External
  BY <1>1, ExternalSuffix DEF Missed
<1>3. k \in fiber[n].head + 1..Len(log) /\ k \in 1..Len(log)
  BY <1>1
<1> QED BY <1>2, <1>3 DEF WritersOK

\* A step without a record keeps the order of the writers, if a fiber starts from
\* the whole log and reads on over what others may write.
LEMMA WritersQuiet ==
  ASSUME Base, WritersOK, UNCHANGED <<log, author>>,
         \A n \in Claims : fiber'[n].phase \in Busy =>
            \/ fiber[n].phase \in Busy /\ fiber'[n].head = fiber[n].head
            \/ fiber[n].phase = "claimed"
            \/ /\ fiber[n].phase \in Busy /\ AllExternal(Missed(n))
               /\ fiber'[n].head = Len(log),
         \A n \in Claims : n <= MaxAttempts /\ fiber'[n].phase \in {"unclaimed", "claimed", "failing"} =>
            fiber[n].phase \in {"unclaimed", "claimed", "failing"}
  PROVE  WritersOK'
<1>1. Truth' = Truth
  BY DEF Truth
<1>2. ASSUME NEW n \in Claims, fiber'[n].phase \in Busy, NEW i \in 1..Len(author), author[i] = n
      PROVE  i <= fiber'[n].head /\ OnlyWriter(author, n, i, fiber'[n].head)
  <2>1. CASE fiber[n].phase \in Busy /\ fiber'[n].head = fiber[n].head
    BY <1>2, <2>1 DEF WritersOK
  <2>2. CASE fiber[n].phase = "claimed"
    <3>1. n <= MaxAttempts
      BY <2>2, FibersAssumption DEF Base, FibersOK, FiberOK, Claims
    <3> QED BY <1>2, <2>2, <3>1 DEF WritersOK, HasWritten
  <2>3. CASE /\ fiber[n].phase \in Busy /\ AllExternal(Missed(n)) /\ fiber'[n].head = Len(log)
    <3>1. OnlyWriter(author, n, i, fiber[n].head) /\ Len(author) = Len(log)
      BY <1>2, <2>3 DEF WritersOK, Base, LogOK
    <3>2. ASSUME NEW k \in 1..Len(author), i <= k PROVE author[k] \in {0, n}
      <4>1. fiber[n].head \in Nat
        BY DEF Base, FibersOK, FiberOK, FiberShape
      <4>2. k <= fiber[n].head \/ k > fiber[n].head
        BY <4>1
      <4> QED BY <2>3, <3>1, <3>2, <4>2, MissedAreForeign DEF OnlyWriter
    <3> QED BY <2>3, <3>1, <3>2 DEF OnlyWriter
  <2> QED BY <1>2, <2>1, <2>2, <2>3
<1> QED BY <1>1, <1>2 DEF WritersOK, OnlyWriter, HasWritten

\* A record keeps it, if the writer has missed nothing but the consumer's.
LEMMA WritersWrite ==
  ASSUME Base, Base', WritersOK, NEW rec, NEW a \in {0} \cup Claims, LogAppend(rec, a),
         a # 0 => rec.type \notin External,
         \A i \in 1..Len(author) : author[i] = a /\ a # 0 => OnlyWriter(author, a, i, Len(author)),
         \A n \in Claims : fiber'[n].phase \in Busy =>
            \/ n # a /\ fiber[n].phase \in Busy /\ fiber'[n].head = fiber[n].head
            \/ n = a /\ fiber'[n].head = Len(log) + 1,
         \A n \in Claims : n <= MaxAttempts /\ fiber'[n].phase \in {"unclaimed", "claimed", "failing"} =>
            n # a /\ fiber[n].phase \in {"unclaimed", "claimed", "failing"},
         a > MaxAttempts => rec.type = "run_settled"
  PROVE  WritersOK'
<1> DEFINE N == Len(log)
<1>1. /\ N \in Nat /\ Len(log') = N + 1 /\ Len(author') = N + 1 /\ Len(author) = N
      /\ log'[N + 1] = rec /\ \A i \in 1..N : log'[i] = log[i]
      /\ author'[N + 1] = a /\ \A i \in 1..N : author'[i] = author[i]
      /\ Effect(Truth, rec, Truth') /\ (Truth.settled => Truth'.settled)
  BY Wrote DEF Later
<1> HIDE DEF N
<1>2. \A i : i \in 1..N + 1 <=> i \in 1..N \/ i = N + 1
  BY <1>1
<1>3. 0 \notin Claims /\ \A n \in Claims : n \in Nat /\ n > 0
  BY FibersAssumption DEF Claims
<1>4. \A n \in Claims : fiber[n].head \in Nat /\ fiber[n].head <= N
  BY <1>1, BusyView DEF N
<1>5. ASSUME NEW n, NEW i \in 1..N, NEW h \in Nat, h <= N, OnlyWriter(author, n, i, h)
      PROVE  OnlyWriter(author', n, i, h)
  <2>1. \A k \in 1..N + 1 : k <= h => k \in 1..N
    BY <1>1, <1>5
  <2> QED BY <1>1, <1>5, <2>1 DEF OnlyWriter
<1>6. ASSUME NEW i \in 1..N + 1, author'[i] = a, a # 0
      PROVE  OnlyWriter(author', a, i, N + 1)
  <2>1. CASE i \in 1..N
    <3>1. OnlyWriter(author, a, i, N)
      BY <1>1, <1>6, <2>1
    <3>2. \A k \in 1..N : k <= N
      BY <1>1
    <3> QED BY <1>1, <1>2, <3>1, <3>2 DEF OnlyWriter
  <2>2. CASE i = N + 1
    <3>1. \A k \in 1..N : ~(N + 1 <= k)
      BY <1>1
    <3> QED BY <1>1, <1>2, <2>2, <3>1 DEF OnlyWriter
  <2> QED BY <1>2, <2>1, <2>2
<1>7. \A i \in 1..Len(log') : author'[i] # 0 => log'[i].type \notin External
  BY <1>1, <1>2 DEF WritersOK, N
<1>8. ASSUME NEW i \in 1..N + 1, NEW m \in 1..N + 1, i < m, author'[i] > 0, author'[m] = author'[i]
      PROVE  OnlyWriter(author', author'[i], i, m)
  <2>1. i \in 1..N /\ m \in Nat
    BY <1>1, <1>8
  <2>2. CASE m \in 1..N
    <3>1. OnlyWriter(author, author[i], i, m) /\ m <= N
      BY <1>1, <1>8, <2>1, <2>2 DEF WritersOK
    <3> QED BY <1>1, <1>5, <2>1, <3>1
  <2>3. CASE m = N + 1
    <3>1. author'[i] = a /\ a # 0
      BY <1>1, <1>8, <2>3
    <3> QED BY <1>6, <2>3, <3>1
  <2> QED BY <1>2, <2>2, <2>3
<1>9. ASSUME NEW n \in Claims, fiber'[n].phase \in Busy, NEW i \in 1..N + 1, author'[i] = n
      PROVE  i <= fiber'[n].head /\ OnlyWriter(author', n, i, fiber'[n].head)
  <2>1. CASE n # a /\ fiber[n].phase \in Busy /\ fiber'[n].head = fiber[n].head
    <3>1. i \in 1..N /\ author[i] = n
      BY <1>1, <1>2, <1>9, <2>1
    <3>2. i <= fiber[n].head /\ OnlyWriter(author, n, i, fiber[n].head)
      BY <1>1, <2>1, <3>1 DEF WritersOK
    <3>3. OnlyWriter(author', n, i, fiber[n].head)
      BY <1>4, <1>5, <3>1, <3>2
    <3> QED BY <2>1, <3>2, <3>3
  <2>2. CASE n = a /\ fiber'[n].head = N + 1
    <3>1. OnlyWriter(author', a, i, N + 1)
      BY <1>3, <1>6, <1>9, <2>2
    <3>2. OnlyWriter(author', n, i, fiber'[n].head)
      BY <2>2, <3>1 DEF OnlyWriter
    <3> QED BY <1>1, <1>9, <2>2, <3>2
  <2> QED BY <1>9, <2>1, <2>2 DEF N
<1>10. ASSUME NEW n \in Claims, n <= MaxAttempts, fiber'[n].phase \in {"unclaimed", "claimed", "failing"}
       PROVE  ~HasWritten(n)'
  <2>1. ~HasWritten(n) /\ n # a
    BY <1>10 DEF WritersOK
  <2> QED BY <1>1, <1>2, <2>1 DEF HasWritten
<1>11. ASSUME NEW n \in Claims, n > MaxAttempts, HasWritten(n)'
       PROVE  Truth'.settled
  <2>1. CASE HasWritten(n)
    BY <1>1, <1>11, <2>1 DEF WritersOK
  <2>2. CASE n = a
    <3>1. rec.type = "run_settled"
      BY <1>11, <2>2
    <3> QED BY <1>1, <3>1 DEF Effect
  <2> QED BY <1>1, <1>2, <1>11, <2>1, <2>2 DEF HasWritten
<1>12. \A i, m \in 1..Len(author') : i < m /\ author'[i] > 0 /\ author'[m] = author'[i] =>
          OnlyWriter(author', author'[i], i, m)
  BY <1>1, <1>8
<1>13. \A n \in Claims : fiber'[n].phase \in Busy =>
          \A i \in 1..Len(author') : author'[i] = n =>
            i <= fiber'[n].head /\ OnlyWriter(author', n, i, fiber'[n].head)
  BY <1>1, <1>9
<1> QED BY <1>7, <1>10, <1>11, <1>12, <1>13 DEF WritersOK

\* Every kind of step keeps it.
LEMMA WriterMoves ==
  ASSUME Base, Base', WritersOK, Calm, Orderly, Kinds
  PROVE  WritersOK'
<1>0. 0 \notin Claims /\ (\A n \in Claims : n > MaxAttempts => ~(n <= MaxAttempts))
      /\ \A n \in Claims : n \in Nat
  BY FibersAssumption DEF Claims
<1>1. CASE Silent
  <2>1. UNCHANGED <<log, author>>
    BY <1>1 DEF Silent
  <2>2. ASSUME NEW n \in Claims, fiber'[n].phase \in Busy
        PROVE  \/ fiber[n].phase \in Busy /\ fiber'[n].head = fiber[n].head
               \/ fiber[n].phase = "claimed"
    BY <1>1, <2>2 DEF Silent, Rests, Busy, Working, Orderly
  <2>3. ASSUME NEW n \in Claims, n <= MaxAttempts, fiber'[n].phase \in {"unclaimed", "claimed", "failing"}
        PROVE  fiber[n].phase \in {"unclaimed", "claimed", "failing"}
    BY <1>0, <1>1, <2>3 DEF Silent, Rests, Orderly
  <2> QED BY <2>1, <2>2, <2>3, WritersQuiet
<1>2. ASSUME NEW n \in Claims, Turns(n) PROVE WritersOK'
  <2>1. UNCHANGED <<log, author>> /\ \A m \in Claims \ {n} : fiber'[m] = fiber[m]
    BY <1>2 DEF Turns, Alone
  <2>2. /\ fiber[n].phase \in Busy /\ fiber'[n].phase \notin {"unclaimed", "claimed", "failing"}
        /\ fiber'[n].head = fiber[n].head \/ (AllExternal(Missed(n)) /\ fiber'[n].head = Len(log))
    BY <1>2 DEF Turns, Busy, Working
  <2> QED BY <2>1, <2>2, WritersQuiet
<1>3. ASSUME NEW n \in Claims, NEW c \in Calls, Enters(n, c) PROVE WritersOK'
  <2>1. UNCHANGED <<log, author>> /\ \A m \in Claims \ {n} : fiber'[m] = fiber[m]
    BY <1>3 DEF Enters, Alone
  <2>2. /\ fiber[n].phase \in Busy /\ fiber'[n].phase \notin {"unclaimed", "claimed", "failing"}
        /\ fiber'[n].head = fiber[n].head
    BY <1>3 DEF Enters, Busy, Working
  <2> QED BY <2>1, <2>2, WritersQuiet
<1>4. ASSUME NEW n \in Claims, NEW rec, Writes(n, rec) PROVE WritersOK'
  <2>1. LogAppend(rec, n) /\ \A m \in Claims \ {n} : fiber'[m] = fiber[m]
    BY <1>4 DEF Writes, Alone
  <2>2. /\ fiber[n].phase \in Busy /\ fiber'[n].phase \notin {"unclaimed", "claimed", "failing"}
        /\ fiber'[n].head = Len(log) + 1 /\ rec.type \notin External /\ AllExternal(Missed(n))
    BY <1>4 DEF Writes, External
  <2>3. ASSUME NEW i \in 1..Len(author), author[i] = n
        PROVE  OnlyWriter(author, n, i, Len(author))
    <3>1. OnlyWriter(author, n, i, fiber[n].head)
      BY <2>2, <2>3 DEF WritersOK
    <3>2. fiber[n].head \in Nat
      BY DEF Base, FibersOK, FiberOK, FiberShape
    <3>3. ASSUME NEW k \in 1..Len(author), i <= k PROVE author[k] \in {0, n}
      <4>1. k <= fiber[n].head \/ k > fiber[n].head
        BY <3>2
      <4> QED BY <2>2, <3>1, <3>3, <4>1, MissedAreForeign DEF OnlyWriter
    <3> QED BY <3>3 DEF OnlyWriter
  <2>4. ~(n > MaxAttempts)
    BY <1>0, <2>2, BusyFiber
  <2> QED BY <1>0, <2>1, <2>2, <2>3, <2>4, WritersWrite
<1>5. ASSUME NEW n \in Claims, NEW rec, SettlesFor(n, rec) PROVE WritersOK'
  <2>1. LogAppend(rec, n) /\ \A m \in Claims \ {n} : fiber'[m] = fiber[m]
    BY <1>5 DEF SettlesFor, Alone
  <2>2. /\ fiber[n].phase \in {"exhausted", "failing"}
        /\ fiber'[n].phase \notin Busy \cup {"unclaimed", "claimed", "failing"}
        /\ rec.type = "run_settled" /\ rec.type \notin External /\ ~Truth.settled
    BY <1>5 DEF SettlesFor, External, Busy, Working
  <2>3. ~HasWritten(n)
    <3>1. CASE fiber[n].phase = "exhausted"
      <4>1. n > MaxAttempts
        BY <3>1 DEF Base, FibersOK, FiberOK
      <4> QED BY <2>2, <4>1 DEF WritersOK
    <3>2. CASE fiber[n].phase = "failing"
      <4>1. n <= MaxAttempts
        BY <3>2, <1>0, FibersAssumption DEF Base, FibersOK, FiberOK
      <4> QED BY <3>2, <4>1 DEF WritersOK
    <3> QED BY <2>2, <3>1, <3>2
  <2> QED BY <1>0, <2>1, <2>2, <2>3, WritersWrite DEF HasWritten
<1>6. ASSUME NEW n \in Claims, NEW rec, Forces(n, rec) PROVE WritersOK'
  <2>1. fiber[n].grip = 0 /\ fiber[n].grip > 0
    BY <1>6 DEF Forces, Calm
  <2> QED BY <2>1
<1>7. ASSUME NEW rec, Consumes(rec) PROVE WritersOK'
  <2>1. LogAppend(rec, 0) /\ fiber' = fiber
    BY <1>7 DEF Consumes
  <2>2. ~(0 > MaxAttempts)
    BY FibersAssumption
  <2> QED BY <1>0, <2>1, <2>2, WritersWrite
<1> QED BY <1>1, <1>2, <1>3, <1>4, <1>5, <1>6, <1>7 DEF Kinds

\* Nobody has written before the Run is admitted.
LEMMA WritersInit == Init => OneWriter
<1> SUFFICES ASSUME Init PROVE Calm /\ WritersOK
  BY DEF OneWriter
<1>1. /\ log = <<>> /\ author = <<>> /\ Len(log) = 0 /\ Len(author) = 0
      /\ \A n \in Claims : fiber[n].phase = "unclaimed" /\ fiber[n].clock = "ahead" /\ fiber[n].grip = 0
  BY DEF Init, FibersInit, Unclaimed
<1>2. world.overdue = "no"
  BY FibersAssumption DEF Init, FibersInit
<1> QED BY <1>1, <1>2 DEF Calm, WritersOK, HasWritten, Busy, Working

\* The order of the writers, in every state.
THEOREM WritersHold == Spec => [](Base /\ OneWriter)
<1>1. Init => Base /\ OneWriter
  BY InitBase, WritersInit
<1>2. ASSUME Base, OneWriter, [Next]_vars PROVE (Base /\ OneWriter)'
  <2>1. Base' /\ Kinds /\ Steady
    BY <1>2, BaseStep, StepMoves DEF Moved
  <2>2. Orderly' <=> Orderly
    BY <2>1 DEF Orderly, Happens, Steady
  <2> QED BY <1>2, <2>1, <2>2, WriterMoves DEF OneWriter, Steady, Orderly
<1> QED BY <1>1, <1>2, PTL DEF Spec

\* It is what OneAttemptWrites says.
LEMMA WritersMean == Base /\ OneWriter /\ Orderly => OneAttemptWrites
<1> SUFFICES ASSUME Base, OneWriter, Orderly,
                    NEW i \in DOMAIN author, NEW k \in DOMAIN author, NEW m \in DOMAIN author,
                    i < k, k < m, author[i] > 0, author[m] = author[i]
             PROVE  author[k] \in {0, author[i]}
  BY DEF OneAttemptWrites
<1>1. DOMAIN author = 1..Len(author) /\ Len(author) \in Nat
  BY DEF Base, LogOK
<1>2. i < m /\ i <= k /\ k <= m
  BY <1>1
<1>3. OnlyWriter(author, author[i], i, m)
  BY <1>1, <1>2 DEF OneWriter, WritersOK
<1> QED BY <1>1, <1>2, <1>3 DEF OnlyWriter

\* OneAttemptWrites for any number of Workers and claims: after a lease has
\* lapsed under a live fiber, the fiber of the new claim appends, and the old
\* one's next append finds that it missed more than it may absorb.  No token or
\* lock stops it: the sequence number does.  The hypothesis says that deadlines
\* are studied where raising is, which the property excludes: _force_settle and
\* the failure handler open the log anew and write for a fiber that has lost
\* it.
THEOREM OneWrites ==
  ASSUME \A w \in Worlds : "deadline" \in w.faults => "raise" \in w.faults
  PROVE  Spec => []OneAttemptWrites
<1> DEFINE Kept == "deadline" \in world.faults => "raise" \in world.faults
<1>1. Init => Kept
  BY DEF Init, FibersInit
<1>2. Base /\ Kept /\ [Next]_vars => Kept'
  BY StepMoves DEF Moved, Steady
<1>3. Base /\ OneWriter /\ Kept => OneAttemptWrites
  BY WritersMean DEF Orderly, Happens, OneAttemptWrites
<1>4. Spec => []Kept
  BY <1>1, <1>2, BaseHolds, PTL DEF Spec
<1> QED BY <1>3, <1>4, WritersHold, PTL

-----------------------------------------------------------------------------
(* No call dangles in a turn *)

\* No question is asked, or none is answered.
Unanswered == NeedsApproval = {} \/ ~Happens("answer")

\* A fiber in a turn has no open call; a loop that goes round is suspended or has
\* none; a fiber that asks questions is suspended, and stays so.
TurnsOK ==
  /\ ~Happens("answer") => \A i \in 1..Len(log) : log[i].type # "resumed"
  /\ \A n \in Claims :
       /\ fiber[n].phase \in {"suspending", "answering"} => View(n).suspended /\ NeedsApproval # {}
       /\ fiber[n].phase = "looping" => View(n).open_tool_calls = {} \/ View(n).suspended
       /\ fiber[n].phase = "turning" => View(n).open_tool_calls = {}

\* A fiber that reads nothing keeps its state.
LEMMA ViewStays ==
  ASSUME Base, Base', NEW n \in Claims, fiber'[n].head = fiber[n].head,
         log' = log \/ (\E rec, a : LogAppend(rec, a))
  PROVE  View(n)' = View(n)
<1>1. View(n) = Prefix(log, fiber[n].head).view /\ fiber[n].head \in 0..Len(log)
  BY BusyView
<1>2. View(n)' = Prefix(log', fiber'[n].head).view
  BY DEF View, Prefix, Reduced
<1>3. Prefix(log', fiber[n].head) = Prefix(log, fiber[n].head)
  BY <1>1, Wrote
<1> QED BY <1>1, <1>2, <1>3

\* A step that leaves no fiber in the loop's own phases anew.
LEMMA TurnsQuiet ==
  ASSUME Base, Base', TurnsOK, log' = log \/ (\E rec, a : LogAppend(rec, a)),
         ~Happens("answer") => \A i \in 1..Len(log') : log'[i].type # "resumed",
         world'.faults = world.faults,
         \A n \in Claims : Rests(n) \/ fiber'[n].phase \notin {"suspending", "answering", "looping", "turning"}
  PROVE  TurnsOK'
<1>1. ~Happens("answer")' => \A i \in 1..Len(log') : log'[i].type # "resumed"
  BY DEF Happens
<1>2. ASSUME NEW n \in Claims
      PROVE  /\ fiber'[n].phase \in {"suspending", "answering"} => View(n)'.suspended /\ NeedsApproval # {}
             /\ fiber'[n].phase = "looping" => View(n)'.open_tool_calls = {} \/ View(n)'.suspended
             /\ fiber'[n].phase = "turning" => View(n)'.open_tool_calls = {}
  <2>1. CASE Rests(n)
    <3>1. View(n)' = View(n) /\ fiber'[n].phase = fiber[n].phase
      BY <2>1, ViewStays DEF Rests
    <3> QED BY <3>1 DEF TurnsOK
  <2> QED BY <2>1
<1> QED BY <1>1, <1>2 DEF TurnsOK

\* The loop's own moves keep TurnsOK.
LEMMA TurnsMove ==
  ASSUME Base, Base', TurnsOK, NEW n \in Claims, Turns(n), world'.faults = world.faults
  PROVE  TurnsOK'
<1>1. log' = log /\ \A m \in Claims \ {n} : fiber'[m] = fiber[m]
  BY DEF Turns, Alone
<1>2. ASSUME NEW m \in Claims \ {n}
      PROVE  View(m)' = View(m) /\ fiber'[m].phase = fiber[m].phase
  BY <1>1, ViewStays
<1>3. CASE /\ fiber[n].phase = "recovering" /\ View(n).open_tool_calls = {}
           /\ fiber'[n].phase = "looping" /\ fiber'[n].head = fiber[n].head
  <2>1. View(n)' = View(n)
    BY <1>1, <1>3, ViewStays
  <2> QED BY <1>1, <1>2, <1>3, <2>1 DEF TurnsOK, Happens
<1>4. CASE /\ fiber[n].phase = "looping" /\ ~View(n).suspended /\ AllExternal(Missed(n))
           /\ fiber'[n].phase = "turning" /\ fiber'[n].head = Len(log)
  <2>1. View(n) = Prefix(log, fiber[n].head).view /\ fiber[n].head \in 0..Len(log) /\ ProperLog(log)
    BY BusyView DEF Base, LogOK
  <2>2. Unmoved(View(n), Truth)
    BY <1>4, <2>1, ExternalKeeps DEF Missed, Truth
  <2>3. View(n)' = Truth
    <3>1. View(n)' = Prefix(log, Len(log)).view
      BY <1>1, <1>4 DEF View, Prefix, Reduced
    <3> QED BY <2>1, <3>1, ProperFold DEF Truth
  <2>4. View(n)'.open_tool_calls = {}
    BY <1>4, <2>2, <2>3 DEF TurnsOK, Unmoved
  <2> QED BY <1>1, <1>2, <1>4, <2>4 DEF TurnsOK, Happens
<1>5. CASE fiber[n].phase = "suspending" /\ fiber'[n].phase = "looping" /\ fiber'[n].head = fiber[n].head
  <2>1. View(n)' = View(n)
    BY <1>1, <1>5, ViewStays
  <2> QED BY <1>1, <1>2, <1>5, <2>1 DEF TurnsOK, Happens
<1> QED BY <1>3, <1>4, <1>5 DEF Turns

\* The loop's records keep it.
LEMMA TurnsWrite ==
  ASSUME Base, Base', Unanswered, TurnsOK, NEW n \in Claims, NEW rec, Writes(n, rec), world'.faults = world.faults
  PROVE  TurnsOK'
<1>1. LogAppend(rec, n) /\ \A m \in Claims \ {n} : fiber'[m] = fiber[m]
  BY DEF Writes, Alone
<1>2. /\ Len(log) \in Nat /\ Len(log') = Len(log) + 1
      /\ log'[Len(log) + 1] = rec /\ \A i \in 1..Len(log) : log'[i] = log[i]
      /\ Effect(Truth, rec, Truth')
  BY <1>1, Wrote
<1>3. rec.type # "resumed"
  BY DEF Writes
<1>4. ~Happens("answer") => \A i \in 1..Len(log') : log'[i].type # "resumed"
  <2>1. \A i : i \in 1..Len(log') <=> i \in 1..Len(log) \/ i = Len(log) + 1
    BY <1>2
  <2> QED BY <1>2, <1>3, <2>1 DEF TurnsOK
<1>5. CASE fiber'[n].phase \notin {"suspending", "answering", "looping", "turning"}
  BY <1>1, <1>4, <1>5, TurnsQuiet DEF Rests
<1>6. ASSUME fiber'[n].phase \in {"suspending", "answering"}, Truth'.suspended, NeedsApproval # {}
      PROVE  TurnsOK'
  <2>1. View(n)' = Truth'
    <3>1. fiber'[n].head = Len(log')
      BY <1>2 DEF Writes
    <3>2. View(n)' = Prefix(log', Len(log')).view /\ ProperLog(log')
      BY <3>1 DEF View, Prefix, Reduced, Base, LogOK
    <3> QED BY <3>2, ProperFold DEF Truth
  <2>2. ASSUME NEW m \in Claims \ {n}
        PROVE  View(m)' = View(m) /\ fiber'[m].phase = fiber[m].phase
    BY <1>1, ViewStays
  <2>3. ~Happens("answer")' => \A i \in 1..Len(log') : log'[i].type # "resumed"
    BY <1>4 DEF Happens
  <2>4. ASSUME NEW m \in Claims
        PROVE  /\ fiber'[m].phase \in {"suspending", "answering"} => View(m)'.suspended /\ NeedsApproval # {}
               /\ fiber'[m].phase = "looping" => View(m)'.open_tool_calls = {} \/ View(m)'.suspended
               /\ fiber'[m].phase = "turning" => View(m)'.open_tool_calls = {}
    <3>1. CASE m = n
      BY <1>6, <2>1, <3>1
    <3>2. CASE m # n
      BY <2>2, <3>2 DEF TurnsOK
    <3> QED BY <3>1, <3>2
  <2> QED BY <2>3, <2>4 DEF TurnsOK
<1>7. CASE rec.type = "suspended" /\ fiber'[n].phase = "suspending" /\ rec.call \in NeedsApproval
  <2>1. Truth'.suspended
    BY <1>2, <1>7 DEF Effect, SuspendedAfter
  <2> QED BY <1>6, <1>7, <2>1
<1>8. CASE /\ rec.type \in {"tool_call_started", "tool_call_finished"}
           /\ fiber[n].phase \in {"suspending", "answering"} /\ fiber'[n].phase \in {"suspending", "answering"}
  <2>1. View(n).suspended /\ NeedsApproval # {} /\ ~Happens("answer")
    BY <1>8 DEF TurnsOK, Unanswered
  <2>2. View(n) = Prefix(log, fiber[n].head).view /\ fiber[n].head \in 0..Len(log) /\ ProperLog(log)
    BY BusyView DEF Base, LogOK
  <2>3. \A i \in fiber[n].head + 1..Len(log) : log[i].type # "resumed"
    BY <2>1, <2>2, <1>2 DEF TurnsOK
  <2>4. Truth.suspended
    BY <2>1, <2>2, <2>3, SuspensionLasts DEF Truth
  <2>5. Truth'.suspended
    BY <1>2, <1>8, <2>4 DEF Effect, SuspendedAfter
  <2> QED BY <1>6, <1>8, <2>1, <2>5
<1> QED BY <1>5, <1>7, <1>8 DEF Writes

\* Every kind of step keeps it.
LEMMA TurnsHold ==
  ASSUME Base, Base', Unanswered, TurnsOK, Moved
  PROVE  TurnsOK'
<1>0. world'.faults = world.faults
  BY DEF Moved, Steady
<1>1. CASE Silent
  <2>1. log' = log
    BY <1>1 DEF Silent
  <2>2. \A n \in Claims : Rests(n) \/ fiber'[n].phase \notin {"suspending", "answering", "looping", "turning"}
    BY <1>1 DEF Silent
  <2> QED BY <1>0, <2>1, <2>2, TurnsQuiet DEF TurnsOK
<1>2. ASSUME NEW n \in Claims, Turns(n) PROVE TurnsOK'
  BY <1>0, <1>2, TurnsMove
<1>3. ASSUME NEW n \in Claims, NEW c \in Calls, Enters(n, c) PROVE TurnsOK'
  <2>1. log' = log /\ fiber'[n].phase = "executing"
    BY <1>3 DEF Enters
  <2>2. \A m \in Claims : Rests(m) \/ m = n
    BY <1>3 DEF Enters, Alone, Rests
  <2> QED BY <1>0, <2>1, <2>2, TurnsQuiet DEF TurnsOK
<1>4. ASSUME NEW n \in Claims, NEW rec, Writes(n, rec) PROVE TurnsOK'
  BY <1>0, <1>4, TurnsWrite
<1>5. ASSUME NEW rec, NEW a, LogAppend(rec, a), rec.type = "resumed" => Happens("answer"),
             \A n \in Claims : Rests(n) \/ fiber'[n].phase \notin {"suspending", "answering", "looping", "turning"}
      PROVE  TurnsOK'
  <2>1. /\ Len(log) \in Nat /\ Len(log') = Len(log) + 1
        /\ log'[Len(log) + 1] = rec /\ \A i \in 1..Len(log) : log'[i] = log[i]
    BY <1>5, Wrote
  <2>2. \A i : i \in 1..Len(log') <=> i \in 1..Len(log) \/ i = Len(log) + 1
    BY <2>1
  <2>3. ~Happens("answer") => \A i \in 1..Len(log') : log'[i].type # "resumed"
    BY <1>5, <2>1, <2>2 DEF TurnsOK
  <2> QED BY <1>0, <1>5, <2>3, TurnsQuiet
<1>6. ASSUME NEW n \in Claims, NEW rec, SettlesFor(n, rec) PROVE TurnsOK'
  <2>1. LogAppend(rec, n) /\ rec.type # "resumed"
    BY <1>6 DEF SettlesFor
  <2>2. \A m \in Claims : Rests(m) \/ fiber'[m].phase \notin {"suspending", "answering", "looping", "turning"}
    BY <1>6 DEF SettlesFor, Alone, Rests
  <2> QED BY <1>5, <2>1, <2>2
<1>7. ASSUME NEW n \in Claims, NEW rec, Forces(n, rec) PROVE TurnsOK'
  BY <1>5, <1>7 DEF Forces
<1>8. ASSUME NEW rec, Consumes(rec) PROVE TurnsOK'
  BY <1>5, <1>8 DEF Consumes, Rests
<1> QED BY <1>1, <1>2, <1>3, <1>4, <1>6, <1>7, <1>8 DEF Moved, Kinds

\* No fiber is in a turn before the Run is admitted.
LEMMA TurnsInit == Init => TurnsOK
<1> SUFFICES ASSUME Init PROVE TurnsOK
  OBVIOUS
<1>1. Len(log) = 0 /\ \A n \in Claims : fiber[n].phase = "unclaimed"
  BY DEF Init, FibersInit, Unclaimed
<1> QED BY <1>1 DEF TurnsOK

\* TurnsOK, in every state of a Run whose questions nobody answers.
THEOREM TurnsHoldAlways == Spec => [](Base /\ (Unanswered => TurnsOK))
<1>1. Init => Base /\ (Unanswered => TurnsOK)
  BY InitBase, TurnsInit
<1>2. ASSUME Base, Unanswered => TurnsOK, [Next]_vars PROVE (Base /\ (Unanswered => TurnsOK))'
  <2>1. Base' /\ Moved
    BY <1>2, BaseStep, StepMoves
  <2>2. Unanswered' <=> Unanswered
    BY <2>1 DEF Unanswered, Happens, Moved, Steady
  <2> QED BY <1>2, <2>1, <2>2, TurnsHold
<1> QED BY <1>1, <1>2, PTL DEF Spec

\* A deadline's settlement answers every call that the log has open, for all
\* Workers, calls and worlds: what is recorded between _force_settle's reading
\* and its settling makes it stop.
THEOREM ForcedEnds == Spec => []ForcedEndAnswersAllCalls
<1>1. Base => ForcedEndAnswersAllCalls
  BY DEF Base, LogOK, ForcedEndAnswersAllCalls
<1> QED BY <1>1, BaseHolds, PTL

\* OpenCallsAreClosed where no human answers, or none is asked: no crash, lost
\* lease, abort or deadline, in any order, lets the loop begin a turn over a
\* call it left open.  The hypothesis is needed: an answer that is absorbed
\* while the calls of the same turn are being recorded wakes the loop with the
\* others still open.
THEOREM CallsAreClosed ==
  ASSUME NeedsApproval = {} \/ \A w \in Worlds : "answer" \notin w.faults
  PROVE  Spec => []OpenCallsAreClosed
<1> DEFINE Kept == NeedsApproval = {} \/ "answer" \notin world.faults
<1>1. Init => Kept
  BY DEF Init, FibersInit
<1>2. Base /\ Kept /\ [Next]_vars => Kept'
  BY StepMoves DEF Moved, Steady
<1>3. Base /\ (Unanswered => TurnsOK) /\ Kept => OpenCallsAreClosed
  BY DEF Unanswered, Happens, Base, LogOK, TurnsOK, OpenCallsAreClosed, NoCallDanglesInATurn,
         ForcedEndAnswersAllCalls
<1>4. Spec => []Kept
  BY <1>1, <1>2, BaseHolds, PTL DEF Spec
<1> QED BY <1>3, <1>4, TurnsHoldAlways, PTL
=============================================================================
