--------------------------- MODULE McpSystem_proofs ---------------------------
(***************************************************************************)
(* The MCP client keeps its promises.  The invariant has a part for the    *)
(* session (Session: who holds which lock, with which token), one for its  *)
(* refresh tokens (Rotation), one for the pool (Pool), and one that ties a *)
(* connection's request to its runner (Together).                          *)
(*                                                                         *)
(* The pool comes first: every step of McpPool keeps Pool. It says what    *)
(* types the variables have (Shape), what is pooled (Pooled), what a       *)
(* caller that has a connection may rely on (TaskOK), what a runner is at  *)
(* (ConnOK), that each who waits has one command in the queue (Asks), and  *)
(* that no notice is lost to a list on its way (Notices). Then the         *)
(* session: its steps are sorted into a few kinds, by the locks they       *)
(* take, keep and free, and each kind keeps Session and Rotation.          *)
(***************************************************************************)
EXTENDS McpSystem, TLAPS

-----------------------------------------------------------------------------
(* The invariant of the pool *)

\* What may be in a queue; whose asker is gone belongs to None.
Commands ==
  [kind: {"list"}, by: Callers \cup Background \cup {None}]
    \cup [kind: {"call"}, by: Callers \cup {None}]
    \cup [kind: {"close"}, by: {"evictor"}]

\* The watcher and the sweeper.
BackgroundPhases == {"off", "waiting", "wanting", "listing", "dead"}

\* Connections, callers, the evictor and the pool, by their fields.
Conns ==
  [phase: {"unborn", "opening", "ready", "draining", "ended"}, ready: {"pending", "yes", "no"},
   closed: BOOLEAN, queue: Seq(Commands), serving: BOOLEAN, reading: Nat, version: Nat,
   fresh: BOOLEAN, lister: Callers \cup Background \cup {None}, subscribed: BOOLEAN, told: Nat,
   changed: BOOLEAN, watcher: BackgroundPhases, sweeper: BackgroundPhases]

\* A caller that has a connection.
UserPhases == {"using", "wanting", "listing", "holding", "calling"}

Tasks == [phase: {"idle", "locking", "connecting"} \cup UserPhases, conn: {0} \cup Connections, left: Nat]

Evictors == [phase: {"idle", "stopping", "closing", "awaiting"}, conn: {0} \cup Connections]

Pools0 == [at: [Keys -> {0} \cup Connections], redirected: BOOLEAN, lock: {None} \cup Callers]

\* Every variable has its type.
Shape ==
  /\ scene \in Scenes
  /\ server \in 1..scene.versions
  /\ pool \in Pools0
  /\ conn \in [Connections -> Conns]
  /\ task \in [Callers -> Tasks]
  /\ evictor \in Evictors
  /\ mishaps \in 0..MaxMishaps

\* A task that does something has calls left, and is one of the scene's callers.
TaskOK(c) ==
  /\ task[c].left <= scene.rounds
  /\ task[c].left > 0 => c \in scene.callers
  /\ task[c].phase # "idle" => task[c].left > 0
  /\ task[c].phase \in {"connecting"} \cup UserPhases => task[c].conn # 0
  /\ task[c].phase = "connecting" =>
       /\ pool.lock = c /\ ~conn[task[c].conn].closed /\ conn[task[c].conn].sweeper = "off"
       /\ \A k \in Keys : pool.at[k] # task[c].conn
  /\ task[c].phase \in UserPhases => conn[task[c].conn].ready = "yes"

\* What a connection is before it is open, and what its runner is at.
ConnOK(i) ==
  /\ conn[i].phase \in {"ready", "draining"} => conn[i].ready = "yes"
  /\ conn[i].ready # "yes" => conn[i].watcher = "off" /\ conn[i].sweeper = "off" /\ conn[i].queue = <<>>
  /\ conn[i].phase \in {"unborn", "opening"} => conn[i] = [Unborn EXCEPT !.phase = conn[i].phase]
  /\ conn[i].serving => conn[i].phase = "ready" /\ conn[i].queue # <<>> /\ First(i).kind # "close"
  /\ conn[i].reading <= server /\ conn[i].version <= server /\ conn[i].told <= server

\* The commands in the queue and those who wait for them.
Asks(i) ==
  /\ \A n \in DOMAIN conn[i].queue : conn[i].queue[n].by # None => conn[i].queue[n].by \in Awaiting(i)
  /\ \A n, m \in DOMAIN conn[i].queue :
       conn[i].queue[n].by # None /\ conn[i].queue[n].by = conn[i].queue[m].by => n = m
  /\ conn[i].watcher # "dead" => \A a \in Awaiting(i) : \E n \in DOMAIN conn[i].queue : conn[i].queue[n].by = a
  /\ conn[i].watcher # "dead" /\ conn[i].phase = "ended" => conn[i].queue = <<>>
  /\ conn[i].lister # None => conn[i].lister \in Awaiting(i)

\* What is pooled is pooled under the key of the token's identity, open, and all
\* callers' as long as nobody evicts.
Pooled ==
  /\ \A k \in Keys : pool.at[k] # 0 =>
       k = PostAuth /\ conn[pool.at[k]].ready = "yes" /\ ~conn[pool.at[k]].closed
  /\ pool.redirected => scene.oauth
  /\ evictor.phase # "idle" => evictor.conn # 0 /\ conn[evictor.conn].ready = "yes"
  /\ ~Happens("evict") =>
       /\ evictor.phase = "idle"
       /\ \A c \in Callers : task[c].phase \in UserPhases => task[c].conn = pool.at[PostAuth]
       /\ scene.oauth /\ pool.at[PostAuth] # 0 => pool.redirected
       /\ pool.lock # None => pool.at[PostAuth] = 0

\* A change that a list on its way misses is noticed after it.
Notices(i) ==
  LET cn == conn[i] IN
  cn.phase = "ready" /\ mishaps = 0 =>
    /\ cn.version < cn.told => cn.changed \/ cn.watcher \in {"wanting", "listing"}
    /\ cn.serving /\ First(i).kind = "list" /\ cn.reading < cn.told =>
         cn.changed \/ (cn.watcher \in {"wanting", "listing"} /\ First(i).by # "watcher")

\* The inductive invariant.
Pool ==
  /\ Shape /\ Pooled
  /\ \A c \in Callers : TaskOK(c)
  /\ \A i \in Connections : ConnOK(i) /\ Asks(i) /\ Notices(i)

-----------------------------------------------------------------------------
(* Names, records and queues *)

\* The names of the tasks are apart.
LEMMA Names ==
  /\ None \notin Callers /\ None \notin Background /\ None # "evictor"
  /\ Callers \cap Background = {} /\ "evictor" \notin Callers /\ "evictor" \notin Background
  /\ "watcher" \in Background /\ "sweeper" \in Background
  /\ "watcher" \notin Callers /\ "sweeper" \notin Callers
  /\ MaxMishaps \in Nat
BY McpPoolAssumption DEF Background

\* Who waits for an answer of connection i.
LEMMA AwaitingIs ==
  ASSUME NEW i
  PROVE  \A a : a \in Awaiting(i) <=>
           \/ a \in Callers /\ task[a].conn = i /\ task[a].phase \in {"listing", "calling"}
           \/ a = "watcher" /\ conn[i].watcher = "listing"
           \/ a = "sweeper" /\ conn[i].sweeper = "listing"
           \/ a = "evictor" /\ evictor = [phase |-> "closing", conn |-> i]
BY DEF Awaiting, Background

\* The same after a step.
LEMMA AwaitingIsThen ==
  ASSUME NEW i
  PROVE  \A a : a \in Awaiting(i)' <=>
           \/ a \in Callers /\ task'[a].conn = i /\ task'[a].phase \in {"listing", "calling"}
           \/ a = "watcher" /\ conn'[i].watcher = "listing"
           \/ a = "sweeper" /\ conn'[i].sweeper = "listing"
           \/ a = "evictor" /\ evictor' = [phase |-> "closing", conn |-> i]
BY DEF Awaiting, Background

\* A command whose caller is gone is the same command.
LEMMA OrphanedIs ==
  ASSUME NEW q \in Seq(Commands), NEW who \in Callers \cup Background
  PROVE  /\ Orphaned(q, who) \in Seq(Commands) /\ Len(Orphaned(q, who)) = Len(q)
         /\ DOMAIN Orphaned(q, who) = DOMAIN q
         /\ q = <<>> <=> Orphaned(q, who) = <<>>
         /\ \A n \in DOMAIN q : /\ Orphaned(q, who)[n].kind = q[n].kind
                                /\ Orphaned(q, who)[n].by = IF q[n].by = who THEN None ELSE q[n].by
<1> DEFINE o == Orphaned(q, who)
<1>1. \A n \in DOMAIN q : o[n] = IF q[n].by = who THEN Command(q[n].kind, None) ELSE q[n]
  BY DEF Orphaned
<1>2. \A c \in Commands : /\ c.by = who => Command(c.kind, None) \in Commands
                          /\ Command(c.kind, None).kind = c.kind /\ Command(c.kind, None).by = None
  BY Names DEF Commands, Command
<1>3. DOMAIN o = 1..Len(q) /\ Len(q) \in Nat /\ DOMAIN q = 1..Len(q) /\ \A n \in DOMAIN q : q[n] \in Commands
  BY DEF Orphaned
<1>4. \A n \in DOMAIN q : o[n] \in Commands /\ o[n].kind = q[n].kind /\ o[n].by = IF q[n].by = who THEN None ELSE q[n].by
  BY <1>1, <1>2, <1>3
<1>5. o \in [1..Len(q) -> Commands]
  BY <1>3, <1>4 DEF Orphaned
<1> HIDE DEF o
<1>6. o \in Seq(Commands) /\ Len(o) = Len(q)
  BY <1>3, <1>5
<1>7. q = <<>> <=> o = <<>>
  BY <1>3, <1>6
<1> QED BY <1>3, <1>4, <1>6, <1>7 DEF o

-----------------------------------------------------------------------------
(* What a step does to the queue of connection i *)

\* Connection i as its tasks see it: nothing of what they wait for changed.
Still(i) ==
  /\ conn'[i].queue = conn[i].queue /\ conn'[i].lister = conn[i].lister
  /\ Awaiting(i)' = Awaiting(i)
  /\ conn'[i].watcher = "dead" <=> conn[i].watcher = "dead"
  /\ conn'[i].phase = "ended" => conn[i].phase = "ended" \/ conn[i].queue = <<>>

\* Task a has put one more command on the queue.
Asked(i, kind, a) ==
  /\ conn'[i].queue = Append(conn[i].queue, Command(kind, a))
  /\ a \notin Awaiting(i) /\ Awaiting(i)' = Awaiting(i) \cup {a}
  /\ conn'[i].lister \in {conn[i].lister, a}
  /\ conn'[i].watcher = "dead" <=> conn[i].watcher = "dead"
  /\ conn'[i].phase # "ended"

\* The runner's first command is answered and gone.
Answered(i) ==
  /\ conn[i].queue # <<>> /\ conn'[i].queue = Tail(conn[i].queue)
  /\ Awaiting(i)' = Awaiting(i) \ {First(i).by}
  /\ conn'[i].lister = (IF conn[i].lister = First(i).by THEN None ELSE conn[i].lister)
  /\ conn[i].watcher = "dead" => conn'[i].watcher = "dead"
  /\ conn'[i].phase # "ended"

\* Task a waits no more; a command of its own stays, and is nobody's.
Left(i, a) ==
  /\ conn'[i].queue = Orphaned(conn[i].queue, a)
  /\ Awaiting(i)' = Awaiting(i) \ {a}
  /\ conn'[i].lister = (IF conn[i].lister = a THEN None ELSE conn[i].lister)
  /\ conn[i].watcher = "dead" => conn'[i].watcher = "dead"
  /\ conn'[i].phase = "ended" => conn[i].phase = "ended" \/ conn'[i].watcher = "dead"

\* Nobody waits for connection i any more.
Emptied(i) ==
  conn'[i].queue = <<>> /\ Awaiting(i)' = {} /\ conn'[i].lister = None

\* None asks for nothing.
LEMMA NobodyIsNone ==
  ASSUME NEW i
  PROVE  None \notin Awaiting(i)
BY Names, AwaitingIs

\* Each of these five ways keeps commands and those who wait for them together.
LEMMA AsksKept ==
  ASSUME Shape, NEW i \in Connections, Asks(i),
         \/ Still(i) \/ Answered(i) \/ Emptied(i)
         \/ \E a : \E kind : Asked(i, kind, a) \/ (a \in Callers \cup Background /\ Left(i, a))
  PROVE  Asks(i)'
<1> DEFINE q == conn[i].queue
           q2 == conn'[i].queue
<1>0. q \in Seq(Commands) /\ DOMAIN q = 1..Len(q) /\ Len(q) \in Nat
  BY DEF Shape, Conns
<1>n. None \notin Awaiting(i)
  BY NobodyIsNone
<1>1. CASE Still(i)
  BY <1>1 DEF Still, Asks
<1>2. ASSUME NEW a, NEW kind, Asked(i, kind, a) PROVE Asks(i)'
  <2>1. /\ q2 = Append(q, Command(kind, a)) /\ DOMAIN q2 = 1..(Len(q) + 1)
        /\ q2[Len(q) + 1].by = a /\ \A n \in DOMAIN q : q2[n] = q[n]
    <3>1. q2 = Append(q, Command(kind, a)) /\ Command(kind, a).by = a
      BY <1>2 DEF Asked, Command
    <3>2. Len(q2) = Len(q) + 1 /\ DOMAIN q2 = 1..(Len(q) + 1) /\ q2[Len(q) + 1] = Command(kind, a)
          /\ \A n \in DOMAIN q : q2[n] = q[n]
      BY <1>0, <3>1
    <3> QED BY <3>1, <3>2
  <2> HIDE DEF q2
  <2>2. \A n \in DOMAIN q2 : q2[n].by # None => q2[n].by \in Awaiting(i)'
    BY <1>0, <1>2, <2>1, SMTT(60) DEF Asked, Asks
  <2>3. \A n, m \in DOMAIN q2 : q2[n].by # None /\ q2[n].by = q2[m].by => n = m
    <3>1. \A n \in DOMAIN q : q2[n].by = a => a = None
      BY <1>2, <2>1 DEF Asked, Asks
    <3>2. \A n, m \in DOMAIN q : q[n].by # None /\ q[n].by = q[m].by => n = m
      BY DEF Asks
    <3>3. \A n \in DOMAIN q2 : n \in DOMAIN q \/ (n = Len(q) + 1 /\ q2[n].by = a)
      BY <1>0, <2>1
    <3> QED BY <2>1, <3>1, <3>2, <3>3, SMTT(60)
  <2>4. conn'[i].watcher # "dead" => \A b \in Awaiting(i)' : \E n \in DOMAIN q2 : q2[n].by = b
    BY <1>0, <1>2, <2>1, SMTT(60) DEF Asked, Asks
  <2>5. conn'[i].lister # None => conn'[i].lister \in Awaiting(i)'
    BY <1>2 DEF Asked, Asks
  <2> QED BY <1>2, <2>2, <2>3, <2>4, <2>5 DEF Asked, Asks, q2
<1>3. CASE Answered(i)
  <2>1. q # <<>> /\ q2 = Tail(q) /\ First(i) = q[1]
    BY <1>0, <1>3 DEF Answered, First
  <2>2. DOMAIN q2 = 1..(Len(q) - 1) /\ \A n \in DOMAIN q2 : n + 1 \in DOMAIN q /\ q2[n] = q[n + 1]
    BY <1>0, <2>1
  <2>3. 1 \in DOMAIN q
    BY <1>0, <2>1
  <2> HIDE DEF q2
  <2>4. \A n \in DOMAIN q2 : q2[n].by # None => q2[n].by \in Awaiting(i)'
    <3>1. \A n \in DOMAIN q2 : q2[n].by # None => q2[n].by # q[1].by
      BY <1>0, <2>2, <2>3 DEF Asks
    <3> QED BY <1>3, <2>1, <2>2, <3>1 DEF Answered, Asks
  <2>5. \A n, m \in DOMAIN q2 : q2[n].by # None /\ q2[n].by = q2[m].by => n = m
    <3>1. \A n, m \in DOMAIN q : q[n].by # None /\ q[n].by = q[m].by => n = m
      BY DEF Asks
    <3>2. ASSUME NEW n \in DOMAIN q2, NEW m \in DOMAIN q2, q2[n].by # None, q2[n].by = q2[m].by
          PROVE  n = m
      <4>1. n + 1 = m + 1
        BY <2>2, <3>1, <3>2
      <4> QED BY <2>2, <4>1, <1>0
    <3> QED BY <3>2
  <2>6. conn'[i].watcher # "dead" => \A b \in Awaiting(i)' : \E n \in DOMAIN q2 : q2[n].by = b
    <3>1. SUFFICES ASSUME conn'[i].watcher # "dead", NEW b \in Awaiting(i)'
                   PROVE  \E n \in DOMAIN q2 : q2[n].by = b
      OBVIOUS
    <3>2. b \in Awaiting(i) /\ b # q[1].by /\ conn[i].watcher # "dead"
      BY <1>3, <2>1, <3>1 DEF Answered
    <3>3. PICK n \in DOMAIN q : q[n].by = b
      BY <3>2 DEF Asks
    <3>4. n # 1 /\ n - 1 \in DOMAIN q2 /\ q2[n - 1] = q[n]
      <4>1. n # 1 /\ n - 1 \in 1..(Len(q) - 1) /\ (n - 1) + 1 = n
        BY <1>0, <3>2, <3>3
      <4> QED BY <2>2, <4>1
    <3> QED BY <3>3, <3>4
  <2>7. conn'[i].lister # None => conn'[i].lister \in Awaiting(i)'
    BY <1>3 DEF Answered, Asks
  <2> QED BY <1>3, <2>4, <2>5, <2>6, <2>7 DEF Answered, Asks, q2
<1>4. ASSUME NEW a \in Callers \cup Background, Left(i, a) PROVE Asks(i)'
  <2>1. /\ DOMAIN q2 = DOMAIN q /\ (q = <<>> <=> q2 = <<>>)
        /\ \A n \in DOMAIN q : q2[n].by = IF q[n].by = a THEN None ELSE q[n].by
    BY <1>0, <1>4, OrphanedIs DEF Left
  <2> HIDE DEF q2
  <2>2. \A n \in DOMAIN q2 : q2[n].by # None => q2[n].by \in Awaiting(i)'
    BY <1>4, <2>1 DEF Left, Asks
  <2>3. \A n, m \in DOMAIN q2 : q2[n].by # None /\ q2[n].by = q2[m].by => n = m
    BY <2>1 DEF Asks
  <2>4. conn'[i].watcher # "dead" => \A b \in Awaiting(i)' : \E n \in DOMAIN q2 : q2[n].by = b
    BY <1>4, <2>1 DEF Left, Asks
  <2>5. conn'[i].lister # None => conn'[i].lister \in Awaiting(i)'
    BY <1>4 DEF Left, Asks
  <2>6. conn'[i].watcher # "dead" /\ conn'[i].phase = "ended" => q2 = <<>>
    BY <1>4, <2>1 DEF Left, Asks
  <2> QED BY <2>2, <2>3, <2>4, <2>5, <2>6 DEF Asks, q2
<1>5. CASE Emptied(i)
  BY <1>5 DEF Emptied, Asks
<1> QED BY <1>1, <1>2, <1>3, <1>4, <1>5

-----------------------------------------------------------------------------
(* Frames *)

\* A connection that a step leaves alone.
LEMMA OtherKept ==
  ASSUME Pool, NEW j \in Connections, conn'[j] = conn[j], Awaiting(j)' = Awaiting(j),
         server' \in Nat, server <= server', mishaps' = 0 => mishaps = 0
  PROVE  ConnOK(j)' /\ Asks(j)' /\ Notices(j)'
<1>1. ConnOK(j) /\ Asks(j) /\ Notices(j) /\ Shape
  BY DEF Pool
<1>2. Asks(j)'
  BY <1>1 DEF Asks
<1>3. ConnOK(j)'
  <2>1. server \in Nat /\ conn[j].reading \in Nat /\ conn[j].version \in Nat /\ conn[j].told \in Nat
    BY <1>1 DEF Shape, Conns
  <2>2. conn[j].reading <= server' /\ conn[j].version <= server' /\ conn[j].told <= server'
    BY <1>1, <2>1 DEF ConnOK
  <2> QED BY <1>1, <2>2 DEF ConnOK, First
<1>4. Notices(j)'
  BY <1>1 DEF Notices, First
<1> QED BY <1>2, <1>3, <1>4

\* Connections wait for as many as before, when no task moves.
LEMMA AwaitingSame ==
  ASSUME NEW j, UNCHANGED <<task, evictor>>,
         conn'[j].watcher = "listing" <=> conn[j].watcher = "listing",
         conn'[j].sweeper = "listing" <=> conn[j].sweeper = "listing"
  PROVE  Awaiting(j)' = Awaiting(j)
<1>1. \A a : a \in Awaiting(j)' <=> a \in Awaiting(j)
  BY AwaitingIs, AwaitingIsThen
<1> QED BY <1>1

\* Connection i changes and no task does.
LEMMA TweakKept ==
  ASSUME Pool, NEW i \in Connections, NEW new \in Conns, Becomes(i, new),
         UNCHANGED <<scene, server, pool, task, evictor>>,
         mishaps' \in 0..MaxMishaps, mishaps' = 0 => mishaps = 0,
         new.closed = conn[i].closed, conn[i].ready = "yes" => new.ready = "yes",
         conn[i].sweeper = "off" => new.sweeper = "off",
         ConnOK(i)', Asks(i)', Notices(i)'
  PROVE  Pool'
<1>1. Shape /\ Pooled /\ \A c \in Callers : TaskOK(c)
  BY DEF Pool
<1>2. conn' \in [Connections -> Conns] /\ conn'[i] = new /\ \A j \in Connections \ {i} : conn'[j] = conn[j]
  BY <1>1 DEF Shape, Becomes
<1>3. \A j \in Connections : /\ conn'[j].closed = conn[j].closed
                             /\ conn[j].ready = "yes" => conn'[j].ready = "yes"
                             /\ conn[j].sweeper = "off" => conn'[j].sweeper = "off"
  BY <1>2
<1>4. Shape'
  BY <1>1, <1>2 DEF Shape
<1>5. Pooled'
  <2>1. (\A k \in Keys : pool.at[k] # 0 => pool.at[k] \in Connections) /\ (evictor.conn # 0 => evictor.conn \in Connections)
    BY <1>1 DEF Shape, Pools0, Evictors
  <2> QED BY <1>1, <1>3, <2>1 DEF Pooled, PostAuth, Happens
<1>6. ASSUME NEW c \in Callers PROVE TaskOK(c)'
  <2>1. task[c].conn # 0 => task[c].conn \in Connections
    BY <1>1 DEF Shape, Tasks
  <2> QED BY <1>1, <1>3, <2>1 DEF TaskOK
<1>7. ASSUME NEW j \in Connections PROVE ConnOK(j)' /\ Asks(j)' /\ Notices(j)'
  <2>1. CASE j # i
    <3>1. conn'[j] = conn[j] /\ Awaiting(j)' = Awaiting(j)
      BY <1>2, <2>1, AwaitingSame
    <3>2. server \in Nat /\ server' = server
      BY <1>1 DEF Shape
    <3> QED BY <3>1, <3>2, OtherKept
  <2> QED BY <2>1
<1> QED BY <1>4, <1>5, <1>6, <1>7 DEF Pool

\* _run_sdk: the handshake is done.
LEMMA OpenedKept ==
  ASSUME Pool, NEW i \in Connections, Opened(i)
  PROVE  Pool'
<1> DEFINE new == [conn[i] EXCEPT !.phase = "ready", !.ready = "yes", !.watcher = "waiting",
                                  !.version = server, !.told = server, !.fresh = TRUE]
<1>1. /\ Shape /\ ConnOK(i) /\ Asks(i) /\ conn[i] \in Conns /\ conn[i].phase = "opening"
      /\ Becomes(i, new) /\ UNCHANGED <<scene, server, pool, task, evictor, mishaps>> /\ server \in Nat
      /\ mishaps \in 0..MaxMishaps
  BY DEF Pool, Shape, Opened
<1>2. conn[i].queue = <<>> /\ conn[i].watcher = "off" /\ conn[i].sweeper = "off" /\ ~conn[i].serving
  BY <1>1 DEF ConnOK, Unborn
<1>3. new \in Conns /\ conn'[i] = new
  BY <1>1 DEF Conns, Becomes, BackgroundPhases, Shape
<1>4. Awaiting(i)' = Awaiting(i)
  BY <1>1, <1>2, <1>3, AwaitingSame, ZenonT(60) DEF Conns
<1>5. Asks(i)'
  <2>1. Still(i)
    BY <1>1, <1>2, <1>3, <1>4 DEF Still, Conns
  <2> QED BY <1>1, <2>1, AsksKept
<1>6. ConnOK(i)'
  BY <1>1, <1>2, <1>3 DEF ConnOK, Conns
<1>7. Notices(i)'
  BY <1>1, <1>2, <1>3 DEF Notices, Conns
<1>8. new.closed = conn[i].closed /\ new.ready = "yes" /\ new.sweeper = conn[i].sweeper
  BY <1>1 DEF Conns
<1> QED BY <1>1, <1>3, <1>5, <1>6, <1>7, <1>8, TweakKept

\* Connection i changes, but not its queue, nor who waits for it.
LEMMA StillKept ==
  ASSUME Pool, NEW i \in Connections, NEW new \in Conns, Becomes(i, new),
         UNCHANGED <<scene, server, pool, task, evictor>>,
         mishaps' \in 0..MaxMishaps, mishaps' = 0 => mishaps = 0,
         new.closed = conn[i].closed, conn[i].ready = "yes" => new.ready = "yes",
         new.queue = conn[i].queue, new.lister = conn[i].lister,
         new.watcher = "listing" <=> conn[i].watcher = "listing",
         new.watcher = "dead" <=> conn[i].watcher = "dead",
         new.sweeper = "listing" <=> conn[i].sweeper = "listing",
         conn[i].sweeper = "off" => new.sweeper = "off",
         new.phase = "ended" => conn[i].phase = "ended" \/ conn[i].queue = <<>>,
         ConnOK(i)', Notices(i)'
  PROVE  Pool'
<1>1. Shape /\ Asks(i) /\ conn'[i] = new
  BY DEF Pool, Shape, Becomes
<1>2. Awaiting(i)' = Awaiting(i)
  BY <1>1, AwaitingSame
<1>3. Still(i)
  BY <1>1, <1>2 DEF Still
<1>4. Asks(i)'
  BY <1>1, <1>3, AsksKept
<1> QED BY <1>4, TweakKept

\* What is known of connection i and of the counters.
LEMMA ConnFacts ==
  ASSUME Pool, NEW i \in Connections
  PROVE  /\ conn[i] \in Conns /\ conn \in [Connections -> Conns]
         /\ ConnOK(i) /\ Asks(i) /\ Notices(i) /\ Shape
         /\ server \in Nat /\ server <= scene.versions /\ scene.versions \in Nat
         /\ mishaps \in 0..MaxMishaps /\ mishaps \in Nat /\ MaxMishaps \in Nat
         /\ conn[i].queue \in Seq(Commands)
         /\ conn[i].queue # <<>> => First(i) \in Commands /\ First(i) = conn[i].queue[1]
                                    /\ 1 \in DOMAIN conn[i].queue
<1>1. conn[i] \in Conns /\ conn \in [Connections -> Conns] /\ ConnOK(i) /\ Asks(i) /\ Notices(i) /\ Shape
  BY DEF Pool, Shape
<1>2. conn[i].queue \in Seq(Commands)
  BY <1>1 DEF Conns
<1>3. conn[i].queue # <<>> => First(i) \in Commands /\ First(i) = conn[i].queue[1] /\ 1 \in DOMAIN conn[i].queue
  BY <1>2 DEF First
<1>4. scene.versions \in Nat
  BY <1>1, McpPoolAssumption DEF Shape
<1>5. server \in Nat /\ server <= scene.versions /\ mishaps \in 0..MaxMishaps /\ MaxMishaps \in Nat
  BY <1>1, <1>4, Names DEF Shape
<1> QED BY <1>1, <1>2, <1>3, <1>4, <1>5

\* Once something has gone wrong, no more is said of notices.
LEMMA MishapCounts ==
  ASSUME Pool, NEW event, Mishap(event)
  PROVE  Happens(event) /\ mishaps' \in 0..MaxMishaps /\ mishaps' # 0
BY Names DEF Pool, Shape, Mishap

\* _run_sdk: the handshake fails.
LEMMA OpenFailsKept ==
  ASSUME Pool, NEW i \in Connections, OpenFails(i)
  PROVE  Pool'
<1> DEFINE new == [conn[i] EXCEPT !.phase = "ended", !.ready = "no"]
<1>1. /\ conn[i] \in Conns /\ ConnOK(i) /\ conn[i].phase = "opening" /\ Shape
      /\ Becomes(i, new) /\ UNCHANGED <<scene, server, pool, task, evictor>>
      /\ mishaps' \in 0..MaxMishaps /\ mishaps' # 0
  BY ConnFacts, MishapCounts DEF OpenFails
<1>2. conn[i].queue = <<>> /\ ~conn[i].serving /\ conn[i].ready = "pending"
  BY <1>1 DEF ConnOK, Unborn
<1>3. new \in Conns /\ conn'[i] = new
  BY <1>1 DEF Conns, Becomes, Shape
<1>4. ConnOK(i)' /\ Notices(i)'
  BY <1>1, <1>2, <1>3 DEF ConnOK, Notices, Conns
<1>5. /\ new.closed = conn[i].closed /\ new.queue = conn[i].queue /\ new.lister = conn[i].lister
      /\ new.watcher = conn[i].watcher /\ new.sweeper = conn[i].sweeper
  BY <1>1 DEF Conns
<1> QED BY <1>1, <1>2, <1>3, <1>4, <1>5, StillKept

\* _run_sdk: the next command goes out, with the version the server will list.
LEMMA TakeKept ==
  ASSUME Pool, NEW i \in Connections, Take(i)
  PROVE  Pool'
<1> DEFINE new == [conn[i] EXCEPT !.serving = TRUE, !.reading = IF First(i).kind = "list" THEN server ELSE 0]
<1>1. /\ conn[i] \in Conns /\ ConnOK(i) /\ Notices(i) /\ conn[i].phase = "ready" /\ Shape
      /\ conn[i].queue # <<>> /\ First(i).kind # "close"
      /\ Becomes(i, new) /\ UNCHANGED <<scene, server, pool, task, evictor, mishaps>>
      /\ mishaps \in 0..MaxMishaps /\ server \in Nat
  BY ConnFacts DEF Take
<1>2. new \in Conns /\ conn'[i] = new /\ new.reading <= server
  <2> DEFINE rd == IF First(i).kind = "list" THEN server ELSE 0
  <2>1. rd \in Nat /\ rd <= server
    BY <1>1
  <2>2. new = [conn[i] EXCEPT !.serving = TRUE, !.reading = rd]
    OBVIOUS
  <2> HIDE DEF rd, new
  <2>3. new \in Conns /\ new.reading = rd
    BY <1>1, <2>1, <2>2 DEF Conns
  <2> QED BY <1>1, <2>1, <2>3 DEF Becomes, Shape
<1>3. /\ new.closed = conn[i].closed /\ new.queue = conn[i].queue /\ new.lister = conn[i].lister
      /\ new.watcher = conn[i].watcher /\ new.sweeper = conn[i].sweeper /\ new.phase = conn[i].phase
      /\ new.ready = conn[i].ready /\ new.version = conn[i].version /\ new.told = conn[i].told
      /\ new.changed = conn[i].changed /\ new.told \in Nat
      /\ First(i).kind = "list" => new.reading = server
  BY <1>1 DEF Conns
<1> HIDE DEF new
<1>4. First(i)' = First(i)
  BY <1>2, <1>3 DEF First
<1>5. ConnOK(i)'
  BY <1>1, <1>2, <1>3, <1>4 DEF ConnOK
<1>6. Notices(i)'
  BY <1>1, <1>2, <1>3, <1>4 DEF Notices, ConnOK
<1> QED BY <1>1, <1>2, <1>3, <1>5, <1>6, StillKept

\* The listener of an open connection.
LEMMA ListenerKept ==
  ASSUME Pool, NEW i \in Connections, Subscribe(i) \/ LoseSubscription(i) \/ Hear(i) \/ Age(i)
  PROVE  Pool'
<1>1. /\ conn[i] \in Conns /\ ConnOK(i) /\ Notices(i) /\ Shape
      /\ UNCHANGED <<scene, server, pool, task, evictor>>
      /\ mishaps' \in 0..MaxMishaps /\ (mishaps' = 0 => mishaps = 0) /\ server \in Nat
  BY ConnFacts, MishapCounts DEF Subscribe, LoseSubscription, Hear, Age
<1>2. PICK new \in Conns :
        /\ Becomes(i, new)
        /\ new.closed = conn[i].closed /\ new.queue = conn[i].queue /\ new.lister = conn[i].lister
        /\ new.watcher = conn[i].watcher /\ new.sweeper = conn[i].sweeper /\ new.phase = conn[i].phase
        /\ new.ready = conn[i].ready /\ new.version = conn[i].version /\ new.reading = conn[i].reading
        /\ new.serving = conn[i].serving /\ new.told \in {conn[i].told, server}
        /\ conn[i].changed => new.changed
        /\ new.told # conn[i].told => new.changed
        /\ new.phase \in {"unborn", "opening"} => new = conn[i]
  <2>1. CASE Subscribe(i)
    <3>1. [conn[i] EXCEPT !.subscribed = TRUE] \in Conns
      BY <1>1 DEF Conns
    <3> QED BY <1>1, <2>1, <3>1 DEF Subscribe, Conns
  <2>2. CASE LoseSubscription(i)
    <3>1. [conn[i] EXCEPT !.subscribed = FALSE, !.changed = TRUE] \in Conns
      BY <1>1 DEF Conns
    <3>2. conn[i].phase \notin {"unborn", "opening"}
      BY <1>1, <2>2 DEF ConnOK, Unborn, LoseSubscription
    <3> QED BY <1>1, <2>2, <3>1, <3>2, ZenonT(60) DEF LoseSubscription, Conns
  <2>3. CASE Hear(i)
    <3>1. [conn[i] EXCEPT !.told = server, !.changed = TRUE] \in Conns
      BY <1>1 DEF Conns
    <3> QED BY <1>1, <2>3, <3>1 DEF Hear, Conns
  <2>4. CASE Age(i)
    <3>1. [conn[i] EXCEPT !.fresh = FALSE] \in Conns
      BY <1>1 DEF Conns
    <3>2. conn[i].phase \notin {"unborn", "opening"}
      BY <1>1, <2>4 DEF ConnOK, Unborn, Age
    <3> QED BY <1>1, <2>4, <3>1, <3>2, SMTT(60) DEF Age, Conns
  <2> QED BY <2>1, <2>2, <2>3, <2>4
<1>3. conn'[i] = new
  BY <1>1, <1>2 DEF Becomes, Shape
<1>4. First(i)' = First(i)
  BY <1>2, <1>3 DEF First
<1>5. ConnOK(i)'
  BY <1>1, <1>2, <1>3, <1>4 DEF ConnOK
<1>6. Notices(i)'
  BY <1>1, <1>2, <1>3, <1>4 DEF Notices, ConnOK
<1> QED BY <1>1, <1>2, <1>3, <1>5, <1>6, StillKept

\* The background tasks stop waiting.
LEMMA WaitedKept ==
  ASSUME Pool, NEW i \in Connections, Watch(i) \/ Sweep(i)
  PROVE  Pool'
<1>1. /\ conn[i] \in Conns /\ ConnOK(i) /\ Notices(i) /\ Asks(i) /\ Shape
      /\ UNCHANGED <<scene, server, pool, task, evictor, mishaps>>
      /\ mishaps \in 0..MaxMishaps /\ server \in Nat
  BY ConnFacts DEF Watch, Sweep
<1>2. PICK new \in Conns :
        /\ Becomes(i, new)
        /\ new.closed = conn[i].closed /\ new.queue = conn[i].queue /\ new.lister = conn[i].lister
        /\ new.phase = conn[i].phase
        /\ new.ready = conn[i].ready /\ new.version = conn[i].version /\ new.reading = conn[i].reading
        /\ new.serving = conn[i].serving /\ new.told = conn[i].told
        /\ \/ new.watcher = conn[i].watcher /\ new.changed = conn[i].changed
           \/ conn[i].watcher = "waiting" /\ new.watcher = "wanting"
        /\ new.sweeper = conn[i].sweeper \/ (conn[i].sweeper = "waiting" /\ new.sweeper \in {"off", "wanting"})
        /\ conn[i].phase \notin {"unborn", "opening"}
  <2>0. conn[i].phase \in {"unborn", "opening"} => conn[i].watcher = "off" /\ conn[i].sweeper = "off"
    BY <1>1 DEF ConnOK, Unborn
  <2>1. CASE Watch(i)
    <3>1. [conn[i] EXCEPT !.watcher = "wanting", !.changed = FALSE] \in Conns
      BY <1>1 DEF Conns, BackgroundPhases
    <3> QED BY <1>1, <2>0, <2>1, <3>1, ZenonT(60) DEF Watch, Conns
  <2>2. CASE Sweep(i)
    <3>1. [conn[i] EXCEPT !.sweeper = IF conn[i].closed THEN "off" ELSE "wanting"] \in Conns
      BY <1>1 DEF Conns, BackgroundPhases
    <3> QED BY <1>1, <2>0, <2>2, <3>1 DEF Sweep, Conns
  <2> QED BY <2>1, <2>2
<1>3. conn'[i] = new
  BY <1>1, <1>2 DEF Becomes, Shape
<1>4. First(i)' = First(i)
  BY <1>2, <1>3 DEF First
<1>5. ConnOK(i)'
  <2>1. new.ready # "yes" => new.watcher = "off" /\ new.sweeper = "off" /\ new.queue = <<>>
    BY <1>1, <1>2 DEF ConnOK
  <2> QED BY <1>1, <1>2, <1>3, <1>4, <2>1 DEF ConnOK
<1>6. Notices(i)'
  <2>1. CASE new.watcher = conn[i].watcher /\ new.changed = conn[i].changed
    BY <1>1, <1>2, <1>3, <1>4, <2>1 DEF Notices
  <2>2. CASE conn[i].watcher = "waiting" /\ new.watcher = "wanting"
    <3>1. "watcher" \notin Awaiting(i)
      BY <2>2, AwaitingIs, Names
    <3>2. conn[i].serving => First(i).by # "watcher"
      BY <1>1, <3>1, ConnFacts, Names DEF ConnOK, Asks
    <3> QED BY <1>2, <1>3, <1>4, <2>2, <3>2 DEF Notices
  <2> QED BY <1>2, <2>1, <2>2
<1> QED BY <1>1, <1>2, <1>3, <1>5, <1>6, StillKept

\* A command goes onto the queue of connection i.
LEMMA QueuedConn ==
  ASSUME Pool, NEW i \in Connections, NEW new \in Conns, NEW command \in Commands,
         conn'[i] = new, new.queue = Append(conn[i].queue, command),
         conn[i].ready = "yes", new.ready = "yes", new.phase = conn[i].phase, new.serving = conn[i].serving,
         new.reading = conn[i].reading, new.version = conn[i].version, new.told = conn[i].told,
         new.changed = conn[i].changed,
         new.watcher = conn[i].watcher \/ (conn[i].watcher = "wanting" /\ new.watcher = "listing"),
         server' = server, mishaps' = mishaps
  PROVE  ConnOK(i)' /\ Notices(i)'
<1>1. conn[i] \in Conns /\ ConnOK(i) /\ Notices(i) /\ conn[i].queue \in Seq(Commands)
  BY ConnFacts
<1>2. conn[i].phase \notin {"unborn", "opening"}
  BY <1>1 DEF ConnOK, Unborn
<1>3. new.queue # <<>> /\ (conn[i].queue # <<>> => Head(new.queue) = Head(conn[i].queue))
  BY <1>1
<1>4. conn[i].serving => First(i)' = First(i)
  BY <1>1, <1>3 DEF First, ConnOK
<1>5. ConnOK(i)'
  BY <1>1, <1>2, <1>3, <1>4 DEF ConnOK
<1>6. Notices(i)'
  BY <1>1, <1>4 DEF Notices
<1> QED BY <1>5, <1>6

\* _refresh_catalogue: a background task takes the lock and asks.
LEMMA RefreshKept ==
  ASSUME Pool, NEW i \in Connections, NEW a \in Background, Refresh(i, a)
  PROVE  Pool'
<1>1. /\ conn[i] \in Conns /\ ConnOK(i) /\ Notices(i) /\ Asks(i) /\ Shape
      /\ UNCHANGED <<scene, server, pool, task, evictor, mishaps>>
      /\ mishaps \in 0..MaxMishaps /\ server \in Nat /\ conn[i].queue \in Seq(Commands)
      /\ conn[i][a] = "wanting" /\ conn[i].lister = None
  BY ConnFacts DEF Refresh
<1>2. a = "watcher" \/ a = "sweeper"
  BY DEF Background
<1>3. conn[i].phase \notin {"unborn", "opening"}
  <2>1. conn[i].phase \in {"unborn", "opening"} => conn[i].watcher = "off" /\ conn[i].sweeper = "off"
    BY <1>1 DEF ConnOK, Unborn
  <2>2. CASE a = "watcher"
    BY <1>1, <2>1, <2>2
  <2>3. CASE a = "sweeper"
    BY <1>1, <2>1, <2>3
  <2> QED BY <1>2, <2>2, <2>3
<1>4. CASE Done(i)
  <2>1. PICK new \in Conns :
          /\ Becomes(i, new)
          /\ new.closed = conn[i].closed /\ new.queue = conn[i].queue /\ new.lister = conn[i].lister
          /\ new.phase = conn[i].phase /\ new.ready = conn[i].ready /\ new.version = conn[i].version
          /\ new.reading = conn[i].reading /\ new.serving = conn[i].serving /\ new.told = conn[i].told
          /\ new.watcher = conn[i].watcher \/ (conn[i].watcher = "wanting" /\ new.watcher = "waiting")
          /\ new.sweeper = conn[i].sweeper \/ (conn[i].sweeper = "wanting" /\ new.sweeper = "waiting")
    <3>1. CASE a = "watcher"
      <4>1. Becomes(i, [conn[i] EXCEPT !.watcher = "waiting"])
        BY <1>4, <3>1 DEF Refresh, BackgroundAfter
      <4>2. [conn[i] EXCEPT !.watcher = "waiting"] \in Conns /\ conn[i].watcher = "wanting"
        BY <1>1, <3>1 DEF Conns, BackgroundPhases
      <4> QED BY <1>1, <4>1, <4>2 DEF Conns
    <3>2. CASE a = "sweeper"
      <4>1. Becomes(i, [conn[i] EXCEPT !.sweeper = "waiting"])
        BY <1>4, <3>2 DEF Refresh, BackgroundAfter
      <4>2. [conn[i] EXCEPT !.sweeper = "waiting"] \in Conns /\ conn[i].sweeper = "wanting"
        BY <1>1, <3>2 DEF Conns, BackgroundPhases
      <4> QED BY <1>1, <4>1, <4>2 DEF Conns
    <3> QED BY <1>2, <3>1, <3>2
  <2>2. conn'[i] = new
    BY <1>1, <2>1 DEF Becomes, Shape
  <2>3. First(i)' = First(i)
    BY <2>1, <2>2 DEF First
  <2>4. ConnOK(i)'
    BY <1>1, <1>3, <2>1, <2>2, <2>3 DEF ConnOK
  <2>5. Notices(i)'
    BY <1>4, <2>1, <2>2 DEF Notices, Done
  <2> QED BY <1>1, <2>1, <2>2, <2>4, <2>5, StillKept
<1>5. CASE ~Done(i)
  <2> DEFINE command == Command("list", a)
  <2>1. command \in Commands /\ a # None /\ a \notin Callers /\ a # "evictor"
    BY Names DEF Command, Commands
  <2>2. PICK new \in Conns :
          /\ Becomes(i, new)
          /\ new.closed = conn[i].closed /\ new.queue = Append(conn[i].queue, command) /\ new.lister = a
          /\ new.phase = conn[i].phase /\ new.ready = conn[i].ready /\ new.version = conn[i].version
          /\ new.reading = conn[i].reading /\ new.serving = conn[i].serving /\ new.told = conn[i].told
          /\ new.changed = conn[i].changed
          /\ a = "watcher" => conn[i].watcher = "wanting" /\ new.watcher = "listing" /\ new.sweeper = conn[i].sweeper
          /\ a = "sweeper" => conn[i].sweeper = "wanting" /\ new.sweeper = "listing" /\ new.watcher = conn[i].watcher
    <3>0. Append(conn[i].queue, command) \in Seq(Commands)
      BY <1>1, <2>1
    <3> HIDE DEF command
    <3>1. CASE a = "watcher"
      <4> DEFINE x == [[conn[i] EXCEPT !.queue = Append(conn[i].queue, command)] EXCEPT !.watcher = "listing", !.lister = a]
      <4>1. Becomes(i, x)
        BY <1>5, <3>1 DEF Refresh, Queued, command
      <4>2. conn[i].watcher = "wanting" /\ x \in Conns
        BY <1>1, <3>0, <3>1 DEF Conns, BackgroundPhases
      <4>3. /\ x.closed = conn[i].closed /\ x.queue = Append(conn[i].queue, command) /\ x.lister = a
            /\ x.phase = conn[i].phase /\ x.ready = conn[i].ready /\ x.version = conn[i].version
            /\ x.reading = conn[i].reading /\ x.serving = conn[i].serving /\ x.told = conn[i].told
            /\ x.changed = conn[i].changed /\ x.watcher = "listing" /\ x.sweeper = conn[i].sweeper
        BY <1>1 DEF Conns
      <4> HIDE DEF x
      <4> QED BY <3>1, <4>1, <4>2, <4>3
    <3>2. CASE a = "sweeper"
      <4> DEFINE x == [[conn[i] EXCEPT !.queue = Append(conn[i].queue, command)] EXCEPT !.sweeper = "listing", !.lister = a]
      <4>1. Becomes(i, x)
        BY <1>5, <3>2 DEF Refresh, Queued, command
      <4>2. conn[i].sweeper = "wanting" /\ x \in Conns
        BY <1>1, <3>0, <3>2 DEF Conns, BackgroundPhases
      <4>3. /\ x.closed = conn[i].closed /\ x.queue = Append(conn[i].queue, command) /\ x.lister = a
            /\ x.phase = conn[i].phase /\ x.ready = conn[i].ready /\ x.version = conn[i].version
            /\ x.reading = conn[i].reading /\ x.serving = conn[i].serving /\ x.told = conn[i].told
            /\ x.changed = conn[i].changed /\ x.sweeper = "listing" /\ x.watcher = conn[i].watcher
        BY <1>1 DEF Conns
      <4> HIDE DEF x
      <4> QED BY <3>2, <4>1, <4>2, <4>3
    <3> QED BY <1>2, <3>1, <3>2
  <2>3. conn'[i] = new
    BY <1>1, <2>2 DEF Becomes, Shape
  <2>4. a \notin Awaiting(i) /\ \A b : b \in Awaiting(i)' <=> b \in Awaiting(i) \cup {a}
    <3>1. a \notin Awaiting(i)
      BY <1>2, <2>1, <2>2, AwaitingIs
    <3>2. ASSUME NEW b PROVE b \in Awaiting(i)' <=> b \in Awaiting(i) \cup {a}
      <4>1. CASE a = "watcher"
        BY <1>1, <2>1, <2>2, <2>3, <4>1, AwaitingIs, AwaitingIsThen
      <4>2. CASE a = "sweeper"
        BY <1>1, <2>1, <2>2, <2>3, <4>2, AwaitingIs, AwaitingIsThen
      <4> QED BY <1>2, <4>1, <4>2
    <3> QED BY <3>1, <3>2
  <2>5. Awaiting(i)' = Awaiting(i) \cup {a}
    BY <2>4
  <2>6. Asked(i, "list", a)
    BY <1>2, <1>5, <2>2, <2>3, <2>4, <2>5 DEF Asked, Done
  <2>7. Asks(i)'
    BY <1>1, <2>6, AsksKept
  <2>8. conn[i].ready = "yes"
    <3>1. conn[i].ready # "yes" => conn[i].watcher = "off" /\ conn[i].sweeper = "off"
      BY <1>1 DEF ConnOK
    <3> QED BY <1>2, <2>2, <3>1
  <2>9. ConnOK(i)' /\ Notices(i)'
    BY <1>1, <1>2, <2>1, <2>2, <2>3, <2>8, QueuedConn
  <2>10. conn[i].sweeper = "off" => new.sweeper = "off"
    BY <1>2, <2>2
  <2> QED BY <1>1, <2>2, <2>7, <2>9, <2>10, TweakKept
<1> QED BY <1>4, <1>5

-----------------------------------------------------------------------------
(* Answers *)

\* Those whose commands are answered, or refused, wait no longer.
LEMMA ResolvedTasks ==
  ASSUME Pool, NEW i \in Connections, NEW who, NEW outcome, Resolve(who, outcome),
         \A a \in who : a = None \/ a \in Awaiting(i)
  PROVE  /\ task' \in [Callers -> Tasks] /\ evictor' \in Evictors
         /\ \A c \in Callers : c \notin who => task'[c] = task[c]
         /\ \A c \in Callers : c \in who =>
              /\ task[c].conn = i /\ task[c].phase \in {"listing", "calling"}
              /\ \/ task'[c].phase = "idle" /\ task'[c].left = task[c].left - 1
                 \/ task'[c].phase = "holding" /\ task'[c].conn = i /\ task'[c].left = task[c].left
         /\ "evictor" \notin who => evictor' = evictor
         /\ "evictor" \in who => /\ evictor = [phase |-> "closing", conn |-> i]
                                 /\ evictor' \in {[phase |-> "awaiting", conn |-> i], [phase |-> "idle", conn |-> 0]}
<1>1. Shape /\ \A c \in Callers : TaskOK(c)
  BY DEF Pool
<1>2. ASSUME NEW c \in Callers, c \in who
      PROVE  /\ task[c].conn = i /\ task[c].phase \in {"listing", "calling"}
             /\ task'[c] \in Tasks
             /\ \/ task'[c].phase = "idle" /\ task'[c].left = task[c].left - 1
                \/ task'[c].phase = "holding" /\ task'[c].conn = i /\ task'[c].left = task[c].left
  <2>1. c \in Awaiting(i)
    BY <1>2, Names
  <2>2. task[c].conn = i /\ task[c].phase \in {"listing", "calling"}
    BY <2>1, AwaitingIs, Names
  <2>3. task[c] \in Tasks /\ task[c].left > 0 /\ task[c].left \in Nat
    BY <1>1, <2>2 DEF Shape, TaskOK, Tasks
  <2>4. task'[c] = TaskAfter(task[c], outcome)
    BY <1>2 DEF Resolve
  <2>5. CASE outcome = "ok" /\ task[c].phase = "listing"
    <3>1. task'[c] = [task[c] EXCEPT !.phase = "holding"]
      BY <2>4, <2>5 DEF TaskAfter
    <3> QED BY <2>2, <2>3, <3>1 DEF Tasks, UserPhases
  <2>6. CASE ~(outcome = "ok" /\ task[c].phase = "listing")
    <3>1. task'[c] = [task[c] EXCEPT !.phase = "idle", !.conn = 0, !.left = task[c].left - 1]
      BY <2>4, <2>6 DEF TaskAfter, Finished
    <3>2. task[c].left - 1 \in Nat
      BY <2>3
    <3> QED BY <2>2, <2>3, <3>1, <3>2 DEF Tasks
  <2> QED BY <2>2, <2>5, <2>6
<1>3. ASSUME NEW c \in Callers, c \notin who PROVE task'[c] = task[c] /\ task'[c] \in Tasks
  BY <1>1, <1>3 DEF Resolve, Shape
<1>4. task' \in [Callers -> Tasks]
  <2>1. task' = [c \in Callers |-> task'[c]]
    BY DEF Resolve
  <2>2. \A c \in Callers : task'[c] \in Tasks
    BY <1>2, <1>3
  <2> QED BY <2>1, <2>2
<1>5. "evictor" \in who => /\ evictor = [phase |-> "closing", conn |-> i]
                           /\ evictor' \in {[phase |-> "awaiting", conn |-> i], [phase |-> "idle", conn |-> 0]}
  <2>1. SUFFICES ASSUME "evictor" \in who
                 PROVE  /\ evictor = [phase |-> "closing", conn |-> i]
                        /\ evictor' \in {[phase |-> "awaiting", conn |-> i], [phase |-> "idle", conn |-> 0]}
    OBVIOUS
  <2>2. "evictor" \in Awaiting(i)
    BY <2>1, Names
  <2>3. evictor = [phase |-> "closing", conn |-> i]
    BY <2>2, AwaitingIs, Names
  <2>4. evictor' = IF outcome = "ok" THEN [evictor EXCEPT !.phase = "awaiting"] ELSE [phase |-> "idle", conn |-> 0]
    BY <2>1 DEF Resolve, EvictorAfter
  <2> QED BY <2>3, <2>4
<1>6. "evictor" \notin who => evictor' = evictor
  BY DEF Resolve
<1>7. evictor' \in Evictors
  BY <1>1, <1>5, <1>6 DEF Shape, Evictors
<1> QED BY <1>2, <1>3, <1>4, <1>5, <1>6, <1>7

\* The runner of connection i answers some of those who wait for it.
LEMMA ResolveKept ==
  ASSUME Pool, NEW i \in Connections, NEW new \in Conns, Becomes(i, new),
         NEW who, NEW outcome, Resolve(who, outcome),
         \A a \in who : a = None \/ a \in Awaiting(i),
         UNCHANGED <<scene, server, pool>>,
         mishaps' \in 0..MaxMishaps, mishaps' = 0 => mishaps = 0,
         new.closed = conn[i].closed, conn[i].ready = "yes", new.ready = "yes",
         conn[i].sweeper = "off" => new.sweeper = "off",
         ConnOK(i)', Asks(i)', Notices(i)'
  PROVE  Pool'
<1>1. Shape /\ Pooled /\ \A c \in Callers : TaskOK(c)
  BY DEF Pool
<1>2. conn' \in [Connections -> Conns] /\ conn'[i] = new /\ \A j \in Connections \ {i} : conn'[j] = conn[j]
  BY <1>1 DEF Shape, Becomes
<1>3. \A j \in Connections : /\ conn'[j].closed = conn[j].closed
                             /\ conn[j].ready = "yes" => conn'[j].ready = "yes"
                             /\ conn[j].sweeper = "off" => conn'[j].sweeper = "off"
  BY <1>2
<1>4. /\ task' \in [Callers -> Tasks] /\ evictor' \in Evictors
      /\ \A c \in Callers : c \notin who => task'[c] = task[c]
      /\ \A c \in Callers : c \in who =>
           /\ task[c].conn = i /\ task[c].phase \in {"listing", "calling"}
           /\ \/ task'[c].phase = "idle" /\ task'[c].left = task[c].left - 1
              \/ task'[c].phase = "holding" /\ task'[c].conn = i /\ task'[c].left = task[c].left
      /\ "evictor" \notin who => evictor' = evictor
      /\ "evictor" \in who => /\ evictor = [phase |-> "closing", conn |-> i]
                              /\ evictor' \in {[phase |-> "awaiting", conn |-> i], [phase |-> "idle", conn |-> 0]}
  BY ResolvedTasks
<1>5. Shape'
  BY <1>1, <1>2, <1>4 DEF Shape
<1>6. Pooled'
  <2>1. (\A k \in Keys : pool.at[k] # 0 => pool.at[k] \in Connections) /\ (evictor.conn # 0 => evictor.conn \in Connections)
    BY <1>1 DEF Shape, Pools0, Evictors
  <2>2. evictor'.phase # "idle" => evictor'.conn # 0 /\ conn'[evictor'.conn].ready = "yes"
    <3>1. CASE "evictor" \in who
      <4>1. evictor'.phase # "idle" => evictor'.conn = i
        BY <1>4, <3>1
      <4> QED BY <1>2, <4>1 DEF Connections
    <3>2. CASE "evictor" \notin who
      BY <1>1, <1>3, <1>4, <2>1, <3>2 DEF Pooled
    <3> QED BY <3>1, <3>2
  <2>3. ~Happens("evict") => evictor'.phase = "idle"
    <3>1. ~Happens("evict") => evictor.phase = "idle" /\ "evictor" \notin who
      BY <1>1, <1>4 DEF Pooled
    <3> QED BY <1>4, <3>1
  <2>4. ~Happens("evict") => \A c \in Callers : task'[c].phase \in UserPhases => task'[c].conn = pool.at[PostAuth]
    BY <1>1, <1>4 DEF Pooled, UserPhases
  <2> QED BY <1>1, <1>3, <2>1, <2>2, <2>3, <2>4 DEF Pooled, PostAuth, Happens
<1>7. ASSUME NEW c \in Callers PROVE TaskOK(c)'
  <2>1. task[c].conn # 0 => task[c].conn \in Connections
    BY <1>1 DEF Shape, Tasks
  <2>2. CASE c \notin who
    BY <1>1, <1>3, <1>4, <2>1, <2>2 DEF TaskOK
  <2>3. CASE c \in who
    <3>1. TaskOK(c) /\ task[c].left \in Nat /\ task'[c].left \in Nat /\ scene.rounds \in Nat
      BY <1>1, <1>4, McpPoolAssumption DEF Shape, Tasks
    <3>2. task[c].phase # "idle" /\ task[c].left > 0 /\ c \in scene.callers /\ task[c].left <= scene.rounds
      BY <1>4, <2>3, <3>1 DEF TaskOK
    <3>3. task'[c].left <= scene.rounds /\ (task'[c].phase = "holding" => task'[c].left > 0)
      BY <1>4, <2>3, <3>1, <3>2
    <3>4. task'[c].phase = "holding" => task'[c].conn # 0 /\ conn'[task'[c].conn].ready = "yes"
      BY <1>2, <1>4, <2>3 DEF Connections
    <3>5. task'[c].phase \in {"idle", "holding"}
      BY <1>4, <2>3
    <3> QED BY <3>2, <3>3, <3>4, <3>5 DEF TaskOK, UserPhases
  <2> QED BY <2>2, <2>3
<1>8. ASSUME NEW j \in Connections PROVE ConnOK(j)' /\ Asks(j)' /\ Notices(j)'
  <2>1. CASE j # i
    <3>1. conn'[j] = conn[j] /\ \A a : a \in Awaiting(j)' <=> a \in Awaiting(j)
      <4>1. conn'[j] = conn[j]
        BY <1>2, <2>1
      <4>2. \A c \in Callers : (task'[c].conn = j /\ task'[c].phase \in {"listing", "calling"})
                            <=> (task[c].conn = j /\ task[c].phase \in {"listing", "calling"})
        BY <1>4, <2>1
      <4>3. (evictor' = [phase |-> "closing", conn |-> j]) <=> (evictor = [phase |-> "closing", conn |-> j])
        BY <1>4, <2>1
      <4> QED BY <4>1, <4>2, <4>3, AwaitingIs, AwaitingIsThen
    <3>2. Awaiting(j)' = Awaiting(j)
      BY <3>1
    <3>3. server \in Nat /\ server' = server
      BY <1>1 DEF Shape
    <3> QED BY <3>1, <3>2, <3>3, OtherKept
  <2> QED BY <2>1
<1> QED BY <1>5, <1>6, <1>7, <1>8 DEF Pool

\* The connection of those who wait no longer.
LEMMA ResolvedConn ==
  ASSUME NEW cn \in Conns, NEW who, NEW outcome, NEW new, new = Resolved(cn, who, outcome)
  PROVE  /\ new \in Conns /\ new.queue = cn.queue /\ new.serving = cn.serving /\ new.reading = cn.reading
         /\ new.phase = cn.phase /\ new.closed = cn.closed /\ new.ready = cn.ready
         /\ new.version = cn.version /\ new.told = cn.told /\ new.changed = cn.changed
         /\ new.lister = (IF cn.lister \in who THEN None ELSE cn.lister)
         /\ new.watcher = (IF "watcher" \in who THEN BackgroundAfter(outcome) ELSE cn.watcher)
         /\ new.sweeper = (IF "sweeper" \in who THEN BackgroundAfter(outcome) ELSE cn.sweeper)
<1> DEFINE l == IF cn.lister \in who THEN None ELSE cn.lister
           w == IF "watcher" \in who THEN BackgroundAfter(outcome) ELSE cn.watcher
           s == IF "sweeper" \in who THEN BackgroundAfter(outcome) ELSE cn.sweeper
<1>1. l \in Callers \cup Background \cup {None} /\ w \in BackgroundPhases /\ s \in BackgroundPhases
  BY DEF Conns, BackgroundPhases, BackgroundAfter
<1>2. new = [cn EXCEPT !.lister = l, !.watcher = w, !.sweeper = s]
  BY DEF Resolved
<1> HIDE DEF l, w, s
<1>3. /\ new \in Conns /\ new.queue = cn.queue /\ new.serving = cn.serving /\ new.reading = cn.reading
      /\ new.phase = cn.phase /\ new.closed = cn.closed /\ new.ready = cn.ready
      /\ new.version = cn.version /\ new.told = cn.told /\ new.changed = cn.changed
      /\ new.lister = l /\ new.watcher = w /\ new.sweeper = s
  BY <1>1, <1>2 DEF Conns
<1> QED BY <1>3 DEF l, w, s

\* Who still waits for connection i when those in who do not.
LEMMA AwaitingRest ==
  ASSUME Pool, NEW i \in Connections, NEW who, NEW outcome, Resolve(who, outcome),
         \A a \in who : a = None \/ a \in Awaiting(i),
         conn'[i].watcher = (IF "watcher" \in who THEN BackgroundAfter(outcome) ELSE conn[i].watcher),
         conn'[i].sweeper = (IF "sweeper" \in who THEN BackgroundAfter(outcome) ELSE conn[i].sweeper)
  PROVE  Awaiting(i)' = Awaiting(i) \ who
<1>1. /\ \A c \in Callers : c \notin who => task'[c] = task[c]
      /\ \A c \in Callers : c \in who => task'[c].phase \notin {"listing", "calling"}
      /\ "evictor" \notin who => evictor' = evictor
      /\ "evictor" \in who => evictor'.phase # "closing"
  BY ResolvedTasks
<1>2. BackgroundAfter(outcome) # "listing"
  BY DEF BackgroundAfter
<1>3. ASSUME NEW a PROVE a \in Awaiting(i)' <=> a \in Awaiting(i) /\ a \notin who
  <2>1. CASE a \in Callers
    BY <1>1, <2>1, Names, AwaitingIs, AwaitingIsThen
  <2>2. CASE a = "watcher"
    BY <1>2, <2>2, Names, AwaitingIs, AwaitingIsThen
  <2>3. CASE a = "sweeper"
    BY <1>2, <2>3, Names, AwaitingIs, AwaitingIsThen
  <2>4. CASE a = "evictor"
    BY <1>1, <2>4, Names, AwaitingIs, AwaitingIsThen
  <2>5. CASE a \notin Callers /\ a # "watcher" /\ a # "sweeper" /\ a # "evictor"
    BY <2>5, AwaitingIs, AwaitingIsThen
  <2> QED BY <2>1, <2>2, <2>3, <2>4, <2>5
<1> QED BY <1>3

\* What is left when the first command of connection i is answered.
LEMMA AnswerKept ==
  ASSUME Pool, NEW i \in Connections, NEW new \in Conns, Becomes(i, new), NEW outcome,
         Resolve({First(i).by}, outcome),
         UNCHANGED <<scene, server, pool>>, mishaps' \in 0..MaxMishaps, mishaps' = 0 => mishaps = 0,
         conn[i].queue # <<>>, conn[i].phase = "ready", new.phase \in {"ready", "draining"},
         new.queue = Tail(conn[i].queue), new.closed = conn[i].closed, new.ready = conn[i].ready,
         new.lister = (IF conn[i].lister = First(i).by THEN None ELSE conn[i].lister),
         new.watcher = (IF "watcher" = First(i).by THEN BackgroundAfter(outcome) ELSE conn[i].watcher),
         new.sweeper = (IF "sweeper" = First(i).by THEN BackgroundAfter(outcome) ELSE conn[i].sweeper),
         ~new.serving, new.reading <= server, new.version <= server, new.told = conn[i].told,
         Notices(i)'
  PROVE  Pool'
<1> DEFINE by == First(i).by
<1>1. /\ conn[i] \in Conns /\ ConnOK(i) /\ Asks(i) /\ Shape /\ server \in Nat
      /\ First(i) = conn[i].queue[1] /\ 1 \in DOMAIN conn[i].queue
  BY ConnFacts
<1>2. conn'[i] = new
  BY <1>1 DEF Becomes, Shape
<1>3. \A a \in {by} : a = None \/ a \in Awaiting(i)
  BY <1>1 DEF Asks
<1>4. Awaiting(i)' = Awaiting(i) \ {by}
  BY <1>2, <1>3, AwaitingRest
<1>5. conn[i].watcher = "dead" => new.watcher = "dead"
  <2>1. conn[i].watcher = "dead" => "watcher" \notin Awaiting(i)
    BY AwaitingIs, Names
  <2> QED BY <1>3, <2>1, Names
<1>6. Answered(i)
  BY <1>2, <1>4, <1>5 DEF Answered
<1>7. Asks(i)'
  BY <1>1, <1>6, AsksKept
<1>8. conn[i].ready = "yes"
  BY <1>1 DEF ConnOK
<1>9. ConnOK(i)'
  BY <1>1, <1>2, <1>8 DEF ConnOK
<1>10. conn[i].sweeper = "off" => new.sweeper = "off"
  <2>1. conn[i].sweeper = "off" => "sweeper" \notin Awaiting(i)
    BY AwaitingIs, Names
  <2> QED BY <1>3, <2>1, Names
<1> QED BY <1>2, <1>3, <1>7, <1>8, <1>9, <1>10, ResolveKept

\* The connection without its first command.
LEMMA RestConn ==
  ASSUME NEW cn \in Conns, cn.queue # <<>>, NEW new, new = Rest(cn)
  PROVE  /\ new \in Conns /\ new.queue = Tail(cn.queue) /\ ~new.serving /\ new.reading = 0
         /\ new.phase = cn.phase /\ new.closed = cn.closed /\ new.ready = cn.ready
         /\ new.version = cn.version /\ new.told = cn.told /\ new.changed = cn.changed
         /\ new.lister = cn.lister /\ new.watcher = cn.watcher /\ new.sweeper = cn.sweeper
<1> DEFINE q == Tail(cn.queue)
<1>1. q \in Seq(Commands)
  BY DEF Conns
<1>2. new = [cn EXCEPT !.queue = q, !.serving = FALSE, !.reading = 0]
  BY DEF Rest
<1> HIDE DEF q
<1>3. new \in Conns
  <2>1. PICK x : x = [cn EXCEPT !.queue = q, !.serving = FALSE]
    OBVIOUS
  <2>2. x \in Conns
    BY <1>1, <2>1 DEF Conns
  <2>3. new = [x EXCEPT !.reading = 0] /\ 0 \in Nat
    BY <1>2, <2>1
  <2> QED BY <2>2, <2>3 DEF Conns
<1>4. /\ new.queue = q /\ ~new.serving /\ new.reading = 0
      /\ new.phase = cn.phase /\ new.closed = cn.closed /\ new.ready = cn.ready
      /\ new.version = cn.version /\ new.told = cn.told /\ new.changed = cn.changed
      /\ new.lister = cn.lister /\ new.watcher = cn.watcher /\ new.sweeper = cn.sweeper
  BY <1>1, <1>2 DEF Conns
<1> QED BY <1>3, <1>4 DEF q

\* The record of a connection whose first command is answered.
LEMMA AnsweredConn ==
  ASSUME NEW cn \in Conns, cn.queue # <<>>, NEW who, NEW outcome, NEW new, new = Rest(Resolved(cn, who, outcome))
  PROVE  /\ new \in Conns /\ new.queue = Tail(cn.queue) /\ ~new.serving /\ new.reading = 0
         /\ new.phase = cn.phase /\ new.closed = cn.closed /\ new.ready = cn.ready
         /\ new.version = cn.version /\ new.told = cn.told /\ new.changed = cn.changed
         /\ new.lister = (IF cn.lister \in who THEN None ELSE cn.lister)
         /\ new.watcher = (IF "watcher" \in who THEN BackgroundAfter(outcome) ELSE cn.watcher)
         /\ new.sweeper = (IF "sweeper" \in who THEN BackgroundAfter(outcome) ELSE cn.sweeper)
<1>1. PICK r : r = Resolved(cn, who, outcome)
  OBVIOUS
<1>2. /\ r \in Conns /\ r.queue = cn.queue /\ r.serving = cn.serving /\ r.reading = cn.reading
      /\ r.phase = cn.phase /\ r.closed = cn.closed /\ r.ready = cn.ready
      /\ r.version = cn.version /\ r.told = cn.told /\ r.changed = cn.changed
      /\ r.lister = (IF cn.lister \in who THEN None ELSE cn.lister)
      /\ r.watcher = (IF "watcher" \in who THEN BackgroundAfter(outcome) ELSE cn.watcher)
      /\ r.sweeper = (IF "sweeper" \in who THEN BackgroundAfter(outcome) ELSE cn.sweeper)
  BY <1>1, ResolvedConn
<1>3. new = Rest(r) /\ r.queue # <<>>
  BY <1>1, <1>2
<1>4. /\ new \in Conns /\ new.queue = Tail(r.queue) /\ ~new.serving /\ new.reading = 0
      /\ new.phase = r.phase /\ new.closed = r.closed /\ new.ready = r.ready
      /\ new.version = r.version /\ new.told = r.told /\ new.changed = r.changed
      /\ new.lister = r.lister /\ new.watcher = r.watcher /\ new.sweeper = r.sweeper
  BY <1>2, <1>3, RestConn
<1> QED BY <1>2, <1>4

\* Who asked first waits for the answer, or is gone; a watcher asks for lists.
LEMMA FirstAsker ==
  ASSUME Pool, NEW i \in Connections, conn[i].queue # <<>>
  PROVE  /\ First(i).by = None \/ First(i).by \in Awaiting(i)
         /\ First(i).by \in Background => First(i).kind = "list"
         /\ First(i).kind = "close" => First(i).by = "evictor"
<1>1. /\ Asks(i) /\ First(i) \in Commands /\ First(i) = conn[i].queue[1] /\ 1 \in DOMAIN conn[i].queue
  BY ConnFacts
<1> QED BY <1>1, Names DEF Asks, Commands, Background

\* _run_sdk: an answer arrives.
LEMMA ReplyKept ==
  ASSUME Pool, NEW i \in Connections, Reply(i)
  PROVE  Pool'
<1> DEFINE cn == conn[i]
<1>r. PICK rest : rest = Rest(Resolved(cn, {First(i).by}, "ok"))
  OBVIOUS
<1> DEFINE new == [rest EXCEPT !.version = IF First(i).kind = "list" THEN cn.reading ELSE cn.version,
                               !.fresh = First(i).kind = "list" \/ cn.fresh]
<1>1. /\ cn \in Conns /\ ConnOK(i) /\ Asks(i) /\ Notices(i) /\ Shape /\ server \in Nat
      /\ cn.phase = "ready" /\ cn.serving /\ cn.queue # <<>>
      /\ Becomes(i, new) /\ Resolve({First(i).by}, "ok")
      /\ UNCHANGED <<scene, server, pool, mishaps>> /\ mishaps \in 0..MaxMishaps
  BY <1>r, ConnFacts DEF Reply, ConnOK
<1>2. /\ rest \in Conns /\ rest.queue = Tail(cn.queue) /\ ~rest.serving /\ rest.reading = 0
      /\ rest.phase = cn.phase /\ rest.closed = cn.closed /\ rest.ready = cn.ready
      /\ rest.version = cn.version /\ rest.told = cn.told /\ rest.changed = cn.changed
      /\ rest.lister = (IF cn.lister = First(i).by THEN None ELSE cn.lister)
      /\ rest.watcher = (IF "watcher" = First(i).by THEN BackgroundAfter("ok") ELSE cn.watcher)
      /\ rest.sweeper = (IF "sweeper" = First(i).by THEN BackgroundAfter("ok") ELSE cn.sweeper)
  <2>1. /\ rest \in Conns /\ rest.queue = Tail(cn.queue) /\ ~rest.serving /\ rest.reading = 0
        /\ rest.phase = cn.phase /\ rest.closed = cn.closed /\ rest.ready = cn.ready
        /\ rest.version = cn.version /\ rest.told = cn.told /\ rest.changed = cn.changed
        /\ rest.lister = (IF cn.lister \in {First(i).by} THEN None ELSE cn.lister)
        /\ rest.watcher = (IF "watcher" \in {First(i).by} THEN BackgroundAfter("ok") ELSE cn.watcher)
        /\ rest.sweeper = (IF "sweeper" \in {First(i).by} THEN BackgroundAfter("ok") ELSE cn.sweeper)
    BY <1>r, <1>1, AnsweredConn
  <2> QED BY <2>1
<1> DEFINE v == IF First(i).kind = "list" THEN cn.reading ELSE cn.version
<1>3. v \in Nat /\ v <= server
  BY <1>1 DEF Conns, ConnOK
<1>4. /\ new \in Conns /\ new.version = v
      /\ new.queue = rest.queue /\ new.serving = rest.serving /\ new.reading = rest.reading
      /\ new.phase = rest.phase /\ new.closed = rest.closed /\ new.ready = rest.ready
      /\ new.told = rest.told /\ new.changed = rest.changed /\ new.lister = rest.lister
      /\ new.watcher = rest.watcher /\ new.sweeper = rest.sweeper
  <2> DEFINE f == First(i).kind = "list" \/ cn.fresh
  <2>1. f \in BOOLEAN /\ new = [rest EXCEPT !.version = v, !.fresh = f]
    OBVIOUS
  <2> HIDE DEF f, v, new
  <2> QED BY <1>2, <1>3, <2>1 DEF Conns
<1> HIDE DEF new
<1>5. conn'[i] = new
  BY <1>1 DEF Becomes, Shape
<1>6. Notices(i)'
  <2>1. ~conn'[i].serving
    BY <1>2, <1>4, <1>5
  <2>2. mishaps = 0 /\ v < cn.told => cn.changed \/ (cn.watcher \in {"wanting", "listing"} /\ First(i).by # "watcher")
    <3>1. CASE First(i).kind = "list"
      BY <1>1, <3>1 DEF Notices
    <3>2. CASE First(i).kind # "list"
      <4>1. First(i).by # "watcher"
        BY <1>1, <3>2, FirstAsker, Names
      <4> QED BY <1>1, <3>2, <4>1 DEF Notices
    <3> QED BY <3>1, <3>2
  <2> QED BY <1>1, <1>2, <1>4, <1>5, <2>1, <2>2 DEF Notices
<1>7. new.reading <= server /\ new.version <= server
  BY <1>1, <1>2, <1>3, <1>4
<1> QED BY <1>1, <1>2, <1>4, <1>5, <1>6, <1>7, AnswerKept

\* _run_sdk: a request fails, or its answer is too large.
LEMMA ReplyErrorKept ==
  ASSUME Pool, NEW i \in Connections, ReplyError(i)
  PROVE  Pool'
<1> DEFINE cn == conn[i]
<1>1. PICK outcome \in {"unreachable", "too_large"} :
        /\ Mishap(IF outcome = "too_large" THEN "oversize" ELSE "fail")
        /\ Resolve({First(i).by}, outcome)
        /\ Becomes(i, Rest(Resolved(cn, {First(i).by}, outcome)))
  BY DEF ReplyError
<1>r. PICK new : new = Rest(Resolved(cn, {First(i).by}, outcome))
  OBVIOUS
<1>2. /\ cn \in Conns /\ ConnOK(i) /\ Shape /\ server \in Nat
      /\ cn.phase = "ready" /\ cn.queue # <<>>
      /\ UNCHANGED <<scene, server, pool>> /\ mishaps' \in 0..MaxMishaps /\ mishaps' # 0
      /\ Becomes(i, new)
  BY <1>1, <1>r, ConnFacts, MishapCounts DEF ReplyError, ConnOK
<1>3. /\ new \in Conns /\ new.queue = Tail(cn.queue) /\ ~new.serving /\ new.reading = 0
      /\ new.phase = cn.phase /\ new.closed = cn.closed /\ new.ready = cn.ready
      /\ new.version = cn.version /\ new.told = cn.told /\ new.changed = cn.changed
      /\ new.lister = (IF cn.lister \in {First(i).by} THEN None ELSE cn.lister)
      /\ new.watcher = (IF "watcher" \in {First(i).by} THEN BackgroundAfter(outcome) ELSE cn.watcher)
      /\ new.sweeper = (IF "sweeper" \in {First(i).by} THEN BackgroundAfter(outcome) ELSE cn.sweeper)
  BY <1>r, <1>2, AnsweredConn
<1>4. Notices(i)'
  BY <1>2 DEF Notices
<1>5. new.reading <= server /\ new.version <= server
  BY <1>2, <1>3 DEF ConnOK
<1>6. /\ new.lister = (IF cn.lister = First(i).by THEN None ELSE cn.lister)
      /\ new.watcher = (IF "watcher" = First(i).by THEN BackgroundAfter(outcome) ELSE cn.watcher)
      /\ new.sweeper = (IF "sweeper" = First(i).by THEN BackgroundAfter(outcome) ELSE cn.sweeper)
  BY <1>3
<1> QED BY <1>1, <1>2, <1>3, <1>4, <1>5, <1>6, AnswerKept

\* _run_sdk: the evictor's command to close is obeyed.
LEMMA ObeyCloseKept ==
  ASSUME Pool, NEW i \in Connections, ObeyClose(i)
  PROVE  Pool'
<1> DEFINE cn == conn[i]
<1>r. PICK rest : rest = Rest(cn)
  OBVIOUS
<1>n. PICK new : new = [rest EXCEPT !.phase = "draining"]
  OBVIOUS
<1>1. /\ cn \in Conns /\ ConnOK(i) /\ Shape /\ server \in Nat
      /\ cn.phase = "ready" /\ cn.queue # <<>> /\ First(i).kind = "close"
      /\ UNCHANGED <<scene, server, pool, mishaps>> /\ mishaps \in 0..MaxMishaps
      /\ Becomes(i, new) /\ Resolve({First(i).by}, "ok")
  BY <1>r, <1>n, ConnFacts DEF ObeyClose
<1>2. /\ rest \in Conns /\ rest.queue = Tail(cn.queue) /\ ~rest.serving /\ rest.reading = 0
      /\ rest.phase = cn.phase /\ rest.closed = cn.closed /\ rest.ready = cn.ready
      /\ rest.version = cn.version /\ rest.told = cn.told /\ rest.changed = cn.changed
      /\ rest.lister = cn.lister /\ rest.watcher = cn.watcher /\ rest.sweeper = cn.sweeper
  BY <1>r, <1>1, RestConn
<1>3. /\ new \in Conns /\ new.phase = "draining"
      /\ new.queue = rest.queue /\ ~new.serving /\ new.reading = 0
      /\ new.closed = rest.closed /\ new.ready = rest.ready
      /\ new.version = rest.version /\ new.told = rest.told
      /\ new.lister = rest.lister /\ new.watcher = rest.watcher /\ new.sweeper = rest.sweeper
  BY <1>2, <1>n DEF Conns
<1>4. First(i).by = "evictor"
  BY <1>1, FirstAsker
<1>5. cn.lister # First(i).by /\ First(i).by # "watcher" /\ First(i).by # "sweeper"
  BY <1>1, <1>4, Names DEF Conns
<1>6. conn'[i] = new
  BY <1>1 DEF Becomes, Shape
<1>7. Notices(i)'
  BY <1>3, <1>6 DEF Notices
<1>8. new.reading <= server /\ new.version <= server
  BY <1>1, <1>2, <1>3 DEF ConnOK
<1>9. /\ new.lister = (IF cn.lister = First(i).by THEN None ELSE cn.lister)
      /\ new.watcher = (IF "watcher" = First(i).by THEN BackgroundAfter("ok") ELSE cn.watcher)
      /\ new.sweeper = (IF "sweeper" = First(i).by THEN BackgroundAfter("ok") ELSE cn.sweeper)
  BY <1>2, <1>3, <1>5
<1> QED BY <1>1, <1>2, <1>3, <1>7, <1>8, <1>9, AnswerKept

\* The runner is cancelled with its connection.
LEMMA DieKept ==
  ASSUME Pool, NEW i \in Connections, Die(i)
  PROVE  Pool'
<1> DEFINE cn == conn[i]
<1>1. /\ cn \in Conns /\ ConnOK(i) /\ Asks(i) /\ Shape /\ server \in Nat
      /\ cn.phase = "ready" /\ cn.ready = "yes" /\ (cn.serving => cn.queue # <<>>)
      /\ UNCHANGED <<scene, server, pool>> /\ mishaps' \in 0..MaxMishaps /\ mishaps' # 0
  BY ConnFacts, MishapCounts DEF Die, ConnOK
<1>4. Notices(i)'
  BY <1>1 DEF Notices
<1>2. CASE cn.serving
  <2> DEFINE served == {First(i).by}
  <2>r. PICK rest : rest = Resolved(Rest(cn), served, "unreachable")
    OBVIOUS
  <2>n. PICK new : new = [rest EXCEPT !.phase = "draining"]
    OBVIOUS
  <2>1. Becomes(i, new) /\ Resolve(served, "unreachable")
    BY <1>2, <2>r, <2>n DEF Die
  <2>q. PICK tail : tail = Rest(cn)
    OBVIOUS
  <2>2. /\ tail \in Conns /\ tail.queue = Tail(cn.queue) /\ ~tail.serving /\ tail.reading = 0
        /\ tail.phase = cn.phase /\ tail.closed = cn.closed /\ tail.ready = cn.ready
        /\ tail.version = cn.version /\ tail.told = cn.told /\ tail.changed = cn.changed
        /\ tail.lister = cn.lister /\ tail.watcher = cn.watcher /\ tail.sweeper = cn.sweeper
    BY <1>1, <1>2, <2>q, RestConn
  <2>3. rest = Resolved(tail, served, "unreachable")
    BY <2>r, <2>q
  <2>4. /\ rest \in Conns /\ rest.queue = tail.queue /\ rest.serving = tail.serving /\ rest.reading = tail.reading
        /\ rest.phase = tail.phase /\ rest.closed = tail.closed /\ rest.ready = tail.ready
        /\ rest.version = tail.version /\ rest.told = tail.told /\ rest.changed = tail.changed
        /\ rest.lister = (IF tail.lister \in served THEN None ELSE tail.lister)
        /\ rest.watcher = (IF "watcher" \in served THEN BackgroundAfter("unreachable") ELSE tail.watcher)
        /\ rest.sweeper = (IF "sweeper" \in served THEN BackgroundAfter("unreachable") ELSE tail.sweeper)
    BY <2>2, <2>3, ResolvedConn
  <2>5. /\ new \in Conns /\ new.phase = "draining"
        /\ new.queue = rest.queue /\ new.serving = rest.serving /\ new.reading = rest.reading
        /\ new.closed = rest.closed /\ new.ready = rest.ready
        /\ new.version = rest.version /\ new.told = rest.told
        /\ new.lister = rest.lister /\ new.watcher = rest.watcher /\ new.sweeper = rest.sweeper
    BY <2>4, <2>n DEF Conns
  <2>6. new.reading <= server /\ new.version <= server
    BY <1>1, <2>2, <2>4, <2>5 DEF ConnOK
  <2>7. /\ new.lister = (IF cn.lister = First(i).by THEN None ELSE cn.lister)
        /\ new.watcher = (IF "watcher" = First(i).by THEN BackgroundAfter("unreachable") ELSE cn.watcher)
        /\ new.sweeper = (IF "sweeper" = First(i).by THEN BackgroundAfter("unreachable") ELSE cn.sweeper)
    BY <2>2, <2>4, <2>5
  <2> QED BY <1>1, <1>2, <1>4, <2>1, <2>2, <2>4, <2>5, <2>6, <2>7, AnswerKept
<1>3. CASE ~cn.serving
  <2>r. PICK rest : rest = Resolved(cn, {}, "unreachable")
    OBVIOUS
  <2>n. PICK new : new = [rest EXCEPT !.phase = "draining"]
    OBVIOUS
  <2>1. Becomes(i, new) /\ Resolve({}, "unreachable")
    BY <1>3, <2>r, <2>n DEF Die
  <2>2. /\ rest \in Conns /\ rest.queue = cn.queue /\ rest.serving = cn.serving /\ rest.reading = cn.reading
        /\ rest.phase = cn.phase /\ rest.closed = cn.closed /\ rest.ready = cn.ready
        /\ rest.version = cn.version /\ rest.told = cn.told /\ rest.changed = cn.changed
        /\ rest.lister = (IF cn.lister \in {} THEN None ELSE cn.lister)
        /\ rest.watcher = (IF "watcher" \in {} THEN BackgroundAfter("unreachable") ELSE cn.watcher)
        /\ rest.sweeper = (IF "sweeper" \in {} THEN BackgroundAfter("unreachable") ELSE cn.sweeper)
    BY <1>1, <2>r, ResolvedConn
  <2>3. /\ new \in Conns /\ new.phase = "draining"
        /\ new.queue = rest.queue /\ new.serving = rest.serving /\ new.reading = rest.reading
        /\ new.closed = rest.closed /\ new.ready = rest.ready
        /\ new.version = rest.version /\ new.told = rest.told
        /\ new.lister = rest.lister /\ new.watcher = rest.watcher /\ new.sweeper = rest.sweeper
    BY <2>2, <2>n DEF Conns
  <2>4. conn'[i] = new
    BY <1>1, <2>1 DEF Becomes, Shape
  <2>5. ConnOK(i)'
    BY <1>1, <1>3, <2>2, <2>3, <2>4 DEF ConnOK
  <2>6. Awaiting(i)' = Awaiting(i)
    <3>1. Awaiting(i)' = Awaiting(i) \ {}
      BY <2>1, <2>2, <2>3, <2>4, AwaitingRest
    <3> QED BY <3>1
  <2>7. Asks(i)'
    <3>1. Still(i)
      BY <1>1, <2>2, <2>3, <2>4, <2>6 DEF Still
    <3> QED BY <1>1, <3>1, AsksKept
  <2> QED BY <1>1, <1>4, <2>1, <2>2, <2>3, <2>5, <2>7, ResolveKept
<1> QED BY <1>2, <1>3
\* The connection one of whose tasks is gone.
LEMMA DisownedConn ==
  ASSUME NEW cn \in Conns, NEW who \in Callers \cup Background, NEW new, new = Disowned(cn, who)
  PROVE  /\ new \in Conns /\ new.queue = Orphaned(cn.queue, who) /\ new.serving = cn.serving
         /\ new.reading = cn.reading /\ new.phase = cn.phase /\ new.closed = cn.closed /\ new.ready = cn.ready
         /\ new.version = cn.version /\ new.told = cn.told /\ new.changed = cn.changed
         /\ new.lister = (IF cn.lister = who THEN None ELSE cn.lister)
         /\ new.watcher = cn.watcher /\ new.sweeper = cn.sweeper
<1> DEFINE l == IF cn.lister = who THEN None ELSE cn.lister
           q == Orphaned(cn.queue, who)
<1>1. l \in Callers \cup Background \cup {None} /\ q \in Seq(Commands)
  BY OrphanedIs DEF Conns
<1>2. new = [cn EXCEPT !.lister = l, !.queue = q]
  BY DEF Disowned
<1> HIDE DEF l, q
<1>3. /\ new \in Conns /\ new.queue = q /\ new.serving = cn.serving
      /\ new.reading = cn.reading /\ new.phase = cn.phase /\ new.closed = cn.closed /\ new.ready = cn.ready
      /\ new.version = cn.version /\ new.told = cn.told /\ new.changed = cn.changed
      /\ new.lister = l /\ new.watcher = cn.watcher /\ new.sweeper = cn.sweeper
  BY <1>1, <1>2 DEF Conns
<1> QED BY <1>3 DEF l, q

\* The runner refuses what is left, and is over.
LEMMA DrainKept ==
  ASSUME Pool, NEW i \in Connections, Drain(i)
  PROVE  Pool'
<1> DEFINE cn == conn[i]
<1>o. PICK own : own = Disowned(cn, "watcher")
  OBVIOUS
<1>q. PICK quiet : quiet = [own EXCEPT !.phase = "ended", !.subscribed = FALSE, !.watcher = "off"]
  OBVIOUS
<1>l. PICK left : left = {quiet.queue[n].by : n \in DOMAIN quiet.queue}
  OBVIOUS
<1>1. /\ cn \in Conns /\ ConnOK(i) /\ Asks(i) /\ Shape /\ server \in Nat /\ cn.queue \in Seq(Commands)
      /\ cn.phase = "draining" /\ UNCHANGED <<scene, server, pool, mishaps>> /\ mishaps \in 0..MaxMishaps
  BY ConnFacts DEF Drain
<1>2. cn.ready = "yes" /\ ~cn.serving
  BY <1>1 DEF ConnOK
<1>3. /\ own \in Conns /\ own.queue = Orphaned(cn.queue, "watcher") /\ own.serving = cn.serving
      /\ own.reading = cn.reading /\ own.phase = cn.phase /\ own.closed = cn.closed /\ own.ready = cn.ready
      /\ own.version = cn.version /\ own.told = cn.told
      /\ own.lister = (IF cn.lister = "watcher" THEN None ELSE cn.lister)
      /\ own.watcher = cn.watcher /\ own.sweeper = cn.sweeper
  BY <1>1, <1>o, DisownedConn, Names
<1>4. /\ quiet \in Conns /\ quiet.phase = "ended" /\ quiet.watcher = "off"
      /\ quiet.queue = own.queue /\ quiet.serving = own.serving /\ quiet.reading = own.reading
      /\ quiet.closed = own.closed /\ quiet.ready = own.ready /\ quiet.version = own.version
      /\ quiet.told = own.told /\ quiet.lister = own.lister /\ quiet.sweeper = own.sweeper
  BY <1>3, <1>q DEF Conns, BackgroundPhases
<1>5. /\ DOMAIN quiet.queue = DOMAIN cn.queue
      /\ \A n \in DOMAIN cn.queue : quiet.queue[n].by = IF cn.queue[n].by = "watcher" THEN None ELSE cn.queue[n].by
  BY <1>1, <1>3, <1>4, OrphanedIs, Names
<1>6. CASE cn.watcher # "dead"
  <2>r. PICK res : res = Resolved(quiet, left, "unreachable")
    OBVIOUS
  <2>n. PICK new : new = [res EXCEPT !.queue = <<>>]
    OBVIOUS
  <2>1. Becomes(i, new) /\ Resolve(left, "unreachable")
    BY <1>6, <1>o, <1>q, <1>l, <2>r, <2>n DEF Drain
  <2>2. /\ res \in Conns /\ res.queue = quiet.queue /\ res.serving = quiet.serving /\ res.reading = quiet.reading
        /\ res.phase = quiet.phase /\ res.closed = quiet.closed /\ res.ready = quiet.ready
        /\ res.version = quiet.version /\ res.told = quiet.told
        /\ res.lister = (IF quiet.lister \in left THEN None ELSE quiet.lister)
        /\ res.watcher = (IF "watcher" \in left THEN BackgroundAfter("unreachable") ELSE quiet.watcher)
        /\ res.sweeper = (IF "sweeper" \in left THEN BackgroundAfter("unreachable") ELSE quiet.sweeper)
    BY <1>4, <2>r, ResolvedConn
  <2>3. /\ new \in Conns /\ new.queue = <<>> /\ new.serving = res.serving /\ new.reading = res.reading
        /\ new.phase = res.phase /\ new.closed = res.closed /\ new.ready = res.ready
        /\ new.version = res.version /\ new.told = res.told /\ new.lister = res.lister
        /\ new.watcher = res.watcher /\ new.sweeper = res.sweeper
    <3>1. <<>> \in Seq(Commands)
      OBVIOUS
    <3> QED BY <2>2, <2>n, <3>1 DEF Conns
  <2>4. conn'[i] = new
    BY <1>1, <2>1 DEF Becomes, Shape
  <2>5. \A a : a \in left <=> a # "watcher" /\ (a \in Awaiting(i) \/ (a = None /\ a \in left))
    <3>1. ASSUME NEW a \in left PROVE a # "watcher" /\ (a = None \/ a \in Awaiting(i))
      <4>1. PICK n \in DOMAIN quiet.queue : a = quiet.queue[n].by
        BY <1>l
      <4>2. n \in DOMAIN cn.queue
        BY <1>5, <4>1
      <4>3. CASE cn.queue[n].by = "watcher"
        BY <1>5, <4>1, <4>2, <4>3, Names
      <4>4. CASE cn.queue[n].by # "watcher"
        BY <1>1, <1>5, <4>1, <4>2, <4>4 DEF Asks
      <4> QED BY <4>3, <4>4
    <3>2. ASSUME NEW a \in Awaiting(i), a # "watcher" PROVE a \in left
      <4>1. PICK n \in DOMAIN cn.queue : cn.queue[n].by = a
        BY <1>1, <1>6 DEF Asks
      <4>2. n \in DOMAIN quiet.queue /\ quiet.queue[n].by = a
        BY <1>5, <3>2, <4>1
      <4> QED BY <1>l, <4>2
    <3> QED BY <3>1, <3>2
  <2>6. \A a \in left : a = None \/ a \in Awaiting(i)
    BY <2>5
  <2>7. "watcher" \notin left
    BY <2>5
  <2>8. new.watcher = "off" /\ new.sweeper = (IF "sweeper" \in left THEN "waiting" ELSE cn.sweeper)
    BY <1>3, <1>4, <2>2, <2>3, <2>7 DEF BackgroundAfter
  <2>9. new.lister = None
    <3>1. cn.lister # None => cn.lister \in Awaiting(i)
      BY <1>1 DEF Asks
    <3> QED BY <1>3, <1>4, <2>2, <2>3, <2>5, <3>1
  <2>10. ASSUME NEW a PROVE a \notin Awaiting(i)'
    <3>1. /\ \A c \in Callers : c \notin left => task'[c] = task[c]
          /\ \A c \in Callers : c \in left => task'[c].phase \notin {"listing", "calling"}
          /\ "evictor" \notin left => evictor' = evictor
          /\ "evictor" \in left => evictor'.phase # "closing"
      BY <2>1, <2>6, ResolvedTasks
    <3>2. CASE a \in Callers
      BY <2>5, <3>1, <3>2, Names, AwaitingIs, AwaitingIsThen
    <3>3. CASE a = "watcher"
      BY <2>4, <2>8, <3>3, Names, AwaitingIsThen
    <3>4. CASE a = "sweeper"
      BY <2>4, <2>5, <2>8, <3>4, Names, AwaitingIs, AwaitingIsThen
    <3>5. CASE a = "evictor"
      BY <2>5, <3>1, <3>5, Names, AwaitingIs, AwaitingIsThen
    <3>6. CASE a \notin Callers /\ a # "watcher" /\ a # "sweeper" /\ a # "evictor"
      BY <3>6, AwaitingIsThen
    <3> QED BY <3>2, <3>3, <3>4, <3>5, <3>6
  <2>11. Awaiting(i)' = {}
    BY <2>10
  <2>12. Emptied(i)
    BY <2>3, <2>4, <2>9, <2>11 DEF Emptied
  <2>13. Asks(i)'
    BY <1>1, <2>12, AsksKept
  <2>14. ConnOK(i)'
    BY <1>1, <1>2, <1>3, <1>4, <2>2, <2>3, <2>4 DEF ConnOK
  <2>15. Notices(i)'
    BY <1>4, <2>2, <2>3, <2>4 DEF Notices
  <2>16. new.closed = cn.closed /\ new.ready = "yes" /\ (cn.sweeper = "off" => new.sweeper = "off")
    <3>1. cn.sweeper = "off" => "sweeper" \notin Awaiting(i)
      BY AwaitingIs, Names
    <3>2. cn.sweeper = "off" => "sweeper" \notin left
      BY <2>6, <3>1, Names
    <3> QED BY <1>2, <1>3, <1>4, <2>2, <2>3, <2>8, <3>2
  <2> QED BY <1>1, <1>2, <2>1, <2>3, <2>6, <2>13, <2>14, <2>15, <2>16, ResolveKept
<1>7. CASE cn.watcher = "dead"
  <2>n. PICK new : new = [quiet EXCEPT !.watcher = "dead"]
    OBVIOUS
  <2>1. Becomes(i, new) /\ UNCHANGED <<task, evictor>>
    BY <1>7, <1>o, <1>q, <2>n DEF Drain
  <2>2. /\ new \in Conns /\ new.queue = quiet.queue /\ new.serving = quiet.serving /\ new.reading = quiet.reading
        /\ new.phase = "ended" /\ new.closed = quiet.closed /\ new.ready = quiet.ready
        /\ new.version = quiet.version /\ new.told = quiet.told /\ new.lister = quiet.lister
        /\ new.watcher = "dead" /\ new.sweeper = quiet.sweeper
    BY <1>4, <2>n DEF Conns, BackgroundPhases
  <2>3. conn'[i] = new
    BY <1>1, <2>1 DEF Becomes, Shape
  <2>4. \A a : a \in Awaiting(i)' <=> a \in Awaiting(i) \ {"watcher"}
    BY <1>3, <1>4, <1>7, <2>1, <2>2, <2>3, Names, AwaitingIs, AwaitingIsThen
  <2>5. Awaiting(i)' = Awaiting(i) \ {"watcher"}
    BY <2>4
  <2>6. Left(i, "watcher")
    BY <1>3, <1>4, <2>2, <2>3, <2>5 DEF Left
  <2>7. Asks(i)'
    BY <1>1, <2>6, AsksKept, Names
  <2>8. ConnOK(i)'
    BY <1>1, <1>2, <1>3, <1>4, <2>2, <2>3 DEF ConnOK
  <2>9. Notices(i)'
    BY <2>2, <2>3 DEF Notices
  <2>10. new.closed = cn.closed /\ new.ready = "yes" /\ new.sweeper = cn.sweeper
    BY <1>2, <1>3, <1>4, <2>2
  <2> QED BY <1>1, <2>1, <2>2, <2>7, <2>8, <2>9, <2>10, TweakKept
<1> QED BY <1>6, <1>7

\* The server's catalogue changes.
LEMMA ServerChangesKept ==
  ASSUME Pool, ServerChanges
  PROVE  Pool'
<1>1. /\ Shape /\ Pooled /\ (\A c \in Callers : TaskOK(c))
      /\ server' = server + 1 /\ server < scene.versions /\ UNCHANGED <<scene, pool, conn, task, evictor, mishaps>>
      /\ scene.versions \in Nat
  BY McpPoolAssumption DEF Pool, Shape, ServerChanges
<1>2. server \in Nat /\ server' \in 1..scene.versions /\ server <= server'
  BY <1>1 DEF Shape
<1>3. Shape'
  BY <1>1, <1>2 DEF Shape
<1>4. Pooled' /\ \A c \in Callers : TaskOK(c)'
  BY <1>1 DEF Pooled, TaskOK, PostAuth, Happens
<1>5. ASSUME NEW i \in Connections PROVE ConnOK(i)' /\ Asks(i)' /\ Notices(i)'
  <2>1. Awaiting(i)' = Awaiting(i)
    BY <1>1 DEF Awaiting
  <2> QED BY <1>1, <1>2, <2>1, OtherKept
<1> QED BY <1>3, <1>4, <1>5 DEF Pool
-----------------------------------------------------------------------------
(* Callers *)

\* A caller that waits for no other connection than i.
WaitsOnlyFor(t, i) == t.phase \in {"listing", "calling"} => t.conn = i

\* One caller moves, and connection i, if it is one, with it.
LEMMA CallerKept ==
  ASSUME Pool, NEW c \in Callers, NEW t \in Tasks, task' = [task EXCEPT ![c] = t],
         UNCHANGED <<scene, server, evictor>>,
         mishaps' \in 0..MaxMishaps, mishaps' = 0 => mishaps = 0,
         NEW i, conn' \in [Connections -> Conns], \A j \in Connections : j # i => conn'[j] = conn[j],
         i \in Connections =>
           /\ conn'[i].closed = conn[i].closed /\ (conn[i].ready = "yes" => conn'[i].ready = "yes")
           /\ (conn[i].sweeper = "off" => conn'[i].sweeper = "off") \/ task[c].phase = "connecting"
           /\ ConnOK(i)' /\ Asks(i)' /\ Notices(i)',
         WaitsOnlyFor(task[c], i), WaitsOnlyFor(t, i),
         pool' \in Pools0, Pooled', TaskOK(c)',
         \A d \in Callers \ {c} : task[d].phase = "connecting" =>
           pool'.lock = d /\ \A k \in Keys : pool'.at[k] = pool.at[k]
  PROVE  Pool'
<1>1. Shape /\ Pooled /\ (\A d \in Callers : TaskOK(d)) /\ server \in Nat
  BY DEF Pool, Shape
<1>2. task' \in [Callers -> Tasks] /\ task'[c] = t /\ \A d \in Callers \ {c} : task'[d] = task[d]
  BY <1>1 DEF Shape
<1>3. Shape'
  BY <1>1, <1>2 DEF Shape
<1>4. ASSUME NEW d \in Callers PROVE TaskOK(d)'
  <2>1. CASE d # c
    <3>1. TaskOK(d) /\ task'[d] = task[d] /\ (task[d].conn # 0 => task[d].conn \in Connections)
      BY <1>1, <1>2, <2>1 DEF Shape, Tasks
    <3>2. task[d].conn \in Connections =>
            /\ conn'[task[d].conn].closed = conn[task[d].conn].closed
            /\ conn[task[d].conn].ready = "yes" => conn'[task[d].conn].ready = "yes"
            /\ task[d].phase = "connecting" /\ conn[task[d].conn].sweeper = "off" => conn'[task[d].conn].sweeper = "off"
      <4>1. task[d].phase = "connecting" => task[c].phase # "connecting"
        BY <1>1, <2>1 DEF TaskOK
      <4> QED BY <4>1
    <3> QED BY <2>1, <3>1, <3>2 DEF TaskOK
  <2> QED BY <2>1
<1>5. ASSUME NEW j \in Connections PROVE ConnOK(j)' /\ Asks(j)' /\ Notices(j)'
  <2>1. CASE j # i
    <3>1. conn'[j] = conn[j]
      BY <2>1
    <3>2. \A d \in Callers : (task'[d].conn = j /\ task'[d].phase \in {"listing", "calling"})
                          <=> (task[d].conn = j /\ task[d].phase \in {"listing", "calling"})
      BY <1>2, <2>1 DEF WaitsOnlyFor
    <3>3. \A a : a \in Awaiting(j)' <=> a \in Awaiting(j)
      BY <3>1, <3>2, AwaitingIs, AwaitingIsThen
    <3>4. Awaiting(j)' = Awaiting(j)
      BY <3>3
    <3> QED BY <1>1, <3>1, <3>4, OtherKept
  <2> QED BY <2>1
<1> QED BY <1>3, <1>4, <1>5 DEF Pool

\* What is known of a caller.
LEMMA CallerFacts ==
  ASSUME Pool, NEW c \in Callers
  PROVE  /\ Shape /\ Pooled /\ TaskOK(c) /\ task[c] \in Tasks /\ task \in [Callers -> Tasks]
         /\ conn \in [Connections -> Conns] /\ pool \in Pools0 /\ mishaps \in 0..MaxMishaps
         /\ scene.rounds \in Nat /\ task[c].left \in Nat
         /\ task[c].phase # "idle" => task[c].left > 0 /\ task[c].left <= scene.rounds /\ c \in scene.callers
         /\ task[c].phase \in {"connecting"} \cup UserPhases => task[c].conn \in Connections
<1>1. Shape /\ Pooled /\ TaskOK(c) /\ task[c] \in Tasks
  BY DEF Pool, Shape
<1>2. scene.rounds \in Nat
  BY <1>1, McpPoolAssumption DEF Shape
<1> QED BY <1>1, <1>2 DEF Shape, TaskOK, Tasks

\* A caller's call is over.
LEMMA FinishedTask ==
  ASSUME Pool, NEW c \in Callers, task[c].phase # "idle", NEW t, t = Finished(task[c])
  PROVE  /\ t \in Tasks /\ t.phase = "idle" /\ t.conn = 0
         /\ t.left <= scene.rounds /\ (t.left > 0 => c \in scene.callers)
<1>1. /\ task[c] \in Tasks /\ task[c].left \in Nat /\ scene.rounds \in Nat
      /\ task[c].left > 0 /\ task[c].left <= scene.rounds /\ c \in scene.callers
  BY CallerFacts
<1> DEFINE l == task[c].left - 1
<1>2. l \in Nat /\ l <= scene.rounds
  BY <1>1
<1>3. t = [task[c] EXCEPT !.phase = "idle", !.conn = 0, !.left = l]
  BY DEF Finished
<1> HIDE DEF l
<1>4. PICK u : u = [task[c] EXCEPT !.phase = "idle", !.left = l]
  OBVIOUS
<1>5. u \in Tasks /\ u.phase = "idle" /\ u.left = l
  BY <1>1, <1>2, <1>4 DEF Tasks
<1>6. t = [u EXCEPT !.conn = 0] /\ 0 \in {0} \cup Connections
  BY <1>3, <1>4
<1>7. t \in Tasks /\ t.phase = "idle" /\ t.conn = 0 /\ t.left = l
  BY <1>5, <1>6 DEF Tasks
<1> QED BY <1>1, <1>2, <1>7

\* A caller moves on with what it has.
LEMMA CallerMoves ==
  ASSUME Pool, NEW c \in Callers, NEW t \in Tasks, task' = [task EXCEPT ![c] = t],
         UNCHANGED <<scene, server, pool, conn, evictor, mishaps>>,
         task[c].phase \notin {"idle", "connecting", "listing", "calling"} \/ (task[c].phase = "idle" /\ task[c].left > 0),
         \/ t.phase = "locking" /\ t.left = task[c].left
         \/ /\ t.phase \in {"using", "holding", "wanting"} /\ t.left = task[c].left
            /\ t.conn # 0 /\ conn[t.conn].ready = "yes"
            /\ ~Happens("evict") => t.conn = pool.at[PostAuth]
         \/ t.phase = "idle" /\ t.left <= scene.rounds /\ (t.left > 0 => c \in scene.callers)
  PROVE  Pool'
<1>1. /\ Shape /\ Pooled /\ TaskOK(c) /\ task \in [Callers -> Tasks] /\ conn \in [Connections -> Conns]
      /\ pool \in Pools0 /\ mishaps \in 0..MaxMishaps
      /\ task[c].phase # "idle" => task[c].left > 0 /\ task[c].left <= scene.rounds /\ c \in scene.callers
  BY CallerFacts
<1>2. task'[c] = t /\ \A d \in Callers \ {c} : task'[d] = task[d]
  BY <1>1
<1>3. TaskOK(c)'
  BY <1>1, <1>2 DEF TaskOK, UserPhases
<1>4. Pooled'
  BY <1>1, <1>2 DEF Pooled, PostAuth, Happens, UserPhases
<1>5. 0 \notin Connections
  BY DEF Connections
<1>6. \A d \in Callers \ {c} : task[d].phase = "connecting" =>
        pool'.lock = d /\ \A k \in Keys : pool'.at[k] = pool.at[k]
  BY DEF Pool, TaskOK
<1>7. WaitsOnlyFor(task[c], 0) /\ WaitsOnlyFor(t, 0)
  BY <1>1 DEF WaitsOnlyFor
<1> QED BY <1>1, <1>3, <1>4, <1>5, <1>6, <1>7, CallerKept

\* A call begins, or goes on with the catalogue it has.
LEMMA StartKept ==
  ASSUME Pool, NEW c \in Callers, Start(c) \/ Use(c)
  PROVE  Pool'
<1>1. /\ task[c] \in Tasks /\ Pooled /\ TaskOK(c) /\ task \in [Callers -> Tasks]
      /\ UNCHANGED <<scene, server, pool, conn, evictor, mishaps>>
  BY CallerFacts DEF Start, Use
<1>2. CASE Start(c)
  <2>1. PICK t : t = [task[c] EXCEPT !.phase = "locking"]
    OBVIOUS
  <2>2. t \in Tasks /\ t.phase = "locking" /\ t.left = task[c].left
    BY <1>1, <2>1 DEF Tasks
  <2>3. task' = [task EXCEPT ![c] = t]
    BY <1>1, <1>2, <2>1 DEF Start, Goes
  <2>4. task[c].phase = "idle" /\ task[c].left > 0
    BY <1>2 DEF Start
  <2> QED BY <1>1, <2>2, <2>3, <2>4, CallerMoves
<1>3. CASE Use(c)
  <2>1. PICK t : t = [task[c] EXCEPT !.phase = IF conn[task[c].conn].fresh THEN "holding" ELSE "wanting"]
    OBVIOUS
  <2>2. t \in Tasks /\ t.phase \in {"holding", "wanting"} /\ t.left = task[c].left /\ t.conn = task[c].conn
    BY <1>1, <2>1 DEF Tasks, UserPhases
  <2>3. task' = [task EXCEPT ![c] = t]
    BY <1>1, <1>3, <2>1 DEF Use, Goes
  <2>4. task[c].phase = "using" /\ task[c].conn # 0 /\ conn[task[c].conn].ready = "yes"
    BY <1>1, <1>3 DEF Use, TaskOK, UserPhases
  <2>5. ~Happens("evict") => task[c].conn = pool.at[PostAuth]
    BY <1>1, <2>4 DEF Pooled, UserPhases
  <2>6. task[c].phase \notin {"idle", "connecting", "listing", "calling"}
    BY <2>4
  <2>7. /\ t.phase \in {"using", "holding", "wanting"} /\ t.left = task[c].left
        /\ t.conn # 0 /\ conn[t.conn].ready = "yes"
        /\ ~Happens("evict") => t.conn = pool.at[PostAuth]
    <3>1. t.conn # 0 /\ conn[t.conn].ready = "yes"
      BY <2>2, <2>4
    <3>2. ~Happens("evict") => t.conn = pool.at[PostAuth]
      BY <2>2, <2>5
    <3> QED BY <2>2, <3>1, <3>2
  <2>8. t \in Tasks
    BY <2>2
  <2> QED BY <1>1, <2>3, <2>6, <2>7, <2>8, CallerMoves
<1> QED BY <1>2, <1>3
\* A caller gets the connection of the pool, or opens one.
LEMMA FindOrConnectKept ==
  ASSUME Pool, NEW c \in Callers, FindOrConnect(c)
  PROVE  Pool'
<1>1. /\ task[c] \in Tasks /\ Pooled /\ TaskOK(c) /\ task \in [Callers -> Tasks] /\ Shape
      /\ conn \in [Connections -> Conns] /\ pool \in Pools0 /\ mishaps \in 0..MaxMishaps
      /\ UNCHANGED <<scene, server, evictor, mishaps>>
      /\ task[c].phase = "locking" /\ pool.lock = None
      /\ task[c].left > 0 /\ task[c].left <= scene.rounds /\ c \in scene.callers
  BY CallerFacts DEF FindOrConnect
<1>2. LookupKey \in Keys /\ PostAuth \in Keys
  BY DEF LookupKey, PostAuth, Keys
<1>3. CASE pool.at[LookupKey] # 0
  <2>1. pool.at[LookupKey] \in Connections /\ LookupKey = PostAuth /\ conn[pool.at[LookupKey]].ready = "yes"
    BY <1>1, <1>2, <1>3 DEF Pooled, Pools0
  <2>2. PICK t : t = [task[c] EXCEPT !.phase = "using", !.conn = pool.at[LookupKey]]
    OBVIOUS
  <2>3. t \in Tasks /\ t.phase = "using" /\ t.left = task[c].left /\ t.conn = pool.at[LookupKey]
    BY <1>1, <2>1, <2>2 DEF Tasks, UserPhases
  <2>4. task' = [task EXCEPT ![c] = t] /\ UNCHANGED <<conn, pool>>
    BY <1>1, <1>3, <2>2 DEF FindOrConnect, GoesTo
  <2>5. t.conn # 0 /\ conn[t.conn].ready = "yes" /\ (~Happens("evict") => t.conn = pool.at[PostAuth])
    BY <1>3, <2>1, <2>3
  <2>6. t \in Tasks /\ t.phase \in {"using", "holding", "wanting"} /\ t.left = task[c].left
    BY <2>3
  <2> QED BY <1>1, <2>4, <2>5, <2>6, CallerMoves
<1>4. CASE pool.at[LookupKey] = 0
  <2>1. PICK i \in Unused :
          /\ Becomes(i, [Unborn EXCEPT !.phase = "opening"])
          /\ GoesTo(c, "connecting", i)
    BY <1>4 DEF FindOrConnect, Connecting
  <2>2. pool' = [pool EXCEPT !.lock = c]
    BY <1>4 DEF FindOrConnect
  <2>3. i \in Connections /\ conn[i].phase = "unborn" /\ conn[i] = [Unborn EXCEPT !.phase = conn[i].phase]
        /\ Asks(i)
    BY DEF Unused, Pool, ConnOK
  <2>4. PICK new : new = [Unborn EXCEPT !.phase = "opening"]
    OBVIOUS
  <2>5. conn[i] = Unborn
    BY <2>3 DEF Unborn
  <2>6. new \in Conns
    <3>1. conn[i] \in Conns /\ new = [conn[i] EXCEPT !.phase = "opening"]
      BY <1>1, <2>3, <2>4, <2>5
    <3> QED BY <3>1 DEF Conns
  <2>7. conn' = [conn EXCEPT ![i] = new] /\ conn'[i] = new /\ conn' \in [Connections -> Conns]
        /\ \A j \in Connections : j # i => conn'[j] = conn[j]
    BY <1>1, <2>1, <2>3, <2>4, <2>6 DEF Becomes
  <2>8. /\ conn[i].ready = "pending" /\ new.ready = "pending" /\ new.closed = FALSE /\ conn[i].closed = FALSE
        /\ new.queue = <<>> /\ conn[i].queue = <<>> /\ new.lister = None /\ conn[i].lister = None
        /\ new.watcher = "off" /\ conn[i].watcher = "off" /\ new.sweeper = "off" /\ conn[i].sweeper = "off"
        /\ new.phase = "opening" /\ ~new.serving /\ new.reading = 0 /\ new.version = 0 /\ new.told = 0
    BY <2>4, <2>5 DEF Unborn
  <2>9. PICK t : t = [task[c] EXCEPT !.phase = "connecting", !.conn = i]
    OBVIOUS
  <2>10. t \in Tasks /\ t.phase = "connecting" /\ t.left = task[c].left /\ t.conn = i
    BY <1>1, <2>3, <2>9 DEF Tasks, UserPhases
  <2>11. task' = [task EXCEPT ![c] = t] /\ task'[c] = t /\ \A d \in Callers \ {c} : task'[d] = task[d]
    BY <1>1, <2>1, <2>9 DEF GoesTo
  <2>12. /\ pool' \in Pools0 /\ pool'.at = pool.at /\ pool'.lock = c /\ pool'.redirected = pool.redirected
    BY <1>1, <2>2 DEF Pools0
  <2>13. \A k \in Keys : pool.at[k] # i
    <3>1. \A k \in Keys : pool.at[k] # 0 => conn[pool.at[k]].ready = "yes"
      BY <1>1 DEF Pooled
    <3>2. i # 0
      BY <2>3 DEF Connections
    <3> QED BY <2>8, <3>1, <3>2
  <2>14. TaskOK(c)'
    <3>1. i # 0
      BY <2>3 DEF Connections
    <3> QED BY <1>1, <2>7, <2>8, <2>10, <2>11, <2>12, <2>13, <3>1 DEF TaskOK, UserPhases
  <2>15. pool.at[PostAuth] = 0 \/ Happens("evict")
    BY <1>1, <1>2, <1>4 DEF Pooled, LookupKey, PostAuth
  <2>16. \A k \in Keys : pool.at[k] # 0 => pool.at[k] # i /\ pool.at[k] \in Connections
    BY <1>1, <2>13 DEF Pools0
  <2>17. Pooled'
    <3>1. \A k \in Keys : pool'.at[k] # 0 =>
            k = PostAuth' /\ conn'[pool'.at[k]].ready = "yes" /\ ~conn'[pool'.at[k]].closed
      BY <1>1, <2>7, <2>12, <2>16 DEF Pooled, PostAuth
    <3>2. evictor.phase # "idle" => evictor.conn # 0 /\ conn'[evictor.conn].ready = "yes"
      <4>1. evictor.conn # 0 => evictor.conn \in Connections
        BY <1>1 DEF Shape, Evictors
      <4> QED BY <1>1, <2>7, <2>8, <4>1 DEF Pooled
    <3>3. ~Happens("evict") => \A d \in Callers : task'[d].phase \in UserPhases => task'[d].conn = pool.at[PostAuth]
      BY <1>1, <2>10, <2>11 DEF Pooled, UserPhases
    <3> QED BY <1>1, <2>12, <2>15, <3>1, <3>2, <3>3 DEF Pooled, PostAuth, Happens
  <2>18. Awaiting(i)' = Awaiting(i)
    <3>1. ASSUME NEW a PROVE a \in Awaiting(i)' <=> a \in Awaiting(i)
      <4>1. \A d \in Callers : (task'[d].conn = i /\ task'[d].phase \in {"listing", "calling"})
                          <=> (task[d].conn = i /\ task[d].phase \in {"listing", "calling"})
        BY <1>1, <2>10, <2>11
      <4>2. evictor' = evictor /\ conn'[i].watcher = conn[i].watcher /\ conn'[i].sweeper = conn[i].sweeper
        BY <1>1, <2>7, <2>8
      <4> QED BY <4>1, <4>2, AwaitingIs, AwaitingIsThen
    <3> QED BY <3>1
  <2>19. Asks(i)'
    <3>1. Still(i)
      BY <2>7, <2>8, <2>18 DEF Still
    <3> QED BY <1>1, <2>3, <3>1, AsksKept
  <2>20. ConnOK(i)' /\ Notices(i)'
    <3>1. new = [Unborn EXCEPT !.phase = new.phase]
      BY <2>4, <2>8
    <3>2. server \in Nat /\ server' = server
      BY <1>1 DEF Shape
    <3>3. conn'[i] = [Unborn EXCEPT !.phase = conn'[i].phase]
      BY <2>7, <3>1
    <3>4. ConnOK(i)'
      BY <2>7, <2>8, <3>2, <3>3 DEF ConnOK
    <3>5. Notices(i)'
      BY <2>7, <2>8 DEF Notices
    <3> QED BY <3>4, <3>5
  <2>21. \A d \in Callers \ {c} : task[d].phase # "connecting"
    BY <1>1, Names DEF Pool, TaskOK
  <2>22. /\ conn'[i].closed = conn[i].closed /\ (conn[i].ready = "yes" => conn'[i].ready = "yes")
         /\ conn[i].sweeper = "off" => conn'[i].sweeper = "off"
    BY <2>7, <2>8
  <2>23. WaitsOnlyFor(task[c], i) /\ WaitsOnlyFor(t, i) /\ t \in Tasks
    BY <1>1, <2>10 DEF WaitsOnlyFor
  <2>24. pool' \in Pools0
    BY <2>12
  <2> QED BY <1>1, <2>7, <2>11, <2>14, <2>17, <2>19, <2>20, <2>21, <2>22, <2>23, <2>24, CallerKept
<1> QED BY <1>3, <1>4

\* A caller that connected is told how it went.
LEMMA ConnectedKept ==
  ASSUME Pool, NEW c \in Callers, Connected(c)
  PROVE  Pool'
<1>1. /\ task[c] \in Tasks /\ Pooled /\ TaskOK(c) /\ task \in [Callers -> Tasks] /\ Shape
      /\ conn \in [Connections -> Conns] /\ pool \in Pools0 /\ mishaps \in 0..MaxMishaps
      /\ UNCHANGED <<scene, server, evictor, mishaps>>
      /\ task[c].phase = "connecting" /\ task[c].conn \in Connections
      /\ task[c].left > 0 /\ task[c].left <= scene.rounds /\ c \in scene.callers
  BY CallerFacts DEF Connected
<1>2. PICK i \in Connections : i = task[c].conn
  BY <1>1
<1>3. /\ pool.lock = c /\ ~conn[i].closed /\ conn[i].sweeper = "off"
      /\ \A k \in Keys : pool.at[k] # i
  BY <1>1, <1>2 DEF TaskOK
<1>4. \A d \in Callers \ {c} : task[d].phase # "connecting"
  BY <1>3 DEF Pool, TaskOK
<1>5. CASE conn[i].ready = "yes"
  <2>1. PICK new : new = [conn[i] EXCEPT !.sweeper = "waiting"]
    OBVIOUS
  <2>2. /\ new \in Conns /\ new.sweeper = "waiting" /\ new.watcher = conn[i].watcher
        /\ new.queue = conn[i].queue /\ new.serving = conn[i].serving /\ new.reading = conn[i].reading
        /\ new.closed = conn[i].closed /\ new.ready = "yes" /\ new.phase = conn[i].phase
        /\ new.version = conn[i].version /\ new.told = conn[i].told /\ new.changed = conn[i].changed
        /\ new.lister = conn[i].lister
    BY <1>1, <1>5, <2>1, ZenonT(60) DEF Conns, BackgroundPhases
  <2>3. PICK t : t = [task[c] EXCEPT !.phase = "using"]
    OBVIOUS
  <2>4. t \in Tasks /\ t.phase = "using" /\ t.left = task[c].left /\ t.conn = i
    BY <1>1, <1>2, <2>3 DEF Tasks, UserPhases
  <2>5. /\ task' = [task EXCEPT ![c] = t] /\ conn' = [conn EXCEPT ![i] = new]
        /\ pool' = [pool EXCEPT !.at = Pools(PostAuth, i), !.redirected = scene.oauth, !.lock = None]
    BY <1>1, <1>2, <1>5, <2>1, <2>3 DEF Connected, Becomes, Goes
  <2>6. task'[c] = t /\ \A d \in Callers \ {c} : task'[d] = task[d]
    BY <1>1, <2>5
  <2>7. conn'[i] = new /\ conn' \in [Connections -> Conns] /\ \A j \in Connections : j # i => conn'[j] = conn[j]
    BY <1>1, <2>2, <2>5
  <2>8. PICK at : at = Pools(PostAuth, i)
    OBVIOUS
  <2>9. at \in [Keys -> {0} \cup Connections] /\ at[PostAuth] = i /\ \A k \in Keys : k # PostAuth => at[k] = pool.at[k]
    <3>1. PostAuth \in Keys /\ pool.at \in [Keys -> {0} \cup Connections]
      BY <1>1 DEF PostAuth, Keys, Pools0
    <3> QED BY <2>8, <3>1 DEF Pools
  <2>10. pool' \in Pools0 /\ pool'.at = at /\ pool'.redirected = scene.oauth /\ pool'.lock = None
    <3>1. scene.oauth \in BOOLEAN
      BY <1>1, McpPoolAssumption DEF Shape
    <3> QED BY <1>1, <2>5, <2>8, <2>9, <3>1 DEF Pools0
  <2>11. TaskOK(c)'
    <3>1. i # 0
      BY DEF Connections
    <3> QED BY <1>1, <2>2, <2>4, <2>6, <2>7, <3>1 DEF TaskOK, UserPhases
  <2>12. Pooled'
    <3>1. ASSUME NEW k \in Keys, at[k] # 0
          PROVE  k = PostAuth /\ conn'[at[k]].ready = "yes" /\ ~conn'[at[k]].closed
      <4>1. CASE k = PostAuth
        BY <1>3, <2>2, <2>7, <2>9, <4>1
      <4>2. CASE k # PostAuth
        BY <1>1, <2>9, <3>1, <4>2 DEF Pooled
      <4> QED BY <4>1, <4>2
    <3>2. evictor.phase # "idle" => evictor.conn # 0 /\ conn'[evictor.conn].ready = "yes"
      <4>1. evictor.conn # 0 => evictor.conn \in Connections
        BY <1>1 DEF Shape, Evictors
      <4> QED BY <1>1, <2>2, <2>7, <4>1 DEF Pooled
    <3>3. ~Happens("evict") => \A d \in Callers : task'[d].phase \in UserPhases => task'[d].conn = at[PostAuth]
      <4>1. ASSUME ~Happens("evict"), NEW d \in Callers \ {c} PROVE task[d].phase \notin UserPhases
        <5>1. pool.at[PostAuth] = 0
          BY <1>1, <1>3, <4>1, Names DEF Pooled
        <5>2. task[d].phase \in UserPhases => task[d].conn = 0
          BY <1>1, <4>1, <5>1 DEF Pooled
        <5>3. task[d].phase \in UserPhases => task[d].conn # 0
          BY DEF Pool, TaskOK
        <5> QED BY <5>2, <5>3
      <4> QED BY <2>4, <2>6, <2>9, <4>1
    <3>4. PostAuth' = PostAuth /\ (Happens("evict")' <=> Happens("evict"))
      BY <1>1 DEF PostAuth, Happens
    <3> QED BY <1>1, <2>10, <3>1, <3>2, <3>3, <3>4 DEF Pooled
  <2>13. Awaiting(i)' = Awaiting(i)
    <3>1. ASSUME NEW a PROVE a \in Awaiting(i)' <=> a \in Awaiting(i)
      <4>1. \A d \in Callers : (task'[d].conn = i /\ task'[d].phase \in {"listing", "calling"})
                          <=> (task[d].conn = i /\ task[d].phase \in {"listing", "calling"})
        BY <1>1, <2>4, <2>6
      <4>2. evictor' = evictor /\ conn'[i].watcher = conn[i].watcher
            /\ conn'[i].sweeper # "listing" /\ conn[i].sweeper # "listing"
        BY <1>1, <1>3, <2>2, <2>7
      <4> QED BY <4>1, <4>2, AwaitingIs, AwaitingIsThen
    <3> QED BY <3>1
  <2>14. Asks(i)'
    <3>1. Still(i)
      BY <2>2, <2>7, <2>13 DEF Still
    <3> QED BY <1>1, <3>1, AsksKept, ConnFacts
  <2>15. ConnOK(i)' /\ Notices(i)'
    <3>1. ConnOK(i) /\ Notices(i) /\ server' = server /\ mishaps' = mishaps
      BY <1>1, ConnFacts
    <3>2. First(i)' = First(i)
      BY <2>2, <2>7 DEF First
    <3>3. conn[i].phase \notin {"unborn", "opening"}
      BY <1>5, <3>1 DEF ConnOK, Unborn
    <3> QED BY <2>2, <2>7, <3>1, <3>2, <3>3 DEF ConnOK, Notices
  <2>16. conn'[i].closed = conn[i].closed /\ conn'[i].ready = "yes"
    BY <2>2, <2>7
  <2>17. WaitsOnlyFor(task[c], i) /\ WaitsOnlyFor(t, i)
    BY <1>1, <2>4 DEF WaitsOnlyFor
  <2>18. t \in Tasks
    BY <2>4
  <2> QED BY <1>1, <1>4, <2>5, <2>7, <2>10, <2>11, <2>12, <2>14, <2>15, <2>16, <2>17, <2>18, CallerKept
<1>6. CASE conn[i].ready # "yes"
  <2>1. PICK t : t = Finished(task[c])
    OBVIOUS
  <2>2. t \in Tasks /\ t.phase = "idle" /\ t.conn = 0 /\ t.left <= scene.rounds /\ (t.left > 0 => c \in scene.callers)
    BY <1>1, <2>1, FinishedTask
  <2>3. task' = [task EXCEPT ![c] = t] /\ conn' = conn /\ pool' = [pool EXCEPT !.lock = None]
    BY <1>1, <1>2, <1>6, <2>1 DEF Connected, Ends
  <2>4. task'[c] = t /\ \A d \in Callers \ {c} : task'[d] = task[d]
    BY <1>1, <2>3
  <2>5. pool' \in Pools0 /\ pool'.at = pool.at /\ pool'.redirected = pool.redirected /\ pool'.lock = None
    BY <1>1, <2>3 DEF Pools0
  <2>6. TaskOK(c)'
    BY <1>1, <2>2, <2>4 DEF TaskOK, UserPhases
  <2>7. Pooled'
    BY <1>1, <2>2, <2>3, <2>4, <2>5 DEF Pooled, PostAuth, Happens, UserPhases
  <2>8. 0 \notin Connections
    BY DEF Connections
  <2>9. WaitsOnlyFor(task[c], 0) /\ WaitsOnlyFor(t, 0) /\ t \in Tasks
    BY <1>1, <2>2 DEF WaitsOnlyFor
  <2> QED BY <1>1, <1>4, <2>3, <2>5, <2>6, <2>7, <2>8, <2>9, CallerKept
<1> QED BY <1>5, <1>6
\* A caller asks its connection, and waits for the answer.
LEMMA CallerAsks ==
  ASSUME Pool, NEW c \in Callers, List(c) \/ Call(c), ~Done(task[c].conn)
  PROVE  Pool'
<1>i. PICK i : i = task[c].conn
  OBVIOUS
<1>p. /\ task[c].phase \in {"wanting", "holding"} /\ UNCHANGED <<scene, server, pool, evictor, mishaps>>
  BY DEF List, Call
<1>k. PICK kind \in {"list", "call"}, phase \in {"listing", "calling"} :
        /\ Becomes(i, IF kind = "list" THEN [Queued(conn[i], "list", c) EXCEPT !.lister = c]
                                       ELSE Queued(conn[i], "call", c))
        /\ Goes(c, phase)
  <2>1. CASE List(c)
    <3>1. Becomes(i, [Queued(conn[i], "list", c) EXCEPT !.lister = c]) /\ Goes(c, "listing")
      BY <1>i, <2>1 DEF List
    <3> QED BY <3>1
  <2>2. CASE Call(c)
    <3>1. Becomes(i, Queued(conn[i], "call", c)) /\ Goes(c, "calling")
      BY <1>i, <2>2 DEF Call
    <3> QED BY <3>1
  <2> QED BY <2>1, <2>2
<1>n. PICK new : new = IF kind = "list" THEN [Queued(conn[i], "list", c) EXCEPT !.lister = c]
                                        ELSE Queued(conn[i], "call", c)
  OBVIOUS
<1>b. Becomes(i, new) /\ ~Done(i)
  BY <1>i, <1>k, <1>n
<1>1. /\ task[c] \in Tasks /\ Pooled /\ TaskOK(c) /\ task \in [Callers -> Tasks] /\ Shape
      /\ conn \in [Connections -> Conns] /\ pool \in Pools0 /\ mishaps \in 0..MaxMishaps
      /\ i \in Connections /\ task[c].left > 0 /\ task[c].left <= scene.rounds /\ c \in scene.callers
  BY <1>i, <1>p, CallerFacts DEF UserPhases
<1>2. conn[i].ready = "yes" /\ conn[i] \in Conns /\ conn[i].queue \in Seq(Commands) /\ Asks(i)
  BY <1>i, <1>p, <1>1, ConnFacts DEF TaskOK, UserPhases
<1>3. PICK command : command = Command(kind, c)
  OBVIOUS
<1>4. command \in Commands
  BY <1>3 DEF Command, Commands
<1>5. PICK q : q = Append(conn[i].queue, command)
  OBVIOUS
<1>6. q \in Seq(Commands)
  BY <1>2, <1>4, <1>5
<1>7. /\ new \in Conns /\ new.queue = q /\ new.lister \in {conn[i].lister, c}
      /\ new.serving = conn[i].serving /\ new.reading = conn[i].reading
      /\ new.closed = conn[i].closed /\ new.ready = conn[i].ready /\ new.phase = conn[i].phase
      /\ new.version = conn[i].version /\ new.told = conn[i].told /\ new.changed = conn[i].changed
      /\ new.watcher = conn[i].watcher /\ new.sweeper = conn[i].sweeper
  <2>1. CASE kind = "list"
    <3>1. new = [conn[i] EXCEPT !.queue = q, !.lister = c]
      BY <1>n, <1>3, <1>5, <2>1 DEF Queued
    <3> QED BY <1>2, <1>6, <3>1 DEF Conns
  <2>2. CASE kind = "call"
    <3>1. new = [conn[i] EXCEPT !.queue = q]
      BY <1>n, <1>3, <1>5, <2>2 DEF Queued
    <3> QED BY <1>2, <1>6, <3>1 DEF Conns
  <2> QED BY <2>1, <2>2
<1>8. conn'[i] = new /\ conn' \in [Connections -> Conns] /\ \A j \in Connections : j # i => conn'[j] = conn[j]
  BY <1>b, <1>1, <1>7 DEF Becomes
<1>9. PICK t : t = [task[c] EXCEPT !.phase = phase]
  OBVIOUS
<1>10. t \in Tasks /\ t.phase = phase /\ t.left = task[c].left /\ t.conn = i
  BY <1>i, <1>1, <1>9 DEF Tasks, UserPhases
<1>11. task' = [task EXCEPT ![c] = t] /\ task'[c] = t /\ \A d \in Callers \ {c} : task'[d] = task[d]
  BY <1>k, <1>1, <1>9 DEF Goes
<1>12. TaskOK(c)'
  <2>1. i # 0
    BY <1>1 DEF Connections
  <2> QED BY <1>p, <1>1, <1>2, <1>7, <1>8, <1>10, <1>11, <2>1 DEF TaskOK, UserPhases
<1>19. \A j \in Connections : conn'[j].closed = conn[j].closed /\ conn'[j].ready = conn[j].ready
  BY <1>7, <1>8
<1>13. Pooled'
  <2>1. \A k \in Keys : pool.at[k] # 0 => k = PostAuth /\ conn'[pool.at[k]].ready = "yes" /\ ~conn'[pool.at[k]].closed
    <3>1. \A k \in Keys : pool.at[k] # 0 => pool.at[k] \in Connections
      BY <1>1 DEF Pools0
    <3> QED BY <1>p, <1>1, <1>19, <3>1 DEF Pooled
  <2>2. evictor.phase # "idle" => evictor.conn # 0 /\ conn'[evictor.conn].ready = "yes"
    <3>1. evictor.conn # 0 => evictor.conn \in Connections
      BY <1>1 DEF Shape, Evictors
    <3> QED BY <1>p, <1>1, <1>19, <3>1 DEF Pooled
  <2>3. ~Happens("evict") => \A d \in Callers : task'[d].phase \in UserPhases => task'[d].conn = pool.at[PostAuth]
    BY <1>i, <1>p, <1>1, <1>10, <1>11 DEF Pooled, UserPhases
  <2>4. PostAuth' = PostAuth /\ (Happens("evict")' <=> Happens("evict"))
    BY <1>p DEF PostAuth, Happens
  <2> QED BY <1>p, <1>1, <2>1, <2>2, <2>3, <2>4 DEF Pooled
<1>14. Asks(i)'
  <2>1. c \notin Awaiting(i)
    BY <1>p, Names, AwaitingIs
  <2>2. ASSUME NEW a PROVE a \in Awaiting(i)' <=> a \in Awaiting(i) \/ a = c
    <3>1. evictor' = evictor /\ conn'[i].watcher = conn[i].watcher /\ conn'[i].sweeper = conn[i].sweeper
      BY <1>p, <1>7, <1>8
    <3>2. task'[c].conn = i /\ task'[c].phase \in {"listing", "calling"}
      BY <1>10, <1>11
    <3> QED BY <1>11, <3>1, <3>2, Names, AwaitingIs, AwaitingIsThen
  <2>3. Awaiting(i)' = Awaiting(i) \cup {c}
    BY <2>2
  <2>4. Asked(i, kind, c)
    BY <1>b, <1>3, <1>5, <1>7, <1>8, <2>1, <2>3 DEF Asked, Done
  <2> QED BY <1>1, <1>2, <2>4, AsksKept
<1>15. ConnOK(i)' /\ Notices(i)'
  BY <1>p, <1>1, <1>2, <1>4, <1>5, <1>7, <1>8, QueuedConn
<1>16. \A d \in Callers \ {c} : task[d].phase = "connecting"  => pool'.lock = d
  BY <1>p DEF Pool, TaskOK
<1>17. conn'[i].closed = conn[i].closed /\ conn'[i].ready = conn[i].ready /\ conn'[i].sweeper = conn[i].sweeper
  BY <1>7, <1>8
<1>18. t \in Tasks /\ WaitsOnlyFor(task[c], i) /\ WaitsOnlyFor(t, i)
  BY <1>i, <1>10 DEF WaitsOnlyFor
<1>20. pool' = pool /\ pool' \in Pools0 /\ mishaps' \in 0..MaxMishaps /\ (mishaps' = 0 => mishaps = 0)
  BY <1>p, <1>1
<1>21. UNCHANGED <<scene, server, evictor>> /\ task' = [task EXCEPT ![c] = t]
  BY <1>p, <1>11
<1>22. i \in Connections =>
         /\ conn'[i].closed = conn[i].closed /\ (conn[i].ready = "yes" => conn'[i].ready = "yes")
         /\ (conn[i].sweeper = "off" => conn'[i].sweeper = "off") \/ task[c].phase = "connecting"
         /\ ConnOK(i)' /\ Asks(i)' /\ Notices(i)'
  BY <1>14, <1>15, <1>17
<1>23. conn' \in [Connections -> Conns] /\ \A j \in Connections : j # i => conn'[j] = conn[j]
  BY <1>8
<1> QED BY <1>12, <1>13, <1>16, <1>18, <1>20, <1>21, <1>22, <1>23, CallerKept

\* A caller asks for the catalogue, or for a call, or finds the runner over.
LEMMA CallKept ==
  ASSUME Pool, NEW c \in Callers, List(c) \/ Call(c)
  PROVE  Pool'
<1>1. /\ task[c] \in Tasks /\ Pooled /\ TaskOK(c)
      /\ UNCHANGED <<scene, server, pool, evictor, mishaps>>
      /\ task[c].phase \in {"wanting", "holding"}
  BY CallerFacts DEF List, Call
<1>2. PICK i : i = task[c].conn
  OBVIOUS
<1>3. CASE Done(i)
  <2>1. PICK t : t = Finished(task[c])
    OBVIOUS
  <2>2. t \in Tasks /\ t.phase = "idle" /\ t.left <= scene.rounds /\ (t.left > 0 => c \in scene.callers)
    BY <1>1, <2>1, FinishedTask
  <2>3. task' = [task EXCEPT ![c] = t] /\ UNCHANGED conn
    BY <1>2, <1>3, <2>1 DEF List, Call, Ends
  <2>4. task[c].phase \notin {"idle", "connecting", "listing", "calling"}
    BY <1>1
  <2> QED BY <1>1, <2>2, <2>3, <2>4, CallerMoves
<1>4. CASE ~Done(i)
  BY <1>2, <1>4, CallerAsks
<1> QED BY <1>3, <1>4
\* One of those who asked connection i is gone.
LEMMA LeftConn ==
  ASSUME Pool, NEW i \in Connections, NEW a \in Callers \cup {"sweeper"}, NEW new \in Conns,
         conn'[i] = new, new.queue = Orphaned(conn[i].queue, a),
         new.lister = (IF conn[i].lister = a THEN None ELSE conn[i].lister),
         new.serving = conn[i].serving, new.reading = conn[i].reading, new.phase = conn[i].phase,
         new.ready = conn[i].ready, new.version = conn[i].version, new.told = conn[i].told,
         new.changed = conn[i].changed, new.watcher = conn[i].watcher,
         new.sweeper \in {conn[i].sweeper, "off"},
         conn[i].phase \in {"unborn", "opening"} => new = conn[i],
         Awaiting(i)' = Awaiting(i) \ {a}, server' = server, mishaps' = 0 => mishaps = 0
  PROVE  ConnOK(i)' /\ Asks(i)' /\ Notices(i)'
<1>1. /\ conn[i] \in Conns /\ ConnOK(i) /\ Asks(i) /\ Notices(i) /\ Shape /\ conn[i].queue \in Seq(Commands)
      /\ conn[i].queue # <<>> => First(i) = conn[i].queue[1] /\ 1 \in DOMAIN conn[i].queue
  BY ConnFacts
<1>2. a \in Callers \cup Background /\ a # "watcher" /\ None # "watcher"
  BY Names
<1>3. PICK q : q = Orphaned(conn[i].queue, a)
  OBVIOUS
<1>4. /\ q \in Seq(Commands) /\ (conn[i].queue = <<>> <=> q = <<>>)
      /\ \A n \in DOMAIN conn[i].queue : /\ q[n].kind = conn[i].queue[n].kind
                                         /\ q[n].by = IF conn[i].queue[n].by = a THEN None ELSE conn[i].queue[n].by
  BY <1>1, <1>2, <1>3, OrphanedIs
<1>5. Asks(i)'
  <2>1. Left(i, a)
    BY DEF Left
  <2> QED BY <1>1, <1>2, <2>1, AsksKept
<1>6. conn[i].queue # <<>> => First(i)'.kind = First(i).kind /\ (First(i).by # "watcher" => First(i)'.by # "watcher")
  <2>1. SUFFICES ASSUME conn[i].queue # <<>>
                 PROVE  First(i)'.kind = First(i).kind /\ (First(i).by # "watcher" => First(i)'.by # "watcher")
    OBVIOUS
  <2>2. First(i)' = q[1]
    <3>1. q # <<>> /\ Head(q) = q[1]
      BY <1>4, <2>1
    <3> QED BY <1>3, <3>1 DEF First
  <2> QED BY <1>1, <1>2, <1>4, <2>1, <2>2
<1>7. ConnOK(i)'
  <2>1. new.ready # "yes" => new.watcher = "off" /\ new.sweeper = "off" /\ new.queue = <<>>
    BY <1>1, <1>3, <1>4 DEF ConnOK
  <2>2. new.serving => new.phase = "ready" /\ new.queue # <<>> /\ First(i)'.kind # "close"
    BY <1>1, <1>3, <1>4, <1>6 DEF ConnOK
  <2> QED BY <1>1, <2>1, <2>2 DEF ConnOK
<1>8. Notices(i)'
  <2>1. conn[i].serving => conn[i].queue # <<>>
    BY <1>1 DEF ConnOK
  <2> QED BY <1>1, <1>6, <2>1 DEF Notices
<1> QED BY <1>5, <1>7, <1>8

\* A caller is cancelled.
LEMMA CancelKept ==
  ASSUME Pool, NEW c \in Callers, Cancel(c)
  PROVE  Pool'
<1>i. PICK i : i = task[c].conn
  OBVIOUS
<1>1. /\ task[c] \in Tasks /\ Pooled /\ TaskOK(c) /\ task \in [Callers -> Tasks] /\ Shape
      /\ conn \in [Connections -> Conns] /\ pool \in Pools0
      /\ UNCHANGED <<scene, server, evictor>> /\ mishaps' \in 0..MaxMishaps /\ mishaps' # 0
      /\ task[c].phase \in {"connecting", "wanting", "listing", "calling"} /\ i \in Connections
  BY <1>i, CallerFacts, MishapCounts DEF Cancel, UserPhases
<1>2. conn[i] \in Conns /\ ConnOK(i) /\ Asks(i)
  BY <1>1, ConnFacts
<1>3. PICK new : new = Disowned(conn[i], c)
  OBVIOUS
<1>4. /\ new \in Conns /\ new.queue = Orphaned(conn[i].queue, c) /\ new.serving = conn[i].serving
      /\ new.reading = conn[i].reading /\ new.phase = conn[i].phase /\ new.closed = conn[i].closed
      /\ new.ready = conn[i].ready /\ new.version = conn[i].version /\ new.told = conn[i].told
      /\ new.changed = conn[i].changed /\ new.lister = (IF conn[i].lister = c THEN None ELSE conn[i].lister)
      /\ new.watcher = conn[i].watcher /\ new.sweeper = conn[i].sweeper
  BY <1>2, <1>3, DisownedConn
<1>5. PICK t : t = Finished(task[c])
  OBVIOUS
<1>6. t \in Tasks /\ t.phase = "idle" /\ t.conn = 0 /\ t.left <= scene.rounds /\ (t.left > 0 => c \in scene.callers)
  BY <1>1, <1>5, FinishedTask
<1>7. /\ task' = [task EXCEPT ![c] = t] /\ Becomes(i, new)
      /\ pool' = [pool EXCEPT !.lock = IF pool.lock = c THEN None ELSE pool.lock]
  BY <1>i, <1>3, <1>5 DEF Cancel, Ends
<1>8. task'[c] = t /\ \A d \in Callers \ {c} : task'[d] = task[d]
  BY <1>1, <1>7
<1>9. conn'[i] = new /\ conn' \in [Connections -> Conns] /\ \A j \in Connections : j # i => conn'[j] = conn[j]
  BY <1>1, <1>4, <1>7 DEF Becomes
<1>10. /\ pool' \in Pools0 /\ pool'.at = pool.at /\ pool'.redirected = pool.redirected
       /\ pool'.lock = (IF pool.lock = c THEN None ELSE pool.lock)
  BY <1>1, <1>7 DEF Pools0
<1>11. TaskOK(c)'
  BY <1>1, <1>6, <1>8 DEF TaskOK, UserPhases
<1>12. \A j \in Connections : conn'[j].closed = conn[j].closed /\ conn'[j].ready = conn[j].ready
  BY <1>4, <1>9
<1>13. Pooled'
  <2>1. \A k \in Keys : pool.at[k] # 0 => k = PostAuth /\ conn'[pool.at[k]].ready = "yes" /\ ~conn'[pool.at[k]].closed
    <3>1. \A k \in Keys : pool.at[k] # 0 => pool.at[k] \in Connections
      BY <1>1 DEF Pools0
    <3> QED BY <1>1, <1>12, <3>1 DEF Pooled
  <2>2. evictor.phase # "idle" => evictor.conn # 0 /\ conn'[evictor.conn].ready = "yes"
    <3>1. evictor.conn # 0 => evictor.conn \in Connections
      BY <1>1 DEF Shape, Evictors
    <3> QED BY <1>1, <1>12, <3>1 DEF Pooled
  <2>3. ~Happens("evict") => \A d \in Callers : task'[d].phase \in UserPhases => task'[d].conn = pool.at[PostAuth]
    BY <1>1, <1>6, <1>8 DEF Pooled, UserPhases
  <2>4. PostAuth' = PostAuth /\ (Happens("evict")' <=> Happens("evict"))
    BY <1>1 DEF PostAuth, Happens
  <2> QED BY <1>1, <1>10, <2>1, <2>2, <2>3, <2>4 DEF Pooled
<1>14. Awaiting(i)' = Awaiting(i) \ {c}
  <2>1. ASSUME NEW a PROVE a \in Awaiting(i)' <=> a \in Awaiting(i) /\ a # c
    <3>1. evictor' = evictor /\ conn'[i].watcher = conn[i].watcher /\ conn'[i].sweeper = conn[i].sweeper
      BY <1>1, <1>4, <1>9
    <3>2. task'[c].phase \notin {"listing", "calling"}
      BY <1>6, <1>8
    <3> QED BY <1>8, <3>1, <3>2, Names, AwaitingIs, AwaitingIsThen
  <2> QED BY <2>1
<1>15. conn[i].phase \in {"unborn", "opening"} => new = conn[i]
  <2>1. SUFFICES ASSUME conn[i].phase \in {"unborn", "opening"} PROVE new = conn[i]
    OBVIOUS
  <2>2. conn[i].lister = None /\ conn[i].queue = <<>>
    BY <1>2, <2>1 DEF ConnOK, Unborn
  <2>3. Orphaned(conn[i].queue, c) = conn[i].queue /\ (IF conn[i].lister = c THEN None ELSE conn[i].lister) = conn[i].lister
    <3>1. conn[i].queue \in Seq(Commands)
      BY <1>2 DEF Conns
    <3> QED BY <2>2, <3>1, OrphanedIs
  <2>4. new = [conn[i] EXCEPT !.lister = conn[i].lister, !.queue = conn[i].queue]
    BY <1>3, <2>3 DEF Disowned
  <2> QED BY <1>2, <2>4 DEF Conns
<1>16. ConnOK(i)' /\ Asks(i)' /\ Notices(i)'
  BY <1>1, <1>4, <1>9, <1>14, <1>15, LeftConn
<1>17. \A d \in Callers \ {c} : task[d].phase = "connecting" =>
         pool'.lock = d /\ \A k \in Keys : pool'.at[k] = pool.at[k]
  BY <1>10 DEF Pool, TaskOK
<1>18. t \in Tasks /\ WaitsOnlyFor(task[c], i) /\ WaitsOnlyFor(t, i)
  BY <1>i, <1>6 DEF WaitsOnlyFor
<1>19. i \in Connections =>
         /\ conn'[i].closed = conn[i].closed /\ (conn[i].ready = "yes" => conn'[i].ready = "yes")
         /\ (conn[i].sweeper = "off" => conn'[i].sweeper = "off") \/ task[c].phase = "connecting"
         /\ ConnOK(i)' /\ Asks(i)' /\ Notices(i)'
  BY <1>4, <1>9, <1>16
<1>20. task' = [task EXCEPT ![c] = t] /\ pool' \in Pools0 /\ mishaps' \in 0..MaxMishaps /\ (mishaps' = 0 => mishaps = 0)
  BY <1>1, <1>7, <1>10
<1>21. UNCHANGED <<scene, server, evictor>> /\ conn' \in [Connections -> Conns]
       /\ \A j \in Connections : j # i => conn'[j] = conn[j]
  BY <1>1, <1>9
<1> QED BY <1>11, <1>13, <1>17, <1>18, <1>19, <1>20, <1>21, CallerKept
-----------------------------------------------------------------------------
(* The evictor *)

\* The evictor does not ask any other connection than i to close.
ClosesOnly(e, i) == \A j \in Connections : e = [phase |-> "closing", conn |-> j] => j = i

\* The evictor moves, and connection i, if it is one, with it.
LEMMA EvictorKept ==
  ASSUME Pool, evictor' \in Evictors, UNCHANGED <<scene, server, task, mishaps>>,
         NEW i, conn' \in [Connections -> Conns], \A j \in Connections : j # i => conn'[j] = conn[j],
         i \in Connections =>
           /\ conn'[i].ready = conn[i].ready /\ (conn[i].sweeper = "off" => conn'[i].sweeper = "off")
           /\ (conn'[i].closed => conn[i].closed) \/ \E k \in Keys : pool.at[k] = i
           /\ ConnOK(i)' /\ Asks(i)' /\ Notices(i)',
         ClosesOnly(evictor, i), ClosesOnly(evictor', i),
         pool' \in Pools0, pool'.lock = pool.lock, \A k \in Keys : pool'.at[k] \in {0, pool.at[k]},
         Pooled'
  PROVE  Pool'
<1>1. Shape /\ Pooled /\ (\A d \in Callers : TaskOK(d)) /\ server \in Nat
  BY DEF Pool, Shape
<1>2. Shape'
  BY <1>1 DEF Shape
<1>3. ASSUME NEW c \in Callers PROVE TaskOK(c)'
  <2>1. TaskOK(c) /\ (task[c].conn # 0 => task[c].conn \in Connections)
    BY <1>1 DEF Shape, Tasks
  <2>2. task[c].conn \in Connections =>
          /\ conn[task[c].conn].ready = "yes" => conn'[task[c].conn].ready = "yes"
          /\ conn[task[c].conn].sweeper = "off" => conn'[task[c].conn].sweeper = "off"
    OBVIOUS
  <2>3. task[c].phase = "connecting" => ~conn'[task[c].conn].closed /\ \A k \in Keys : pool'.at[k] # task[c].conn
    <3>1. SUFFICES ASSUME task[c].phase = "connecting"
                   PROVE  ~conn'[task[c].conn].closed /\ \A k \in Keys : pool'.at[k] # task[c].conn
      OBVIOUS
    <3>2. /\ task[c].conn \in Connections /\ task[c].conn # 0 /\ ~conn[task[c].conn].closed
          /\ \A k \in Keys : pool.at[k] # task[c].conn
      BY <2>1, <3>1 DEF TaskOK
    <3> QED BY <3>2
  <2> QED BY <2>1, <2>2, <2>3 DEF TaskOK, UserPhases
<1>4. ASSUME NEW j \in Connections PROVE ConnOK(j)' /\ Asks(j)' /\ Notices(j)'
  <2>1. CASE j # i
    <3>1. (evictor' = [phase |-> "closing", conn |-> j]) <=> (evictor = [phase |-> "closing", conn |-> j])
      BY <2>1 DEF ClosesOnly
    <3>2. conn'[j] = conn[j]
      BY <2>1
    <3>3. \A a : a \in Awaiting(j)' <=> a \in Awaiting(j)
      BY <3>1, <3>2, AwaitingIs, AwaitingIsThen
    <3>4. Awaiting(j)' = Awaiting(j)
      BY <3>3
    <3> QED BY <1>1, <3>2, <3>4, OtherKept
  <2> QED BY <2>1
<1> QED BY <1>2, <1>3, <1>4 DEF Pool

\* The pool without the entry of a key.
LEMMA PoolWithout ==
  ASSUME pool \in Pools0, NEW key \in Keys, NEW at, at = Pools(key, 0)
  PROVE  at \in [Keys -> {0} \cup Connections] /\ \A k \in Keys : at[k] = IF k = key THEN 0 ELSE pool.at[k]
<1>1. pool.at \in [Keys -> {0} \cup Connections] /\ at = [pool.at EXCEPT ![key] = 0]
  BY DEF Pools0, Pools
<1> QED BY <1>1

\* The evictor moves on and no connection with it.
LEMMA EvictorMoves ==
  ASSUME Pool, Happens("evict"), UNCHANGED <<scene, server, conn, task, mishaps>>,
         \/ Forget
         \/ evictor' = [phase |-> "idle", conn |-> 0] /\ UNCHANGED pool
         \/ evictor' = [evictor EXCEPT !.phase = "awaiting"] /\ evictor.phase = "stopping" /\ UNCHANGED pool,
         evictor.phase # "closing"
  PROVE  Pool'
<1>1. Shape /\ Pooled /\ conn \in [Connections -> Conns] /\ evictor \in Evictors /\ pool \in Pools0
  BY DEF Pool, Shape
<1>2. /\ evictor' \in Evictors /\ evictor'.phase # "closing"
      /\ evictor'.phase = "idle" \/ (evictor'.conn = evictor.conn /\ evictor.phase # "idle")
  BY <1>1 DEF Forget, Evictors
<1>3. /\ pool' \in Pools0 /\ pool'.lock = pool.lock /\ (pool'.redirected => pool.redirected)
      /\ \A k \in Keys : pool'.at[k] \in {0, pool.at[k]}
  <2>1. CASE Forget
    <3>1. PICK at : at = Pools("pre_auth", 0)
      OBVIOUS
    <3>2. at \in [Keys -> {0} \cup Connections] /\ \A k \in Keys : at[k] \in {0, pool.at[k]}
      BY <1>1, <3>1, PoolWithout DEF Keys
    <3>3. pool' = [pool EXCEPT !.at = at, !.redirected = FALSE]
      BY <2>1, <3>1 DEF Forget
    <3> QED BY <1>1, <3>2, <3>3 DEF Pools0
  <2>2. CASE UNCHANGED pool
    BY <1>1, <2>2
  <2> QED BY <2>1, <2>2
<1>4. 0 \notin Connections
  BY DEF Connections
<1>5. ClosesOnly(evictor, 0) /\ ClosesOnly(evictor', 0)
  BY <1>2 DEF ClosesOnly
<1>6. Pooled'
  BY <1>1, <1>2, <1>3 DEF Pooled, PostAuth, Happens
<1> QED BY <1>1, <1>2, <1>3, <1>4, <1>5, <1>6, EvictorKept

\* There is nothing to evict, or the eviction is over.
LEMMA EvictEndsKept ==
  ASSUME Pool, EvictNothing \/ EvictEnds
  PROVE  Pool'
<1>1. UNCHANGED <<scene, server, conn, task, mishaps>> /\ evictor.phase # "closing"
  BY DEF EvictNothing, EvictEnds
<1>2. Happens("evict")
  <2>1. Pooled
    BY DEF Pool
  <2> QED BY <2>1 DEF EvictNothing, EvictEnds, Pooled
<1>3. Forget \/ (evictor' = [phase |-> "idle", conn |-> 0] /\ UNCHANGED pool)
  BY DEF EvictNothing, EvictEnds
<1> QED BY <1>1, <1>2, <1>3, EvictorMoves

\* The runner is asked to close, or is over.
LEMMA AskToCloseKept ==
  ASSUME Pool, AskToClose
  PROVE  Pool'
<1>i. PICK i : i = evictor.conn
  OBVIOUS
<1>1. /\ Shape /\ Pooled /\ conn \in [Connections -> Conns] /\ evictor \in Evictors /\ pool \in Pools0
      /\ mishaps \in 0..MaxMishaps
      /\ evictor.phase = "stopping" /\ UNCHANGED <<scene, server, pool, task, mishaps>>
  BY DEF Pool, Shape, AskToClose
<1>2. i \in Connections /\ i # 0 /\ conn[i].ready = "yes" /\ Happens("evict")
  BY <1>i, <1>1 DEF Pooled, Evictors
<1>3. CASE Done(i)
  <2>1. evictor' = [evictor EXCEPT !.phase = "awaiting"] /\ UNCHANGED conn
    BY <1>i, <1>3 DEF AskToClose
  <2> QED BY <1>1, <1>2, <2>1, EvictorMoves
<1>4. CASE ~Done(i)
  <2>1. conn[i] \in Conns /\ Asks(i) /\ conn[i].queue \in Seq(Commands)
    BY <1>2, ConnFacts
  <2>2. PICK command : command = Command("close", "evictor")
    OBVIOUS
  <2>3. command \in Commands
    BY <2>2 DEF Command, Commands
  <2>4. PICK q : q = Append(conn[i].queue, command)
    OBVIOUS
  <2>5. q \in Seq(Commands)
    BY <2>1, <2>3, <2>4
  <2>6. PICK new : new = [conn[i] EXCEPT !.queue = q]
    OBVIOUS
  <2>7. /\ new \in Conns /\ new.queue = q /\ new.lister = conn[i].lister
        /\ new.serving = conn[i].serving /\ new.reading = conn[i].reading
        /\ new.closed = conn[i].closed /\ new.ready = conn[i].ready /\ new.phase = conn[i].phase
        /\ new.version = conn[i].version /\ new.told = conn[i].told /\ new.changed = conn[i].changed
        /\ new.watcher = conn[i].watcher /\ new.sweeper = conn[i].sweeper
    BY <2>1, <2>5, <2>6 DEF Conns
  <2>8. Becomes(i, new) /\ evictor' = [evictor EXCEPT !.phase = "closing"]
    BY <1>i, <1>4, <2>2, <2>4, <2>6 DEF AskToClose, Queued
  <2>9. conn'[i] = new /\ conn' \in [Connections -> Conns] /\ \A j \in Connections : j # i => conn'[j] = conn[j]
    BY <1>1, <1>2, <2>7, <2>8 DEF Becomes
  <2>10. evictor' \in Evictors /\ evictor' = [phase |-> "closing", conn |-> i] /\ evictor'.conn = i
    BY <1>i, <1>1, <2>8 DEF Evictors
  <2>11. ClosesOnly(evictor, i) /\ ClosesOnly(evictor', i)
    BY <1>1, <2>10 DEF ClosesOnly
  <2>12. Asks(i)'
    <3>1. "evictor" \notin Awaiting(i)
      BY <1>1, Names, AwaitingIs
    <3>2. ASSUME NEW a PROVE a \in Awaiting(i)' <=> a \in Awaiting(i) \/ a = "evictor"
      BY <1>1, <2>7, <2>9, <2>10, Names, AwaitingIs, AwaitingIsThen
    <3>3. Awaiting(i)' = Awaiting(i) \cup {"evictor"}
      BY <3>2
    <3>4. Asked(i, "close", "evictor")
      BY <1>4, <2>2, <2>4, <2>7, <2>9, <3>1, <3>3 DEF Asked, Done
    <3> QED BY <1>1, <1>2, <2>1, <3>4, AsksKept
  <2>13. ConnOK(i)' /\ Notices(i)'
    BY <1>1, <1>2, <2>3, <2>4, <2>7, <2>9, QueuedConn
  <2>14. i \in Connections =>
           /\ conn'[i].ready = conn[i].ready /\ (conn[i].sweeper = "off" => conn'[i].sweeper = "off")
           /\ (conn'[i].closed => conn[i].closed) \/ \E k \in Keys : pool.at[k] = i
           /\ ConnOK(i)' /\ Asks(i)' /\ Notices(i)'
    BY <2>7, <2>9, <2>12, <2>13
  <2>15. \A j \in Connections : conn'[j].closed = conn[j].closed /\ conn'[j].ready = conn[j].ready
    BY <2>7, <2>9
  <2>16. Pooled'
    <3>1. \A k \in Keys : pool.at[k] # 0 => pool.at[k] \in Connections
      BY <1>1 DEF Pools0
    <3> QED BY <1>1, <1>2, <2>10, <2>15, <3>1 DEF Pooled, PostAuth, Happens
  <2>17. pool' \in Pools0 /\ pool'.lock = pool.lock /\ \A k \in Keys : pool'.at[k] \in {0, pool.at[k]}
    BY <1>1
  <2>18. UNCHANGED <<scene, server, task, mishaps>>
    BY <1>1
  <2> QED BY <2>9, <2>10, <2>11, <2>14, <2>16, <2>17, <2>18, EvictorKept
<1> QED BY <1>3, <1>4

\* The connection leaves the pool, and its sweeper is stopped.
LEMMA EvictKept ==
  ASSUME Pool, Evict
  PROVE  Pool'
<1>i. PICK i : i = pool.at[LookupKey]
  OBVIOUS
<1>1. /\ Shape /\ Pooled /\ conn \in [Connections -> Conns] /\ evictor \in Evictors /\ pool \in Pools0
      /\ mishaps \in 0..MaxMishaps /\ Happens("evict") /\ evictor.phase = "idle" /\ i # 0
      /\ UNCHANGED <<scene, server, task, mishaps>>
  BY <1>i DEF Pool, Shape, Evict
<1>2. LookupKey \in Keys /\ PostAuth \in Keys
  BY DEF LookupKey, PostAuth, Keys
<1>3. /\ i \in Connections /\ LookupKey = PostAuth /\ conn[i].ready = "yes" /\ conn[i] \in Conns
      /\ ConnOK(i) /\ Asks(i)
  <2>1. i \in Connections /\ LookupKey = PostAuth /\ conn[i].ready = "yes"
    BY <1>i, <1>1, <1>2 DEF Pooled, Pools0
  <2> QED BY <2>1, ConnFacts
<1>4. PICK gone : gone = Disowned(conn[i], "sweeper")
  OBVIOUS
<1>5. /\ gone \in Conns /\ gone.queue = Orphaned(conn[i].queue, "sweeper") /\ gone.serving = conn[i].serving
      /\ gone.reading = conn[i].reading /\ gone.phase = conn[i].phase /\ gone.ready = conn[i].ready
      /\ gone.version = conn[i].version /\ gone.told = conn[i].told /\ gone.changed = conn[i].changed
      /\ gone.lister = (IF conn[i].lister = "sweeper" THEN None ELSE conn[i].lister)
      /\ gone.watcher = conn[i].watcher
  BY <1>3, <1>4, DisownedConn, Names
<1>6. PICK new : new = [gone EXCEPT !.closed = TRUE, !.sweeper = "off"]
  OBVIOUS
<1>7. /\ new \in Conns /\ new.queue = gone.queue /\ new.serving = gone.serving
      /\ new.reading = gone.reading /\ new.phase = gone.phase /\ new.ready = gone.ready
      /\ new.version = gone.version /\ new.told = gone.told /\ new.changed = gone.changed
      /\ new.lister = gone.lister /\ new.watcher = gone.watcher /\ new.sweeper = "off"
  BY <1>5, <1>6 DEF Conns, BackgroundPhases
<1>8. PICK at : at = Pools(LookupKey, 0)
  OBVIOUS
<1>9. /\ Becomes(i, new) /\ pool' = [pool EXCEPT !.at = at]
      /\ evictor' \in {evictor, [phase |-> "stopping", conn |-> i]}
  BY <1>i, <1>4, <1>6, <1>8 DEF Evict
<1>10. at \in [Keys -> {0} \cup Connections] /\ \A k \in Keys : at[k] = IF k = LookupKey THEN 0 ELSE pool.at[k]
  BY <1>1, <1>2, <1>8, PoolWithout
<1>11. /\ pool' \in Pools0 /\ pool'.lock = pool.lock /\ pool'.redirected = pool.redirected
       /\ \A k \in Keys : pool'.at[k] \in {0, pool.at[k]} /\ (k = LookupKey => pool'.at[k] = 0)
  BY <1>1, <1>9, <1>10 DEF Pools0
<1>12. conn'[i] = new /\ conn' \in [Connections -> Conns] /\ \A j \in Connections : j # i => conn'[j] = conn[j]
  BY <1>1, <1>3, <1>7, <1>9 DEF Becomes
<1>13. /\ evictor' \in Evictors /\ evictor'.phase # "closing"
       /\ evictor'.phase # "idle" => evictor'.conn = i
  BY <1>1, <1>3, <1>9 DEF Evictors
<1>14. ClosesOnly(evictor, i) /\ ClosesOnly(evictor', i)
  BY <1>1, <1>13 DEF ClosesOnly
<1>15. Awaiting(i)' = Awaiting(i) \ {"sweeper"}
  <2>1. \A a : a \in Awaiting(i)' <=> a \in Awaiting(i) /\ a # "sweeper"
    <3>1. evictor # [phase |-> "closing", conn |-> i] /\ evictor' # [phase |-> "closing", conn |-> i]
      BY <1>1, <1>13
    <3>2. task' = task /\ conn'[i].watcher = conn[i].watcher /\ conn'[i].sweeper = "off"
      BY <1>1, <1>5, <1>7, <1>12
    <3> QED BY <3>1, <3>2, Names, AwaitingIs, AwaitingIsThen
  <2> QED BY <2>1
<1>16. ConnOK(i)' /\ Asks(i)' /\ Notices(i)'
  <2>1. conn[i].phase \notin {"unborn", "opening"}
    BY <1>3 DEF ConnOK, Unborn
  <2> QED BY <1>1, <1>3, <1>5, <1>7, <1>12, <1>15, <2>1, LeftConn
<1>17. i \in Connections =>
         /\ conn'[i].ready = conn[i].ready /\ (conn[i].sweeper = "off" => conn'[i].sweeper = "off")
         /\ (conn'[i].closed => conn[i].closed) \/ \E k \in Keys : pool.at[k] = i
         /\ ConnOK(i)' /\ Asks(i)' /\ Notices(i)'
  BY <1>i, <1>2, <1>5, <1>7, <1>12, <1>16
<1>18. Pooled'
  <2>1. \A k \in Keys : pool'.at[k] = 0
    <3>1. \A k \in Keys : pool.at[k] # 0 => k = PostAuth
      BY <1>1 DEF Pooled
    <3> QED BY <1>3, <1>11, <3>1
  <2>2. evictor'.phase # "idle" => evictor'.conn # 0 /\ conn'[evictor'.conn].ready = "yes"
    BY <1>1, <1>3, <1>5, <1>7, <1>12, <1>13
  <2>3. Happens("evict")' /\ (pool'.redirected => scene'.oauth)
    BY <1>1, <1>11 DEF Happens, Pooled
  <2> QED BY <2>1, <2>2, <2>3 DEF Pooled
<1>19. pool' \in Pools0 /\ pool'.lock = pool.lock /\ \A k \in Keys : pool'.at[k] \in {0, pool.at[k]}
  BY <1>11
<1>20. UNCHANGED <<scene, server, task, mishaps>> /\ evictor' \in Evictors
  BY <1>1, <1>13
<1> QED BY <1>12, <1>14, <1>17, <1>18, <1>19, <1>20, EvictorKept
-----------------------------------------------------------------------------
(* All steps *)

\* The steps of the tasks of connection i, and of its listener, whose outcome
\* leaves a request of its runner under way.
Quietly(i) ==
  \/ ObeyClose(i) \/ Drain(i) \/ Watch(i) \/ Sweep(i) \/ Subscribe(i) \/ LoseSubscription(i)
  \/ Hear(i) \/ Age(i) \/ (\E a \in Background : Refresh(i, a))

\* The steps that begin or end one.
Busily(i) == Opened(i) \/ OpenFails(i) \/ Take(i) \/ Reply(i) \/ ReplyError(i) \/ Die(i)

\* The steps of a caller.
Calling(c) == Start(c) \/ FindOrConnect(c) \/ Connected(c) \/ Use(c) \/ List(c) \/ Call(c) \/ Cancel(c)

\* Of the evictor.
Evicting == Evict \/ EvictNothing \/ AskToClose \/ EvictEnds

\* All steps of the pool.
PoolMoves ==
  \/ UNCHANGED poolVars \/ ServerChanges \/ Evicting
  \/ \E i \in Connections : Quietly(i) \/ Busily(i)
  \/ \E c \in Callers : Calling(c)

\* Every step of the pool keeps the invariant.
LEMMA PoolKept ==
  ASSUME Pool, PoolMoves
  PROVE  Pool'
<1>1. CASE UNCHANGED poolVars
  <2>1. scene' = scene /\ server' = server /\ pool' = pool /\ conn' = conn /\ task' = task
        /\ evictor' = evictor /\ mishaps' = mishaps
    BY <1>1 DEF poolVars
  <2>2. Shape'
    BY <2>1 DEF Pool, Shape
  <2>3. Pooled'
    BY <2>1 DEF Pool, Pooled, Happens, PostAuth
  <2>4. \A c \in Callers : TaskOK(c)'
    BY <2>1 DEF Pool, TaskOK
  <2>5. ASSUME NEW i \in Connections PROVE ConnOK(i)' /\ Asks(i)' /\ Notices(i)'
    <3>1. ConnOK(i)'
      BY <2>1 DEF Pool, ConnOK, First
    <3>2. Asks(i)'
      <4>1. Awaiting(i)' = Awaiting(i)
        BY <2>1 DEF Awaiting
      <4> QED BY <2>1, <4>1 DEF Pool, Asks
    <3>3. Notices(i)'
      BY <2>1 DEF Pool, Notices, First
    <3> QED BY <3>1, <3>2, <3>3
  <2> QED BY <2>2, <2>3, <2>4, <2>5 DEF Pool
<1>2. CASE ServerChanges
  BY <1>2, ServerChangesKept
<1>3. CASE Evicting
  BY <1>3, EvictKept, EvictEndsKept, AskToCloseKept DEF Evicting
<1>4. ASSUME NEW i \in Connections, Quietly(i) PROVE Pool'
  BY <1>4, ObeyCloseKept, DrainKept, WaitedKept, ListenerKept, RefreshKept DEF Quietly
<1>5. ASSUME NEW i \in Connections, Busily(i) PROVE Pool'
  BY <1>5, OpenedKept, OpenFailsKept, TakeKept, ReplyKept, ReplyErrorKept, DieKept DEF Busily
<1>6. ASSUME NEW c \in Callers, Calling(c) PROVE Pool'
  BY <1>6, StartKept, FindOrConnectKept, ConnectedKept, CallKept, CancelKept DEF Calling
<1> QED BY <1>1, <1>2, <1>3, <1>4, <1>5, <1>6 DEF PoolMoves

\* It holds to begin with.
LEMMA PoolStarts ==
  ASSUME PoolInit
  PROVE  Pool
<1>1. /\ scene \in [oauth: BOOLEAN, callers: SUBSET Callers, rounds: Nat, versions: Nat \ {0},
                    active: SUBSET Requests, wide: SUBSET Requests, events: SUBSET STRING]
      /\ scene \in Scenes
  BY McpPoolAssumption DEF PoolInit
<1>2. Unborn \in Conns
  <2>1. <<>> \in Seq(Commands) /\ 0 \in Nat
    OBVIOUS
  <2> QED BY <2>1 DEF Unborn, Conns, BackgroundPhases
<1>3. \A c \in Callers : /\ task[c].phase = "idle" /\ task[c].conn = 0
                         /\ task[c].left = IF c \in scene.callers THEN scene.rounds ELSE 0
                         /\ task[c] \in Tasks
  BY <1>1 DEF PoolInit, Tasks
<1>4. \A i \in Connections : conn[i] = Unborn
  BY DEF PoolInit
<1>5. Shape
  <2>1. pool \in Pools0
    BY DEF PoolInit, Pools0
  <2>2. task \in [Callers -> Tasks]
    BY <1>3 DEF PoolInit
  <2>3. server \in 1..scene.versions
    BY <1>1 DEF PoolInit
  <2>4. mishaps \in 0..MaxMishaps
    BY Names DEF PoolInit
  <2> QED BY <1>1, <1>2, <2>1, <2>2, <2>3, <2>4 DEF PoolInit, Shape, Evictors
<1>6. Pooled
  BY <1>3 DEF PoolInit, Pooled, UserPhases, PostAuth, Keys
<1>7. ASSUME NEW c \in Callers PROVE TaskOK(c)
  BY <1>1, <1>3 DEF TaskOK, UserPhases
<1>8. ASSUME NEW i \in Connections PROVE ConnOK(i) /\ Asks(i) /\ Notices(i)
  <2>1. conn[i] = Unborn /\ server = 1
    BY <1>4 DEF PoolInit
  <2>2. conn[i] = [Unborn EXCEPT !.phase = conn[i].phase]
    BY <2>1 DEF Unborn
  <2>3. ConnOK(i)
    BY <2>1, <2>2 DEF ConnOK, Unborn
  <2>4. \A a : a \notin Awaiting(i)
    BY <1>3, <2>1, AwaitingIs DEF PoolInit, Unborn
  <2>5. Asks(i)
    BY <2>1, <2>4 DEF Asks, Unborn
  <2>6. Notices(i)
    BY <2>1 DEF Notices, Unborn
  <2> QED BY <2>3, <2>5, <2>6
<1> QED BY <1>5, <1>6, <1>7, <1>8 DEF Pool

\* What the pool promises.
LEMMA PoolPromises ==
  ASSUME Pool
  PROVE  /\ TypeOK /\ CallersShareOneConnection /\ PooledIsOpen /\ NoticesAreKept
         /\ NobodyIsForgotten /\ ListersAreAlive
<1>1. Shape /\ Pooled /\ (\A c \in Callers : TaskOK(c)) /\ \A i \in Connections : ConnOK(i) /\ Asks(i) /\ Notices(i)
  BY DEF Pool
<1>2. TypeOK
  <2>1. \A i \in Connections : conn[i] \in Conns
    BY <1>1 DEF Shape
  <2>2. \A c \in Callers : task[c].conn \in {0} \cup Connections /\ task[c].left \in 0..scene.rounds
    <3>1. scene.rounds \in Nat
      BY <1>1, McpPoolAssumption DEF Shape
    <3> QED BY <1>1, <3>1 DEF Shape, Tasks, TaskOK
  <2>3. pool.lock \in Callers \cup {None} /\ \A k \in Keys : pool.at[k] # 0 => conn[pool.at[k]].ready = "yes"
    BY <1>1 DEF Shape, Pools0, Pooled
  <2> QED BY <1>1, <2>1, <2>2, <2>3 DEF TypeOK, Shape, Pooled, Conns, ConnOK
<1>3. CallersShareOneConnection
  <2>1. SUFFICES ASSUME ~Happens("evict"), NEW c \in Callers, NEW d \in Callers,
                        task[c].phase \in UserPhases, task[d].phase \in UserPhases
                 PROVE  task[c].conn = task[d].conn
    BY DEF CallersShareOneConnection, UserPhases
  <2> QED BY <1>1, <2>1 DEF Pooled
<1>4. PooledIsOpen
  BY <1>1 DEF Pooled, PooledIsOpen
<1>5. NoticesAreKept
  BY <1>1 DEF Notices, NoticesAreKept
<1>6. NobodyIsForgotten
  <2>1. SUFFICES ASSUME NEW i \in Connections, conn[i].watcher # "dead", NEW a \in Awaiting(i)
                 PROVE  conn[i].phase # "ended" /\ \E n \in DOMAIN conn[i].queue : conn[i].queue[n].by = a
    BY DEF NobodyIsForgotten
  <2>2. PICK n \in DOMAIN conn[i].queue : conn[i].queue[n].by = a
    BY <1>1, <2>1 DEF Asks
  <2>3. conn[i].queue # <<>>
    BY <2>2
  <2> QED BY <1>1, <2>1, <2>2, <2>3 DEF Asks
<1>7. ListersAreAlive
  BY <1>1 DEF Asks, ListersAreAlive
<1> QED BY <1>2, <1>3, <1>4, <1>5, <1>6, <1>7
-----------------------------------------------------------------------------
(* Runners at work *)

\* The runner of connection i waits for an answer of the server.
Busy(i) == conn[i].phase = "opening" \/ conn[i].serving

\* Connection i changes, and its runner goes on waiting.
LEMMA BusyOn ==
  ASSUME Pool, NEW i \in Connections, NEW new, Becomes(i, new),
         Busy(i) => new.phase = "opening" \/ new.serving
  PROVE  \A j \in Connections : Busy(j) => Busy(j)'
<1>1. conn \in [Connections -> Conns]
  BY ConnFacts
<1> QED BY <1>1 DEF Becomes, Busy

\* A step that is not about the request of a runner leaves it under way.
LEMMA BusyStays ==
  ASSUME Pool,
         \/ ServerChanges \/ Evicting
         \/ \E i \in Connections : Quietly(i)
         \/ \E c \in Callers : Calling(c)
  PROVE  \A j \in Connections : Busy(j) => Busy(j)'
<1>1. CASE UNCHANGED conn
  BY <1>1 DEF Busy
<1>2. ASSUME NEW i \in Connections, Quietly(i) PROVE \A j \in Connections : Busy(j) => Busy(j)'
  <2>1. conn[i] \in Conns /\ ConnOK(i)
    BY ConnFacts
  <2>2. CASE ObeyClose(i) \/ Drain(i)
    <3>1. ~Busy(i)
      BY <2>1, <2>2 DEF ObeyClose, Drain, ConnOK, Busy
    <3>2. PICK new : Becomes(i, new)
      BY <2>2 DEF ObeyClose, Drain
    <3> QED BY <3>1, <3>2, BusyOn
  <2>3. CASE Watch(i) \/ Sweep(i) \/ Subscribe(i) \/ LoseSubscription(i) \/ Hear(i) \/ Age(i)
    <3>1. PICK new : Becomes(i, new) /\ new.phase = conn[i].phase /\ new.serving = conn[i].serving
      <4>1. CASE Watch(i)
        <5>1. PICK x : x = [conn[i] EXCEPT !.watcher = "wanting", !.changed = FALSE]
          OBVIOUS
        <5>2. Becomes(i, x) /\ x.phase = conn[i].phase /\ x.serving = conn[i].serving
          BY <2>1, <4>1, <5>1 DEF Watch, Conns
        <5> QED BY <5>2
      <4>2. CASE Sweep(i)
        BY <2>1, <4>2 DEF Sweep, Conns
      <4>3. CASE Subscribe(i)
        BY <2>1, <4>3 DEF Subscribe, Conns
      <4>4. CASE LoseSubscription(i)
        <5>1. PICK x : x = [conn[i] EXCEPT !.subscribed = FALSE, !.changed = TRUE]
          OBVIOUS
        <5>2. Becomes(i, x) /\ x.phase = conn[i].phase /\ x.serving = conn[i].serving
          BY <2>1, <4>4, <5>1 DEF LoseSubscription, Conns
        <5> QED BY <5>2
      <4>5. CASE Hear(i)
        <5>1. PICK x : x = [conn[i] EXCEPT !.told = server, !.changed = TRUE]
          OBVIOUS
        <5>2. Becomes(i, x) /\ x.phase = conn[i].phase /\ x.serving = conn[i].serving
          BY <2>1, <4>5, <5>1 DEF Hear, Conns
        <5> QED BY <5>2
      <4>6. CASE Age(i)
        BY <2>1, <4>6 DEF Age, Conns
      <4> QED BY <2>3, <4>1, <4>2, <4>3, <4>4, <4>5, <4>6
    <3> QED BY <3>1, BusyOn DEF Busy
  <2>4. ASSUME NEW a \in Background, Refresh(i, a) PROVE \A j \in Connections : Busy(j) => Busy(j)'
    <3>1. PICK new : Becomes(i, new) /\ new.phase = conn[i].phase /\ new.serving = conn[i].serving
      <4>1. CASE Done(i)
        <5>1. Becomes(i, [conn[i] EXCEPT ![a] = BackgroundAfter("unreachable")])
          BY <2>4, <4>1 DEF Refresh
        <5>2. a # "phase" /\ a # "serving"
          BY DEF Background
        <5>3. /\ [conn[i] EXCEPT ![a] = BackgroundAfter("unreachable")].phase = conn[i].phase
              /\ [conn[i] EXCEPT ![a] = BackgroundAfter("unreachable")].serving = conn[i].serving
          BY <2>1, <5>2 DEF Conns
        <5> QED BY <5>1, <5>3
      <4>2. CASE ~Done(i)
        <5>1. PICK q : q = Queued(conn[i], "list", a)
          OBVIOUS
        <5>2. Becomes(i, [q EXCEPT ![a] = "listing", !.lister = a])
          BY <2>4, <4>2, <5>1 DEF Refresh
        <5>3. a # "phase" /\ a # "serving"
          BY DEF Background
        <5>4. q.phase = conn[i].phase /\ q.serving = conn[i].serving
              /\ "phase" \in DOMAIN q /\ "serving" \in DOMAIN q
          BY <2>1, <5>1 DEF Queued, Conns
        <5>5. /\ [q EXCEPT ![a] = "listing", !.lister = a].phase = q.phase
              /\ [q EXCEPT ![a] = "listing", !.lister = a].serving = q.serving
          BY <5>3, <5>4
        <5> QED BY <5>2, <5>4, <5>5
      <4> QED BY <4>1, <4>2
    <3> QED BY <3>1, BusyOn DEF Busy
  <2> QED BY <1>2, <2>2, <2>3, <2>4 DEF Quietly
<1>3. ASSUME NEW c \in Callers, Calling(c) PROVE \A j \in Connections : Busy(j) => Busy(j)'
  <2>1. /\ task[c].phase \in {"connecting"} \cup UserPhases => task[c].conn \in Connections
        /\ conn \in [Connections -> Conns]
    BY CallerFacts
  <2>2. CASE Start(c) \/ Use(c)
    BY <1>1, <2>2 DEF Start, Use
  <2>3. CASE FindOrConnect(c)
    <3>1. CASE UNCHANGED conn
      BY <1>1, <3>1
    <3>2. CASE Connecting(c)
      <4>1. PICK i \in Connections : Becomes(i, [Unborn EXCEPT !.phase = "opening"])
        BY <3>2 DEF Connecting, Unused
      <4>2. [Unborn EXCEPT !.phase = "opening"].phase = "opening"
        BY DEF Unborn
      <4> QED BY <4>1, <4>2, BusyOn
    <3> QED BY <2>3, <3>1, <3>2 DEF FindOrConnect
  <2>4. CASE Connected(c) \/ List(c) \/ Call(c) \/ Cancel(c)
    <3>1. task[c].conn \in Connections
      BY <2>1, <2>4 DEF Connected, List, Call, Cancel, UserPhases
    <3>2. PICK i \in Connections : i = task[c].conn
      BY <3>1
    <3>3. conn[i] \in Conns
      BY ConnFacts
    <3>4. UNCHANGED conn \/ \E new : Becomes(i, new) /\ new.phase = conn[i].phase /\ new.serving = conn[i].serving
      <4>1. CASE Connected(c)
        BY <3>2, <3>3, <4>1 DEF Connected, Conns
      <4>2. CASE List(c)
        <5>1. PICK new : new = [Queued(conn[i], "list", c) EXCEPT !.lister = c]
          OBVIOUS
        <5>2. new.phase = conn[i].phase /\ new.serving = conn[i].serving
          BY <3>3, <5>1 DEF Queued, Conns
        <5>3. UNCHANGED conn \/ Becomes(i, new)
          BY <3>2, <4>2, <5>1 DEF List
        <5> QED BY <5>2, <5>3
      <4>3. CASE Call(c)
        <5>1. PICK new : new = Queued(conn[i], "call", c)
          OBVIOUS
        <5>2. new.phase = conn[i].phase /\ new.serving = conn[i].serving
          BY <3>3, <5>1 DEF Queued, Conns
        <5>3. UNCHANGED conn \/ Becomes(i, new)
          BY <3>2, <4>3, <5>1 DEF Call
        <5> QED BY <5>2, <5>3
      <4>4. CASE Cancel(c)
        <5>1. PICK new : new = Disowned(conn[i], c)
          OBVIOUS
        <5>2. Becomes(i, new)
          BY <3>2, <4>4, <5>1 DEF Cancel
        <5> QED BY <3>3, <5>1, <5>2, DisownedConn
      <4> QED BY <2>4, <4>1, <4>2, <4>3, <4>4
    <3> QED BY <1>1, <3>4, BusyOn DEF Busy
  <2> QED BY <1>3, <2>2, <2>3, <2>4 DEF Calling
<1>4. CASE Evicting
  <2>0. Shape /\ Pooled
    BY DEF Pool
  <2>1. CASE EvictNothing \/ EvictEnds
    BY <1>1, <2>1 DEF EvictNothing, EvictEnds
  <2>2. CASE Evict
    <3>1. PICK i \in Connections : i = pool.at[LookupKey]
      BY <2>0, <2>2 DEF Evict, LookupKey, Keys, Shape, Pools0
    <3>2. PICK gone : gone = Disowned(conn[i], "sweeper")
      OBVIOUS
    <3>3. gone \in Conns /\ gone.phase = conn[i].phase /\ gone.serving = conn[i].serving
      BY <3>2, ConnFacts, DisownedConn, Names
    <3>4. PICK new : new = [gone EXCEPT !.closed = TRUE, !.sweeper = "off"]
      OBVIOUS
    <3>5. Becomes(i, new) /\ new.phase = conn[i].phase /\ new.serving = conn[i].serving
      BY <2>2, <3>1, <3>2, <3>3, <3>4 DEF Evict, Conns
    <3> QED BY <3>5, BusyOn DEF Busy
  <2>3. CASE AskToClose
    <3>1. PICK i \in Connections : i = evictor.conn
      BY <2>0, <2>3 DEF AskToClose, Pooled, Shape, Evictors
    <3>2. conn[i] \in Conns
      BY ConnFacts
    <3>3. PICK new : new = Queued(conn[i], "close", "evictor")
      OBVIOUS
    <3>4. new.phase = conn[i].phase /\ new.serving = conn[i].serving
      BY <3>2, <3>3 DEF Queued, Conns
    <3>5. UNCHANGED conn \/ Becomes(i, new)
      BY <2>3, <3>1, <3>3 DEF AskToClose
    <3>6. CASE Becomes(i, new)
      BY <3>4, <3>6, BusyOn DEF Busy
    <3> QED BY <1>1, <3>5, <3>6
  <2> QED BY <1>4, <2>1, <2>2, <2>3 DEF Evicting
<1>5. CASE ServerChanges
  BY <1>1, <1>5 DEF ServerChanges
<1> QED BY <1>2, <1>3, <1>4, <1>5

\* Nobody opens a connection in a scene in which nobody calls.
LEMMA UnusedStays ==
  ASSUME Pool, PoolMoves, scene.callers = {}, \A i \in Connections : conn[i].phase = "unborn"
  PROVE  \A i \in Connections : conn'[i].phase = "unborn"
<1>1. /\ Shape /\ Pooled /\ \A c \in Callers : TaskOK(c) /\ task[c] \in Tasks
  BY DEF Pool, Shape
<1>2. \A i \in Connections : conn[i] = Unborn
  <2>1. ASSUME NEW i \in Connections PROVE conn[i] = Unborn
    <3>1. conn[i] = [Unborn EXCEPT !.phase = "unborn"]
      BY ConnFacts DEF ConnOK
    <3> QED BY <3>1 DEF Unborn
  <2> QED BY <2>1
<1>3. \A c \in Callers : task[c].phase = "idle" /\ ~(task[c].left > 0)
  BY <1>1 DEF TaskOK
<1>4. evictor.phase = "idle" /\ \A k \in Keys : pool.at[k] = 0
  BY <1>1, <1>2 DEF Pooled, Shape, Pools0, Evictors, Unborn
<1>5. \A i \in Connections : ~Quietly(i) /\ ~Busily(i)
  <2>1. ASSUME NEW i \in Connections PROVE ~Quietly(i) /\ ~Busily(i)
    <3>1. /\ conn[i].phase = "unborn" /\ ~conn[i].subscribed /\ conn[i].watcher = "off" /\ conn[i].sweeper = "off"
          /\ ~conn[i].fresh
      BY <1>2 DEF Unborn
    <3>2. \A a \in Background : ~Refresh(i, a)
      BY <3>1 DEF Background, Refresh
    <3> QED BY <3>1, <3>2 DEF Quietly, Busily, ObeyClose, Drain, Watch, Sweep, Subscribe, LoseSubscription,
            Hear, Age, Opened, OpenFails, Take, Reply, ReplyError, Die
  <2> QED BY <2>1
<1>6. \A c \in Callers : ~Calling(c)
  BY <1>3 DEF Calling, Start, FindOrConnect, Connected, Use, List, Call, Cancel
<1>7. LookupKey \in Keys
  BY DEF LookupKey, Keys
<1> QED BY <1>4, <1>5, <1>6, <1>7
     DEF PoolMoves, poolVars, ServerChanges, Evicting, Evict, EvictNothing, AskToClose, EvictEnds

-----------------------------------------------------------------------------
(* The session *)

\* Tokens, sessions and the server's grants, by their fields.
Tokens == [grant: Nat, serial: Nat, wide: BOOLEAN]
Sessions == [token: Tokens, aging: BOOLEAN, steps: 0..MaxStepUps]

Grants == [serial: Nat \ {0}, live: BOOLEAN]

\* The phases in which a request holds the lock of its connection, and of the key.
KeyPhases == {"refreshing", "refused", "stepping_up"}
\* The phases in which it is about to ask the user for a token.
AskPhases == {"starting", "widening", "stepping_up"}
LockPhases == KeyPhases \cup AskPhases \cup {"renewing"}
Phases == {"idle", "locking", "sent", "resent"} \cup LockPhases \cup Challenges

\* The authorization server has given this token.
Issued(t) == t.grant \in DOMAIN grants /\ t.serial <= grants[t.grant].serial

\* Each of the variables is what it should be.
GrantsOK == grants \in Seq(Grants)

SessionOK == session # None => session \in Sessions /\ Issued(session.token)

\* A connection is locked by a request of its own.
AuthOK(a) ==
  /\ auth[a].lock # None => Owner(auth[a].lock) = a
  /\ auth[a].token # None => Issued(auth[a].token)

\* Request r holds the locks its phase says; what it has saved and got it uses
\* under the lock of the key.
RequestOK(r) ==
  /\ request[r] \in [phase: Phases, sent: {None} \cup Tokens, session: {None} \cup Sessions,
                     got: {None} \cup Tokens]
  /\ request[r].phase \in LockPhases <=> Via(r).lock = r
  /\ request[r].phase \in KeyPhases <=> keylock = r
  /\ request[r].phase \in AskPhases => request[r].sent = Via(r).token
  /\ request[r].phase \notin KeyPhases => Saved(r) = None
  /\ keylock = r => Saved(r) # None /\ Issued(Saved(r).token)
  /\ request[r].phase = "stepping_up" => Saved(r).steps < MaxStepUps
  /\ request[r].got # None =>
       /\ request[r].phase = "refreshing" /\ request[r].got.grant = Saved(r).token.grant
       /\ request[r].got.grant \in DOMAIN grants
       /\ request[r].got.serial = grants[request[r].got.grant].serial

\* What connection a replaced it has given up for good, and was given out.
ReplacedOK(a) ==
  /\ replaced[a] \in Seq({None} \cup Tokens)
  /\ \A i \in DOMAIN replaced[a] :
       LET t == replaced[a][i] IN
       /\ t # None => Issued(t)
       /\ t # auth[a].token
       /\ session # None => t # session.token
       /\ \A r \in Requests : request[r].got # None => t # request[r].got
       /\ \A k \in DOMAIN replaced[a] : t = replaced[a][k] => i = k

\* A token that has just come is nowhere else yet.
GotIsNew ==
  \A r \in Requests : request[r].got # None =>
    /\ \A a \in Connections : auth[a].token # request[r].got
    /\ session # None => session.token # request[r].got

\* The inductive invariant of the session.
Session ==
  /\ GrantsOK /\ SessionOK
  /\ keylock \in {None} \cup Requests
  /\ auth \in [Connections -> [lock: {None} \cup Requests, token: {None} \cup Tokens]]
  /\ \A a \in Connections : AuthOK(a)
  /\ DOMAIN request = Requests /\ \A r \in Requests : RequestOK(r)
  /\ DOMAIN replaced = Connections /\ \A a \in Connections : ReplacedOK(a)
  /\ GotIsNew

\* Which refresh tokens have been presented.
Spent ==
  /\ spent.again = {}
  /\ spent.once \subseteq Tokens /\ \A t \in spent.once : Issued(t)
  /\ \A r \in Requests :
       /\ request[r].phase = "refreshing" /\ request[r].got = None => Saved(r).token \notin spent.once
       /\ request[r].got \notin spent.once
  /\ session # None /\ session.token \in spent.once =>
       keylock # None /\ request[keylock].phase # "stepping_up" /\ Saved(keylock).token = session.token

\* A session whose token is not the newest of its grant is about to be replaced.
Newest ==
  session # None /\ session.token.serial # grants[session.token.grant].serial =>
    keylock # None /\ request[keylock].got # None /\ request[keylock].got.grant = session.token.grant

\* The one of the refresh tokens: the server has seen each once, and a blip may
\* lose a new one.
Rotation ==
  TasksFinish => Spent /\ (~Happens("blip") => Newest)

-----------------------------------------------------------------------------
(* What a step does to the session *)

\* Only request r changes.
Only(r) == \A q \in Requests \ {r} : request'[q] = request[q]
SetsAuth(r, lock, token) == auth' = [auth EXCEPT ![Owner(r)] = [lock |-> lock, token |-> token]]

\* Request r as it is when nothing came of it yet.
Fresh(r) == request'[r] \in [phase: Phases, sent: {None} \cup Tokens, session: {None}, got: {None}]

\* Outside of every lock.
Wanders(r) ==
  /\ UNCHANGED <<grants, session, keylock, auth, spent, replaced>>
  /\ DOMAIN request' = Requests /\ Only(r)
  /\ request[r].phase \notin LockPhases
  /\ Fresh(r) /\ request'[r].phase \notin LockPhases

\* r takes the lock of its connection.
TakesLock(r) ==
  /\ UNCHANGED <<grants, session, keylock, spent, replaced>>
  /\ DOMAIN request' = Requests /\ Only(r)
  /\ request[r].phase \notin LockPhases /\ Via(r).lock = None
  /\ SetsAuth(r, r, Via(r).token)
  /\ Fresh(r) /\ request'[r].phase \in LockPhases \ KeyPhases
  /\ request'[r].phase \in AskPhases => request'[r].sent = Via(r).token

\* r takes the lock of the key, and with it the session.
TakesKey(r) ==
  /\ UNCHANGED <<grants, session, auth, spent, replaced>>
  /\ DOMAIN request' = Requests /\ Only(r)
  /\ keylock = None /\ keylock' = r /\ session # None
  /\ request[r].phase \in LockPhases
  /\ request'[r] \in [phase: {"refreshing", "stepping_up"}, sent: {None} \cup Tokens,
                      session: {session}, got: {None}]
  /\ request'[r].phase = "stepping_up" =>
       session.steps < MaxStepUps /\ request'[r].sent = request[r].sent /\ request[r].phase = "widening"

\* r goes on with the token it has or the session's, or gives up, and lets go of
\* its locks.
LetsGo(r) ==
  /\ UNCHANGED <<grants, spent, replaced>>
  /\ DOMAIN request' = Requests /\ Only(r)
  /\ \E t \in {None} \cup Tokens :
       /\ t = Via(r).token \/ (session # None /\ t = session.token /\ keylock # r /\ Via(r).lock = r)
       /\ SetsAuth(r, IF Via(r).lock = r THEN None ELSE Via(r).lock, t)
  /\ keylock' = IF keylock = r THEN None ELSE keylock
  /\ session' \in {session, None}
  /\ Fresh(r) /\ request'[r].phase \notin LockPhases
  /\ TasksFinish /\ keylock = r => request[r].phase = "stepping_up" \/ session' = None
  /\ TasksFinish /\ ~Happens("blip") => request[r].got = None

\* The authorization server rotates the token of r, or refuses it.
Rotates(r) ==
  LET t == Saved(r).token IN
  /\ UNCHANGED <<session, keylock, auth, replaced>>
  /\ DOMAIN request' = Requests /\ Only(r)
  /\ request[r].phase = "refreshing" /\ request[r].got = None
  /\ spent' = [once |-> spent.once \cup {t},
               again |-> IF t \in spent.once THEN spent.again \cup {t} ELSE spent.again]
  /\ \/ /\ grants[t.grant].serial = t.serial
        /\ grants' = [grants EXCEPT ![t.grant].serial = t.serial + 1]
        /\ request'[r] = [phase |-> "refreshing", sent |-> request[r].sent, session |-> Saved(r),
                          got |-> [grant |-> t.grant, serial |-> t.serial + 1, wide |-> t.wide]]
     \/ /\ UNCHANGED grants
        /\ request'[r] = [phase |-> "refused", sent |-> request[r].sent, session |-> Saved(r), got |-> None]

\* r keeps what it got.
Keeps(r) ==
  /\ UNCHANGED <<grants, spent, replaced>>
  /\ DOMAIN request' = Requests /\ Only(r)
  /\ request[r].got # None /\ request[r].phase = "refreshing"
  /\ session' \in Sessions /\ session'.token = request[r].got
  /\ SetsAuth(r, None, request[r].got)
  /\ keylock' = None
  /\ Fresh(r) /\ request'[r].phase = "sent"

\* r is given a new grant.
SignsIn(r) ==
  LET t == [grant |-> Len(grants) + 1, serial |-> 1, wide |-> session'.token.wide] IN
  /\ UNCHANGED spent
  /\ DOMAIN request' = Requests /\ Only(r)
  /\ request[r].phase \in {"starting", "stepping_up"}
  /\ grants' = Append(grants, [serial |-> 1, live |-> TRUE])
  /\ session' \in Sessions /\ session'.token = t
  /\ SetsAuth(r, None, t)
  /\ replaced' = [replaced EXCEPT ![Owner(r)] = Append(replaced[Owner(r)], Via(r).token)]
  /\ keylock' = IF keylock = r THEN None ELSE keylock
  /\ Fresh(r) /\ request'[r].phase = "resent"

\* The session is forgotten, or its token grows old.
Fades ==
  /\ UNCHANGED <<grants, keylock, auth, request, spent, replaced>>
  /\ session' # None => session' \in Sessions /\ session # None /\ session'.token = session.token

\* A grant is revoked.
Dies ==
  /\ UNCHANGED <<session, keylock, auth, request, spent, replaced>>
  /\ grants' \in Seq(Grants) /\ Len(grants') = Len(grants)
  /\ \A g \in DOMAIN grants : grants'[g].serial = grants[g].serial

\* Every step is of one of these kinds.
SessionKinds ==
  \/ UNCHANGED sessionVars
  \/ Fades \/ Dies
  \/ \E r \in Requests : Wanders(r) \/ TakesLock(r) \/ TakesKey(r) \/ LetsGo(r) \/ Rotates(r)
                         \/ Keeps(r) \/ SignsIn(r)

\* The scene is one of Scenes, and stays.
SceneOK == scene \in Scenes

\* A step of the session, in one scene.
SessionMoves == scene' = scene /\ SessionKinds

\* None is no token, no session and no request; requests belong to connections.
LEMMA NoneIsNothing ==
  /\ None \notin Tokens /\ None \notin Sessions /\ None \notin Requests
  /\ MaxStepUps \in Nat
  /\ \A r \in Requests : Owner(r) \in Connections
  /\ \A i \in Connections : Main(i) \in Requests /\ Listen(i) \in Requests /\ Owner(Main(i)) = i /\ Owner(Listen(i)) = i
<1>1. Sessions \subseteq [token: Tokens, aging: BOOLEAN, steps: Nat]
  BY OAuthAssumption DEF Sessions
<1>2. None \notin Tokens /\ None \notin Sessions /\ MaxStepUps \in Nat
  BY <1>1, OAuthAssumption DEF Tokens
<1>3. None \notin Requests
  BY McpSceneAssumption DEF Requests, Connections
<1> QED BY <1>2, <1>3 DEF Requests, Main, Listen, Owner

\* What Session says of one request.
LEMMA RequestFacts ==
  ASSUME Session, NEW r \in Requests
  PROVE  /\ Owner(r) \in Connections /\ AuthOK(Owner(r)) /\ RequestOK(r)
         /\ DOMAIN request = Requests /\ DOMAIN auth = Connections
         /\ auth \in [Connections -> [lock: {None} \cup Requests, token: {None} \cup Tokens]]
         /\ DOMAIN auth[Owner(r)] = {"lock", "token"}
         /\ DOMAIN request[r] = {"phase", "sent", "session", "got"}
         /\ r # None
<1>1. Owner(r) \in Connections /\ r # None
  BY NoneIsNothing
<1>2. AuthOK(Owner(r)) /\ RequestOK(r) /\ DOMAIN request = Requests
  BY <1>1 DEF Session
<1>3. /\ DOMAIN auth[Owner(r)] = {"lock", "token"} /\ DOMAIN auth = Connections
      /\ auth \in [Connections -> [lock: {None} \cup Requests, token: {None} \cup Tokens]]
  BY <1>1 DEF Session
<1>4. DOMAIN request[r] = {"phase", "sent", "session", "got"}
  BY <1>2 DEF RequestOK
<1> QED BY <1>1, <1>2, <1>3, <1>4

\* To set one field of the record of a connection is to write the record.
LEMMA AuthLock ==
  ASSUME auth \in [Connections -> [lock: {None} \cup Requests, token: {None} \cup Tokens]],
         NEW a \in Connections, NEW l
  PROVE  [auth EXCEPT ![a].lock = l] = [auth EXCEPT ![a] = [lock |-> l, token |-> auth[a].token]]
<1> DEFINE x == [auth EXCEPT ![a].lock = l]
           y == [auth EXCEPT ![a] = [lock |-> l, token |-> auth[a].token]]
<1>1. x[a] = y[a] /\ \A b \in Connections \ {a} : x[b] = y[b]
  OBVIOUS
<1>2. x = y
  BY <1>1
<1> QED BY <1>2

\* A dropped request lets go of its locks.
LEMMA DropMoves ==
  ASSUME Session, NEW r \in Requests, Drop(r), ~TasksFinish
  PROVE  SessionKinds
<1>1. DOMAIN request' = Requests /\ Only(r) /\ request'[r] = Idle
  BY RequestFacts DEF Drop, Only
<1>2. Fresh(r) /\ request'[r].phase \notin LockPhases
  BY <1>1 DEF Fresh, Idle, Phases, LockPhases, KeyPhases, AskPhases
<1>3. SetsAuth(r, IF Via(r).lock = r THEN None ELSE Via(r).lock, Via(r).token) /\ Via(r).token \in {None} \cup Tokens
  BY RequestFacts, AuthLock DEF Drop, SetsAuth, Via
<1> QED BY <1>1, <1>2, <1>3 DEF Drop, SessionKinds, LetsGo

\* The steps of one request, by kind (async_auth_flow, bearer_token, start, step_up).
LEMMA RequestMoves ==
  ASSUME Session, NEW r \in Requests, RequestStep(r) \/ Begin(r) \/ CancelRequest(r)
  PROVE  SessionKinds
<1>0. None \notin Tokens /\ None \notin Sessions
  BY NoneIsNothing
<1>a. /\ Owner(r) \in Connections /\ AuthOK(Owner(r)) /\ RequestOK(r)
      /\ DOMAIN request = Requests /\ DOMAIN auth = Connections
      /\ auth \in [Connections -> [lock: {None} \cup Requests, token: {None} \cup Tokens]]
      /\ DOMAIN auth[Owner(r)] = {"lock", "token"}
      /\ DOMAIN request[r] = {"phase", "sent", "session", "got"}
      /\ r # None
  BY RequestFacts
<1>b. /\ auth[Owner(r)] = [lock |-> Via(r).lock, token |-> Via(r).token]
      /\ Via(r).token \in {None} \cup Tokens
      /\ request[r].sent \in {None} \cup Tokens
      /\ request[r].phase \notin KeyPhases => Saved(r) = None /\ request[r].got = None
  BY <1>a DEF AuthOK, RequestOK, Via, KeyPhases
<1> DEFINE Turns(phase) == /\ DOMAIN request' = Requests /\ Only(r)
                          /\ request'[r] = [phase |-> phase, sent |-> request[r].sent,
                                           session |-> Saved(r), got |-> request[r].got]
<1>m. ASSUME NEW phase, Moves(r, phase) PROVE Turns(phase)
  BY <1>a, <1>m DEF Moves, Only, Saved
<1>w. ASSUME NEW phase \in Phases \ LockPhases, Turns(phase), request[r].phase \notin LockPhases,
             UNCHANGED <<grants, session, keylock, auth, spent, replaced>>
      PROVE  SessionKinds
  <2>1. Fresh(r) /\ request'[r].phase = phase
    BY <1>b, <1>w DEF Fresh, LockPhases
  <2> QED BY <1>w, <2>1 DEF SessionKinds, Wanders
<1>1. CASE Begin(r)
  BY <1>1, <1>m, <1>w DEF Begin, Phases, LockPhases, KeyPhases, AskPhases, Challenges
<1>l. ASSUME NEW phase \in {"renewing", "starting", "widening"}, Turns(phase), request[r].phase \notin LockPhases,
             Via(r).lock = None, auth' = [auth EXCEPT ![Owner(r)].lock = r],
             phase \in AskPhases => Via(r).token = request[r].sent,
             UNCHANGED <<grants, session, keylock, spent, replaced>>
      PROVE  SessionKinds
  <2>1. Fresh(r) /\ request'[r].phase = phase /\ phase \in LockPhases \ KeyPhases
    BY <1>b, <1>l DEF Fresh, LockPhases, KeyPhases, AskPhases, Phases
  <2>2. SetsAuth(r, r, Via(r).token)
    BY <1>a, <1>l, AuthLock DEF SetsAuth, Via
  <2>3. request'[r].sent = request[r].sent
    BY <1>l
  <2> QED BY <1>l, <2>1, <2>2, <2>3 DEF SessionKinds, TakesLock
<1>2. CASE Lock(r)
  BY <1>2, <1>m, <1>l DEF Lock, AskPhases, LockPhases, KeyPhases
\* Resend and Send: what the request is then.
<1>s. ASSUME NEW phase \in {"sent", "resent"}, NEW t \in {None} \cup Tokens,
             request' = [request EXCEPT ![r] = OnItsWay(phase, t)]
      PROVE  DOMAIN request' = Requests /\ Only(r) /\ Fresh(r) /\ request'[r].phase = phase /\ phase \notin LockPhases
  <2>1. request'[r] = [phase |-> phase, sent |-> t, session |-> None, got |-> None]
    BY <1>a, <1>s DEF OnItsWay
  <2> QED BY <1>a, <1>s, <2>1 DEF Only, Fresh, Phases, LockPhases, KeyPhases, AskPhases
<1>i. ASSUME request' = [request EXCEPT ![r] = Idle]
      PROVE  DOMAIN request' = Requests /\ Only(r) /\ Fresh(r) /\ request'[r].phase = "idle" /\ "idle" \notin LockPhases
  BY <1>a, <1>i DEF Only, Fresh, Phases, LockPhases, KeyPhases, AskPhases, Idle
<1>3. CASE MeetChallenge(r)
  <2>1. request[r].phase \in Challenges /\ request[r].phase \notin LockPhases /\ Via(r).lock = None
        /\ UNCHANGED <<grants, session, keylock, spent, replaced>>
    BY <1>3 DEF MeetChallenge, Challenges, LockPhases, KeyPhases, AskPhases
  <2>2. CASE Resend(r, Via(r).token)
    <3>1. auth' = auth
      BY <1>a, <1>b, <2>1, <2>2 DEF Resend
    <3>2. DOMAIN request' = Requests /\ Only(r) /\ Fresh(r) /\ request'[r].phase \notin LockPhases
      BY <1>b, <1>s, <2>2 DEF Resend
    <3> QED BY <2>1, <3>1, <3>2 DEF SessionKinds, Wanders
  <2>3. CASE Via(r).token = request[r].sent /\ auth' = [auth EXCEPT ![Owner(r)].lock = r]
             /\ Moves(r, IF request[r].phase = "unauthorized" THEN "starting" ELSE "widening")
    BY <1>m, <1>l, <2>1, <2>3
  <2> QED BY <1>3, <2>2, <2>3 DEF MeetChallenge
<1>4. CASE Answer(r)
  <2>1. request[r].phase \in {"sent", "resent"} /\ request[r].phase \notin LockPhases
    BY <1>4 DEF Answer, LockPhases, KeyPhases, AskPhases
  <2>2. PICK answer \in Answers(r, request[r].sent) :
          request' = [request EXCEPT ![r] = IF request[r].phase = "sent" /\ answer # "ok"
                                            THEN [request[r] EXCEPT !.phase = answer] ELSE Idle]
    BY <1>4 DEF Answer
  <2>3. answer \in Challenges \cup {"ok"}
    BY DEF Answers, Challenges
  <2>4. CASE request[r].phase = "sent" /\ answer # "ok"
    <3>1. Turns(answer)
      BY <1>a, <2>2, <2>4 DEF Only, Saved
    <3> QED BY <1>4, <1>w, <2>1, <2>3, <2>4, <3>1 DEF Answer, Phases, LockPhases, KeyPhases, AskPhases, Challenges
  <2>5. CASE ~(request[r].phase = "sent" /\ answer # "ok")
    BY <1>4, <1>i, <2>1, <2>2, <2>5 DEF Answer, SessionKinds, Wanders
  <2> QED BY <2>4, <2>5
\* r leaves its locks.
<1>g. ASSUME UNCHANGED <<grants, spent, replaced>>,
             DOMAIN request' = Requests, Only(r), Fresh(r), request'[r].phase \notin LockPhases,
             NEW t \in {None} \cup Tokens, t = Via(r).token \/ (session # None /\ t = session.token /\ keylock # r),
             auth' = [auth EXCEPT ![Owner(r)] = [lock |-> None, token |-> t]],
             Via(r).lock = r,
             keylock' = IF keylock = r THEN None ELSE keylock,
             session' \in {session, None},
             TasksFinish /\ keylock = r => request[r].phase = "stepping_up" \/ session' = None,
             TasksFinish /\ ~Happens("blip") => request[r].got = None
      PROVE  SessionKinds
  <2>1. SetsAuth(r, IF Via(r).lock = r THEN None ELSE Via(r).lock, t)
    BY <1>g DEF SetsAuth
  <2>2. LetsGo(r)
    BY <1>g, <2>1 DEF LetsGo
  <2> QED BY <2>2 DEF SessionKinds
<1>h. request[r].phase \in LockPhases => Via(r).lock = r
  BY <1>a DEF RequestOK
<1>k. /\ request[r].phase \in KeyPhases <=> keylock = r
      /\ request[r].got # None => request[r].phase = "refreshing"
  BY <1>a DEF RequestOK
<1>n. session # None => session \in Sessions /\ session.token \in Tokens
  BY DEF Session, SessionOK, Sessions
<1>f. ASSUME Fails(r), request[r].phase \in {"starting", "widening", "stepping_up"}, session' = session,
             keylock' = IF keylock = r THEN None ELSE keylock, UNCHANGED <<grants, spent, replaced>>
      PROVE  SessionKinds
  <2>1. auth' = [auth EXCEPT ![Owner(r)] = [lock |-> None, token |-> Via(r).token]]
    BY <1>a, <1>f, AuthLock DEF Fails, Via
  <2>2. request[r].phase \in LockPhases /\ request[r].got = None
        /\ (keylock = r => request[r].phase = "stepping_up")
    BY <1>f, <1>k DEF LockPhases, AskPhases, KeyPhases
  <2>3. DOMAIN request' = Requests /\ Only(r) /\ Fresh(r) /\ request'[r].phase \notin LockPhases
    BY <1>f, <1>i DEF Fails
  <2> QED BY <1>b, <1>f, <1>g, <1>h, <2>1, <2>2, <2>3
<1>o. ASSUME NEW t \in {None} \cup Tokens, Send(r, t),
             UNCHANGED <<grants, spent, replaced>>,
             t = Via(r).token \/ (session # None /\ t = session.token /\ keylock # r),
             request[r].phase \in LockPhases,
             keylock' = IF keylock = r THEN None ELSE keylock,
             session' \in {session, None},
             TasksFinish /\ keylock = r => session' = None,
             TasksFinish /\ ~Happens("blip") => request[r].got = None
      PROVE  SessionKinds
  <2>1. DOMAIN request' = Requests /\ Only(r) /\ Fresh(r) /\ request'[r].phase \notin LockPhases
    BY <1>o, <1>s DEF Send
  <2>2. auth' = [auth EXCEPT ![Owner(r)] = [lock |-> None, token |-> t]]
    BY <1>o DEF Send
  <2> QED BY <1>g, <1>h, <1>o, <2>1, <2>2
<1>p. ASSUME NEW phase \in {"refreshing", "stepping_up"}, MovesWithSession(r, phase), session # None,
             request[r].phase \in {"renewing", "widening"}, keylock = None, keylock' = r,
             phase = "stepping_up" => session.steps < MaxStepUps /\ request[r].phase = "widening",
             UNCHANGED <<grants, session, auth, spent, replaced>>
      PROVE  SessionKinds
  <2>1. request[r].got = None
    BY <1>k, <1>p
  <2>2. request'[r] = [phase |-> phase, sent |-> request[r].sent, session |-> session, got |-> None]
    BY <1>a, <1>p, <2>1 DEF MovesWithSession
  <2>3. DOMAIN request' = Requests /\ Only(r)
    BY <1>a, <1>p DEF MovesWithSession, Only
  <2>4. request[r].phase \in LockPhases
    BY <1>p DEF LockPhases, AskPhases
  <2> QED BY <1>b, <1>p, <2>2, <2>3, <2>4 DEF SessionKinds, TakesKey
<1>5. CASE Renew(r)
  <2>1. request[r].phase = "renewing" /\ keylock = None /\ UNCHANGED <<grants, session, spent, replaced>>
        /\ request[r].phase \in LockPhases /\ request[r].got = None /\ keylock # r
    BY <1>5, <1>a, <1>k DEF Renew, LockPhases
  <2>2. CASE session = None /\ Send(r, Via(r).token) /\ UNCHANGED keylock
    BY <1>b, <1>o, <2>1, <2>2
  <2>3. CASE session # None /\ ~session.aging /\ Send(r, session.token) /\ UNCHANGED keylock
    BY <1>n, <1>o, <2>1, <2>3
  <2>4. CASE session # None /\ session.aging /\ keylock' = r /\ MovesWithSession(r, "refreshing") /\ UNCHANGED auth
    BY <1>p, <2>1, <2>4
  <2> QED BY <1>5, <2>2, <2>3, <2>4 DEF Renew
<1>6. CASE Widen(r)
  <2>1. request[r].phase = "widening" /\ keylock = None /\ UNCHANGED <<grants, session, spent, replaced>> /\ keylock # r
    BY <1>6, <1>a DEF Widen
  <2>2. CASE Fails(r) /\ UNCHANGED keylock
    BY <1>f, <2>1, <2>2
  <2>3. CASE MayWiden /\ keylock' = r /\ MovesWithSession(r, "stepping_up") /\ UNCHANGED auth
    BY <1>p, <2>1, <2>3 DEF MayWiden
  <2> QED BY <1>6, <2>2, <2>3 DEF Widen
<1>7. CASE Denied(r)
  BY <1>7, <1>f DEF Denied
<1>8. CASE NotRenewed(r)
  <2>1. /\ request[r].phase \in {"refused", "refreshing"} /\ request[r].phase \in LockPhases /\ keylock = r
        /\ (~Happens("blip") => request[r].got = None)
    BY <1>8, <1>k DEF NotRenewed, LockPhases, KeyPhases
  <2>2. session' = None /\ keylock' = None /\ Send(r, Via(r).token) /\ UNCHANGED <<grants, spent, replaced>>
    BY <1>8 DEF NotRenewed
  <2> QED BY <1>b, <1>o, <2>1, <2>2
<1>9. CASE CancelRequest(r)
  <2>1. ~TasksFinish
    BY <1>9 DEF CancelRequest, Happens, TasksFinish
  <2> QED BY <1>9, <2>1, DropMoves DEF CancelRequest
<1>10. CASE Refreshed(r)
  <2> DEFINE t == Saved(r).token
  <2>1. /\ request[r].phase = "refreshing" /\ request[r].got = None
        /\ UNCHANGED <<session, keylock, auth, replaced>>
        /\ spent' = [once |-> spent.once \cup {t},
                     again |-> IF t \in spent.once THEN spent.again \cup {t} ELSE spent.again]
    BY <1>10 DEF Refreshed
  <2>2. CASE /\ Refreshable(t) /\ grants' = [grants EXCEPT ![t.grant].serial = t.serial + 1]
             /\ request' = [request EXCEPT ![r].got = Token(t.grant, t.serial + 1, t.wide)]
    <3>1. request'[r] = [phase |-> "refreshing", sent |-> request[r].sent, session |-> Saved(r),
                         got |-> [grant |-> t.grant, serial |-> t.serial + 1, wide |-> t.wide]]
      BY <1>a, <2>1, <2>2 DEF Token, Saved
    <3>2. DOMAIN request' = Requests /\ Only(r) /\ grants[t.grant].serial = t.serial
      BY <1>a, <2>2 DEF Only, Refreshable
    <3> QED BY <2>1, <2>2, <3>1, <3>2 DEF SessionKinds, Rotates
  <2>3. CASE Moves(r, "refused") /\ UNCHANGED grants
    <3>1. Turns("refused")
      BY <1>m, <2>3
    <3> QED BY <2>1, <2>3, <3>1 DEF SessionKinds, Rotates
  <2> QED BY <1>10, <2>2, <2>3 DEF Refreshed
<1>11. CASE Renewed(r)
  <2>1. /\ request[r].phase = "refreshing" /\ request[r].got # None
        /\ session' = [Saved(r) EXCEPT !.token = request[r].got, !.aging = FALSE]
        /\ Send(r, request[r].got) /\ keylock' = None /\ UNCHANGED <<grants, spent, replaced>>
    BY <1>11 DEF Renewed
  <2>2. keylock = r /\ Saved(r) \in Sessions /\ request[r].got \in Tokens
    BY <1>a, <2>1 DEF RequestOK, KeyPhases, Saved
  <2>3. session' \in Sessions /\ session'.token = request[r].got
    BY <2>1, <2>2 DEF Sessions
  <2>4. DOMAIN request' = Requests /\ Only(r) /\ Fresh(r) /\ request'[r].phase = "sent"
    BY <1>s, <2>1, <2>2 DEF Send
  <2>5. auth' = [auth EXCEPT ![Owner(r)] = [lock |-> None, token |-> request[r].got]]
    BY <2>1 DEF Send
  <2>6. SetsAuth(r, None, request[r].got)
    BY <2>5 DEF SetsAuth
  <2> QED BY <2>1, <2>3, <2>4, <2>6 DEF SessionKinds, Keeps
<1>u. ASSUME NEW wide \in BOOLEAN, NEW steps \in 0..MaxStepUps, Granted(r, wide, steps), UNCHANGED spent,
             keylock' = IF keylock = r THEN None ELSE keylock,
             request[r].phase \in {"starting", "stepping_up"}
      PROVE  SessionKinds
  <2> DEFINE t == [grant |-> Len(grants) + 1, serial |-> 1, wide |-> wide]
  <2>1. t \in Tokens
    BY DEF Session, GrantsOK, Tokens
  <2>2. session' = [token |-> t, aging |-> FALSE, steps |-> steps]
        /\ grants' = Append(grants, [serial |-> 1, live |-> TRUE]) /\ Resend(r, t)
        /\ replaced' = [replaced EXCEPT ![Owner(r)] = Append(replaced[Owner(r)], request[r].sent)]
    BY <1>u DEF Granted, Token, Grant
  <2>3. request[r].sent = Via(r).token
    BY <1>a, <1>u DEF RequestOK, AskPhases
  <2> HIDE DEF t
  <2>4. session' \in Sessions /\ session'.token = t
    BY <2>1, <2>2 DEF Sessions
  <2>5. t = [grant |-> Len(grants) + 1, serial |-> 1, wide |-> session'.token.wide]
    BY <2>4 DEF t
  <2>6. DOMAIN request' = Requests /\ Only(r) /\ Fresh(r) /\ request'[r].phase = "resent"
    BY <1>s, <2>1, <2>2 DEF Resend
  <2>7. SetsAuth(r, None, t)
    BY <2>2 DEF Resend, SetsAuth
  <2> QED BY <1>u, <2>2, <2>3, <2>4, <2>5, <2>6, <2>7 DEF SessionKinds, SignsIn
<1>12. CASE Started(r)
  <2>1. keylock # r
    BY <1>12, <1>k DEF Started, KeyPhases
  <2>2. /\ Granted(r, FALSE, 0) /\ UNCHANGED spent /\ request[r].phase = "starting"
        /\ keylock' = IF keylock = r THEN None ELSE keylock
    BY <1>12, <2>1 DEF Started
  <2>3. FALSE \in BOOLEAN /\ 0 \in 0..MaxStepUps
    BY NoneIsNothing
  <2> QED BY <1>u, <2>2, <2>3
<1>13. CASE SteppedUp(r)
  <2>1. keylock = r /\ Saved(r) \in Sessions /\ Saved(r).steps < MaxStepUps
    BY <1>a, <1>13, <1>k DEF SteppedUp, RequestOK, KeyPhases, Saved
  <2>2. Saved(r).steps + 1 \in 0..MaxStepUps
    BY <2>1, NoneIsNothing DEF Sessions
  <2> QED BY <1>13, <1>u, <2>1, <2>2 DEF SteppedUp
<1> QED BY <1>1, <1>2, <1>3, <1>4, <1>5, <1>6, <1>7, <1>8, <1>9, <1>10, <1>11, <1>12, <1>13 DEF RequestStep

-----------------------------------------------------------------------------
(* Every kind of step keeps the invariant of the session *)

\* Grants are only added and renewed: what was given out stays given out.
LEMMA IssuedStays ==
  ASSUME Session, SessionMoves
  PROVE  GrantsOK' /\ \A t \in Tokens : Issued(t) => Issued(t)'
<1>1. CASE UNCHANGED grants
  BY <1>1 DEF Session, GrantsOK, Issued
<1>2. CASE Dies
  BY <1>2 DEF Session, GrantsOK, Issued, Dies
<1>3. ASSUME NEW r \in Requests, SignsIn(r) PROVE GrantsOK' /\ \A t \in Tokens : Issued(t) => Issued(t)'
  BY <1>3 DEF SignsIn, Session, GrantsOK, Issued, Grants
<1>4. ASSUME NEW r \in Requests, Rotates(r) PROVE GrantsOK' /\ \A t \in Tokens : Issued(t) => Issued(t)'
  <2>1. request[r].phase = "refreshing" /\ RequestOK(r) /\ Saved(r) \in Sessions /\ Issued(Saved(r).token)
    BY <1>4, RequestFacts DEF Rotates, RequestOK, KeyPhases, Saved
  <2> DEFINE u == Saved(r).token
  <2>2. u \in Tokens /\ u.grant \in DOMAIN grants /\ u.serial + 1 \in Nat \ {0}
    BY <2>1 DEF Issued, Sessions, Tokens
  <2> HIDE DEF u
  <2>3. CASE grants' = [grants EXCEPT ![u.grant].serial = u.serial + 1] /\ grants[u.grant].serial = u.serial
    <3> DEFINE x == [grants[u.grant] EXCEPT !.serial = u.serial + 1]
    <3>1. grants \in Seq(Grants) /\ DOMAIN grants = 1..Len(grants) /\ Len(grants) \in Nat
      BY DEF Session, GrantsOK
    <3>2. grants[u.grant] \in Grants
      BY <2>2, <3>1
    <3>3. x \in Grants /\ x.serial = u.serial + 1 /\ grants' = [grants EXCEPT ![u.grant] = x]
      <4>1. x \in Grants /\ x.serial = u.serial + 1
        BY <2>2, <3>2 DEF Grants
      <4>2. grants' = [grants EXCEPT ![u.grant] = x]
        BY <2>3
      <4> QED BY <4>1, <4>2
    <3> HIDE DEF x
    <3>4. grants' \in Seq(Grants) /\ DOMAIN grants' = DOMAIN grants
      BY <2>2, <3>1, <3>3
    <3>5. \A g \in DOMAIN grants : grants'[g].serial = IF g = u.grant THEN u.serial + 1 ELSE grants[g].serial
      BY <2>2, <3>1, <3>3
    <3>6. \A t \in Tokens : Issued(t) => Issued(t)'
      BY <2>2, <2>3, <3>4, <3>5 DEF Issued, Tokens
    <3> QED BY <3>4, <3>6 DEF GrantsOK
  <2> QED BY <1>1, <1>4, <2>3 DEF Rotates, u
<1> QED BY <1>1, <1>2, <1>3, <1>4 DEF SessionMoves, SessionKinds, sessionVars, Fades, Wanders, TakesLock, TakesKey, LetsGo, Keeps

\* What the connections know after r has set the header of its own.
LEMMA AuthAfter ==
  ASSUME Session, NEW r \in Requests, NEW l \in {None} \cup Requests, NEW t \in {None} \cup Tokens, SetsAuth(r, l, t)
  PROVE  /\ auth' \in [Connections -> [lock: {None} \cup Requests, token: {None} \cup Tokens]]
         /\ \A a \in Connections : a # Owner(r) => auth'[a] = auth[a]
         /\ auth'[Owner(r)].lock = l /\ auth'[Owner(r)].token = t
  BY RequestFacts DEF SetsAuth

\* What a step of r leaves of another request.
LEMMA OtherRequest ==
  ASSUME Session, SessionMoves, NEW r \in Requests, NEW q \in Requests, q # r, Only(r),
         auth' = auth \/ \E l \in {None, r, Via(r).lock}, t \in {None} \cup Tokens :
                           SetsAuth(r, l, t) /\ (Via(r).lock \in {None, r} \/ l = Via(r).lock)
                           /\ (Via(r).lock = r \/ t = Via(r).token),
         keylock' = q <=> keylock = q,
         request[q].got # None => grants' = grants \/ grants'[request[q].got.grant] = grants[request[q].got.grant]
  PROVE  RequestOK(q)'
<1>1. RequestOK(q) /\ Owner(q) \in Connections /\ q # None /\ r # None /\ request'[q] = request[q]
      /\ Owner(r) \in Connections /\ AuthOK(Owner(r)) /\ AuthOK(Owner(q))
  BY RequestFacts DEF Only
<1>2. (Via(q)'.lock = q <=> Via(q).lock = q) /\ (Via(q).lock = q => Via(q)'.token = Via(q).token)
  <2>1. CASE auth' = auth
    BY <2>1 DEF Via
  <2>2. ASSUME NEW l \in {None, r, Via(r).lock}, NEW t \in {None} \cup Tokens, SetsAuth(r, l, t),
               Via(r).lock \in {None, r} \/ l = Via(r).lock, Via(r).lock = r \/ t = Via(r).token
        PROVE  (Via(q)'.lock = q <=> Via(q).lock = q) /\ (Via(q).lock = q => Via(q)'.token = Via(q).token)
    <3>1. l \in {None} \cup Requests
      BY <1>1 DEF Via, Session
    <3>2. /\ \A a \in Connections : a # Owner(r) => auth'[a] = auth[a]
          /\ auth'[Owner(r)].lock = l /\ auth'[Owner(r)].token = t
      BY <2>2, <3>1, AuthAfter
    <3> QED BY <1>1, <2>2, <3>2 DEF Via
  <2> QED BY <2>1, <2>2
<1>3. \A t \in Tokens : Issued(t) => Issued(t)'
  BY IssuedStays
<1>4. request[q].phase \in AskPhases => Via(q).lock = q
  BY <1>1 DEF RequestOK, LockPhases
<1>5. Saved(q)' = Saved(q)
  BY <1>1 DEF Saved
<1>6. keylock = q => Saved(q) \in Sessions /\ Saved(q).token \in Tokens
  BY <1>1 DEF RequestOK, Saved, Sessions
<1>7. request[q].got # None => request[q].got.grant \in DOMAIN grants' /\ request[q].got.serial = grants'[request[q].got.grant].serial
  <2>1. request[q].got # None => keylock = q /\ request[q].got.grant = Saved(q).token.grant
    BY <1>1 DEF RequestOK, KeyPhases
  <2>2. keylock = q => Saved(q).token.grant \in DOMAIN grants'
    BY <1>1, <1>3, <1>6 DEF RequestOK, Issued
  <2>3. request[q].got # None => Saved(q).token.grant \in DOMAIN grants'
    BY <2>1, <2>2
  <2> QED BY <1>1, <2>1, <2>3 DEF RequestOK
<1> DEFINE u == request[q].session.token
<1>8. keylock' = q => u.grant \in DOMAIN grants' /\ u.serial <= grants'[u.grant].serial
  BY <1>1, <1>3, <1>6 DEF RequestOK, Issued, Saved
<1> HIDE DEF u
<1>9. keylock' = q => Saved(q)' # None /\ Issued(Saved(q).token)'
  BY <1>1, <1>5, <1>8 DEF RequestOK, Issued, Saved, u
<1> QED BY <1>1, <1>2, <1>4, <1>5, <1>7, <1>9 DEF RequestOK

\* The session after a step of each kind, one after the other: outside of all locks.
LEMMA SessionWanders ==
  ASSUME Session, NEW r \in Requests, Wanders(r)
  PROVE  Session'
<1>1. /\ request'[r] \in [phase: Phases \ LockPhases, sent: {None} \cup Tokens, session: {None}, got: {None}]
      /\ auth' = auth /\ keylock' = keylock /\ grants' = grants /\ session' = session /\ replaced' = replaced
      /\ DOMAIN request' = Requests /\ \A q \in Requests \ {r} : request'[q] = request[q]
      /\ request[r].phase \notin LockPhases
  BY DEF Wanders, Fresh, Only
<1>2. request'[r].got = None /\ request'[r].session = None /\ request'[r].phase \in Phases \ LockPhases
  BY <1>1
<1>3. ASSUME NEW q \in Requests PROVE RequestOK(q)'
  <2>1. CASE q = r
    <3>1. RequestOK(r) /\ r # None
      BY RequestFacts
    <3>2. ~(request'[r].phase \in LockPhases) /\ ~(request'[r].phase \in KeyPhases)
          /\ ~(request'[r].phase \in AskPhases) /\ request'[r].phase # "stepping_up"
      BY <1>2 DEF LockPhases, KeyPhases
    <3>3. Via(r).lock # r /\ keylock # r
      BY <1>1, <3>1 DEF RequestOK, LockPhases
    <3>4. request'[r] \in [phase: Phases, sent: {None} \cup Tokens, session: {None} \cup Sessions, got: {None} \cup Tokens]
      BY <1>1
    <3> QED BY <1>1, <1>2, <2>1, <3>2, <3>3, <3>4 DEF RequestOK, Via, Saved
  <2>2. CASE q # r
    BY <1>1, <2>2 DEF Session, RequestOK, Via, Saved, Issued
  <2> QED BY <2>1, <2>2
<1>4. ASSUME NEW a \in Connections PROVE ReplacedOK(a)' /\ AuthOK(a)'
  BY <1>1, <1>2 DEF Session, ReplacedOK, AuthOK, Issued
<1>5. GotIsNew'
  BY <1>1, <1>2 DEF Session, GotIsNew
<1> QED BY <1>1, <1>3, <1>4, <1>5 DEF Session, GrantsOK, SessionOK, Issued

\* The lock of the connection is taken.
LEMMA SessionTakesLock ==
  ASSUME Session, NEW r \in Requests, TakesLock(r)
  PROVE  Session'
<1>0. RequestOK(r) /\ r # None /\ Owner(r) \in Connections /\ Via(r).token \in {None} \cup Tokens
  BY RequestFacts DEF Via
<1>1. /\ request'[r] \in [phase: Phases, sent: {None} \cup Tokens, session: {None}, got: {None}]
      /\ keylock' = keylock /\ grants' = grants /\ session' = session /\ replaced' = replaced
      /\ DOMAIN request' = Requests /\ \A q \in Requests \ {r} : request'[q] = request[q]
      /\ auth[Owner(r)].lock = None /\ request[r].phase \notin LockPhases
      /\ request'[r].phase \in AskPhases => request'[r].sent = Via(r).token
      /\ request'[r].phase \in LockPhases \ KeyPhases
  BY DEF TakesLock, Fresh, Only, Via
<1>2. request'[r].got = None /\ request'[r].session = None
  BY <1>1
<1>3. /\ auth' \in [Connections -> [lock: {None} \cup Requests, token: {None} \cup Tokens]]
      /\ \A a \in Connections : a # Owner(r) => auth'[a] = auth[a]
      /\ auth'[Owner(r)].lock = r /\ auth'[Owner(r)].token = auth[Owner(r)].token
  BY <1>0, AuthAfter DEF TakesLock, Via
<1>4. ASSUME NEW q \in Requests PROVE RequestOK(q)'
  <2>1. CASE q = r
    <3>1. keylock # r /\ request'[r].phase # "stepping_up"
      BY <1>0, <1>1 DEF RequestOK, LockPhases, KeyPhases
    <3>2. request'[r] \in [phase: Phases, sent: {None} \cup Tokens, session: {None} \cup Sessions, got: {None} \cup Tokens]
      BY <1>1
    <3> QED BY <1>1, <1>2, <1>3, <2>1, <3>1, <3>2 DEF RequestOK, Via, Saved
  <2>2. CASE q # r
    <3>1. RequestOK(q) /\ Owner(q) \in Connections /\ q # None
      BY RequestFacts
    <3>2. Via(q)'.token = Via(q).token /\ (Via(q)'.lock = q <=> Via(q).lock = q)
      BY <1>1, <1>3, <2>2, <3>1 DEF Via
    <3>3. request'[q] = request[q] /\ Saved(q)' = Saved(q) /\ grants' = grants /\ keylock' = keylock
      BY <1>1, <2>2 DEF Saved
    <3>4. \A t : Issued(t)' <=> Issued(t)
      BY <3>3 DEF Issued
    <3> QED BY <3>1, <3>2, <3>3, <3>4 DEF RequestOK
  <2> QED BY <2>1, <2>2
<1>5. ASSUME NEW a \in Connections PROVE ReplacedOK(a)' /\ AuthOK(a)'
  <2>1. auth'[a].token = auth[a].token /\ (auth'[a].lock # None => Owner(auth'[a].lock) = a)
    BY <1>3 DEF Session, AuthOK
  <2>2. \A t : Issued(t)' <=> Issued(t)
    BY <1>1 DEF Issued
  <2>3. AuthOK(a)'
    BY <2>1, <2>2 DEF Session, AuthOK
  <2>4. \A q \in Requests : request'[q].got # None => q # r /\ request'[q].got = request[q].got
    BY <1>1, <1>2
  <2>5. ReplacedOK(a)'
    BY <1>1, <2>1, <2>2, <2>4 DEF Session, ReplacedOK
  <2> QED BY <2>3, <2>5
<1>6. GotIsNew'
  <2>1. \A a \in Connections : auth'[a].token = auth[a].token
    BY <1>3
  <2> QED BY <1>1, <1>2, <2>1 DEF Session, GotIsNew
<1> QED BY <1>1, <1>3, <1>4, <1>5, <1>6 DEF Session, GrantsOK, SessionOK, Issued

\* The lock of the key is taken, and the session read.
LEMMA SessionTakesKey ==
  ASSUME Session, SessionMoves, NEW r \in Requests, TakesKey(r)
  PROVE  Session'
<1>0. RequestOK(r) /\ r # None /\ Owner(r) \in Connections
  BY RequestFacts
<1>1. /\ grants' = grants /\ session' = session /\ auth' = auth /\ replaced' = replaced
      /\ DOMAIN request' = Requests /\ Only(r) /\ keylock = None /\ keylock' = r /\ session # None
      /\ request[r].phase \in LockPhases
      /\ request'[r] \in [phase: {"refreshing", "stepping_up"}, sent: {None} \cup Tokens,
                          session: {session}, got: {None}]
      /\ request'[r].phase = "stepping_up" =>
           session.steps < MaxStepUps /\ request'[r].sent = request[r].sent /\ request[r].phase = "widening"
  BY DEF TakesKey
<1>2. /\ request'[r].got = None /\ request'[r].session = session /\ request'[r].phase \in {"refreshing", "stepping_up"}
      /\ session \in Sessions /\ session.token \in Tokens /\ Issued(session.token)
  BY <1>1 DEF Session, SessionOK, Sessions
<1>3. ASSUME NEW q \in Requests PROVE RequestOK(q)'
  <2>1. CASE q = r
    <3>1. request'[r] \in [phase: Phases, sent: {None} \cup Tokens, session: {None} \cup Sessions, got: {None} \cup Tokens]
      BY <1>1, <1>2 DEF Phases, LockPhases, KeyPhases
    <3>2. auth'[Owner(r)].lock = r /\ request'[r].phase \in LockPhases /\ request'[r].phase \in KeyPhases
      BY <1>0, <1>1, <1>2 DEF RequestOK, Via, LockPhases, KeyPhases
    <3>3. request'[r].phase \in AskPhases => request'[r].sent = auth'[Owner(r)].token
      BY <1>0, <1>1, <1>2 DEF RequestOK, Via, AskPhases
    <3> QED BY <1>1, <1>2, <2>1, <3>1, <3>2, <3>3, NoneIsNothing DEF RequestOK, Via, Saved, Issued
  <2>2. CASE q # r
    <3>1. keylock # q /\ keylock' # q
      BY <1>1, <2>2, NoneIsNothing
    <3> QED BY <1>1, <2>2, <3>1, OtherRequest
  <2> QED BY <2>1, <2>2
<1>g. \A q \in Requests : request'[q].got # None => request'[q].got = request[q].got
  BY <1>1, <1>2 DEF Only
<1>4. ASSUME NEW a \in Connections PROVE ReplacedOK(a)' /\ AuthOK(a)'
  <2>1. ReplacedOK(a) /\ AuthOK(a)
    BY DEF Session
  <2> QED BY <1>1, <1>g, <2>1 DEF ReplacedOK, AuthOK, Issued
<1>5. GotIsNew'
  BY <1>1, <1>2 DEF Session, GotIsNew, Only
<1> QED BY <1>1, <1>3, <1>4, <1>5 DEF Session, GrantsOK, SessionOK, Issued

\* All locks are freed.
LEMMA SessionLetsGo ==
  ASSUME Session, SessionMoves, NEW r \in Requests, LetsGo(r)
  PROVE  Session'
<1>0. RequestOK(r) /\ r # None /\ Owner(r) \in Connections /\ AuthOK(Owner(r)) /\ Via(r).lock \in {None} \cup Requests
  BY RequestFacts DEF Via
<1>1. /\ grants' = grants /\ replaced' = replaced
      /\ DOMAIN request' = Requests /\ Only(r)
      /\ keylock' = (IF keylock = r THEN None ELSE keylock) /\ session' \in {session, None}
      /\ request'[r] \in [phase: Phases, sent: {None} \cup Tokens, session: {None}, got: {None}]
      /\ request'[r].phase \notin LockPhases
  BY DEF LetsGo, Fresh
<1>2. request'[r].got = None /\ request'[r].session = None
  BY <1>1
<1> DEFINE l == IF Via(r).lock = r THEN None ELSE Via(r).lock
<1>3. PICK t \in {None} \cup Tokens :
        /\ t = Via(r).token \/ (session # None /\ t = session.token /\ keylock # r /\ Via(r).lock = r)
        /\ SetsAuth(r, l, t)
  BY DEF LetsGo
<1>4. l \in {None} \cup Requests /\ l # r /\ l \in {None, Via(r).lock}
  BY <1>0
<1> HIDE DEF l
<1>5. /\ auth' \in [Connections -> [lock: {None} \cup Requests, token: {None} \cup Tokens]]
      /\ \A a \in Connections : a # Owner(r) => auth'[a] = auth[a]
      /\ auth'[Owner(r)].lock = l /\ auth'[Owner(r)].token = t
  BY <1>3, <1>4, AuthAfter
<1>6. \A u : Issued(u)' <=> Issued(u)
  BY <1>1 DEF Issued
<1>7. ASSUME NEW q \in Requests PROVE RequestOK(q)'
  <2>1. CASE q = r
    <3>1. request'[r] \in [phase: Phases, sent: {None} \cup Tokens, session: {None} \cup Sessions, got: {None} \cup Tokens]
      BY <1>1
    <3>2. /\ request'[r].phase \notin LockPhases /\ request'[r].phase \notin KeyPhases
          /\ request'[r].phase \notin AskPhases /\ request'[r].phase # "stepping_up"
          /\ keylock' # r /\ Via(r)'.lock # r
      BY <1>0, <1>1, <1>4, <1>5 DEF LockPhases, KeyPhases, Via
    <3> QED BY <1>2, <2>1, <3>1, <3>2 DEF RequestOK, Saved
  <2>2. CASE q # r
    <3>1. keylock' = q <=> keylock = q
      BY <1>0, <1>1, <2>2, NoneIsNothing
    <3>2. Via(r).lock = r \/ t = Via(r).token
      BY <1>3
    <3>3. Via(r).lock \in {None, r} \/ l = Via(r).lock
      BY DEF l
    <3>4. l \in {None, r, Via(r).lock}
      BY <1>4
    <3> QED BY <1>1, <1>3, <2>2, <3>1, <3>2, <3>3, <3>4, OtherRequest
  <2> QED BY <2>1, <2>2
<1>8. \A a \in Connections : auth'[a].token = auth[a].token \/ (session # None /\ keylock # r /\ auth'[a].token = session.token)
  BY <1>3, <1>5 DEF Via
<1>9. \A q \in Requests : request'[q].got # None => q # r /\ request'[q].got = request[q].got /\ request[q].got # None
  BY <1>1, <1>2 DEF Only
<1>10. ASSUME NEW a \in Connections PROVE ReplacedOK(a)' /\ AuthOK(a)'
  <2>1. auth'[a].lock # None => Owner(auth'[a].lock) = a
    BY <1>0, <1>4, <1>5 DEF Session, AuthOK, Via
  <2>2. ReplacedOK(a) /\ AuthOK(a) /\ SessionOK
    BY DEF Session
  <2>3. AuthOK(a)'
    BY <1>1, <1>8, <2>1, <2>2 DEF AuthOK, SessionOK, Issued
  <2>4. \A i \in DOMAIN replaced[a] : replaced[a][i] # auth'[a].token
    BY <1>8, <2>2 DEF ReplacedOK
  <2>5. ReplacedOK(a)'
    BY <1>1, <1>9, <2>2, <2>4 DEF ReplacedOK, Issued
  <2> QED BY <2>3, <2>5
<1>11. GotIsNew'
  BY <1>1, <1>8, <1>9 DEF Session, GotIsNew
<1>12. keylock' \in {None} \cup Requests
  BY <1>1 DEF Session
<1> QED BY <1>1, <1>5, <1>6, <1>7, <1>10, <1>11, <1>12 DEF Session, GrantsOK, SessionOK

\* Nobody holds the session that changes: logouts, expiry and revocation.
LEMMA SessionFades ==
  ASSUME Session, Fades \/ Dies \/ UNCHANGED sessionVars, SessionMoves
  PROVE  Session'
<1>1. /\ keylock' = keylock /\ auth' = auth /\ request' = request /\ replaced' = replaced
      /\ session' # None => session' \in Sessions /\ session # None /\ session'.token = session.token
      /\ DOMAIN grants' = DOMAIN grants /\ \A g \in DOMAIN grants : grants'[g].serial = grants[g].serial
  <2>1. CASE Fades
    BY <2>1 DEF Fades
  <2>2. CASE Dies
    BY <2>2 DEF Dies, Session, SessionOK, GrantsOK
  <2>3. CASE UNCHANGED sessionVars
    BY <2>3 DEF sessionVars, Session, SessionOK
  <2> QED BY <2>1, <2>2, <2>3
<1>2. \A t : Issued(t)' <=> Issued(t)
  BY <1>1 DEF Issued
<1>3. GrantsOK'
  BY IssuedStays
<1>4. ASSUME NEW q \in Requests PROVE RequestOK(q)'
  <2>1. RequestOK(q) /\ Via(q)' = Via(q) /\ Saved(q)' = Saved(q)
    BY <1>1 DEF Session, Via, Saved
  <2> QED BY <1>1, <1>2, <2>1 DEF RequestOK
<1>5. ASSUME NEW a \in Connections PROVE ReplacedOK(a)' /\ AuthOK(a)'
  BY <1>1, <1>2 DEF Session, ReplacedOK, AuthOK
<1>6. GotIsNew' /\ SessionOK'
  BY <1>1, <1>2 DEF Session, GotIsNew, SessionOK
<1> QED BY <1>1, <1>3, <1>4, <1>5, <1>6 DEF Session

\* The authorization server rotates a token.
LEMMA SessionRotates ==
  ASSUME Session, SessionMoves, NEW r \in Requests, Rotates(r)
  PROVE  Session'
<1>0. RequestOK(r) /\ r # None /\ Owner(r) \in Connections
  BY RequestFacts
<1> DEFINE t == Saved(r).token
           new == [grant |-> t.grant, serial |-> t.serial + 1, wide |-> t.wide]
<1>1. /\ session' = session /\ keylock' = keylock /\ auth' = auth /\ replaced' = replaced
      /\ DOMAIN request' = Requests /\ Only(r)
      /\ request[r].phase = "refreshing" /\ request[r].got = None
  BY DEF Rotates
<1>2. keylock = r /\ Saved(r) \in Sessions /\ t \in Tokens /\ Issued(t) /\ new \in Tokens /\ Saved(r) # None
  <2>1. keylock = r
    BY <1>0, <1>1 DEF RequestOK, KeyPhases
  <2>2. Saved(r) \in Sessions /\ Issued(t) /\ Saved(r) # None
    BY <1>0, <2>1 DEF RequestOK, Saved
  <2>3. t \in Tokens
    BY <2>2 DEF Sessions
  <2> QED BY <2>1, <2>2, <2>3 DEF Tokens
<1>3. \A u \in Tokens : Issued(u) => Issued(u)'
  BY IssuedStays
<1>4. /\ request'[r].sent = request[r].sent /\ request'[r].session = Saved(r)
      /\ request'[r].phase \in {"refreshing", "refused"}
      /\ \/ request'[r].got = None
         \/ /\ request'[r].got = new /\ request'[r].phase = "refreshing" /\ ~Issued(new)
            /\ new.grant \in DOMAIN grants' /\ new.serial = grants'[new.grant].serial
      /\ DOMAIN request'[r] = {"phase", "sent", "session", "got"}
      /\ request'[r] \in [phase: Phases, sent: {None} \cup Tokens, session: {None} \cup Sessions, got: {None} \cup Tokens]
  <2>1. t.grant \in DOMAIN grants /\ t.serial \in Nat /\ request[r].sent \in {None} \cup Tokens
        /\ {"refreshing", "refused"} \subseteq Phases
    BY <1>0, <1>2 DEF Issued, Tokens, RequestOK, Phases, LockPhases, KeyPhases
  <2>2. CASE /\ grants[t.grant].serial = t.serial
             /\ grants' = [grants EXCEPT ![t.grant].serial = t.serial + 1]
             /\ request'[r] = [phase |-> "refreshing", sent |-> request[r].sent, session |-> Saved(r), got |-> new]
    <3>1. t.grant \in DOMAIN grants' /\ grants'[t.grant].serial = t.serial + 1
      <4>1. grants[t.grant] \in Grants /\ t.grant \in DOMAIN grants
        BY <2>1 DEF Session, GrantsOK
      <4> QED BY <2>2, <4>1 DEF Grants
    <3>2. ~Issued(new)
      BY <2>1, <2>2 DEF Issued
    <3> QED BY <1>2, <2>1, <2>2, <3>1, <3>2
  <2>3. CASE request'[r] = [phase |-> "refused", sent |-> request[r].sent, session |-> Saved(r), got |-> None]
    BY <1>2, <2>1, <2>3
  <2> QED BY <2>2, <2>3 DEF Rotates
<1> HIDE DEF new
<1>5. ASSUME NEW q \in Requests PROVE RequestOK(q)'
  <2>1. CASE q = r
    <3>1. /\ request'[r].phase \in LockPhases /\ request'[r].phase \in KeyPhases /\ request'[r].phase \notin AskPhases
          /\ Via(r).lock = r /\ request'[r].phase # "stepping_up"
      BY <1>0, <1>1, <1>4 DEF RequestOK, LockPhases, KeyPhases, AskPhases
    <3>2. Saved(r)' = Saved(r) /\ Via(r)' = Via(r)
      BY <1>1, <1>4 DEF Saved, Via
    <3>3. Issued(Saved(r).token)'
      <4>1. t.grant \in DOMAIN grants' /\ t.serial <= grants'[t.grant].serial
        BY <1>2, <1>3 DEF Issued
      <4> QED BY <3>2, <4>1 DEF Issued, Saved
    <3>4. request'[r].got # None => request'[r].got.grant = t.grant /\ request'[r].phase = "refreshing"
            /\ request'[r].got.grant \in DOMAIN grants' /\ request'[r].got.serial = grants'[request'[r].got.grant].serial
      BY <1>4 DEF new
    <3>5. RequestOK(r)'
      BY <1>1, <1>2, <1>4, <3>1, <3>2, <3>3, <3>4 DEF RequestOK
    <3> QED BY <2>1, <3>5
  <2>2. CASE q # r
    <3>1. request[q].got = None
      BY <1>2, <2>2 DEF Session, RequestOK, KeyPhases
    <3> QED BY <1>1, <2>2, <3>1, OtherRequest
  <2> QED BY <2>1, <2>2
<1>g. \A q \in Requests : request'[q].got # None => request'[q].got = new /\ ~Issued(new)
  <2>1. \A q \in Requests : q # r => request[q].got = None
    BY <1>2 DEF Session, RequestOK, KeyPhases
  <2> QED BY <1>1, <1>4, <2>1 DEF Only
<1>6. ASSUME NEW a \in Connections PROVE ReplacedOK(a)' /\ AuthOK(a)'
  <2>1. ReplacedOK(a) /\ AuthOK(a)
    BY DEF Session
  <2>2. \A i \in DOMAIN replaced[a] : replaced[a][i] \in {None} \cup Tokens
    BY <2>1 DEF ReplacedOK
  <2>3. auth[a].token \in {None} \cup Tokens
    BY DEF Session
  <2>4. AuthOK(a)'
    BY <1>1, <1>3, <2>1, <2>3 DEF AuthOK, Issued
  <2>5. \A i \in DOMAIN replaced[a] : replaced[a][i] # None =>
            replaced[a][i].grant \in DOMAIN grants' /\ replaced[a][i].serial <= grants'[replaced[a][i].grant].serial
    BY <1>3, <2>1, <2>2 DEF ReplacedOK, Issued
  <2>6. \A i \in DOMAIN replaced[a] : \A q \in Requests : request'[q].got # None => replaced[a][i] # request'[q].got
    BY <1>g, <2>1 DEF ReplacedOK
  <2>7. ReplacedOK(a)'
    BY <1>1, <2>1, <2>5, <2>6 DEF ReplacedOK, Issued
  <2> QED BY <2>4, <2>7
<1>7. GotIsNew'
  <2>1. \A a \in Connections : auth[a].token # None => Issued(auth[a].token)
    BY DEF Session, AuthOK
  <2> QED BY <1>1, <1>g, <2>1 DEF Session, GotIsNew, SessionOK
<1>8. SessionOK'
  BY <1>1, <1>3 DEF Session, SessionOK, Sessions, Issued
<1>9. GrantsOK'
  BY IssuedStays
<1> QED BY <1>1, <1>5, <1>6, <1>7, <1>8, <1>9 DEF Session

\* The kept token is in the header and in the session from then on.
LEMMA SessionKeeps ==
  ASSUME Session, SessionMoves, NEW r \in Requests, Keeps(r)
  PROVE  Session'
<1>0. RequestOK(r) /\ r # None /\ Owner(r) \in Connections /\ AuthOK(Owner(r))
  BY RequestFacts
<1> DEFINE new == request[r].got
<1>1. /\ grants' = grants /\ replaced' = replaced
      /\ DOMAIN request' = Requests /\ Only(r)
      /\ keylock' = None /\ session' \in Sessions /\ session'.token = new
      /\ new # None /\ request[r].phase = "refreshing"
      /\ SetsAuth(r, None, new)
      /\ request'[r] \in [phase: Phases, sent: {None} \cup Tokens, session: {None}, got: {None}]
      /\ request'[r].phase = "sent"
  BY DEF Keeps, Fresh
<1>2. keylock = r /\ Via(r).lock = r /\ new \in Tokens /\ Issued(new)
  <2>1. keylock = r /\ Via(r).lock = r
    BY <1>0, <1>1 DEF RequestOK, KeyPhases, LockPhases
  <2>2. new \in Tokens /\ new.grant \in DOMAIN grants /\ new.serial = grants[new.grant].serial
    BY <1>0, <1>1 DEF RequestOK
  <2> QED BY <2>1, <2>2 DEF Tokens, Issued
<1>3. request'[r].got = None /\ request'[r].session = None
  BY <1>1
<1>4. /\ auth' \in [Connections -> [lock: {None} \cup Requests, token: {None} \cup Tokens]]
      /\ \A a \in Connections : a # Owner(r) => auth'[a] = auth[a]
      /\ auth'[Owner(r)].lock = None /\ auth'[Owner(r)].token = new
  BY <1>1, <1>2, AuthAfter
<1>5. \A q \in Requests : request'[q].got = None
  <2>1. \A q \in Requests : q # r => request[q].got = None
    BY <1>2 DEF Session, RequestOK, KeyPhases
  <2> QED BY <1>1, <1>3, <2>1 DEF Only
<1>6. \A u : Issued(u)' <=> Issued(u)
  BY <1>1 DEF Issued
<1>7. ASSUME NEW q \in Requests PROVE RequestOK(q)'
  <2>1. CASE q = r
    <3>1. request'[r] \in [phase: Phases, sent: {None} \cup Tokens, session: {None} \cup Sessions, got: {None} \cup Tokens]
      BY <1>1
    <3>2. /\ request'[r].phase \notin LockPhases /\ request'[r].phase \notin KeyPhases
          /\ request'[r].phase \notin AskPhases /\ request'[r].phase # "stepping_up"
          /\ keylock' # r /\ Via(r)'.lock # r
      BY <1>0, <1>1, <1>4 DEF LockPhases, KeyPhases, AskPhases, Via
    <3> QED BY <1>3, <2>1, <3>1, <3>2 DEF RequestOK, Saved
  <2>2. CASE q # r
    <3>1. keylock' = q <=> keylock = q
      BY <1>1, <1>2, <2>2, NoneIsNothing
    <3> QED BY <1>1, <1>2, <2>2, <3>1, OtherRequest
  <2> QED BY <2>1, <2>2
<1>8. \A a \in Connections : auth'[a].token = auth[a].token \/ auth'[a].token = new
  BY <1>4
<1>9. ASSUME NEW a \in Connections PROVE ReplacedOK(a)' /\ AuthOK(a)'
  <2>1. ReplacedOK(a) /\ AuthOK(a)
    BY DEF Session
  <2>2. auth'[a].lock # None => Owner(auth'[a].lock) = a
    BY <1>4, <2>1 DEF AuthOK
  <2>3. AuthOK(a)'
    BY <1>2, <1>6, <1>8, <2>1, <2>2 DEF AuthOK
  <2>4. \A i \in DOMAIN replaced[a] : replaced[a][i] # auth'[a].token /\ replaced[a][i] # session'.token
    BY <1>1, <1>8, <2>1 DEF ReplacedOK
  <2>5. ReplacedOK(a)'
    BY <1>1, <1>5, <1>6, <2>1, <2>4 DEF ReplacedOK
  <2> QED BY <2>3, <2>5
<1>10. GotIsNew'
  BY <1>5 DEF GotIsNew
<1>11. SessionOK' /\ GrantsOK'
  BY <1>1, <1>2, <1>6 DEF Session, SessionOK, GrantsOK
<1> QED BY <1>1, <1>4, <1>7, <1>9, <1>10, <1>11 DEF Session

\* The token of a new grant is nowhere yet; the one it replaces has not been
\* replaced before.
LEMMA SessionSignsIn ==
  ASSUME Session, SessionMoves, NEW r \in Requests, SignsIn(r)
  PROVE  Session'
<1>0. RequestOK(r) /\ r # None /\ Owner(r) \in Connections /\ AuthOK(Owner(r)) /\ Via(r).token \in {None} \cup Tokens
  BY RequestFacts DEF Via
<1> DEFINE old == Via(r).token
<1>n. PICK new \in Tokens : new = [grant |-> Len(grants) + 1, serial |-> 1, wide |-> session'.token.wide]
  BY DEF SignsIn, Sessions
<1>1. /\ DOMAIN request' = Requests /\ Only(r)
      /\ request[r].phase \in {"starting", "stepping_up"}
      /\ grants' = Append(grants, [serial |-> 1, live |-> TRUE])
      /\ session' \in Sessions /\ session'.token = new
      /\ SetsAuth(r, None, new)
      /\ replaced' = [replaced EXCEPT ![Owner(r)] = Append(replaced[Owner(r)], old)]
      /\ keylock' = IF keylock = r THEN None ELSE keylock
      /\ request'[r] \in [phase: Phases, sent: {None} \cup Tokens, session: {None}, got: {None}]
      /\ request'[r].phase = "resent"
  BY <1>n DEF SignsIn, Fresh
<1>2. grants \in Seq(Grants) /\ Len(grants) \in Nat /\ DOMAIN grants = 1..Len(grants) /\ [serial |-> 1, live |-> TRUE] \in Grants
  BY DEF Session, GrantsOK, Grants
<1>3. DOMAIN grants' = 1..(Len(grants) + 1) /\ (\A g \in DOMAIN grants : grants'[g] = grants[g])
      /\ grants'[Len(grants) + 1].serial = 1
  BY <1>1, <1>2
<1>4. new \in Tokens /\ ~Issued(new)
  <2>1. new.grant = Len(grants) + 1 /\ new.serial = 1
    BY <1>n
  <2>2. new \in Tokens
    OBVIOUS
  <2>3. ~Issued(new)
    BY <1>2, <2>1 DEF Issued
  <2> QED BY <2>2, <2>3
<1>5. session'.token = new /\ new.grant \in DOMAIN grants' /\ new.serial <= grants'[new.grant].serial /\ new.grant \notin DOMAIN grants
  BY <1>n, <1>1, <1>2, <1>3
<1>6. Via(r).lock = r
  BY <1>0, <1>1 DEF RequestOK, LockPhases, AskPhases, KeyPhases
<1>7. request'[r].got = None /\ request'[r].session = None
  BY <1>1
<1>8. /\ auth' \in [Connections -> [lock: {None} \cup Requests, token: {None} \cup Tokens]]
      /\ \A a \in Connections : a # Owner(r) => auth'[a] = auth[a]
      /\ auth'[Owner(r)].lock = None /\ auth'[Owner(r)].token = new
  <2>1. SetsAuth(r, None, new) /\ None \in {None} \cup Requests /\ new \in {None} \cup Tokens
    BY <1>1
  <2> QED BY <2>1, AuthAfter
<1>9. \A u \in Tokens : Issued(u) => Issued(u)'
  BY IssuedStays
<1>10. \A q \in Requests : request'[q].got # None =>
         q # r /\ request'[q].got = request[q].got /\ request[q].got # None /\ request[q].got.grant \in DOMAIN grants
  BY <1>1, <1>7 DEF Only, Session, RequestOK
<1>11. ASSUME NEW q \in Requests PROVE RequestOK(q)'
  <2>1. CASE q = r
    <3>1. request'[r] \in [phase: Phases, sent: {None} \cup Tokens, session: {None} \cup Sessions, got: {None} \cup Tokens]
      BY <1>1
    <3>2. /\ request'[r].phase \notin LockPhases /\ request'[r].phase \notin KeyPhases
          /\ request'[r].phase \notin AskPhases /\ request'[r].phase # "stepping_up"
          /\ keylock' # r /\ Via(r)'.lock # r
      BY <1>0, <1>1, <1>8 DEF LockPhases, KeyPhases, AskPhases, Via
    <3> QED BY <1>7, <2>1, <3>1, <3>2 DEF RequestOK, Saved
  <2>2. CASE q # r
    <3>1. keylock' = q <=> keylock = q
      BY <1>0, <1>1, <2>2, NoneIsNothing
    <3>2. request[q].got # None => grants'[request[q].got.grant] = grants[request[q].got.grant]
      BY <1>3 DEF Session, RequestOK
    <3> QED BY <1>1, <1>4, <1>6, <2>2, <3>1, <3>2, OtherRequest
  <2> QED BY <2>1, <2>2
<1>12. ASSUME NEW a \in Connections PROVE AuthOK(a)'
  <2>1. AuthOK(a) /\ auth[a].token \in {None} \cup Tokens
    BY DEF Session
  <2>2. auth'[a].lock # None => Owner(auth'[a].lock) = a
    BY <1>8, <2>1 DEF AuthOK
  <2>3. CASE a = Owner(r)
    BY <1>4, <1>5, <1>8, <2>2, <2>3 DEF AuthOK, Issued
  <2>4. CASE a # Owner(r)
    BY <1>8, <1>9, <2>1, <2>2, <2>4 DEF AuthOK, Issued
  <2> QED BY <2>3, <2>4
<1>13. DOMAIN replaced' = Connections /\ replaced'[Owner(r)] = Append(replaced[Owner(r)], old)
       /\ \A a \in Connections : a # Owner(r) => replaced'[a] = replaced[a]
  BY <1>0, <1>1 DEF Session
<1>14. ASSUME NEW a \in Connections PROVE ReplacedOK(a)'
  <2>1. ReplacedOK(a)
    BY DEF Session
  <2> DEFINE list == replaced[a]
             list2 == replaced'[a]
  <2>2. /\ list2 \in Seq({None} \cup Tokens)
        /\ \A i \in DOMAIN list2 : (i \in DOMAIN list /\ list2[i] = list[i]) \/ (list2[i] = old /\ a = Owner(r) /\ i = Len(list) + 1)
        /\ list \in Seq({None} \cup Tokens) /\ DOMAIN list = 1..Len(list) /\ Len(list) \in Nat
    <3>1. list \in Seq({None} \cup Tokens) /\ DOMAIN list = 1..Len(list) /\ Len(list) \in Nat
      BY <2>1 DEF ReplacedOK
    <3>2. CASE a = Owner(r)
      <4>1. list2 = Append(list, old)
        BY <1>13, <3>2
      <4> QED BY <1>0, <3>1, <3>2, <4>1
    <3>3. CASE a # Owner(r)
      BY <1>13, <3>1, <3>3
    <3> QED BY <3>1, <3>2, <3>3
  <2>3. /\ \A i \in DOMAIN list : list[i] # auth[a].token /\ list[i] # new /\ (list[i] # None => Issued(list[i]))
        /\ \A i, k \in DOMAIN list : list[i] = list[k] => i = k
        /\ \A i \in DOMAIN list : \A q \in Requests : request[q].got # None => list[i] # request[q].got
    BY <1>4, <2>1, NoneIsNothing DEF ReplacedOK
  <2>4. a = Owner(r) => old = auth[a].token
    BY DEF Via
  <2>5. old # new /\ (old # None => Issued(old)) /\ \A q \in Requests : request[q].got # None => old # request[q].got
    BY <1>0, <1>4, NoneIsNothing DEF Via, AuthOK, Session, GotIsNew
  <2>6. auth'[a].token = auth[a].token \/ auth'[a].token = new
    BY <1>8
  <2>7. \A i \in DOMAIN list2 : list2[i] # new /\ list2[i] # auth'[a].token
    <3>1. a # Owner(r) => auth'[a].token = auth[a].token
      BY <1>8
    <3>2. a = Owner(r) => auth'[a].token = new
      BY <1>8
    <3> QED BY <2>2, <2>3, <2>5, <3>1, <3>2
  <2>8. \A i, k \in DOMAIN list2 : list2[i] = list2[k] => i = k
    BY <2>2, <2>3, <2>4
  <2>9. \A i \in DOMAIN list2 : \A q \in Requests : request'[q].got # None => list2[i] # request'[q].got
    BY <1>10, <2>2, <2>3, <2>5
  <2>10. \A i \in DOMAIN list2 : list2[i] # None =>
           list2[i].grant \in DOMAIN grants' /\ list2[i].serial <= grants'[list2[i].grant].serial
    <3>1. \A i \in DOMAIN list2 : list2[i] # None => list2[i] \in Tokens /\ Issued(list2[i])
      <4>1. \A i \in DOMAIN list2 : list2[i] \in {None} \cup Tokens
        BY <2>2
      <4> QED BY <2>2, <2>3, <2>5, <4>1
    <3> HIDE DEF list2
    <3>2. \A u \in Tokens : Issued(u) => u.grant \in DOMAIN grants' /\ u.serial <= grants'[u.grant].serial
      BY <1>9 DEF Issued
    <3> QED BY <3>1, <3>2
  <2> QED BY <1>5, <2>2, <2>7, <2>8, <2>9, <2>10 DEF ReplacedOK, Issued
<1>15. GotIsNew'
  <2>1. \A q \in Requests : request'[q].got # None => request'[q].got # new
    BY <1>5, <1>10
  <2> QED BY <1>5, <1>8, <1>10, <2>1 DEF Session, GotIsNew
<1>16. SessionOK' /\ GrantsOK'
  BY <1>1, <1>5, IssuedStays DEF SessionOK, Issued
<1>17. keylock' \in {None} \cup Requests
  BY <1>1 DEF Session
<1> QED BY <1>1, <1>8, <1>11, <1>12, <1>13, <1>14, <1>15, <1>16, <1>17 DEF Session

\* All kinds of steps keep it.
LEMMA SessionKept ==
  ASSUME Session, SessionMoves
  PROVE  Session'
<1>1. CASE Fades \/ Dies \/ UNCHANGED sessionVars
  BY <1>1, SessionFades
<1>2. ASSUME NEW r \in Requests,
             Wanders(r) \/ TakesLock(r) \/ TakesKey(r) \/ LetsGo(r) \/ Rotates(r) \/ Keeps(r) \/ SignsIn(r)
      PROVE  Session'
  BY <1>2, SessionWanders, SessionTakesLock, SessionTakesKey, SessionLetsGo, SessionRotates, SessionKeeps, SessionSignsIn
<1> QED BY <1>1, <1>2 DEF SessionMoves, SessionKinds

-----------------------------------------------------------------------------
(* Refresh tokens *)

\* What Rotation says while tasks finish, and what it is kept from.
LEMMA SpentIsIssued ==
  ASSUME Session, SessionMoves, Spent
  PROVE  \A t \in spent.once : t \in Tokens /\ Issued(t)'
  BY IssuedStays DEF Spent

\* Only the holder of the key refreshes, steps up or has got a token.
LEMMA OneKeyHolder ==
  ASSUME Session, NEW q \in Requests, request[q].phase \in KeyPhases \/ request[q].got # None
  PROVE  keylock = q
  BY RequestFacts DEF RequestOK, KeyPhases

\* Rotation after a step of each kind: nothing but a session that goes or grows old.
LEMMA RotationFades ==
  ASSUME Session, SessionMoves, Rotation, Fades \/ Dies \/ UNCHANGED sessionVars
  PROVE  Rotation'
<1>1. /\ keylock' = keylock /\ request' = request /\ spent' = spent
      /\ session' # None => session # None /\ session'.token = session.token
      /\ \A g \in DOMAIN grants : grants'[g].serial = grants[g].serial
      /\ TasksFinish' = TasksFinish /\ Happens("blip")' = Happens("blip")
  <2>1. session' # None => session # None /\ session'.token = session.token
    BY DEF Fades, Dies, sessionVars
  <2>2. \A g \in DOMAIN grants : grants'[g].serial = grants[g].serial
    BY DEF Fades, Dies, sessionVars
  <2> QED BY <2>1, <2>2 DEF Fades, Dies, sessionVars, SessionMoves, TasksFinish, Happens
<1>2. ASSUME TasksFinish PROVE Spent'
  <2>1. Spent
    BY <1>2 DEF Rotation
  <2>2. \A r \in Requests : Saved(r)' = Saved(r)
    BY <1>1 DEF Saved
  <2>3. session' # None /\ session'.token \in spent.once =>
          keylock # None /\ request[keylock].phase # "stepping_up" /\ Saved(keylock).token = session'.token
    BY <1>1, <2>1 DEF Spent
  <2>4. \A t \in spent.once : Issued(t)'
    BY <2>1, SpentIsIssued
  <2> QED BY <1>1, <2>1, <2>2, <2>3, <2>4 DEF Spent, Saved
<1>3. ASSUME TasksFinish, ~Happens("blip") PROVE Newest'
  <2>1. Newest
    BY <1>3 DEF Rotation
  <2>2. session # None => session.token.grant \in DOMAIN grants
    BY DEF Session, SessionOK, Issued
  <2> QED BY <1>1, <2>1, <2>2 DEF Newest
<1> QED BY <1>1, <1>2, <1>3 DEF Rotation

\* A step that presents no refresh token and that leaves the holder of the key
\* alone, if there is one.
LEMMA RotationByStander ==
  ASSUME Session, SessionMoves, Rotation, NEW r \in Requests, Only(r), keylock # r,
         UNCHANGED <<grants, keylock, spent>>, session' \in {session, None},
         request'[r].got = None, request'[r].phase # "refreshing"
  PROVE  Rotation'
<1>1. TasksFinish' = TasksFinish /\ Happens("blip")' = Happens("blip")
  BY DEF SessionMoves, TasksFinish, Happens
<1>2. keylock # None => keylock \in Requests \ {r}
  BY DEF Session
<1>3. \A q \in Requests \ {r} : request'[q] = request[q] /\ Saved(q)' = Saved(q)
  BY DEF Only, Saved
<1>4. ASSUME TasksFinish PROVE Spent'
  <2>1. Spent
    BY <1>4 DEF Rotation
  <2>2. \A t \in spent.once : Issued(t)'
    BY <2>1, SpentIsIssued
  <2>3. None \notin spent.once
    BY <2>1, NoneIsNothing DEF Spent
  <2>4. \A q \in Requests :
          /\ request'[q].phase = "refreshing" /\ request'[q].got = None => Saved(q)'.token \notin spent.once
          /\ request'[q].got \notin spent.once
    BY <1>3, <2>1, <2>3 DEF Spent
  <2>5. session # None /\ session.token \in spent.once =>
          keylock # None /\ request'[keylock].phase # "stepping_up" /\ Saved(keylock)'.token = session.token
    BY <1>2, <1>3, <2>1 DEF Spent
  <2>6. keylock' = keylock /\ spent' = spent
    OBVIOUS
  <2>7. session' # None => session' = session
    OBVIOUS
  <2> QED BY <2>1, <2>2, <2>4, <2>5, <2>6, <2>7 DEF Spent, Saved
<1>5. ASSUME TasksFinish, ~Happens("blip") PROVE Newest'
  <2>1. Newest
    BY <1>5 DEF Rotation
  <2> QED BY <1>2, <1>3, <2>1 DEF Newest
<1> QED BY <1>1, <1>4, <1>5 DEF Rotation

\* The token to be refreshed has not been presented.
LEMMA RotationTakesKey ==
  ASSUME Session, SessionMoves, Rotation, NEW r \in Requests, TakesKey(r)
  PROVE  Rotation'
<1>1. /\ TasksFinish' = TasksFinish /\ Happens("blip")' = Happens("blip")
      /\ keylock = None /\ session # None /\ session' = session /\ grants' = grants /\ spent' = spent
      /\ Only(r) /\ request'[r].got = None /\ request'[r].session = session
  BY DEF SessionMoves, TasksFinish, Happens, TakesKey
<1>2. ASSUME TasksFinish PROVE Spent'
  <2>1. Spent
    BY <1>2 DEF Rotation
  <2>2. \A t \in spent.once : Issued(t)'
    BY <2>1, SpentIsIssued
  <2>3. session.token \notin spent.once /\ None \notin spent.once
    BY <1>1, <2>1, NoneIsNothing DEF Spent
  <2>4. \A q \in Requests :
          /\ request'[q].phase = "refreshing" /\ request'[q].got = None => Saved(q)'.token \notin spent.once
          /\ request'[q].got \notin spent.once
    BY <1>1, <2>1, <2>3 DEF Spent, Only, Saved
  <2> QED BY <1>1, <2>1, <2>2, <2>3, <2>4 DEF Spent, Saved
<1>3. ASSUME TasksFinish, ~Happens("blip") PROVE Newest'
  <2>1. Newest
    BY <1>3 DEF Rotation
  <2> QED BY <1>1, <2>1 DEF Newest
<1> QED BY <1>1, <1>2, <1>3 DEF Rotation

\* Who gives up a refresh leaves no session.
LEMMA RotationLetsGo ==
  ASSUME Session, SessionMoves, Rotation, NEW r \in Requests, LetsGo(r)
  PROVE  Rotation'
<1>1. /\ TasksFinish' = TasksFinish /\ Happens("blip")' = Happens("blip")
      /\ session' \in {session, None} /\ grants' = grants /\ spent' = spent
      /\ keylock' = (IF keylock = r THEN None ELSE keylock)
      /\ Only(r) /\ request'[r].got = None /\ request'[r].phase # "refreshing"
      /\ TasksFinish /\ keylock = r => request[r].phase = "stepping_up" \/ session' = None
      /\ TasksFinish /\ ~Happens("blip") => request[r].got = None
  BY DEF SessionMoves, TasksFinish, Happens, LetsGo, Fresh, LockPhases, KeyPhases
<1>2. CASE keylock # r
  BY <1>1, <1>2, RotationByStander
<1>3. CASE keylock = r
  <2>1. ASSUME TasksFinish PROVE Spent'
    <3>1. Spent
      BY <2>1 DEF Rotation
    <3>2. \A t \in spent.once : Issued(t)'
      BY <3>1, SpentIsIssued
    <3>3. None \notin spent.once
      BY <3>1, NoneIsNothing DEF Spent
    <3>4. \A q \in Requests :
            /\ request'[q].phase = "refreshing" /\ request'[q].got = None => Saved(q)'.token \notin spent.once
            /\ request'[q].got \notin spent.once
      BY <1>1, <3>1, <3>3 DEF Spent, Only, Saved
    <3>5. session' # None => session'.token \notin spent.once
      BY <1>1, <1>3, <2>1, <3>1 DEF Spent
    <3> QED BY <1>1, <3>1, <3>2, <3>4, <3>5 DEF Spent, Saved
  <2>2. ASSUME TasksFinish, ~Happens("blip") PROVE Newest'
    <3>1. Newest
      BY <2>2 DEF Rotation
    <3> QED BY <1>1, <1>3, <2>2, <3>1 DEF Newest
  <2> QED BY <1>1, <2>1, <2>2 DEF Rotation
<1> QED BY <1>2, <1>3

\* The token is spent, and the new one nobody has presented.
LEMMA RotationRotates ==
  ASSUME Session, SessionMoves, Rotation, NEW r \in Requests, Rotates(r)
  PROVE  Rotation'
<1> DEFINE t == Saved(r).token
<1>0. RequestOK(r) /\ r # None
  BY RequestFacts
<1>1. /\ TasksFinish' = TasksFinish /\ Happens("blip")' = Happens("blip")
      /\ session' = session /\ keylock' = keylock
      /\ Only(r) /\ request[r].phase = "refreshing" /\ request[r].got = None
      /\ spent' = [once |-> spent.once \cup {t},
                   again |-> IF t \in spent.once THEN spent.again \cup {t} ELSE spent.again]
  BY DEF SessionMoves, TasksFinish, Happens, Rotates
<1>2. keylock = r
  BY <1>1, OneKeyHolder DEF KeyPhases
<1>3. Saved(r) \in Sessions /\ t \in Tokens /\ Issued(t)
  BY <1>0, <1>2 DEF RequestOK, Saved, Sessions
<1>4. t.grant \in DOMAIN grants /\ t.serial \in Nat /\ grants \in Seq(Grants)
  BY <1>3 DEF Issued, Tokens, Session, GrantsOK
<1>5. \A q \in Requests \ {r} : request'[q] = request[q] /\ request[q].phase # "refreshing" /\ request[q].got = None
  BY <1>1, <1>2, OneKeyHolder DEF Only, KeyPhases
<1> DEFINE new == [grant |-> t.grant, serial |-> t.serial + 1, wide |-> t.wide]
<1>6. /\ request'[r].session = Saved(r) /\ request'[r].phase # "stepping_up"
      /\ \/ /\ grants[t.grant].serial = t.serial
            /\ grants' = [grants EXCEPT ![t.grant].serial = t.serial + 1]
            /\ request'[r].got = new
         \/ /\ grants' = grants /\ request'[r].got = None /\ request'[r].phase = "refused"
  BY DEF Rotates
<1>7. (~Issued(new) /\ new # t) \/ request'[r].got = None
  BY <1>4, <1>6 DEF Issued
<1>8. ASSUME TasksFinish PROVE Spent'
  <2>1. Spent /\ t \notin spent.once
    BY <1>1, <1>8 DEF Rotation, Spent
  <2>2. spent'.once = spent.once \cup {t} /\ spent'.again = {}
    BY <1>1, <2>1 DEF Spent
  <2>3. \A u \in spent'.once : Issued(u)'
    <3>1. \A u \in Tokens : Issued(u) => Issued(u)'
      BY IssuedStays
    <3>2. \A u \in spent.once \cup {t} : u \in Tokens /\ Issued(u)
      BY <1>3, <2>1 DEF Spent
    <3> QED BY <2>2, <3>1, <3>2
  <2>4. \A q \in Requests :
          /\ request'[q].phase = "refreshing" /\ request'[q].got = None => FALSE
          /\ request'[q].got \notin spent'.once
    <3>1. None \notin spent'.once
      BY <1>3, <2>1, <2>2, NoneIsNothing DEF Spent
    <3>2. request'[r].got # None => request'[r].got = new /\ new \notin spent'.once
      BY <1>6, <1>7, <2>1, <2>2 DEF Spent
    <3>3. request'[r].phase = "refreshing" => request'[r].got # None
      BY <1>3, <1>4, <1>6, NoneIsNothing DEF Tokens
    <3> QED BY <1>5, <3>1, <3>2, <3>3
  <2>5. session' # None /\ session'.token \in spent'.once =>
          keylock' # None /\ request'[keylock'].phase # "stepping_up" /\ request'[keylock'].session.token = session'.token
    BY <1>0, <1>1, <1>2, <1>6, <2>1, <2>2 DEF Spent, Saved
  <2>6. spent'.once \subseteq Tokens
    BY <1>3, <2>1, <2>2 DEF Spent
  <2> QED BY <2>2, <2>3, <2>4, <2>5, <2>6 DEF Spent, Saved
<1>9. ASSUME TasksFinish, ~Happens("blip") PROVE Newest'
  <2>1. Newest
    BY <1>9 DEF Rotation
  <2>2. session # None => session.token.serial = grants[session.token.grant].serial
    BY <1>1, <1>2, <2>1 DEF Newest
  <2>3. session # None => session.token.grant \in DOMAIN grants
    BY DEF Session, SessionOK, Issued
  <2>4. CASE grants' = grants
    BY <1>1, <2>2, <2>4 DEF Newest
  <2>5. CASE grants' = [grants EXCEPT ![t.grant].serial = t.serial + 1] /\ request'[r].got = new
    <3>1. session # None /\ session.token.grant # t.grant => grants'[session.token.grant] = grants[session.token.grant]
      BY <1>4, <2>3, <2>5
    <3>2. request'[r].got # None /\ request'[r].got.grant = t.grant
      BY <1>3, <1>4, <2>5, NoneIsNothing DEF Tokens
    <3> QED BY <1>0, <1>1, <1>2, <2>2, <3>1, <3>2 DEF Newest
  <2> QED BY <1>6, <2>4, <2>5
<1> QED BY <1>1, <1>8, <1>9 DEF Rotation

\* The new token replaces the spent one.
LEMMA RotationKeeps ==
  ASSUME Session, SessionMoves, Rotation, NEW r \in Requests, Keeps(r)
  PROVE  Rotation'
<1>1. /\ TasksFinish' = TasksFinish /\ Happens("blip")' = Happens("blip")
      /\ grants' = grants /\ spent' = spent /\ Only(r)
      /\ request[r].got # None /\ request[r].phase = "refreshing"
      /\ session'.token = request[r].got
      /\ request'[r].got = None /\ request'[r].phase = "sent"
  BY DEF SessionMoves, TasksFinish, Happens, Keeps, Fresh
<1>2. keylock = r
  BY <1>1, OneKeyHolder
<1>3. \A q \in Requests \ {r} : request'[q] = request[q] /\ request[q].phase # "refreshing" /\ request[q].got = None
  BY <1>1, <1>2, OneKeyHolder DEF Only, KeyPhases
<1>4. ASSUME TasksFinish PROVE Spent'
  <2>1. Spent
    BY <1>4 DEF Rotation
  <2>2. \A t \in spent.once : Issued(t)'
    BY <2>1, SpentIsIssued
  <2>3. None \notin spent.once /\ request[r].got \notin spent.once
    BY <2>1, NoneIsNothing DEF Spent
  <2> QED BY <1>1, <1>3, <2>1, <2>2, <2>3 DEF Spent
<1>5. Newest'
  <2>1. request[r].got.serial = grants[request[r].got.grant].serial
    BY <1>1, RequestFacts DEF RequestOK
  <2> QED BY <1>1, <2>1 DEF Newest
<1> QED BY <1>1, <1>4, <1>5 DEF Rotation

\* A new grant has a token nobody has presented.
LEMMA RotationSignsIn ==
  ASSUME Session, SessionMoves, Rotation, NEW r \in Requests, SignsIn(r)
  PROVE  Rotation'
<1>1. /\ TasksFinish' = TasksFinish /\ Happens("blip")' = Happens("blip")
      /\ spent' = spent /\ Only(r)
      /\ grants' = Append(grants, [serial |-> 1, live |-> TRUE])
      /\ session'.token = [grant |-> Len(grants) + 1, serial |-> 1, wide |-> session'.token.wide]
      /\ request'[r].got = None /\ request'[r].phase = "resent"
  BY DEF SessionMoves, TasksFinish, Happens, SignsIn, Fresh
<1>2. session'.token.grant = Len(grants) + 1 /\ session'.token.serial = 1
  BY <1>1
<1>3. grants \in Seq(Grants)
  BY DEF Session, GrantsOK
<1>4. ASSUME TasksFinish PROVE Spent'
  <2>1. Spent
    BY <1>4 DEF Rotation
  <2>2. \A t \in spent.once : Issued(t)'
    BY <2>1, SpentIsIssued
  <2>3. None \notin spent.once
    BY <2>1, NoneIsNothing DEF Spent
  <2>4. session'.token \notin spent.once
    BY <1>2, <1>3, <2>1 DEF Spent, Issued
  <2>5. \A q \in Requests :
          /\ request'[q].phase = "refreshing" /\ request'[q].got = None => Saved(q)'.token \notin spent.once
          /\ request'[q].got \notin spent.once
    BY <1>1, <2>1, <2>3 DEF Spent, Only, Saved
  <2> QED BY <1>1, <2>1, <2>2, <2>4, <2>5 DEF Spent, Saved
<1>5. Newest'
  <2>1. grants'[Len(grants) + 1].serial = 1
    BY <1>1, <1>3
  <2> QED BY <1>2, <2>1 DEF Newest
<1> QED BY <1>1, <1>4, <1>5 DEF Rotation

\* All kinds of steps keep it.
LEMMA RotationKept ==
  ASSUME Session, SessionMoves, Rotation
  PROVE  Rotation'
<1>1. CASE Fades \/ Dies \/ UNCHANGED sessionVars
  BY <1>1, RotationFades
<1>2. ASSUME NEW r \in Requests, Wanders(r) \/ TakesLock(r)
      PROVE  Rotation'
  <2>1. keylock # r
    BY <1>2, RequestFacts DEF Wanders, TakesLock, RequestOK, LockPhases
  <2>2. /\ UNCHANGED <<grants, session, keylock, spent>> /\ Only(r)
        /\ request'[r].got = None /\ request'[r].phase # "refreshing"
    BY <1>2 DEF Wanders, TakesLock, Fresh, LockPhases, KeyPhases
  <2> QED BY <2>1, <2>2, RotationByStander
<1>3. ASSUME NEW r \in Requests, TakesKey(r) \/ LetsGo(r) \/ Rotates(r) \/ Keeps(r) \/ SignsIn(r)
      PROVE  Rotation'
  BY <1>3, RotationTakesKey, RotationLetsGo, RotationRotates, RotationKeeps, RotationSignsIn
<1> QED BY <1>1, <1>2, <1>3 DEF SessionMoves, SessionKinds

-----------------------------------------------------------------------------
(* The steps of the system *)

\* What a step of the system is to the pool.
LEMMA PoolSteps ==
  ASSUME Next
  PROVE  PoolMoves
<1>1. CASE Elsewhere \/ SessionStep
  BY <1>1 DEF Elsewhere, SessionStep, PoolMoves
<1>2. ASSUME NEW i \in Connections, ConnectionStep(i) \/ Fail(i) \/ ReturnError(i) \/ Break(i)
      PROVE  PoolMoves
  BY <1>2 DEF ConnectionStep, Fail, ReturnError, Break, Open, Fetch, Return, PoolMoves, Quietly, Busily
<1>3. ASSUME NEW c \in Callers, CallerStep(c) \/ Start(c) \/ Cancel(c) PROVE PoolMoves
  BY <1>3 DEF CallerStep, Find, PoolMoves, Calling
<1>4. CASE ServerStep
  BY <1>4 DEF ServerStep, PoolMoves, Quietly
<1>5. CASE Evict \/ EvictorStep \/ EvictNothing
  BY <1>5 DEF EvictorStep, EvictServer, PoolMoves, Evicting
<1> QED BY <1>1, <1>2, <1>3, <1>4, <1>5 DEF Next, PoolStep

\* What breaks a request shows that tasks need not finish.
LEMMA AbandonsMoves ==
  ASSUME Session, NEW i \in Connections, Abandons(i), Fail(i) \/ ReturnError(i) \/ Break(i)
  PROVE  SessionKinds
<1>1. ~TasksFinish
  BY DEF Fail, ReturnError, Break, OpenFails, ReplyError, Die, Mishap, Happens, TasksFinish
<1>2. Main(i) \in Requests
  BY NoneIsNothing
<1> QED BY <1>1, <1>2, DropMoves DEF Abandons, SessionKinds

\* A request that is sent begins.
LEMMA SendsMoves ==
  ASSUME Session, NEW i \in Connections, Sends(i)
  PROVE  SessionKinds
<1>1. Main(i) \in Requests
  BY NoneIsNothing
<1> QED BY <1>1, RequestMoves DEF Sends, SessionKinds

\* A step leaves the scene alone.
LEMMA SceneStays ==
  ASSUME PoolMoves
  PROVE  scene' = scene
<1>1. ASSUME NEW i \in Connections, Quietly(i) PROVE scene' = scene
  BY <1>1 DEF Quietly, ObeyClose, Drain, Watch, Sweep, Subscribe, LoseSubscription, Hear, Age, Refresh
<1>2. ASSUME NEW i \in Connections, Busily(i) PROVE scene' = scene
  BY <1>2 DEF Busily, Opened, OpenFails, Take, Reply, ReplyError, Die
<1>3. ASSUME NEW c \in Callers, Calling(c) PROVE scene' = scene
  BY <1>3 DEF Calling, Start, FindOrConnect, Connected, Use, List, Call, Cancel
<1>4. ASSUME Evicting \/ ServerChanges \/ UNCHANGED poolVars PROVE scene' = scene
  BY <1>4 DEF Evicting, Evict, EvictNothing, AskToClose, EvictEnds, ServerChanges, poolVars
<1> QED BY <1>1, <1>2, <1>3, <1>4 DEF PoolMoves

\* A caller who connects has taken a connection that was never used.
LEMMA FindsUnused ==
  ASSUME Pool, NEW c \in Callers, FindOrConnect(c), task'[c].phase = "connecting"
  PROVE  /\ task'[c].conn \in Connections
         /\ conn' = [conn EXCEPT ![task'[c].conn] = [Unborn EXCEPT !.phase = "opening"]]
         /\ conn[task'[c].conn].phase = "unborn"
<1>1. task \in [Callers -> Tasks] /\ DOMAIN task[c] = {"phase", "conn", "left"}
  BY DEF Pool, Shape, Tasks
<1>2. Connecting(c)
  <2>1. ~GoesTo(c, "using", pool.at[LookupKey])
    BY <1>1 DEF GoesTo
  <2> QED BY <2>1 DEF FindOrConnect
<1>3. PICK i \in Unused : Becomes(i, [Unborn EXCEPT !.phase = "opening"]) /\ GoesTo(c, "connecting", i)
  BY <1>2 DEF Connecting
<1>4. task'[c].conn = i
  BY <1>1, <1>3 DEF GoesTo
<1> QED BY <1>3, <1>4 DEF Unused, Becomes

\* What it is to the session.
LEMMA SessionSteps ==
  ASSUME Session, Pool, Next
  PROVE  SessionMoves
<1>0. scene' = scene
  BY PoolSteps, SceneStays
<1>s. SUFFICES SessionKinds
  BY <1>0 DEF SessionMoves
<1>1. CASE UNCHANGED sessionVars
  BY <1>1 DEF SessionKinds
<1>2. CASE ForgetSession \/ TokenAges
  <2>1. CASE ForgetSession
    BY <2>1 DEF ForgetSession, SessionKinds, Fades
  <2>2. CASE TokenAges
    <3>1. session # None /\ session \in Sessions
      BY <2>2 DEF TokenAges, Session, SessionOK
    <3>2. session' \in Sessions /\ session'.token = session.token
      BY <2>2, <3>1 DEF TokenAges, Sessions
    <3> QED BY <2>2, <3>1, <3>2 DEF TokenAges, SessionKinds, Fades
  <2> QED BY <1>2, <2>1, <2>2
<1>3. CASE Revoke
  <2>1. PICK g \in DOMAIN grants : grants' = [grants EXCEPT ![g].live = FALSE]
    BY <1>3 DEF Revoke
  <2>2. grants \in Seq(Grants) /\ grants[g] \in Grants
    BY DEF Session, GrantsOK
  <2>3. [grants[g] EXCEPT !.live = FALSE] \in Grants /\ [grants[g] EXCEPT !.live = FALSE].serial = grants[g].serial
    BY <2>2 DEF Grants
  <2>4. grants' = [grants EXCEPT ![g] = [grants[g] EXCEPT !.live = FALSE]]
    BY <2>1
  <2>5. grants' \in Seq(Grants) /\ Len(grants') = Len(grants)
    BY <2>2, <2>3, <2>4
  <2>6. \A h \in DOMAIN grants : grants'[h].serial = grants[h].serial
    BY <2>2, <2>3, <2>4
  <2> QED BY <1>3, <2>5, <2>6 DEF Revoke, SessionKinds, Dies
<1>4. ASSUME NEW r \in Requests, RequestStep(r) \/ Begin(r) \/ CancelRequest(r) PROVE SessionKinds
  BY <1>4, RequestMoves
<1>5. ASSUME NEW i \in Connections, ConnectionStep(i) \/ Fail(i) \/ ReturnError(i) \/ Break(i)
      PROVE  SessionKinds
  <2>1. CASE Fail(i) \/ ReturnError(i) \/ Break(i)
    BY <2>1, AbandonsMoves DEF Fail, ReturnError, Break
  <2>2. CASE Fetch(i)
    BY <2>2, SendsMoves DEF Fetch
  <2>3. Main(i) \in Requests /\ Listen(i) \in Requests
    BY NoneIsNothing
  <2>4. CASE \E r \in {Main(i), Listen(i)} : RequestStep(r)
    BY <1>4, <2>3, <2>4
  <2> QED BY <1>1, <1>5, <2>1, <2>2, <2>4 DEF ConnectionStep, Open, Return
<1>6. ASSUME NEW c \in Callers, CallerStep(c) PROVE SessionKinds
  <2>1. CASE Find(c)
    <3>1. CASE task'[c].phase = "connecting"
      BY <2>1, <3>1, FindsUnused, SendsMoves DEF Find
    <3> QED BY <1>1, <2>1, <3>1 DEF Find
  <2> QED BY <1>1, <1>6, <2>1 DEF CallerStep
<1>7. CASE Elsewhere
  <2>1. CASE \E r \in scene.active : Begin(r)
    <3>1. scene.active \subseteq Requests
      BY McpPoolAssumption DEF Pool, Shape
    <3> QED BY <1>4, <2>1, <3>1
  <2> QED BY <1>2, <1>7, <2>1 DEF Elsewhere
<1>8. CASE SessionStep
  BY <1>2, <1>3, <1>4, <1>8 DEF SessionStep
<1>9. CASE PoolStep
  <2>1. CASE EvictorStep \/ (EvictNothing /\ ForgetSession)
    BY <1>1, <1>2, <2>1 DEF EvictorStep, EvictServer
  <2> QED BY <1>1, <1>5, <1>6, <1>9, <2>1 DEF PoolStep
<1> QED BY <1>7, <1>8, <1>9 DEF Next

-----------------------------------------------------------------------------
(* Both together *)

\* A request of a connection of the pool is one its runner waits for.  A scene in
\* which nobody calls has no connections, and one without active requests no
\* requests.
Together ==
  /\ Joined => \A i \in Connections : request[Main(i)].phase # "idle" => Busy(i)
  /\ scene.callers = {} => \A i \in Connections : conn[i].phase = "unborn"
  /\ scene.active = {} => \A r \in Requests : request[r].phase = "idle"

\* A step of request r is about r alone, which is on its way.
LEMMA StepOfOne ==
  ASSUME Session, NEW r \in Requests, RequestStep(r)
  PROVE  request[r].phase # "idle" /\ Only(r)
<1>1. request[r].phase # "idle"
  BY DEF RequestStep, Lock, Renew, Refreshed, Renewed, NotRenewed, Answer, MeetChallenge, Started, Widen,
         SteppedUp, Denied, Challenges
<1>2. DOMAIN request = Requests
  BY RequestFacts
<1>3. ASSUME NEW phase, Moves(r, phase) \/ MovesWithSession(r, phase) PROVE Only(r)
  BY <1>2, <1>3 DEF Moves, MovesWithSession, Only
<1>4. ASSUME NEW token, Send(r, token) \/ Resend(r, token) PROVE Only(r)
  BY <1>2, <1>4 DEF Send, Resend, Only
<1>5. ASSUME Fails(r) PROVE Only(r)
  BY <1>2, <1>5 DEF Fails, Only
<1>6. ASSUME NEW wide, NEW steps, Granted(r, wide, steps) PROVE Only(r)
  BY <1>4, <1>6 DEF Granted
<1>7. ASSUME Refreshed(r) \/ Answer(r) PROVE Only(r)
  BY <1>2, <1>3, <1>7 DEF Refreshed, Answer, Only
<1> QED BY <1>1, <1>3, <1>4, <1>5, <1>6, <1>7 DEF RequestStep, Lock, Renew, Renewed, NotRenewed, MeetChallenge,
        Started, Widen, SteppedUp, Denied

\* A request that is cancelled, or whose connection is gone, is over.
LEMMA DropOfOne ==
  ASSUME Session, NEW r \in Requests, Drop(r)
  PROVE  request'[r].phase = "idle" /\ Only(r)
<1>1. DOMAIN request = Requests
  BY RequestFacts
<1> QED BY <1>1 DEF Drop, Only, Idle

\* A request begins.
LEMMA BeginOfOne ==
  ASSUME Session, NEW r \in Requests, Begin(r)
  PROVE  Only(r)
<1>1. DOMAIN request = Requests
  BY RequestFacts
<1> QED BY <1>1 DEF Begin, Moves, Only

\* A step about request r, which nobody begins, leaves the idle ones idle.
LEMMA IdleStays ==
  ASSUME Session, NEW r \in Requests, RequestStep(r) \/ Drop(r)
  PROVE  \A q \in Requests : request[q].phase = "idle" => request'[q].phase = "idle"
BY StepOfOne, DropOfOne DEF Only

\* What a step of the system does to connections and requests when both are
\* looked at: either no request begins and every runner goes on with its own, or
\* one connection and its request change.
Undisturbed ==
  /\ \A j \in Connections : Busy(j) => Busy(j)'
  /\ \A q \in Requests : request[q].phase = "idle" => request'[q].phase = "idle"

\* The runner of connection i ends a request, or begins one.
Attends(i) ==
  /\ \A j \in Connections \ {i} : Busy(j) => Busy(j)'
  /\ Only(Main(i))
  /\ request'[Main(i)].phase # "idle" => Busy(i)'

\* A runner is busy for itself.
LEMMA OthersBusy ==
  ASSUME Pool, NEW i \in Connections, Busily(i)
  PROVE  \A j \in Connections \ {i} : Busy(j) => Busy(j)'
<1>1. PICK new : Becomes(i, new)
  BY DEF Busily, Opened, OpenFails, Take, Reply, ReplyError, Die
<1>2. conn \in [Connections -> Conns]
  BY ConnFacts
<1> QED BY <1>1, <1>2 DEF Becomes, Busy

\* Every step of a scene in which both are looked at is one or the other.
LEMMA Attended ==
  ASSUME Session, Pool, Joined, Next
  PROVE  Undisturbed \/ \E i \in Connections : Attends(i)
<1>0. \A i \in Connections : Main(i) \in Requests
  BY NoneIsNothing
<1>1. ASSUME UNCHANGED sessionVars, (ServerChanges \/ Evicting \/ UNCHANGED poolVars)
      PROVE  Undisturbed
  BY <1>1, BusyStays DEF sessionVars, poolVars, Undisturbed, Busy
<1>2. ASSUME NEW i \in Connections, Quietly(i), UNCHANGED sessionVars PROVE Undisturbed
  BY <1>2, BusyStays DEF sessionVars, Undisturbed
<1>3. ASSUME NEW c \in Callers, Calling(c), UNCHANGED sessionVars PROVE Undisturbed
  BY <1>3, BusyStays DEF sessionVars, Undisturbed
<1>4. ASSUME NEW r \in Requests, RequestStep(r) \/ Drop(r), UNCHANGED poolVars PROVE Undisturbed
  BY <1>4, IdleStays DEF poolVars, Undisturbed, Busy
<1>5. ASSUME NEW i \in Connections, Open(i) \/ Return(i) PROVE Attends(i)
  <2>1. request' = request /\ request[Main(i)].phase = "idle" /\ Busily(i)
    BY <1>5 DEF Open, Return, IsSent, sessionVars, Busily
  <2> QED BY <2>1, OthersBusy DEF Attends, Only
<1>6. ASSUME NEW i \in Connections, Fail(i) \/ ReturnError(i) \/ Break(i) PROVE Attends(i)
  <2>1. Drop(Main(i)) /\ Busily(i)
    BY <1>6 DEF Fail, ReturnError, Break, Abandons, Busily
  <2> QED BY <1>0, <2>1, DropOfOne, OthersBusy DEF Attends
<1>7. ASSUME NEW i \in Connections, Fetch(i) PROVE Attends(i)
  <2>1. Begin(Main(i)) /\ Busily(i)
    BY <1>7 DEF Fetch, Sends, Busily
  <2>2. conn[i] \in Conns /\ conn \in [Connections -> Conns]
    BY ConnFacts
  <2>3. conn'[i].serving = TRUE
    BY <1>7, <2>2 DEF Fetch, Take, Becomes, Conns
  <2> QED BY <1>0, <2>1, <2>3, BeginOfOne, OthersBusy DEF Attends, Busy
<1>8. ASSUME NEW c \in Callers, Find(c) PROVE Undisturbed \/ \E i \in Connections : Attends(i)
  <2>1. CASE task'[c].phase = "connecting"
    <3>1. PICK i \in Connections : i = task'[c].conn /\ conn' = [conn EXCEPT ![i] = [Unborn EXCEPT !.phase = "opening"]]
      BY <1>8, <2>1, FindsUnused DEF Find
    <3>2. Begin(Main(i))
      BY <1>8, <2>1, <3>1 DEF Find, Sends
    <3>3. conn \in [Connections -> Conns]
      BY ConnFacts
    <3>4. conn'[i].phase = "opening" /\ \A j \in Connections \ {i} : conn'[j] = conn[j]
      BY <3>1, <3>3 DEF Unborn
    <3> QED BY <1>0, <3>2, <3>4, BeginOfOne DEF Attends, Busy
  <2> QED BY <1>3, <1>8, <2>1 DEF Find, Calling
<1>9. ASSUME NEW i \in Connections, ConnectionStep(i) PROVE Undisturbed \/ Attends(i)
  <2>1. CASE \E r \in {Main(i), Listen(i)} : RequestStep(r) /\ UNCHANGED poolVars
    BY <1>4, <2>1, NoneIsNothing
  <2> QED BY <1>2, <1>5, <1>7, <1>9, <2>1 DEF ConnectionStep, Quietly
<1>10. ASSUME NEW c \in Callers, CallerStep(c) PROVE Undisturbed \/ \E i \in Connections : Attends(i)
  BY <1>3, <1>8, <1>10 DEF CallerStep, Calling
<1>11. CASE EvictorStep \/ (EvictNothing /\ ForgetSession)
  <2>1. Evicting /\ request' = request
    BY <1>11 DEF EvictorStep, EvictServer, Evicting, ForgetSession, sessionVars
  <2> QED BY <2>1, BusyStays DEF Undisturbed
<1>12. CASE SessionStep
  <2>1. CASE TokenAges \/ Revoke
    BY <1>12, <2>1 DEF SessionStep, TokenAges, Revoke, Undisturbed, poolVars, Busy
  <2> QED BY <1>4, <1>12, <2>1 DEF SessionStep, CancelRequest
<1>13. CASE (ServerStep \/ Evict \/ \E c \in Callers : Start(c) \/ Cancel(c)) /\ UNCHANGED sessionVars
  BY <1>1, <1>2, <1>3, <1>13 DEF ServerStep, Evicting, Quietly, Calling
<1>14. CASE PoolStep
  BY <1>6, <1>9, <1>10, <1>11, <1>13, <1>14 DEF PoolStep
<1> QED BY <1>12, <1>14 DEF Next, Elsewhere

\* In a scene without active requests none begins.
LEMMA NobodyBegins ==
  ASSUME Session, Pool, scene.active = {}, Next
  PROVE  \A q \in Requests : request[q].phase = "idle" => request'[q].phase = "idle"
<1>1. ~Joined
  BY DEF Joined
<1>2. CASE request' = request
  BY <1>2
<1>3. ASSUME NEW r \in Requests, RequestStep(r) \/ Drop(r)
      PROVE  \A q \in Requests : request[q].phase = "idle" => request'[q].phase = "idle"
  BY <1>3, IdleStays
<1>4. CASE Elsewhere
  BY <1>2, <1>4 DEF Elsewhere, ForgetSession
<1>5. CASE SessionStep
  BY <1>2, <1>3, <1>5 DEF SessionStep, TokenAges, Revoke, CancelRequest
<1>6. ASSUME NEW i \in Connections, ConnectionStep(i) \/ Fail(i) \/ ReturnError(i) \/ Break(i)
      PROVE  request' = request \/ \E r \in Requests : RequestStep(r)
  BY <1>1, <1>6, NoneIsNothing DEF ConnectionStep, Fail, ReturnError, Break, Open, Fetch, Return, Sends, Abandons,
     sessionVars
<1>7. ASSUME NEW c \in Callers, CallerStep(c) PROVE request' = request
  BY <1>1, <1>7 DEF CallerStep, Find, Sends, sessionVars
<1>8. CASE EvictorStep \/ (EvictNothing /\ ForgetSession)
  BY <1>2, <1>8 DEF EvictorStep, EvictServer, ForgetSession, sessionVars
<1>9. CASE (ServerStep \/ Evict \/ \E c \in Callers : Start(c) \/ Cancel(c)) /\ UNCHANGED sessionVars
  BY <1>2, <1>9 DEF sessionVars
<1>10. CASE PoolStep
  BY <1>2, <1>3, <1>6, <1>7, <1>8, <1>9, <1>10 DEF PoolStep
<1> QED BY <1>4, <1>5, <1>10 DEF Next

\* So the requests stay with their runners.
LEMMA TogetherKept ==
  ASSUME Session, Pool, Together, Next
  PROVE  Together'
<1>1. scene' = scene
  BY PoolSteps, SceneStays
<1>2. ASSUME Joined PROVE \A i \in Connections : request'[Main(i)].phase # "idle" => Busy(i)'
  <2>1. \A i \in Connections : request[Main(i)].phase # "idle" => Busy(i)
    BY <1>2 DEF Together
  <2>2. \A i \in Connections : Main(i) \in Requests /\ \A j \in Connections : Main(i) = Main(j) => i = j
    BY NoneIsNothing DEF Main
  <2>3. CASE Undisturbed
    BY <2>1, <2>2, <2>3 DEF Undisturbed
  <2>4. ASSUME NEW i \in Connections, Attends(i), NEW j \in Connections, request'[Main(j)].phase # "idle"
        PROVE  Busy(j)'
    BY <2>1, <2>2, <2>4 DEF Attends, Only
  <2> QED BY <1>2, <2>3, <2>4, Attended
<1>3. scene.callers = {} => \A i \in Connections : conn'[i].phase = "unborn"
  BY PoolSteps, UnusedStays DEF Together
<1>4. scene.active = {} => \A r \in Requests : request'[r].phase = "idle"
  BY NobodyBegins DEF Together
<1>5. Joined' <=> Joined
  BY <1>1 DEF Joined
<1> QED BY <1>1, <1>2, <1>3, <1>4, <1>5 DEF Together

-----------------------------------------------------------------------------
(* The invariant of the system *)

\* The inductive invariant of the system.
Sound == Session /\ Rotation /\ Pool /\ Together

\* Every step keeps it, and every stutter.
LEMMA SoundKept ==
  ASSUME Sound, [Next]_vars
  PROVE  Sound'
<1>1. CASE Next
  <2>1. PoolMoves /\ SessionMoves
    BY <1>1, PoolSteps, SessionSteps DEF Sound
  <2> QED BY <1>1, <2>1, PoolKept, SessionKept, RotationKept, TogetherKept DEF Sound
<1>2. CASE UNCHANGED vars
  <2>1. UNCHANGED poolVars /\ UNCHANGED sessionVars /\ scene' = scene
    BY <1>2 DEF vars, poolVars
  <2>2. PoolMoves /\ SessionMoves
    BY <2>1 DEF PoolMoves, SessionMoves, SessionKinds
  <2>3. Pool' /\ Session' /\ Rotation'
    BY <2>2, PoolKept, SessionKept, RotationKept DEF Sound
  <2>4. Together'
    BY <2>1 DEF Sound, Together, Joined, Busy, poolVars, sessionVars
  <2> QED BY <2>3, <2>4 DEF Sound
<1> QED BY <1>1, <1>2

\* It holds to begin with: nobody has signed in.
LEMMA SessionStarts ==
  ASSUME SessionInit
  PROVE  Session /\ Rotation /\ \A r \in Requests : request[r].phase = "idle"
<1>1. /\ None \notin Tokens /\ None \notin Sessions /\ None \notin Requests
      /\ \A r \in Requests : Owner(r) \in Connections
  BY NoneIsNothing
<1>2. \A r \in Requests : request[r] = Idle
  BY DEF SessionInit
<1>3. \A a \in Connections : auth[a] = [lock |-> None, token |-> None] /\ replaced[a] = <<>>
  BY DEF SessionInit
<1>4. grants = <<>> /\ session = None /\ keylock = None
  BY DEF SessionInit
<1>5. ASSUME NEW r \in Requests PROVE RequestOK(r)
  <2>1. request[r] = Idle /\ Via(r).lock = None /\ r # None
    BY <1>1, <1>2, <1>3 DEF Via
  <2> QED BY <1>4, <2>1 DEF RequestOK, Idle, Saved, Phases, LockPhases, KeyPhases, AskPhases
<1>6. ASSUME NEW a \in Connections PROVE AuthOK(a) /\ ReplacedOK(a)
  <2>1. replaced[a] \in Seq({None} \cup Tokens) /\ DOMAIN replaced[a] = {}
    <3>1. replaced[a] = <<>>
      BY <1>3
    <3>2. <<>> \in Seq({None} \cup Tokens) /\ Len(<<>>) = 0
      OBVIOUS
    <3> QED BY <3>1, <3>2
  <2>2. AuthOK(a)
    BY <1>3 DEF AuthOK
  <2>3. ReplacedOK(a)
    BY <2>1 DEF ReplacedOK
  <2> QED BY <2>2, <2>3
<1>7. auth \in [Connections -> [lock: {None} \cup Requests, token: {None} \cup Tokens]]
  BY DEF SessionInit
<1>8. GotIsNew
  BY <1>2 DEF GotIsNew, Idle
<1>9. Session
  BY <1>4, <1>5, <1>6, <1>7, <1>8 DEF Session, SessionInit, GrantsOK, SessionOK
<1>10. Spent
  <2>1. spent.once = {} /\ spent.again = {}
    BY DEF SessionInit
  <2> QED BY <1>2, <1>4, <2>1 DEF Spent, Idle
<1>11. Newest
  BY <1>4 DEF Newest
<1> QED BY <1>2, <1>9, <1>10, <1>11 DEF Rotation, Idle

\* Nor is anybody connected.
LEMMA SoundStarts ==
  ASSUME Init
  PROVE  Sound
<1>1. Session /\ Rotation /\ Pool /\ \A r \in Requests : request[r].phase = "idle"
  BY SessionStarts, PoolStarts DEF Init
<1>2. Together
  BY <1>1, NoneIsNothing DEF Init, PoolInit, Together, Unborn
<1> QED BY <1>1, <1>2 DEF Sound

\* Whatever callers, connections, evictions, logouts and mishaps there are, in any
\* order, the pool and the session stay as Sound says (McpPool, McpConnection,
\* _SdkAuth, OAuthClient).
THEOREM SystemIsSound == Spec => []Sound
<1> QED BY SoundStarts, SoundKept, PTL DEF Spec

\* Requests that are refused with one and the same token make the user sign in
\* once (async_auth_flow).
THEOREM UserSignsInOnce == Spec => []OneSignInPerToken
<1>1. ASSUME Sound PROVE OneSignInPerToken
  BY <1>1 DEF Sound, Session, ReplacedOK, OneSignInPerToken
<1> QED BY <1>1, SystemIsSound, PTL

\* While tasks finish, no refresh token is presented twice, and the session that
\* nobody is refreshing holds the newest one of its grant (bearer_token).
THEOREM RotatingTokensAreKept == Spec => []RotationIsKept
<1>1. ASSUME Sound PROVE RotationIsKept
  BY <1>1 DEF Sound, Rotation, Spent, Newest, RotationIsKept, RefreshTokensSpentOnce, SessionIsRefreshable
<1> QED BY <1>1, SystemIsSound, PTL

\* What Session says of the types of the session.
LEMMA SessionPromises ==
  ASSUME Session
  PROVE  SessionTypeOK
<1>1. session # None => session.token.grant \in DOMAIN grants /\ session.steps \in 0..MaxStepUps
  BY DEF Session, SessionOK, Sessions, Issued
<1>2. \A a \in Connections : auth[a].lock \in {None} \cup {r \in Requests : Owner(r) = a}
  BY DEF Session, AuthOK
<1>3. \A r \in Requests : request[r].phase \in Phases
  BY DEF Session, RequestOK
<1> QED BY <1>1, <1>2, <1>3 DEF Session, SessionTypeOK, Phases, LockPhases, KeyPhases, AskPhases

\* The pool hands out one open connection per key, which keeps the notices it has
\* heard (get_or_connect, _sdk_listen).
THEOREM PoolStaysSound == Spec => []PoolIsSound
<1>1. ASSUME Sound PROVE PoolIsSound
  BY <1>1, PoolPromises, SessionPromises DEF Sound, PoolIsSound, SystemTypeOK
<1> QED BY <1>1, SystemIsSound, PTL

\* A request that holds a lock is not idle.
LEMMA HoldersAreActive ==
  ASSUME Session, NEW r \in Requests, keylock = r \/ Via(r).lock = r
  PROVE  request[r].phase # "idle"
BY RequestFacts DEF RequestOK, LockPhases, KeyPhases, AskPhases

\* Whoever waits for a runner, for a catalogue or for a lock waits for somebody
\* who is alive (_run_sdk, _catalogue_lock, _SdkAuth).
THEOREM NobodyWaitsForTheDead == Spec => []WaitersHaveServers
<1>1. ASSUME Sound PROVE WaitersHaveServers
  <2>1. ASSUME NEW i \in Connections, conn[i].phase = "ended"
        PROVE  keylock # Main(i) /\ auth[i].lock # Main(i)
    <3>1. ~Busy(i)
      BY <1>1, <2>1, ConnFacts DEF Sound, ConnOK, Busy
    <3>2. scene.callers # {}
      BY <1>1, <2>1 DEF Sound, Together
    <3>3. request[Main(i)].phase = "idle"
      BY <1>1, <3>1, <3>2, NoneIsNothing DEF Sound, Together, Joined
    <3> QED BY <1>1, <3>3, HoldersAreActive, NoneIsNothing DEF Sound, Via
  <2> QED BY <1>1, <2>1, PoolPromises DEF Sound, WaitersHaveServers, NoLockOutlivesConnection
<1> QED BY <1>1, SystemIsSound, PTL
=============================================================================
