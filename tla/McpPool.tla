-------------------------------- MODULE McpPool --------------------------------
(***************************************************************************)
(* The pool of connections to one MCP server for one Scope, and the tasks  *)
(* of each connection (McpPool and McpConnection in tools/mcp.py).         *)
(*                                                                         *)
(* A connection has a runner, which owns the SDK client and takes commands *)
(* from a queue one at a time; a watcher, which reads the catalogue again  *)
(* when the server says it changed; and a sweeper, which does so once a    *)
(* TTL.  Callers are the tool calls of Runs.  One evictor makes people     *)
(* connect again.  All share one event loop: a step ends at an await.      *)
(* The catalogue is a version number.                                      *)
(***************************************************************************)
EXTENDS McpScene, Sequences

CONSTANTS
  Callers,         \* tasks that use the server
  MaxMishaps       \* bound: cancelled callers, failed requests, dead runners

\* A caller is none of the tasks a connection runs for itself.  A scene tells
\* whether the server wants OAuth, who calls it how often, how many catalogues it
\* will have had, which requests need a token and a wider one, and what happens.
ASSUME McpPoolAssumption ==
  /\ MaxMishaps \in Nat
  /\ None \notin Callers \cup {"watcher", "sweeper", "evictor"}
  /\ Callers \cap {"watcher", "sweeper", "evictor"} = {}
  /\ Scenes \subseteq [oauth: BOOLEAN, callers: SUBSET Callers, rounds: Nat, versions: Nat \ {0},
                      active: SUBSET Requests, wide: SUBSET Requests, events: SUBSET STRING]

VARIABLES
  server,    \* the version of the server's catalogue
  pool,      \* [at, redirected, lock]: connections by key, the redirect, the pre-auth lock
  conn,      \* conn[i]: the i-th connection
  task,      \* task[c]: what caller c is doing
  evictor,   \* evict_server, run by one task again and again
  mishaps

poolVars == <<scene, server, pool, conn, task, evictor, mishaps>>

Background == {"watcher", "sweeper"}

\* The key a caller can compute, and the one with the identity of the token.
Keys == {"pre_auth", "post_auth"}
PostAuth == IF scene.oauth THEN "post_auth" ELSE "pre_auth"

Unborn ==
  [phase |-> "unborn",     \* of the runner
   ready |-> "pending",    \* the future connect() waits for
   closed |-> FALSE,       \* close() was called
   queue |-> <<>>,         \* _sdk_commands, the one being served included
   serving |-> FALSE,
   reading |-> 0,          \* the version in a list response on its way
   version |-> 0,          \* of the cached catalogue
   fresh |-> FALSE,        \* the cached catalogue is younger than its TTL
   lister |-> None,        \* holder of _catalogue_lock
   subscribed |-> FALSE,   \* the listener hears of changes
   told |-> 0,             \* history: the version of the last change it heard of
   changed |-> FALSE,      \* the _catalogue_changed event
   watcher |-> "off",
   sweeper |-> "off"]

Mishap(event) == Happens(event) /\ mishaps < MaxMishaps /\ mishaps' = mishaps + 1

Done(i) == conn[i].phase = "ended"
Becomes(i, new) == conn' = [conn EXCEPT ![i] = new]

-----------------------------------------------------------------------------
(* Commands and answers *)

Command(kind, by) == [kind |-> kind, by |-> by]

\* _sdk_command: onto the queue of a runner that is not over.
Queued(cn, kind, by) == [cn EXCEPT !.queue = Append(cn.queue, Command(kind, by))]

Finished(t) == [t EXCEPT !.phase = "idle", !.conn = 0, !.left = t.left - 1]

TaskAfter(t, outcome) ==
  IF outcome = "ok" /\ t.phase = "listing" THEN [t EXCEPT !.phase = "holding"] ELSE Finished(t)

\* Mutation: a failed refresh ends the task that asked for it.
BackgroundAfterAny(outcome) == IF outcome = "ok" THEN "waiting" ELSE "dead"

\* The background tasks suppress McpServerUnreachable and McpProtocolError,
\* and die of McpResponseTooLarge.
BackgroundAfter(outcome) == IF outcome = "too_large" THEN "dead" ELSE "waiting"

EvictorAfter(outcome) ==
  IF outcome = "ok" THEN [evictor EXCEPT !.phase = "awaiting"] ELSE [phase |-> "idle", conn |-> 0]

\* The futures of the commands resolve: task, evictor and the connection.
Resolve(who, outcome) ==
  /\ task' = [c \in Callers |-> IF c \in who THEN TaskAfter(task[c], outcome) ELSE task[c]]
  /\ evictor' = IF "evictor" \in who THEN EvictorAfter(outcome) ELSE evictor

\* Mutation: the event is cleared when the refresh is there.
ResolvedClearing(cn, who, outcome) ==
  [cn EXCEPT
     !.lister = IF cn.lister \in who THEN None ELSE cn.lister,
     !.changed = IF "watcher" \in who THEN FALSE ELSE cn.changed,
     !.watcher = IF "watcher" \in who THEN BackgroundAfter(outcome) ELSE cn.watcher,
     !.sweeper = IF "sweeper" \in who THEN BackgroundAfter(outcome) ELSE cn.sweeper]

Resolved(cn, who, outcome) ==
  [cn EXCEPT
     !.lister = IF cn.lister \in who THEN None ELSE cn.lister,
     !.watcher = IF "watcher" \in who THEN BackgroundAfter(outcome) ELSE cn.watcher,
     !.sweeper = IF "sweeper" \in who THEN BackgroundAfter(outcome) ELSE cn.sweeper]

Orphaned(queue, who) ==
  [n \in DOMAIN queue |-> IF queue[n].by = who THEN Command(queue[n].kind, None) ELSE queue[n]]

\* Mutation: the lock is not released with its holder.
DisownedLocked(cn, who) == [cn EXCEPT !.queue = Orphaned(cn.queue, who)]

\* Whoever asked is gone; the command stays (asyncio.shield).
Disowned(cn, who) ==
  [cn EXCEPT !.lister = IF cn.lister = who THEN None ELSE cn.lister,
             !.queue = Orphaned(cn.queue, who)]

-----------------------------------------------------------------------------
(* The runner: _run_sdk *)

\* Negotiated, and the first catalogue is there.
Opened(i) ==
  /\ conn[i].phase = "opening"
  /\ Becomes(i, [conn[i] EXCEPT !.phase = "ready", !.ready = "yes", !.watcher = "waiting",
                                !.version = server, !.told = server, !.fresh = TRUE])
  /\ UNCHANGED <<scene, server, pool, task, evictor, mishaps>>

OpenFails(i) ==
  /\ conn[i].phase = "opening" /\ Mishap("fail")
  /\ Becomes(i, [conn[i] EXCEPT !.phase = "ended", !.ready = "no"])
  /\ UNCHANGED <<scene, server, pool, task, evictor>>

First(i) == Head(conn[i].queue)
Rest(cn) == [cn EXCEPT !.queue = Tail(cn.queue), !.serving = FALSE, !.reading = 0]

\* The next command goes to the server.
Take(i) ==
  /\ conn[i].phase = "ready" /\ ~conn[i].serving
  /\ conn[i].queue # <<>> /\ First(i).kind # "close"
  /\ Becomes(i, [conn[i] EXCEPT !.serving = TRUE,
                                !.reading = IF First(i).kind = "list" THEN server ELSE 0])
  /\ UNCHANGED <<scene, server, pool, task, evictor, mishaps>>

Reply(i) ==
  LET cn == conn[i] IN
  /\ cn.phase = "ready" /\ cn.serving
  /\ Resolve({First(i).by}, "ok")
  /\ Becomes(i, [Rest(Resolved(cn, {First(i).by}, "ok")) EXCEPT
       !.version = IF First(i).kind = "list" THEN cn.reading ELSE cn.version,
       !.fresh = First(i).kind = "list" \/ cn.fresh])
  /\ UNCHANGED <<scene, server, pool, mishaps>>

\* The request fails, or its response is too large.
ReplyError(i) ==
  /\ conn[i].phase = "ready" /\ conn[i].serving
  /\ \E outcome \in {"unreachable", "too_large"} :
       /\ Mishap(IF outcome = "too_large" THEN "oversize" ELSE "fail")
       /\ Resolve({First(i).by}, outcome)
       /\ Becomes(i, Rest(Resolved(conn[i], {First(i).by}, outcome)))
  /\ UNCHANGED <<scene, server, pool>>

ObeyClose(i) ==
  /\ conn[i].phase = "ready" /\ ~conn[i].serving
  /\ conn[i].queue # <<>> /\ First(i).kind = "close"
  /\ Resolve({First(i).by}, "ok")
  /\ Becomes(i, [Rest(conn[i]) EXCEPT !.phase = "draining"])
  /\ UNCHANGED <<scene, server, pool, mishaps>>

\* The SDK cancels the runner: its connection is gone.
Die(i) ==
  LET served == IF conn[i].serving THEN {First(i).by} ELSE {} IN
  /\ conn[i].phase = "ready" /\ Mishap("drop")
  /\ Resolve(served, "unreachable")
  /\ Becomes(i, [Resolved(IF conn[i].serving THEN Rest(conn[i]) ELSE conn[i], served, "unreachable")
                   EXCEPT !.phase = "draining"])
  /\ UNCHANGED <<scene, server, pool>>

\* Mutation: what is still queued is left there.
DrainNothing(i) ==
  /\ conn[i].phase = "draining"
  /\ Becomes(i, [Disowned(conn[i], "watcher") EXCEPT
       !.phase = "ended", !.subscribed = FALSE, !.watcher = "off"])
  /\ UNCHANGED <<scene, server, pool, task, evictor, mishaps>>

\* The finally block: the listener and the watcher are cancelled, then every
\* command left is refused.  A dead watcher's exception comes first.
Drain(i) ==
  LET quiet == [Disowned(conn[i], "watcher") EXCEPT
                  !.phase = "ended", !.subscribed = FALSE, !.watcher = "off"]
      left == {quiet.queue[n].by : n \in DOMAIN quiet.queue}
  IN
  /\ conn[i].phase = "draining"
  /\ \/ /\ conn[i].watcher # "dead"
        /\ Resolve(left, "unreachable")
        /\ Becomes(i, [Resolved(quiet, left, "unreachable") EXCEPT !.queue = <<>>])
     \/ /\ conn[i].watcher = "dead"
        /\ Becomes(i, [quiet EXCEPT !.watcher = "dead"])
        /\ UNCHANGED <<task, evictor>>
  /\ UNCHANGED <<scene, server, pool, mishaps>>

-----------------------------------------------------------------------------
(* The catalogue *)

\* The server offers other tools from now on.
ServerChanges ==
  /\ server < scene.versions
  /\ server' = server + 1
  /\ UNCHANGED <<scene, pool, conn, task, evictor, mishaps>>

\* _sdk_listen.
Subscribe(i) ==
  /\ conn[i].phase = "ready" /\ ~conn[i].subscribed /\ ~conn[i].closed
  /\ Becomes(i, [conn[i] EXCEPT !.subscribed = TRUE])
  /\ UNCHANGED <<scene, server, pool, task, evictor, mishaps>>

LoseSubscription(i) ==
  /\ conn[i].subscribed /\ Mishap("lost_subscription")
  /\ Becomes(i, [conn[i] EXCEPT !.subscribed = FALSE, !.changed = TRUE])
  /\ UNCHANGED <<scene, server, pool, task, evictor>>

Hear(i) ==
  /\ conn[i].phase = "ready" /\ conn[i].subscribed /\ conn[i].told < server
  /\ Becomes(i, [conn[i] EXCEPT !.told = server, !.changed = TRUE])
  /\ UNCHANGED <<scene, server, pool, task, evictor, mishaps>>

\* _sdk_watch_catalogue_changes, _sweep_loop: the wait is over.
Watch(i) ==
  /\ conn[i].watcher = "waiting" /\ conn[i].changed
  /\ Becomes(i, [conn[i] EXCEPT !.watcher = "wanting", !.changed = FALSE])
  /\ UNCHANGED <<scene, server, pool, task, evictor, mishaps>>

Sweep(i) ==
  /\ conn[i].sweeper = "waiting"
  /\ Becomes(i, [conn[i] EXCEPT !.sweeper = IF conn[i].closed THEN "off" ELSE "wanting"])
  /\ UNCHANGED <<scene, server, pool, task, evictor, mishaps>>

\* _refresh_catalogue, by a background task: the lock, then the command.
Refresh(i, a) ==
  /\ conn[i][a] = "wanting" /\ conn[i].lister = None
  /\ Becomes(i, IF Done(i) THEN [conn[i] EXCEPT ![a] = BackgroundAfter("unreachable")]
                ELSE [Queued(conn[i], "list", a) EXCEPT ![a] = "listing", !.lister = a])
  /\ UNCHANGED <<scene, server, pool, task, evictor, mishaps>>

Age(i) ==
  /\ conn[i].fresh /\ Happens("age")
  /\ Becomes(i, [conn[i] EXCEPT !.fresh = FALSE])
  /\ UNCHANGED <<scene, server, pool, task, evictor, mishaps>>

-----------------------------------------------------------------------------
(* Callers: get_or_connect, list_tools, call_tool *)

Goes(c, phase) == task' = [task EXCEPT ![c].phase = phase]
GoesTo(c, phase, i) == task' = [task EXCEPT ![c] = [task[c] EXCEPT !.phase = phase, !.conn = i]]
Ends(c) == task' = [task EXCEPT ![c] = Finished(task[c])]

\* The pool's entries with another one under the key.
Pools(key, i) == [pool.at EXCEPT ![key] = i]

Start(c) ==
  /\ task[c].phase = "idle" /\ task[c].left > 0
  /\ Goes(c, "locking")
  /\ UNCHANGED <<scene, server, pool, conn, evictor, mishaps>>

LookupKey == IF pool.redirected THEN "post_auth" ELSE "pre_auth"
Unused == {i \in Connections : conn[i].phase = "unborn"}

Connecting(c) ==
  \E i \in Unused :
    /\ \A k \in Unused : i <= k
    /\ Becomes(i, [Unborn EXCEPT !.phase = "opening"])
    /\ GoesTo(c, "connecting", i)

\* Mutation: the lock is not held across the connect.
FindOrConnectUnlocked(c) ==
  LET i == pool.at[LookupKey] IN
  /\ task[c].phase = "locking" /\ pool.lock = None
  /\ \/ /\ i # 0
        /\ GoesTo(c, "using", i)
        /\ UNCHANGED conn
     \/ i = 0 /\ Connecting(c)
  /\ UNCHANGED <<scene, server, pool, evictor, mishaps>>

\* Mutation: the pool gets the connection before it is open.
FindOrConnectEarly(c) ==
  LET i == pool.at[LookupKey] IN
  /\ task[c].phase = "locking" /\ pool.lock = None
  /\ \/ /\ i # 0
        /\ GoesTo(c, "using", i)
        /\ UNCHANGED <<conn, pool>>
     \/ /\ i = 0
        /\ Connecting(c)
        /\ pool' = [pool EXCEPT !.lock = c, !.at = Pools("pre_auth", task'[c].conn)]
  /\ UNCHANGED <<scene, server, evictor, mishaps>>

\* The connection of the pool, or a new one under the lock.
FindOrConnect(c) ==
  LET i == pool.at[LookupKey] IN
  /\ task[c].phase = "locking" /\ pool.lock = None
  /\ \/ /\ i # 0
        /\ GoesTo(c, "using", i)
        /\ UNCHANGED <<conn, pool>>
     \/ /\ i = 0
        /\ Connecting(c)
        /\ pool' = [pool EXCEPT !.lock = c]
  /\ UNCHANGED <<scene, server, evictor, mishaps>>

\* connect() returned: the sweeper starts, and the pool gets the connection.
Connected(c) ==
  LET i == task[c].conn IN
  /\ task[c].phase = "connecting" /\ conn[i].ready # "pending"
  /\ \/ /\ conn[i].ready = "yes"
        /\ Becomes(i, [conn[i] EXCEPT !.sweeper = "waiting"])
        /\ pool' = [pool EXCEPT !.at = Pools(PostAuth, i), !.redirected = scene.oauth, !.lock = None]
        /\ Goes(c, "using")
     \/ /\ conn[i].ready = "no"
        /\ pool' = [pool EXCEPT !.lock = None]
        /\ Ends(c) /\ UNCHANGED conn
  /\ UNCHANGED <<scene, server, evictor, mishaps>>

Use(c) ==
  /\ task[c].phase = "using"
  /\ Goes(c, IF conn[task[c].conn].fresh THEN "holding" ELSE "wanting")
  /\ UNCHANGED <<scene, server, pool, conn, evictor, mishaps>>

List(c) ==
  LET i == task[c].conn IN
  /\ task[c].phase = "wanting" /\ conn[i].lister = None
  /\ \/ Done(i) /\ Ends(c) /\ UNCHANGED conn
     \/ /\ ~Done(i)
        /\ Becomes(i, [Queued(conn[i], "list", c) EXCEPT !.lister = c])
        /\ Goes(c, "listing")
  /\ UNCHANGED <<scene, server, pool, evictor, mishaps>>

Call(c) ==
  LET i == task[c].conn IN
  /\ task[c].phase = "holding"
  /\ \/ Done(i) /\ Ends(c) /\ UNCHANGED conn
     \/ ~Done(i) /\ Becomes(i, Queued(conn[i], "call", c)) /\ Goes(c, "calling")
  /\ UNCHANGED <<scene, server, pool, evictor, mishaps>>

\* The Run is aborted, or the tool times out.
Cancel(c) ==
  LET i == task[c].conn IN
  /\ task[c].phase \in {"connecting", "wanting", "listing", "calling"} /\ Mishap("cancel")
  /\ pool' = [pool EXCEPT !.lock = IF pool.lock = c THEN None ELSE pool.lock]
  /\ Becomes(i, Disowned(conn[i], c))
  /\ Ends(c)
  /\ UNCHANGED <<scene, server, evictor>>

-----------------------------------------------------------------------------
(* evict_server *)

\* What evict and evict_server drop once the connection is closed.
Forget ==
  /\ pool' = [pool EXCEPT !.at = Pools("pre_auth", 0), !.redirected = FALSE]
  /\ evictor' = [phase |-> "idle", conn |-> 0]

\* Mutation: the connection leaves the pool when it is closed.
EvictLate ==
  LET i == pool.at[LookupKey] IN
  /\ Happens("evict") /\ evictor.phase = "idle" /\ i # 0
  /\ Becomes(i, [Disowned(conn[i], "sweeper") EXCEPT !.closed = TRUE, !.sweeper = "off"])
  /\ evictor' = [phase |-> "stopping", conn |-> i]
  /\ UNCHANGED <<scene, server, pool, task, mishaps>>

\* The connection leaves the pool; close() begins with the sweeper, whose
\* own exception, if it died of one, ends the eviction.
Evict ==
  LET i == pool.at[LookupKey] IN
  /\ Happens("evict") /\ evictor.phase = "idle" /\ i # 0
  /\ Becomes(i, [Disowned(conn[i], "sweeper") EXCEPT !.closed = TRUE, !.sweeper = "off"])
  /\ pool' = [pool EXCEPT !.at = Pools(LookupKey, 0)]
  /\ evictor' = IF conn[i].sweeper = "dead" THEN evictor ELSE [phase |-> "stopping", conn |-> i]
  /\ UNCHANGED <<scene, server, task, mishaps>>

EvictNothing ==
  /\ Happens("evict") /\ evictor.phase = "idle" /\ pool.at[LookupKey] = 0
  /\ Forget
  /\ UNCHANGED <<scene, server, conn, task, mishaps>>

AskToClose ==
  LET i == evictor.conn IN
  /\ evictor.phase = "stopping"
  /\ \/ Done(i) /\ evictor' = [evictor EXCEPT !.phase = "awaiting"] /\ UNCHANGED conn
     \/ /\ ~Done(i)
        /\ Becomes(i, Queued(conn[i], "close", "evictor"))
        /\ evictor' = [evictor EXCEPT !.phase = "closing"]
  /\ UNCHANGED <<scene, server, pool, task, mishaps>>

\* close() waits for the runner, and raises what the runner raised.
EvictEnds ==
  /\ evictor.phase = "awaiting" /\ Done(evictor.conn)
  /\ \/ conn[evictor.conn].watcher # "dead" /\ Forget
     \/ /\ conn[evictor.conn].watcher = "dead"
        /\ evictor' = [phase |-> "idle", conn |-> 0] /\ UNCHANGED pool
  /\ UNCHANGED <<scene, server, conn, task, mishaps>>

-----------------------------------------------------------------------------

PoolInit ==
  /\ scene \in Scenes
  /\ server = 1
  /\ pool = [at |-> [k \in Keys |-> 0], redirected |-> FALSE, lock |-> None]
  /\ conn = [i \in Connections |-> Unborn]
  /\ task = [c \in Callers |-> [phase |-> "idle", conn |-> 0,
                           left |-> IF c \in scene.callers THEN scene.rounds ELSE 0]]
  /\ evictor = [phase |-> "idle", conn |-> 0]
  /\ mishaps = 0

-----------------------------------------------------------------------------
(* Properties *)

TypeOK ==
  /\ server \in 1..scene.versions
  /\ \A k \in Keys : pool.at[k] # 0 => conn[pool.at[k]].ready = "yes"
  /\ pool.lock \in Callers \cup {None} /\ (pool.redirected => scene.oauth)
  /\ \A i \in Connections :
       /\ conn[i].phase \in {"unborn", "opening", "ready", "draining", "ended"}
       /\ conn[i].lister \in Callers \cup Background \cup {None}
       /\ conn[i].version <= server /\ conn[i].told <= server
       /\ conn[i].serving => conn[i].queue # <<>>
  /\ \A c \in Callers : task[c].conn \in {0} \cup Connections /\ task[c].left \in 0..scene.rounds
  /\ mishaps \in 0..MaxMishaps

Awaiting(i) ==
  {c \in Callers : task[c].conn = i /\ task[c].phase \in {"listing", "calling"}}
    \cup {a \in Background : conn[i][a] = "listing"}
    \cup {a \in {"evictor"} : evictor = [phase |-> "closing", conn |-> i]}

\* Whoever waits for a command's answer is in the queue of a runner that will
\* come to it: nobody waits for a runner that is over, whatever it died of and
\* whenever the command came (_run_sdk's last loop).  A watcher that died of an
\* oversized catalogue stops the runner from getting there.
NobodyIsForgotten ==
  \A i \in Connections : conn[i].watcher # "dead" =>
    \A a \in Awaiting(i) :
      conn[i].phase # "ended" /\ \E n \in DOMAIN conn[i].queue : conn[i].queue[n].by = a

\* Only one task at a time reads a catalogue, and a cancelled one does not
\* keep the others from it (_catalogue_lock).
ListersAreAlive ==
  \A i \in Connections : conn[i].lister # None => conn[i].lister \in Awaiting(i)

\* As long as nobody evicts, all callers talk over one connection, however
\* their connects overlap ("a second caller for the same pre-auth key finds
\* the same connection", get_or_connect).
CallersShareOneConnection ==
  ~Happens("evict") =>
    \A c, d \in Callers :
      {task[c].phase, task[d].phase} \subseteq {"using", "wanting", "listing", "holding", "calling"}
        => task[c].conn = task[d].conn

\* A caller is never handed a connection that somebody began to close.
PooledIsOpen == \A k \in Keys : pool.at[k] # 0 => ~conn[pool.at[k]].closed

\* A change the listener heard of is read, or about to be: a notice that comes
\* while a refresh is under way is not lost to it.
NoticesAreKept ==
  \A i \in Connections :
    LET cn == conn[i] IN
    cn.phase = "ready" /\ cn.version < cn.told /\ mishaps = 0 =>
      cn.changed \/ cn.watcher \in {"wanting", "listing"}

Stale(i) == conn[i].phase = "ready" /\ ~conn[i].closed /\ conn[i].version < server

\* A catalogue catches up with the server, although notices are lost while
\* nobody listens and refreshes fail ("the next sweep, the next on-demand
\* call, or a list_changed notification will catch up", _sweep_loop).  A sweeper
\* that died of an oversized catalogue catches up with nothing.
CatalogueCatchesUp ==
  ~Happens("oversize") => \A i \in Connections : Stale(i) ~> ~Stale(i)

\* Every call returns, and so does every eviction; not so when the watcher dies.
CallsReturn ==
  ~Happens("oversize") =>
    /\ \A c \in Callers : task[c].phase # "idle" ~> task[c].phase = "idle"
    /\ evictor.phase # "idle" ~> evictor.phase = "idle"

\* A connection that is open is in the pool, or somebody still connects or
\* closes it.
OpenConnectionsAreHeld ==
  \A i \in Connections :
    conn[i].phase \in {"opening", "ready"} /\ ~conn[i].closed =>
      \/ \E k \in Keys : pool.at[k] = i
      \/ \E c \in Callers : task[c].phase = "connecting" /\ task[c].conn = i
=============================================================================
