------------------------------- MODULE McpSystem -------------------------------
(***************************************************************************)
(* The MCP client: the pool of connections (McpPool) and the OAuth session *)
(* their requests go through (OAuth).  A connection sends its handshake and *)
(* its commands through its _SdkAuth, one at a time, and the listener is a  *)
(* request of its own; evict_server forgets the session with the           *)
(* connection.  The OAuthClient may also be shared by connections whose     *)
(* pool is not looked at: in such a scene nobody uses the pool.             *)
(***************************************************************************)
EXTENDS McpPool, OAuth

VARIABLE elsewhere   \* bound: requests to be sent by connections outside the pool

vars == <<poolVars, sessionVars, elsewhere>>

-----------------------------------------------------------------------------
(* Steps of both *)

\* Whether requests of the pool's connections need to be authorised.
Joined == scene.active # {} /\ scene.callers # {}

Sends(i) == IF Joined THEN Begin(Main(i)) ELSE UNCHANGED sessionVars
IsSent(i) == Joined => request[Main(i)].phase = "idle"

\* connect() sends the handshake.
Find(c) ==
  /\ FindOrConnect(c)
  /\ IF task'[c].phase = "connecting" THEN Sends(task'[c].conn) ELSE UNCHANGED sessionVars

Open(i) == Opened(i) /\ IsSent(i) /\ UNCHANGED sessionVars
Fetch(i) == Take(i) /\ Sends(i)
Return(i) == Reply(i) /\ IsSent(i) /\ UNCHANGED sessionVars

\* What goes wrong with a request ends it wherever it is.
Abandons(i) == IF Joined THEN Drop(Main(i)) ELSE UNCHANGED sessionVars
Fail(i) == OpenFails(i) /\ Abandons(i)
ReturnError(i) == ReplyError(i) /\ Abandons(i)
Break(i) == Die(i) /\ Abandons(i)

\* evict_server: the session goes with the connection, unless close() raised.
EvictServer ==
  /\ EvictEnds
  /\ IF conn[evictor.conn].watcher # "dead" THEN ForgetSession ELSE UNCHANGED sessionVars

-----------------------------------------------------------------------------
(* The system *)

\* The tasks a connection runs for itself.
ConnectionStep(i) ==
  \/ Open(i) \/ Fetch(i) \/ Return(i)
  \/ UNCHANGED poolVars /\ \E r \in {Main(i), Listen(i)} : RequestStep(r)
  \/ ObeyClose(i) /\ UNCHANGED sessionVars
  \/ Drain(i) /\ UNCHANGED sessionVars
  \/ Watch(i) /\ UNCHANGED sessionVars
  \/ Sweep(i) /\ UNCHANGED sessionVars
  \/ \E a \in Background : Refresh(i, a) /\ UNCHANGED sessionVars

ServerStep ==
  \/ ServerChanges
  \/ \E i \in Connections : Subscribe(i) \/ LoseSubscription(i) \/ Hear(i) \/ Age(i)

CallerStep(c) ==
  \/ Find(c)
  \/ (Connected(c) \/ Use(c) \/ List(c) \/ Call(c)) /\ UNCHANGED sessionVars

EvictorStep ==
  \/ AskToClose /\ UNCHANGED sessionVars
  \/ EvictServer

PoolStep ==
  \/ (ServerStep \/ Evict \/ \E c \in Callers : Start(c) \/ Cancel(c)) /\ UNCHANGED sessionVars
  \/ EvictorStep \/ (EvictNothing /\ ForgetSession)
  \/ \E i \in Connections : ConnectionStep(i) \/ Fail(i) \/ ReturnError(i) \/ Break(i)
  \/ \E c \in Callers : CallerStep(c)

\* Requests of connections whose pool is not looked at, and logouts.
Elsewhere ==
  /\ ~Joined
  /\ \/ /\ elsewhere > 0 /\ elsewhere' = elsewhere - 1
        /\ \E r \in scene.active : Begin(r)
     \/ session # None /\ ForgetSession /\ UNCHANGED elsewhere
  /\ UNCHANGED poolVars

SessionStep ==
  /\ TokenAges \/ Revoke \/ \E r \in Requests : CancelRequest(r)
  /\ UNCHANGED poolVars

Init ==
  /\ PoolInit /\ SessionInit
  /\ elsewhere = IF Joined THEN 0 ELSE scene.rounds

Next == Elsewhere \/ ((PoolStep \/ SessionStep) /\ UNCHANGED elsewhere)

Spec == Init /\ [][Next]_vars

\* The servers answer or the request times out, the user answers, and no task
\* of the event loop waits for ever for its turn.  asyncio.Lock wakes its
\* waiters in order, so a caller is not overtaken for ever.
FairSpec ==
  /\ Spec
  /\ \A i \in Connections : WF_vars(ConnectionStep(i) /\ UNCHANGED elsewhere)
  /\ \A c \in Callers : SF_vars(CallerStep(c) /\ UNCHANGED elsewhere)
  /\ WF_vars(EvictorStep /\ UNCHANGED elsewhere)

-----------------------------------------------------------------------------
(* Properties *)

\* The pool's and the session's types.
SystemTypeOK == TypeOK /\ SessionTypeOK

\* A connection that is over, however it ended, leaves no lock of the session
\* behind: the next connection could not sign in.
NoLockOutlivesConnection ==
  \A i \in Connections :
    conn[i].phase = "ended" => keylock # Main(i) /\ auth[i].lock # Main(i)

\* The pool hands out one open connection per key, which keeps the notices it
\* has heard, whoever connects, evicts or fails meanwhile.
PoolIsSound == SystemTypeOK /\ CallersShareOneConnection /\ PooledIsOpen /\ NoticesAreKept

\* Whoever waits for a runner, for a catalogue or for a lock waits for somebody
\* who is alive.
WaitersHaveServers == NobodyIsForgotten /\ ListersAreAlive /\ NoLockOutlivesConnection

\* A rotating refresh token is spent once, and its successor kept.
RotationIsKept == RefreshTokensSpentOnce /\ SessionIsRefreshable

\* Every request ends, although each may hold the lock of its connection and
\* wait for the session's, and the other way round.
RequestsEnd ==
  ~Joined => <>[](\A r \in Requests : request[r].phase = "idle")
================================================================================
