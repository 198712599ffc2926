--------------------------------- MODULE OAuth ---------------------------------
(***************************************************************************)
(* The OAuth session for one resource and Scope (tools/oauth/client.py) and *)
(* the requests that go through it (_SdkAuth in tools/mcp.py).              *)
(*                                                                         *)
(* This is Psych's own flow: a connection uses it when sdk_auth gives no    *)
(* provider of the SDK, or when the credential it was configured with is    *)
(* refused.  Every connection has an _SdkAuth, with a lock and the          *)
(* credential it last saw (None also for one that was never any good); all  *)
(* of them share the OAuthClient's session, which has a lock per key.       *)
(* bearer_token and step_up hold that lock over their requests to the       *)
(* authorization server; start and evict do not take it.  All tasks share   *)
(* one event loop: a step ends at an await.                                 *)
(***************************************************************************)
EXTENDS McpScene, Sequences

CONSTANTS
  MaxGrants,     \* bound: authorizations the server ever gives
  MaxSerial,     \* bound: tokens per authorization
  MaxStepUps     \* max_step_up_attempts

\* None is neither a token nor a session.
ASSUME OAuthAssumption ==
  /\ MaxGrants \in Nat /\ MaxSerial \in Nat /\ MaxStepUps \in Nat
  /\ None \notin [grant: Nat, serial: Nat, wide: BOOLEAN]
  /\ None \notin [token: [grant: Nat, serial: Nat, wide: BOOLEAN], aging: BOOLEAN, steps: Nat]

VARIABLES
  grants,     \* external: the authorization server's grants, newest last
  session,    \* _sessions[key], or None
  keylock,    \* holder of _locks[key]
  auth,       \* auth[a]: [lock, token], the lock's holder and the credential
  request,    \* request[r]: what request r is doing
  spent,      \* history: the refresh tokens presented, and the ones presented again
  replaced     \* history: replaced[a], the tokens a has replaced after a challenge

sessionVars == <<grants, session, keylock, auth, request, spent, replaced>>

\* An access token and the refresh token that came with it.  A grant's newest
\* refresh token is the only one that works.
Token(grant, serial, wide) == [grant |-> grant, serial |-> serial, wide |-> wide]
Grant == [serial |-> 1, live |-> TRUE]

\* The _SdkAuth of the connection.
Owner(r) == r[1]
Via(r) == auth[Owner(r)]
Saved(r) == request[r].session

\* Where in async_auth_flow, the token it went out with, the session read under
\* the key's lock, and what came back.
Idle == [phase |-> "idle", sent |-> None, session |-> None, got |-> None]
OnItsWay(phase, token) == [phase |-> phase, sent |-> token, session |-> None, got |-> None]
Moves(r, phase) == request' = [request EXCEPT ![r].phase = phase]

\* It goes on with the session it found under the key's lock.
MovesWithSession(r, phase) ==
  request' = [request EXCEPT ![r] = [request[r] EXCEPT !.phase = phase, !.session = session]]

-----------------------------------------------------------------------------
(* async_auth_flow *)

\* The header is set, the lock of the _SdkAuth is free again.
Send(r, token) ==
  /\ auth' = [auth EXCEPT ![Owner(r)] = [lock |-> None, token |-> token]]
  /\ request' = [request EXCEPT ![r] = OnItsWay("sent", token)]

Resend(r, token) ==
  /\ auth' = [auth EXCEPT ![Owner(r)] = [lock |-> None, token |-> token]]
  /\ request' = [request EXCEPT ![r] = OnItsWay("resent", token)]

Fails(r) ==
  /\ auth' = [auth EXCEPT ![Owner(r)].lock = None]
  /\ request' = [request EXCEPT ![r] = Idle]

Begin(r) ==
  /\ request[r].phase = "idle"
  /\ Moves(r, "locking")
  /\ UNCHANGED <<grants, session, keylock, auth, spent, replaced>>

Lock(r) ==
  /\ request[r].phase = "locking" /\ Via(r).lock = None
  /\ auth' = [auth EXCEPT ![Owner(r)].lock = r]
  /\ Moves(r, "renewing")
  /\ UNCHANGED <<grants, session, keylock, spent, replaced>>

\* The resource answers a request that carries this token.
Answers(r, token) ==
  IF token = None \/ ~grants[token.grant].live THEN {"unauthorized"}
  ELSE {IF r \in scene.wide /\ ~token.wide THEN "insufficient_scope" ELSE "ok"}
       \cup (IF token.serial < grants[token.grant].serial THEN {"unauthorized"} ELSE {})

Answer(r) ==
  /\ request[r].phase \in {"sent", "resent"}
  /\ \E answer \in Answers(r, request[r].sent) :
       request' = [request EXCEPT ![r] =
         IF request[r].phase = "sent" /\ answer # "ok"
         THEN [request[r] EXCEPT !.phase = answer] ELSE Idle]
  /\ UNCHANGED <<grants, session, keylock, auth, spent, replaced>>

\* 401 and 403.
Challenges == {"unauthorized", "insufficient_scope"}

\* Mutation: whoever is challenged signs in.
MeetChallengeAlways(r) ==
  /\ request[r].phase \in Challenges /\ Via(r).lock = None
  /\ auth' = [auth EXCEPT ![Owner(r)].lock = r]
  /\ Moves(r, IF request[r].phase = "unauthorized" THEN "starting" ELSE "widening")
  /\ UNCHANGED <<grants, session, keylock, spent, replaced>>

\* A newer token than the one that was refused is tried before asking again.
MeetChallenge(r) ==
  /\ request[r].phase \in Challenges /\ Via(r).lock = None
  /\ \/ Via(r).token # request[r].sent /\ Resend(r, Via(r).token)
     \/ /\ Via(r).token = request[r].sent
        /\ auth' = [auth EXCEPT ![Owner(r)].lock = r]
        /\ Moves(r, IF request[r].phase = "unauthorized" THEN "starting" ELSE "widening")
  /\ UNCHANGED <<grants, session, keylock, spent, replaced>>

-----------------------------------------------------------------------------
(* bearer_token *)

\* Mutation: the lock is not held over the refresh.
RenewUnlocked(r) ==
  /\ request[r].phase = "renewing" /\ keylock = None
  /\ \/ session = None /\ Send(r, Via(r).token)
     \/ session # None /\ ~session.aging /\ Send(r, session.token)
     \/ /\ session # None /\ session.aging
        /\ MovesWithSession(r, "refreshing")
        /\ UNCHANGED auth
  /\ UNCHANGED <<grants, session, keylock, spent, replaced>>

Renew(r) ==
  /\ request[r].phase = "renewing" /\ keylock = None
  /\ \/ session = None /\ Send(r, Via(r).token) /\ UNCHANGED keylock
     \/ session # None /\ ~session.aging /\ Send(r, session.token) /\ UNCHANGED keylock
     \/ /\ session # None /\ session.aging
        /\ keylock' = r
        /\ MovesWithSession(r, "refreshing")
        /\ UNCHANGED auth
  /\ UNCHANGED <<grants, session, spent, replaced>>

Refreshable(token) == grants[token.grant] = [serial |-> token.serial, live |-> TRUE]

\* The authorization server gives a new pair for the newest refresh token.
Refreshed(r) ==
  LET token == Saved(r).token IN
  /\ request[r].phase = "refreshing" /\ request[r].got = None
  /\ token.serial < MaxSerial
  /\ spent' = [once |-> spent.once \cup {token},
               again |-> IF token \in spent.once THEN spent.again \cup {token} ELSE spent.again]
  /\ IF Refreshable(token)
     THEN /\ grants' = [grants EXCEPT ![token.grant].serial = token.serial + 1]
          /\ request' = [request EXCEPT ![r].got = Token(token.grant, token.serial + 1, token.wide)]
     ELSE /\ Moves(r, "refused") /\ UNCHANGED grants
  /\ UNCHANGED <<session, keylock, auth, replaced>>

\* Mutation: the fresh token is used and not kept.
RenewedForgetting(r) ==
  /\ request[r].phase = "refreshing" /\ request[r].got # None
  /\ Send(r, request[r].got)
  /\ keylock' = None
  /\ UNCHANGED <<grants, session, spent, replaced>>

\* The session is the one read before the refresh, with the new tokens.
Renewed(r) ==
  /\ request[r].phase = "refreshing" /\ request[r].got # None
  /\ session' = [Saved(r) EXCEPT !.token = request[r].got, !.aging = FALSE]
  /\ Send(r, request[r].got)
  /\ keylock' = None
  /\ UNCHANGED <<grants, spent, replaced>>

\* TokenRequestFailed, also when no answer came: the session is dropped, and
\* the request goes out with the old token.
NotRenewed(r) ==
  /\ request[r].phase = "refused" \/ (request[r].phase = "refreshing" /\ Happens("blip"))
  /\ session' = None
  /\ Send(r, Via(r).token)
  /\ keylock' = None
  /\ UNCHANGED <<grants, spent, replaced>>

-----------------------------------------------------------------------------
(* start and step_up *)

\* The user agrees, or the client's own credentials are good.
Granted(r, wide, steps) ==
  LET token == Token(Len(grants) + 1, 1, wide) IN
  /\ Len(grants) < MaxGrants
  /\ grants' = Append(grants, Grant)
  /\ session' = [token |-> token, aging |-> FALSE, steps |-> steps]
  /\ replaced' = [replaced EXCEPT ![Owner(r)] = Append(replaced[Owner(r)], request[r].sent)]
  /\ Resend(r, token)

\* start: a session of its own, whatever another task did to the key.
Started(r) ==
  /\ request[r].phase = "starting"
  /\ Granted(r, FALSE, 0)
  /\ UNCHANGED <<keylock, spent>>

MayWiden == session # None /\ session.steps < MaxStepUps

\* step_up, after a 403.
Widen(r) ==
  /\ request[r].phase = "widening" /\ keylock = None
  /\ \/ /\ ~MayWiden
        /\ Fails(r) /\ UNCHANGED keylock
     \/ /\ MayWiden
        /\ keylock' = r
        /\ MovesWithSession(r, "stepping_up")
        /\ UNCHANGED auth
  /\ UNCHANGED <<grants, session, spent, replaced>>

SteppedUp(r) ==
  /\ request[r].phase = "stepping_up"
  /\ Granted(r, TRUE, Saved(r).steps + 1)
  /\ keylock' = None
  /\ UNCHANGED <<spent>>

\* The user declines, or the authorization server does.
Denied(r) ==
  /\ request[r].phase \in {"starting", "stepping_up"}
  /\ Fails(r)
  /\ keylock' = IF keylock = r THEN None ELSE keylock
  /\ UNCHANGED <<grants, session, spent, replaced>>

-----------------------------------------------------------------------------
(* What else happens *)

\* Mutation: a cancelled task keeps the lock of the key.
DropKeepingKey(r) ==
  /\ auth' = [auth EXCEPT ![Owner(r)].lock = IF Via(r).lock = r THEN None ELSE Via(r).lock]
  /\ request' = [request EXCEPT ![r] = Idle]
  /\ UNCHANGED <<grants, session, keylock, spent, replaced>>

\* The task is cancelled; its locks are freed on the way out.
Drop(r) ==
  /\ auth' = [auth EXCEPT ![Owner(r)].lock = IF Via(r).lock = r THEN None ELSE Via(r).lock]
  /\ keylock' = IF keylock = r THEN None ELSE keylock
  /\ request' = [request EXCEPT ![r] = Idle]
  /\ UNCHANGED <<grants, session, spent, replaced>>

CancelRequest(r) ==
  /\ Happens("cancel") /\ request[r].phase # "idle"
  /\ Drop(r)

\* The token comes within the safety margin of its expiry.
TokenAges ==
  /\ session # None /\ ~session.aging /\ session.token.serial < MaxSerial
  /\ session' = [session EXCEPT !.aging = TRUE]
  /\ UNCHANGED <<grants, keylock, auth, request, spent, replaced>>

Revoke ==
  /\ Happens("revoke")
  /\ \E g \in DOMAIN grants : grants[g].live /\ grants' = [grants EXCEPT ![g].live = FALSE]
  /\ UNCHANGED <<session, keylock, auth, request, spent, replaced>>

\* evict: a logout, or McpPool.evict_server.
ForgetSession ==
  /\ session' = None
  /\ UNCHANGED <<grants, keylock, auth, request, spent, replaced>>

-----------------------------------------------------------------------------

SessionInit ==
  /\ grants = <<>>
  /\ session = None
  /\ keylock = None
  /\ auth = [a \in Connections |-> [lock |-> None, token |-> None]]
  /\ request = [r \in Requests |-> Idle]
  /\ spent = [once |-> {}, again |-> {}]
  /\ replaced = [a \in Connections |-> <<>>]

\* What a task does of itself once its request is on its way.
RequestStep(r) ==
  \/ Lock(r) \/ Renew(r) \/ Refreshed(r) \/ Renewed(r) \/ NotRenewed(r)
  \/ Answer(r) \/ MeetChallenge(r) \/ Started(r) \/ Widen(r) \/ SteppedUp(r) \/ Denied(r)

-----------------------------------------------------------------------------
(* Properties *)

SessionTypeOK ==
  /\ session # None => session.token.grant \in DOMAIN grants /\ session.steps \in 0..MaxStepUps
  /\ keylock \in Requests \cup {None}
  /\ \A a \in Connections : auth[a].lock \in {None} \cup {r \in Requests : Owner(r) = a}
  /\ \A r \in Requests :
       request[r].phase \in {"idle", "locking", "renewing", "refreshing", "refused", "sent",
                            "starting", "widening", "stepping_up", "resent"} \cup Challenges

TasksFinish == scene.events \cap {"cancel", "drop", "fail", "oversize"} = {}

\* However many requests find the token about to expire, one refreshes it: no
\* refresh token is presented twice, which a server that rotates them takes
\* for a theft ("concurrent callers for the same (scope, resource) share one
\* refresh", bearer_token).  A task that is cancelled after the server has
\* answered leaves the spent token in the session.
RefreshTokensSpentOnce == TasksFinish => spent.again = {}

\* The session the client keeps can be refreshed: it holds the newest refresh
\* token of its grant, although sign-ins and logouts do not wait for the
\* refresh that is under way.
SessionIsRefreshable ==
  TasksFinish /\ ~Happens("blip") /\ keylock = None /\ session # None =>
    session.token.serial = grants[session.token.grant].serial

\* Requests that are refused with one and the same token make the user sign in
\* once ("reuse that newer token instead of performing a duplicate
\* authorization", async_auth_flow).
OneSignInPerToken ==
  \A a \in Connections : \A i, k \in DOMAIN replaced[a] : replaced[a][i] = replaced[a][k] => i = k

\* A logout lasts until somebody signs in.
LogoutLasts == [][session = None /\ session' # None => Len(grants') > Len(grants)]_sessionVars

\* The session belongs to the last sign-in.
LatestSignInStays ==
  session # None => session.token.grant = Len(grants)
===============================================================================
