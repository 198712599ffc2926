------------------------------ MODULE LeaseStore ------------------------------
(***************************************************************************)
(* The header half of the in-memory Store adapter (store/memory.py): run   *)
(* admission by idempotency key, and leases taken, renewed, released and   *)
(* reclaimed by Workers whose clocks disagree.                             *)
(*                                                                         *)
(* claim and renew are handed the caller's own "now", so a lease stamped   *)
(* by one Worker's clock is judged by another's.  Ahead[w] is how far w's  *)
(* clock runs ahead of the slowest one; "now" is the slowest clock.        *)
(* Every method runs under one asyncio.Lock, so each is one action.  The   *)
(* calls are unconstrained: any Worker calls anything at any moment, which *)
(* covers an Attempt that unwinds long after its lease was taken over.     *)
(***************************************************************************)
EXTENDS StoreScene, Integers

CONSTANTS
  Runs,         \* run ids
  Keys,         \* (tenant, idempotency key) pairs
  NoKey,        \* idempotency_key = None
  NoRun,        \* a key nothing was admitted under
  Ahead,        \* Ahead[w]: how far w's clock runs ahead of the slowest clock
  MaxSkew       \* the largest of them

ASSUME LeaseStoreAssumption ==
  /\ Nobody \notin Workers
  /\ NoKey \notin Keys
  /\ NoRun \notin Runs
  /\ MaxSkew \in Nat
  /\ Ahead \in [Workers -> 0..MaxSkew]
  /\ LeaseTicks \in Nat /\ LeaseTicks > MaxSkew
  /\ MaxTime \in Nat
  /\ MaxClaims \in Nat

VARIABLES
  header,   \* header[r]: the run header, or one in state "absent"
  keyed,    \* keyed[k]: the Run admitted under key k, or NoRun
  now,      \* the slowest clock; clocks start at 1 so that 0 can stand for None
  beat      \* history: when r's lease was last claimed or renewed, on "now"

vars == <<header, keyed, now, beat>>

-----------------------------------------------------------------------------
(* Types *)

Headers ==
  [state : RunStates \cup {"absent"},
   lease_holder : Workers \cup {Nobody},
   lease_expires_at : Nat,               \* NoTime for None
   runnable_at : Nat,                    \* NoTime for None
   attempt_count : Nat,
   idempotency_key : Keys \cup {NoKey}]

AdmittedHeader(state, k) ==
  [state |-> state, lease_holder |-> Nobody, lease_expires_at |-> NoTime,
   runnable_at |-> NoTime, attempt_count |-> 0, idempotency_key |-> k]

AbsentHeader == AdmittedHeader("absent", NoKey)

TypeOK ==
  /\ header \in [Runs -> Headers]
  /\ keyed \in [Keys -> Runs \cup {NoRun}]
  /\ now \in Nat \ {0}
  /\ beat \in [Runs -> Nat]

Clock(w) == now + Ahead[w]

-----------------------------------------------------------------------------

Init ==
  /\ header = [r \in Runs |-> AbsentHeader]
  /\ keyed = [k \in Keys |-> NoRun]
  /\ now = 1
  /\ beat = [r \in Runs |-> 0]

\* Mutation: the key is not looked up.
CreateRunUnkeyed(r, k, state) ==
  /\ header[r].state = "absent"
  /\ header' = [header EXCEPT ![r] = AdmittedHeader(state, k)]
  /\ keyed' = [j \in Keys |-> IF j = k THEN r ELSE keyed[j]]
  /\ UNCHANGED <<now, beat>>

\* A used key, or a used run id, returns the header that is there and
\* changes nothing; only the remaining case writes.
CreateRun(r, k, state) ==
  /\ k # NoKey => keyed[k] = NoRun
  /\ header[r].state = "absent"
  /\ header' = [header EXCEPT ![r] = AdmittedHeader(state, k)]
  /\ keyed' = [j \in Keys |-> IF j = k THEN r ELSE keyed[j]]
  /\ UNCHANGED <<now, beat>>

\* Mutations: a held lease, or a wake-up still ahead, does not stop a claim.
IsClaimableAnyLease(h, t) == h.state \in {"runnable", "running"} /\ h.runnable_at <= t

IsClaimableParked(h, t) ==
  /\ h.state \in {"runnable", "running"}
  /\ h.state = "running" => h.lease_expires_at <= t

IsClaimable(h, t) ==
  /\ h.state \in {"runnable", "running"}
  /\ h.runnable_at <= t
  /\ h.state = "running" => h.lease_expires_at <= t

\* t is the Worker's own clock.
ClaimedAt(h, w, t) ==
  [h EXCEPT !.state = "running",
            !.lease_holder = w,
            !.lease_expires_at = t + LeaseTicks,
            !.attempt_count = @ + 1]

\* The store hands out the claimable Run it meets first; which one that is
\* depends on the adapter, so it is any of them here.
Claim(w, r) ==
  /\ IsClaimable(header[r], Clock(w))
  /\ header[r].attempt_count < MaxClaims
  /\ header' = [header EXCEPT ![r] = ClaimedAt(@, w, Clock(w))]
  /\ beat' = [beat EXCEPT ![r] = now]
  /\ UNCHANGED <<keyed, now>>

\* renew looks at the holder only: an expired lease nobody took is revived.
Renew(w, r) ==
  /\ header[r].lease_holder = w
  /\ header' = [header EXCEPT ![r].lease_expires_at = Clock(w) + LeaseTicks]
  /\ beat' = [beat EXCEPT ![r] = now]
  /\ UNCHANGED <<keyed, now>>

\* Mutation: the holder is kept.
ReleasedToHolder(h, state) ==
  [h EXCEPT !.state = state, !.lease_expires_at = NoTime]

ReleasedTo(h, state) ==
  [h EXCEPT !.state = state, !.lease_holder = Nobody, !.lease_expires_at = NoTime]

Release(w, r, state) ==
  /\ header[r].lease_holder = w
  /\ header' = [header EXCEPT ![r] = ReleasedTo(@, state)]
  /\ UNCHANGED <<keyed, now, beat>>

SettleInline(r) ==
  /\ header[r].state = "nested"
  /\ header' = [header EXCEPT ![r].state = "settled"]
  /\ UNCHANGED <<keyed, now, beat>>

\* Mutations: any Run is woken; the instant is off by one.
MadeRunnableAtWakingAll(h, t) ==
  [h EXCEPT !.runnable_at = t, !.state = IF t = NoTime THEN "runnable" ELSE @]

MadeRunnableAtEarly(h, t) ==
  [h EXCEPT !.runnable_at = t - 1,
            !.state = IF t = NoTime /\ @ = "suspended" THEN "runnable" ELSE @]

\* t = NoTime is set_runnable_at(None), which wakes a suspended Run.
MadeRunnableAt(h, t) ==
  [h EXCEPT !.runnable_at = t,
            !.state = IF t = NoTime /\ @ = "suspended" THEN "runnable" ELSE @]

SetRunnableAt(r, t) ==
  /\ header[r].state # "absent"
  /\ header' = [header EXCEPT ![r] = MadeRunnableAt(@, t)]
  /\ UNCHANGED <<keyed, now, beat>>

Tick ==
  /\ now < MaxTime
  /\ now' = now + 1
  /\ UNCHANGED <<header, keyed, beat>>

Next ==
  \/ \E r \in Runs, k \in Keys \cup {NoKey}, s \in {"runnable", "nested"} : CreateRun(r, k, s)
  \/ \E w \in Workers, r \in Runs : Claim(w, r)
  \/ \E w \in Workers, r \in Runs : Renew(w, r)
  \/ \E w \in Workers, r \in Runs, s \in {"runnable", "suspended", "settled"} : Release(w, r, s)
  \/ \E r \in Runs : SettleInline(r)
  \/ \E r \in Runs, t \in 0..MaxTime : SetRunnableAt(r, t)
  \/ Tick

Spec == Init /\ [][Next]_vars

-----------------------------------------------------------------------------
(* Properties *)

\* The three facts the others rest on: a lease is held exactly while a Run
\* is running, its expiry is one full lease after the last beat on the
\* holder's own clock, and no beat lies in the future.
LeaseFollowsBeat ==
  \A r \in Runs :
    LET h == header[r] IN
    /\ h.lease_holder \in Workers <=> h.state = "running"
    /\ h.state = "running" =>
         h.lease_expires_at = beat[r] + Ahead[h.lease_holder] + LeaseTicks
    /\ beat[r] <= now

\* A Worker never takes a Run from another Worker that has renewed within
\* the last LeaseTicks - MaxSkew: skewed clocks shorten a lease by at most
\* the skew, whatever the order of claims, renewals and late releases
\* (claim, _is_claimable and renew together).
NoEarlySteal ==
  [][\A r \in Runs :
       LET from == header[r].lease_holder
           to == header'[r].lease_holder
       IN from \in Workers /\ to \in Workers /\ from # to
            => now - beat[r] >= LeaseTicks - MaxSkew]_vars

\* Only a resume wakes a suspended Run, nothing revives a settled one, and a
\* nested Run is never handed to a Worker: whatever is called late or twice
\* (create_run, claim, release, settle_inline, set_runnable_at).
LegalTransitions ==
  [][\A r \in Runs :
       LET from == header[r].state
           to == header'[r].state
       IN /\ from = "settled" => to = "settled"
          /\ from = "nested" => to \in {"nested", "settled"}
          /\ from = "suspended" /\ to # "suspended" =>
               to = "runnable" /\ header'[r].runnable_at = NoTime]_vars

\* One Run per idempotency key for good: the index and the headers agree,
\* so two admissions under one key can never both have made a Run.
OneRunPerKey ==
  \A k \in Keys, r \in Runs :
    keyed[k] = r <=> header[r].idempotency_key = k

-----------------------------------------------------------------------------
(* What the port promises of each admitted Run.  A lease counts as expired *)
(* once some Worker's clock could say so.                                  *)

AbstractHeader(h, t) ==
  [state |-> h.state,
   lease_holder |-> h.lease_holder,
   lease |-> IF h.lease_holder = Nobody THEN "none"
             ELSE IF h.lease_expires_at <= t + MaxSkew THEN "expired" ELSE "fresh",
   gate |-> IF h.runnable_at > t + MaxSkew THEN "parked" ELSE "open",
   attempt_count |-> h.attempt_count]

Port == INSTANCE StorePort WITH header <- [r \in Runs |-> AbstractHeader(header[r], now)]

\* Every Run's header behaves as the port promises, although leases are
\* stamped and judged by clocks that disagree: a claim the clocks allow is one
\* the port allows, and no call does anything to a Run that no port call does.
ImplementsPort == Port!Spec
=============================================================================
