----------------------------- MODULE DynamoHeader -----------------------------
(***************************************************************************)
(* One run header in the DynamoDB adapter (store/dynamodb.py).  create_run,*)
(* claim, renew and settle_inline are one conditional write.  release and  *)
(* set_runnable_at read the whole item, compute a new one, and put it back *)
(* on a condition over ONE attribute of what they read: anything may write *)
(* between the two.  Claims go through an index on claim_gsi_sk, the       *)
(* instant from which the Run is offered to Workers.                       *)
(*                                                                         *)
(* The item is updated atomically with its index entry, all clocks agree   *)
(* (LeaseStore has skewed ones), and the calls come in any order.          *)
(***************************************************************************)
EXTENDS StoreScene, Integers

CONSTANTS
  Calls,        \* calls of release and set_runnable_at in flight at once
  MaxRetries    \* _MAX_OPTIMISTIC_RETRIES

ASSUME DynamoHeaderAssumption ==
  /\ Nobody \notin Workers
  /\ LeaseTicks \in Nat \ {0}
  /\ MaxRetries \in Nat \ {0}
  /\ MaxTime \in Nat
  /\ MaxClaims \in Nat

VARIABLES
  item,     \* the item of the Run
  call,     \* call[c]: what the call c read, and what it is about to do
  clock,    \* starts at 1, so that 0 can stand for an absent instant
  renewed   \* history: when the lease was last claimed or renewed

itemVars == <<item, call, clock, renewed>>

-----------------------------------------------------------------------------

Unindexed == -1     \* claim_gsi_pk and claim_gsi_sk are absent

Items ==
  [state : RunStates,
   lease_holder : Workers \cup {Nobody},
   lease_expires_at : Nat,
   runnable_at : Nat,
   attempt_count : Nat,
   claim_gsi_sk : Nat \cup {Unindexed}]

Later(s, t) == IF s > t THEN s ELSE t

\* Mutation: a lease that expires now is still counted as held.
ClaimSortKeyPastLease(state, runnableAt, leaseExpiresAt) ==
  IF state = "running" THEN Later(runnableAt, leaseExpiresAt + 1) ELSE runnableAt

\* _claim_sort_key
ClaimSortKey(state, runnableAt, leaseExpiresAt) ==
  IF state = "running" THEN Later(runnableAt, leaseExpiresAt) ELSE runnableAt

\* _header_to_item: a whole item, its index attributes computed afresh.
ItemOf(state, holder, leaseExpiresAt, runnableAt, attemptCount) ==
  [state |-> state, lease_holder |-> holder, lease_expires_at |-> leaseExpiresAt,
   runnable_at |-> runnableAt, attempt_count |-> attemptCount,
   claim_gsi_sk |-> IF state \in {"runnable", "running"}
                    THEN ClaimSortKey(state, runnableAt, leaseExpiresAt)
                    ELSE Unindexed]

\* The condition of _try_claim_one.
ItemClaimable(h) ==
  /\ h.runnable_at <= clock
  /\ \/ h.state = "runnable"
     \/ h.state = "running" /\ h.lease_expires_at <= clock

Offered(h) == h.claim_gsi_sk \in 0..clock

-----------------------------------------------------------------------------

\* A call in flight: idle, or it has read an item and will put a new one back.
Idle == [op |-> "idle"]

Reading(op, worker, read, arg, tries) ==
  [op |-> op, worker |-> worker, read |-> read, arg |-> arg, tries |-> tries]

ItemInit ==
  /\ \E s \in {"runnable", "nested"} : item = ItemOf(s, Nobody, NoTime, NoTime, 0)
  /\ call = [c \in Calls |-> Idle]
  /\ clock = 1
  /\ renewed = 0

\* The Worker finds the Run in the index, and the condition holds.
ClaimItem(w) ==
  /\ Offered(item) /\ ItemClaimable(item)
  /\ item.attempt_count < MaxClaims
  /\ item' = [item EXCEPT !.state = "running", !.lease_holder = w,
                          !.lease_expires_at = clock + LeaseTicks,
                          !.attempt_count = @ + 1,
                          !.claim_gsi_sk = clock + LeaseTicks]
  /\ renewed' = clock
  /\ UNCHANGED <<call, clock>>

RenewItem(w) ==
  /\ item.lease_holder = w
  /\ item' = [item EXCEPT !.lease_expires_at = clock + LeaseTicks,
                          !.claim_gsi_sk = clock + LeaseTicks]
  /\ renewed' = clock
  /\ UNCHANGED <<call, clock>>

SettleItem ==
  /\ item.state = "nested"
  /\ item' = [item EXCEPT !.state = "settled"]
  /\ UNCHANGED <<call, clock, renewed>>

-----------------------------------------------------------------------------
(* release: a Worker that does not hold the lease returns at once *)

ReleaseRead(c, w, state) ==
  /\ call[c] = Idle
  /\ item.lease_holder = w
  /\ call' = [call EXCEPT ![c] = Reading("release", w, item, state, 1)]
  /\ UNCHANGED <<item, clock, renewed>>

\* Mutation: the retries are not bounded.
RetriedForever(c) ==
  IF call[c].op = "release" /\ item.lease_holder # call[c].worker
  THEN Idle
  ELSE [call[c] EXCEPT !.read = item, !.tries = @ + 1]

\* After a failed condition the call reads again, and gives up (StoreError) in
\* the end; a release that finds another holder is done.
Retried(c) ==
  IF call[c].tries = MaxRetries \/ (call[c].op = "release" /\ item.lease_holder # call[c].worker)
  THEN Idle
  ELSE [call[c] EXCEPT !.read = item, !.tries = @ + 1]

\* Mutation: the put is unconditional.
ReleaseWriteAnyway(c) ==
  LET h == call[c].read IN
  /\ call[c].op = "release"
  /\ item' = ItemOf(call[c].arg, Nobody, NoTime, h.runnable_at, h.attempt_count)
  /\ call' = [call EXCEPT ![c] = Idle]
  /\ UNCHANGED <<clock, renewed>>

ReleaseWrite(c) ==
  LET h == call[c].read IN
  /\ call[c].op = "release"
  /\ \/ /\ item.lease_holder = call[c].worker
        /\ item' = ItemOf(call[c].arg, Nobody, NoTime, h.runnable_at, h.attempt_count)
        /\ call' = [call EXCEPT ![c] = Idle]
     \/ /\ item.lease_holder # call[c].worker
        /\ call' = [call EXCEPT ![c] = Retried(c)]
        /\ UNCHANGED item
  /\ UNCHANGED <<clock, renewed>>

-----------------------------------------------------------------------------
(* set_runnable_at: t = NoTime clears the parking and wakes a suspended Run *)

GateRead(c, t) ==
  /\ call[c] = Idle
  /\ call' = [call EXCEPT ![c] = Reading("set_runnable_at", Nobody, item, t, 1)]
  /\ UNCHANGED <<item, clock, renewed>>

GateWrite(c) ==
  LET h == call[c].read
      t == call[c].arg
      state == IF t = NoTime /\ h.state = "suspended" THEN "runnable" ELSE h.state
  IN
  /\ call[c].op = "set_runnable_at"
  /\ \/ /\ item.state = h.state
        /\ item' = ItemOf(state, h.lease_holder, h.lease_expires_at, t, h.attempt_count)
        /\ call' = [call EXCEPT ![c] = Idle]
     \/ /\ item.state # h.state
        /\ call' = [call EXCEPT ![c] = Retried(c)]
        /\ UNCHANGED item
  /\ UNCHANGED <<clock, renewed>>

ItemTick ==
  /\ clock < MaxTime
  /\ clock' = clock + 1
  /\ UNCHANGED <<item, call, renewed>>

ItemNext ==
  \/ \E w \in Workers : ClaimItem(w) \/ RenewItem(w)
  \/ \E c \in Calls, w \in Workers, s \in {"runnable", "suspended", "settled"} :
       ReleaseRead(c, w, s)
  \/ \E c \in Calls, t \in 0..MaxTime : GateRead(c, t)
  \/ \E c \in Calls : ReleaseWrite(c) \/ GateWrite(c)
  \/ SettleItem
  \/ ItemTick

ItemSpec == ItemInit /\ [][ItemNext]_itemVars

-----------------------------------------------------------------------------
(* Properties *)

ItemTypeOK ==
  /\ item \in Items
  /\ \A c \in Calls : call[c] # Idle =>
       call[c].read \in Items /\ call[c].tries \in 1..MaxRetries
  /\ clock \in Nat \ {0} /\ renewed \in 0..clock

\* A Run that may be claimed is offered: no order of conditional updates,
\* which move the index entry by themselves, and whole-item puts computed
\* from an old read hides a claimable Run from the index for good
\* (_claim_sort_key and every write that sets claim_gsi_sk).
ClaimableIsOffered == ItemClaimable(item) => Offered(item)

\* The item and its index entry agree wherever it matters.
IndexIsSound == ItemTypeOK /\ ClaimableIsOffered

\* A put from an old read never revives a settled Run, never makes a nested
\* one claimable, and never leaves a lease on a Run that is not running.
StatesStayLegal ==
  /\ [][/\ item.state = "settled" => item'.state = "settled"
        /\ item.state = "nested" => item'.state \in {"nested", "settled"}]_itemVars
  /\ [](item.lease_holder \in Workers <=> item.state = "running")

\* A Worker that renewed within the last LeaseTicks keeps its Run ("read, then
\* write conditioned on what was read, is still exactly one conditional
\* write", the module docstring of store/dynamodb.py).
NoEarlyTheft ==
  [][LET from == item.lease_holder
         to == item'.lease_holder
     IN from \in Workers /\ to \in Workers /\ from # to => clock - renewed >= LeaseTicks]_itemVars
=============================================================================
