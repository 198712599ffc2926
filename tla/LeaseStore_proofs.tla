-------------------------- MODULE LeaseStore_proofs --------------------------
(***************************************************************************)
(* What LeaseStore keeps for any Runs, Workers, clocks and lease length.   *)
(* Inv is the inductive invariant: LeaseFollowsBeat ties every expiry to   *)
(* the beat it was stamped at, Untouched says a Run nobody created has     *)
(* its initial header, and the rest follows from the two.                  *)
(*                                                                         *)
(* The last part is about the same header in the DynamoDB adapter.         *)
(***************************************************************************)
EXTENDS LeaseStore, DynamoHeader, TLAPS

Untouched == \A r \in Runs : header[r].state = "absent" => header[r] = AbsentHeader

Inv == TypeOK /\ LeaseFollowsBeat /\ Untouched /\ OneRunPerKey

-----------------------------------------------------------------------------
(* What each call makes of a header, field by field *)

LEMMA ClaimedFields ==
  ASSUME NEW h \in Headers, NEW w \in Workers, NEW t \in Nat
  PROVE  /\ ClaimedAt(h, w, t) \in Headers
         /\ ClaimedAt(h, w, t).state = "running"
         /\ ClaimedAt(h, w, t).lease_holder = w
         /\ ClaimedAt(h, w, t).lease_expires_at = t + LeaseTicks
         /\ ClaimedAt(h, w, t).runnable_at = h.runnable_at
         /\ ClaimedAt(h, w, t).attempt_count = h.attempt_count + 1
         /\ ClaimedAt(h, w, t).idempotency_key = h.idempotency_key
<1>1. t + LeaseTicks \in Nat /\ h.attempt_count + 1 \in Nat
  BY LeaseStoreAssumption DEF Headers
<1> DEFINE e == t + LeaseTicks
           n == h.attempt_count + 1
<1>2. ClaimedAt(h, w, t) = [h EXCEPT !.state = "running", !.lease_holder = w,
                                     !.lease_expires_at = e, !.attempt_count = n]
  BY DEF ClaimedAt
<1> HIDE DEF e, n
<1>3. /\ ClaimedAt(h, w, t).state = "running"
      /\ ClaimedAt(h, w, t).lease_holder = w
      /\ ClaimedAt(h, w, t).lease_expires_at = e
      /\ ClaimedAt(h, w, t).runnable_at = h.runnable_at
      /\ ClaimedAt(h, w, t).attempt_count = n
      /\ ClaimedAt(h, w, t).idempotency_key = h.idempotency_key
  BY <1>2 DEF Headers
<1>4. e \in Nat /\ n \in Nat
  BY <1>1 DEF e, n
<1>5. ClaimedAt(h, w, t) \in Headers
  BY <1>2, <1>4 DEF Headers, RunStates
<1> QED
  BY <1>3, <1>5 DEF e, n

LEMMA ReleasedFields ==
  ASSUME NEW h \in Headers, NEW s \in {"runnable", "suspended", "settled"}
  PROVE  /\ ReleasedTo(h, s) \in Headers
         /\ ReleasedTo(h, s).state = s
         /\ ReleasedTo(h, s).lease_holder = Nobody
         /\ ReleasedTo(h, s).lease_expires_at = NoTime
         /\ ReleasedTo(h, s).runnable_at = h.runnable_at
         /\ ReleasedTo(h, s).attempt_count = h.attempt_count
         /\ ReleasedTo(h, s).idempotency_key = h.idempotency_key
BY DEF ReleasedTo, Headers, RunStates, NoTime

LEMMA RunnableFields ==
  ASSUME NEW h \in Headers, NEW t \in Nat
  PROVE  /\ MadeRunnableAt(h, t) \in Headers
         /\ MadeRunnableAt(h, t).state =
              IF t = NoTime /\ h.state = "suspended" THEN "runnable" ELSE h.state
         /\ MadeRunnableAt(h, t).lease_holder = h.lease_holder
         /\ MadeRunnableAt(h, t).lease_expires_at = h.lease_expires_at
         /\ MadeRunnableAt(h, t).runnable_at = t
         /\ MadeRunnableAt(h, t).attempt_count = h.attempt_count
         /\ MadeRunnableAt(h, t).idempotency_key = h.idempotency_key
BY DEF MadeRunnableAt, Headers, RunStates

LEMMA RenewedFields ==
  ASSUME NEW h \in Headers, NEW t \in Nat
  PROVE  /\ [h EXCEPT !.lease_expires_at = t] \in Headers
         /\ [h EXCEPT !.lease_expires_at = t].state = h.state
         /\ [h EXCEPT !.lease_expires_at = t].lease_holder = h.lease_holder
         /\ [h EXCEPT !.lease_expires_at = t].lease_expires_at = t
         /\ [h EXCEPT !.lease_expires_at = t].runnable_at = h.runnable_at
         /\ [h EXCEPT !.lease_expires_at = t].attempt_count = h.attempt_count
         /\ [h EXCEPT !.lease_expires_at = t].idempotency_key = h.idempotency_key
BY DEF Headers

-----------------------------------------------------------------------------
(* The type invariant, one step per call *)

LEMMA AbsentTyped == AbsentHeader \in Headers
BY DEF Headers, AbsentHeader, AdmittedHeader, RunStates, NoTime

LEMMA TypeInit == Init => TypeOK
BY LeaseStoreAssumption, AbsentTyped DEF Init, TypeOK

LEMMA ClockNat == ASSUME TypeOK, NEW w \in Workers
                  PROVE  Clock(w) \in Nat /\ Clock(w) + LeaseTicks \in Nat
BY LeaseStoreAssumption DEF TypeOK, Clock

LEMMA TypeStep == TypeOK /\ [Next]_vars => TypeOK'
<1> SUFFICES ASSUME TypeOK, [Next]_vars PROVE TypeOK'
  OBVIOUS
<1> USE LeaseStoreAssumption
<1>1. ASSUME NEW r \in Runs, NEW k \in Keys \cup {NoKey},
             NEW s \in {"runnable", "nested"}, CreateRun(r, k, s)
      PROVE  TypeOK'
  <2>1. AdmittedHeader(s, k) \in Headers
    BY DEF AdmittedHeader, Headers, RunStates, NoTime
  <2> QED
    BY <1>1, <2>1 DEF TypeOK, CreateRun
<1>2. ASSUME NEW w \in Workers, NEW r \in Runs, Claim(w, r) PROVE TypeOK'
  BY <1>2, ClockNat, ClaimedFields DEF TypeOK, Claim
<1>3. ASSUME NEW w \in Workers, NEW r \in Runs, Renew(w, r) PROVE TypeOK'
  BY <1>3, ClockNat DEF TypeOK, Renew, Headers
<1>4. ASSUME NEW w \in Workers, NEW r \in Runs,
             NEW s \in {"runnable", "suspended", "settled"}, Release(w, r, s)
      PROVE  TypeOK'
  BY <1>4, ReleasedFields DEF TypeOK, Release
<1>5. ASSUME NEW r \in Runs, SettleInline(r) PROVE TypeOK'
  BY <1>5 DEF TypeOK, SettleInline, Headers, RunStates
<1>6. ASSUME NEW r \in Runs, NEW t \in 0..MaxTime, SetRunnableAt(r, t) PROVE TypeOK'
  <2>1. t \in Nat
    OBVIOUS
  <2> QED
    BY <1>6, <2>1, RunnableFields DEF TypeOK, SetRunnableAt
<1>7. CASE Tick
  BY <1>7 DEF TypeOK, Tick
<1>8. CASE UNCHANGED vars
  BY <1>8 DEF TypeOK, vars
<1> QED
  BY <1>1, <1>2, <1>3, <1>4, <1>5, <1>6, <1>7, <1>8 DEF Next

\* Every header the adapter can reach is a well-formed one.
THEOREM TypeCorrect == Spec => []TypeOK
BY TypeInit, TypeStep, PTL DEF Spec

-----------------------------------------------------------------------------
(* What each call makes of the store: one header changes, others stay *)

LEMMA ClaimEffect ==
  ASSUME TypeOK, NEW w \in Workers, NEW r \in Runs, Claim(w, r)
  PROVE  /\ \A q \in Runs : q # r => header'[q] = header[q]
         /\ header'[r].state = "running"
         /\ header'[r].lease_holder = w
         /\ header'[r].lease_expires_at = now + Ahead[w] + LeaseTicks
         /\ header'[r].runnable_at = header[r].runnable_at
         /\ header'[r].idempotency_key = header[r].idempotency_key
         /\ beat' = [beat EXCEPT ![r] = now]
         /\ keyed' = keyed /\ now' = now
<1>1. /\ header'[r] = ClaimedAt(header[r], w, Clock(w))
      /\ \A q \in Runs : q # r => header'[q] = header[q]
  BY DEF TypeOK, Claim
<1>2. header[r] \in Headers /\ Clock(w) \in Nat
  BY ClockNat DEF TypeOK
<1> DEFINE g == ClaimedAt(header[r], w, Clock(w))
<1>3. /\ g.state = "running" /\ g.lease_holder = w
      /\ g.lease_expires_at = Clock(w) + LeaseTicks
      /\ g.runnable_at = header[r].runnable_at
      /\ g.idempotency_key = header[r].idempotency_key
  BY <1>2, ClaimedFields
<1> QED
  BY <1>1, <1>3 DEF Claim, Clock

LEMMA ReleaseEffect ==
  ASSUME TypeOK, NEW w \in Workers, NEW r \in Runs,
         NEW s \in {"runnable", "suspended", "settled"}, Release(w, r, s)
  PROVE  /\ \A q \in Runs : q # r => header'[q] = header[q]
         /\ header'[r].state = s
         /\ header'[r].lease_holder = Nobody
         /\ header'[r].lease_expires_at = NoTime
         /\ header'[r].runnable_at = header[r].runnable_at
         /\ header'[r].idempotency_key = header[r].idempotency_key
         /\ keyed' = keyed /\ now' = now /\ beat' = beat
<1>1. /\ header'[r] = ReleasedTo(header[r], s)
      /\ \A q \in Runs : q # r => header'[q] = header[q]
  BY DEF TypeOK, Release
<1>2. header[r] \in Headers
  BY DEF TypeOK
<1> DEFINE g == ReleasedTo(header[r], s)
<1>3. /\ g.state = s /\ g.lease_holder = Nobody /\ g.lease_expires_at = NoTime
      /\ g.runnable_at = header[r].runnable_at
      /\ g.idempotency_key = header[r].idempotency_key
  BY <1>2, ReleasedFields
<1> QED
  BY <1>1, <1>3 DEF Release

LEMMA SetRunnableAtEffect ==
  ASSUME TypeOK, NEW r \in Runs, NEW t \in 0..MaxTime, SetRunnableAt(r, t)
  PROVE  /\ \A q \in Runs : q # r => header'[q] = header[q]
         /\ header[r].state # "absent"
         /\ header'[r].state =
              IF t = NoTime /\ header[r].state = "suspended" THEN "runnable"
              ELSE header[r].state
         /\ header'[r].lease_holder = header[r].lease_holder
         /\ header'[r].lease_expires_at = header[r].lease_expires_at
         /\ header'[r].runnable_at = t
         /\ header'[r].idempotency_key = header[r].idempotency_key
         /\ keyed' = keyed /\ now' = now /\ beat' = beat
<1>1. /\ header'[r] = MadeRunnableAt(header[r], t)
      /\ \A q \in Runs : q # r => header'[q] = header[q]
  BY DEF TypeOK, SetRunnableAt
<1>2. header[r] \in Headers /\ t \in Nat
  BY DEF TypeOK
<1> DEFINE g == MadeRunnableAt(header[r], t)
<1>3. /\ g.state = IF t = NoTime /\ header[r].state = "suspended" THEN "runnable"
                   ELSE header[r].state
      /\ g.lease_holder = header[r].lease_holder
      /\ g.lease_expires_at = header[r].lease_expires_at
      /\ g.runnable_at = t /\ g.idempotency_key = header[r].idempotency_key
  BY <1>2, RunnableFields
<1> QED
  BY <1>1, <1>3 DEF SetRunnableAt

-----------------------------------------------------------------------------
(* The inductive invariant *)

LEMMA InvInit == Init => Inv
<1> SUFFICES ASSUME Init PROVE Inv
  OBVIOUS
<1>1. TypeOK
  BY TypeInit
<1>2. LeaseFollowsBeat
  <2>1. \A r \in Runs : /\ header[r].lease_holder \notin Workers
                        /\ header[r].state # "running"
    BY LeaseStoreAssumption DEF Init, AbsentHeader, AdmittedHeader
  <2>2. ASSUME NEW r \in Runs PROVE beat[r] <= now
    <3>1. beat[r] = 0 /\ now = 1
      BY DEF Init
    <3>2. 0 <= 1
      OBVIOUS
    <3> QED
      BY <3>1, <3>2, Zenon
  <2> QED
    BY <2>1, <2>2 DEF LeaseFollowsBeat
<1>3. Untouched
  BY DEF Init, Untouched
<1>4. OneRunPerKey
  BY LeaseStoreAssumption DEF Init, OneRunPerKey, AbsentHeader, AdmittedHeader
<1> QED
  BY <1>1, <1>2, <1>3, <1>4 DEF Inv

LEMMA InvStep == Inv /\ [Next]_vars => Inv'
<1> SUFFICES ASSUME Inv, [Next]_vars PROVE Inv'
  OBVIOUS
<1> USE LeaseStoreAssumption
<1>0. TypeOK'
  BY TypeStep DEF Inv
<1>1. LeaseFollowsBeat' /\ Untouched'
  <2>1. ASSUME NEW r \in Runs, NEW k \in Keys \cup {NoKey},
               NEW s \in {"runnable", "nested"}, CreateRun(r, k, s)
        PROVE  LeaseFollowsBeat' /\ Untouched'
    BY <2>1 DEF Inv, TypeOK, LeaseFollowsBeat, Untouched, CreateRun, AbsentHeader, AdmittedHeader, Headers
  <2>2. ASSUME NEW w \in Workers, NEW r \in Runs, Claim(w, r)
        PROVE  LeaseFollowsBeat' /\ Untouched'
    <3>1. header[r].state # "absent"
      BY <2>2 DEF Claim, IsClaimable
    <3> QED
      BY <2>2, <3>1, ClaimEffect DEF Inv, TypeOK, LeaseFollowsBeat, Untouched
  <2>3. ASSUME NEW w \in Workers, NEW r \in Runs, Renew(w, r)
        PROVE  LeaseFollowsBeat' /\ Untouched'
    BY <2>3 DEF Inv, TypeOK, LeaseFollowsBeat, Untouched, Renew, Headers, Clock
  <2>4. ASSUME NEW w \in Workers, NEW r \in Runs,
               NEW s \in {"runnable", "suspended", "settled"}, Release(w, r, s)
        PROVE  LeaseFollowsBeat' /\ Untouched'
    BY <2>4, ReleaseEffect DEF Inv, TypeOK, LeaseFollowsBeat, Untouched
  <2>5. ASSUME NEW r \in Runs, SettleInline(r) PROVE LeaseFollowsBeat' /\ Untouched'
    BY <2>5 DEF Inv, TypeOK, LeaseFollowsBeat, Untouched, SettleInline, Headers
  <2>6. ASSUME NEW r \in Runs, NEW t \in 0..MaxTime, SetRunnableAt(r, t)
        PROVE  LeaseFollowsBeat' /\ Untouched'
    BY <2>6, SetRunnableAtEffect DEF Inv, TypeOK, LeaseFollowsBeat, Untouched
  <2>7. CASE Tick
    BY <2>7 DEF Inv, TypeOK, LeaseFollowsBeat, Untouched, Tick
  <2>8. CASE UNCHANGED vars
    BY <2>8 DEF Inv, LeaseFollowsBeat, Untouched, vars
  <2> QED
    BY <2>1, <2>2, <2>3, <2>4, <2>5, <2>6, <2>7, <2>8 DEF Next
<1>2. OneRunPerKey'
  <2>1. ASSUME NEW r \in Runs, NEW k \in Keys \cup {NoKey},
               NEW s \in {"runnable", "nested"}, CreateRun(r, k, s)
        PROVE  OneRunPerKey'
    BY <2>1 DEF Inv, TypeOK, OneRunPerKey, Untouched, CreateRun, AbsentHeader, AdmittedHeader, Headers
  <2>2. ASSUME /\ keyed' = keyed
               /\ \A r \in Runs : header'[r].idempotency_key = header[r].idempotency_key
        PROVE  OneRunPerKey'
    BY <2>2 DEF Inv, OneRunPerKey
  <2>4. CASE Tick \/ UNCHANGED vars
    BY <2>2, <2>4 DEF Tick, vars
  <2>5. ASSUME NEW w \in Workers, NEW r \in Runs, Claim(w, r) PROVE OneRunPerKey'
    BY <2>2, <2>5, ClaimEffect DEF Inv
  <2>6. ASSUME NEW w \in Workers, NEW r \in Runs, Renew(w, r) PROVE OneRunPerKey'
    BY <2>2, <2>6 DEF Inv, TypeOK, Renew, Headers
  <2>7. ASSUME NEW w \in Workers, NEW r \in Runs,
               NEW s \in {"runnable", "suspended", "settled"}, Release(w, r, s)
        PROVE  OneRunPerKey'
    BY <2>2, <2>7, ReleaseEffect DEF Inv
  <2>8. ASSUME NEW r \in Runs, SettleInline(r) PROVE OneRunPerKey'
    BY <2>2, <2>8 DEF Inv, TypeOK, SettleInline, Headers
  <2>9. ASSUME NEW r \in Runs, NEW t \in 0..MaxTime, SetRunnableAt(r, t)
        PROVE  OneRunPerKey'
    BY <2>2, <2>9, SetRunnableAtEffect DEF Inv
  <2> QED
    BY <2>1, <2>4, <2>5, <2>6, <2>7, <2>8, <2>9 DEF Next
<1> QED
  BY <1>0, <1>1, <1>2 DEF Inv

LEMMA InvCorrect == Spec => []Inv
BY InvInit, InvStep, PTL DEF Spec

\* A lease is held exactly while its Run is running, and expires one lease
\* after the last claim or renewal, by the clock of the Worker that made it.
THEOREM LeaseFollowsBeatHolds == Spec => []LeaseFollowsBeat
BY InvCorrect, PTL DEF Inv

\* Two admissions under one idempotency key never both make a Run.
THEOREM OneRunPerKeyHolds == Spec => []OneRunPerKey
BY InvCorrect, PTL DEF Inv

-----------------------------------------------------------------------------
(* Action properties *)

\* Only claim moves a lease from one Worker to another.
LEMMA StealIsClaim ==
  ASSUME Inv, [Next]_vars, NEW r \in Runs,
         header[r].lease_holder \in Workers, header'[r].lease_holder \in Workers,
         header[r].lease_holder # header'[r].lease_holder
  PROVE  \E w \in Workers : Claim(w, r)
<1> USE LeaseStoreAssumption
<1>1. ASSUME NEW q \in Runs, NEW k \in Keys \cup {NoKey},
             NEW s \in {"runnable", "nested"}, CreateRun(q, k, s)
      PROVE  FALSE
  BY <1>1 DEF Inv, TypeOK, CreateRun, AdmittedHeader, Headers
<1>2. ASSUME NEW w \in Workers, NEW q \in Runs, Claim(w, q) PROVE Claim(w, r)
  BY <1>2, ClaimEffect DEF Inv
<1>3. ASSUME NEW w \in Workers, NEW q \in Runs, Renew(w, q) PROVE FALSE
  BY <1>3 DEF Inv, TypeOK, Renew, Headers
<1>4. ASSUME NEW w \in Workers, NEW q \in Runs,
             NEW s \in {"runnable", "suspended", "settled"}, Release(w, q, s)
      PROVE  FALSE
  BY <1>4, ReleaseEffect DEF Inv
<1>5. ASSUME NEW q \in Runs, SettleInline(q) PROVE FALSE
  BY <1>5 DEF Inv, TypeOK, SettleInline, Headers
<1>6. ASSUME NEW q \in Runs, NEW t \in 0..MaxTime, SetRunnableAt(q, t) PROVE FALSE
  BY <1>6, SetRunnableAtEffect DEF Inv
<1>7. CASE Tick \/ UNCHANGED vars
  BY <1>7 DEF Tick, vars
<1> QED
  BY <1>1, <1>2, <1>3, <1>4, <1>5, <1>6, <1>7 DEF Next

\* A Worker is robbed of a lease only when it has not renewed for the lease
\* less the largest disagreement of two clocks.
THEOREM NoEarlyStealHolds == Spec => NoEarlySteal
<1> DEFINE Act == \A r \in Runs :
                    LET from == header[r].lease_holder
                        to == header'[r].lease_holder
                    IN from \in Workers /\ to \in Workers /\ from # to
                         => now - beat[r] >= LeaseTicks - MaxSkew
<1>1. Inv /\ [Next]_vars => Act
  <2> SUFFICES ASSUME Inv, [Next]_vars, NEW r \in Runs,
                      header[r].lease_holder \in Workers,
                      header'[r].lease_holder \in Workers,
                      header[r].lease_holder # header'[r].lease_holder
               PROVE  now - beat[r] >= LeaseTicks - MaxSkew
    OBVIOUS
  <2>1. PICK w \in Workers : Claim(w, r)
    BY StealIsClaim
  <2>2. header[r].lease_expires_at <= now + Ahead[w]
    BY <2>1 DEF Claim, IsClaimable, Clock, Inv, LeaseFollowsBeat
  <2>3. header[r].lease_expires_at = beat[r] + Ahead[header[r].lease_holder] + LeaseTicks
    BY DEF Inv, LeaseFollowsBeat
  <2>4. /\ now \in Nat /\ beat[r] \in Nat /\ MaxSkew \in Nat /\ LeaseTicks \in Nat
        /\ Ahead[w] \in 0..MaxSkew /\ Ahead[header[r].lease_holder] \in 0..MaxSkew
    BY LeaseStoreAssumption DEF Inv, TypeOK
  <2> QED
    BY <2>2, <2>3, <2>4
<1>2. Spec => [][Act]_vars
  BY <1>1, InvCorrect, PTL DEF Spec
<1> QED
  BY <1>2 DEF NoEarlySteal

\* No call wakes a suspended Run but a resume, none revives a settled one, and
\* none hands a nested Run to a Worker.
THEOREM LegalTransitionsHold == Spec => LegalTransitions
<1> DEFINE Legal(r) ==
      LET from == header[r].state
          to == header'[r].state
      IN /\ from = "settled" => to = "settled"
         /\ from = "nested" => to \in {"nested", "settled"}
         /\ from = "suspended" /\ to # "suspended" =>
              to = "runnable" /\ header'[r].runnable_at = NoTime
<1>1. Inv /\ [Next]_vars => \A r \in Runs : Legal(r)
  <2> SUFFICES ASSUME Inv, [Next]_vars, NEW r \in Runs PROVE Legal(r)
    OBVIOUS
  <2> USE LeaseStoreAssumption DEF Inv, TypeOK
  <2>1. ASSUME NEW q \in Runs, NEW k \in Keys \cup {NoKey},
               NEW s \in {"runnable", "nested"}, CreateRun(q, k, s)
        PROVE  Legal(r)
    BY <2>1 DEF CreateRun, AdmittedHeader, Headers
  <2>2. ASSUME NEW w \in Workers, NEW q \in Runs, Claim(w, q) PROVE Legal(r)
    <3>1. header[q].state \in {"runnable", "running"}
      BY <2>2 DEF Claim, IsClaimable
    <3> QED
      BY <2>2, <3>1, ClaimEffect
  <2>3. ASSUME NEW w \in Workers, NEW q \in Runs, Renew(w, q) PROVE Legal(r)
    BY <2>3 DEF Renew, Headers
  <2>4. ASSUME NEW w \in Workers, NEW q \in Runs,
               NEW s \in {"runnable", "suspended", "settled"}, Release(w, q, s)
        PROVE  Legal(r)
    <3>1. header[q].state = "running"
      BY <2>4 DEF Release, LeaseFollowsBeat
    <3> QED
      BY <2>4, <3>1, ReleaseEffect
  <2>5. ASSUME NEW q \in Runs, SettleInline(q) PROVE Legal(r)
    BY <2>5 DEF SettleInline, Headers
  <2>6. ASSUME NEW q \in Runs, NEW t \in 0..MaxTime, SetRunnableAt(q, t) PROVE Legal(r)
    BY <2>6, SetRunnableAtEffect
  <2>7. CASE Tick \/ UNCHANGED vars
    BY <2>7 DEF Tick, vars
  <2> QED
    BY <2>1, <2>2, <2>3, <2>4, <2>5, <2>6, <2>7 DEF Next
<1>2. Spec => [][\A r \in Runs : Legal(r)]_vars
  BY <1>1, InvCorrect, PTL DEF Spec
<1> QED
  BY <1>2 DEF LegalTransitions

-----------------------------------------------------------------------------
(* The adapter implements the port: each call is the port's call of the    *)
(* same name on one header, and a tick ages all of them.                   *)

\* A call that leaves the clock alone disturbs one abstract header only.
LEMMA OneHeader ==
  ASSUME NEW r \in Runs, NEW h, header' = [header EXCEPT ![r] = h], now' = now,
         header \in [Runs -> Headers], NEW ah, AbstractHeader(header[r], now)' = ah
  PROVE  [q \in Runs |-> AbstractHeader(header[q], now)]'
           = [[q \in Runs |-> AbstractHeader(header[q], now)] EXCEPT ![r] = ah]
<1>1. ASSUME NEW q \in Runs, q # r PROVE AbstractHeader(header[q], now)' = AbstractHeader(header[q], now)
  BY <1>1 DEF AbstractHeader
<1> QED
  BY <1>1

LEMMA AbstractAdmitted ==
  ASSUME NEW state, NEW k, NEW t \in Nat
  PROVE  AbstractHeader(AdmittedHeader(state, k), t) = Port!AdmittedHeader(state)
<1>1. /\ AdmittedHeader(state, k).state = state
      /\ AdmittedHeader(state, k).lease_holder = Nobody
      /\ AdmittedHeader(state, k).runnable_at = 0
      /\ AdmittedHeader(state, k).attempt_count = 0
  BY DEF AdmittedHeader, NoTime
<1>2. ~(0 > t + MaxSkew)
  BY LeaseStoreAssumption
<1> QED
  BY <1>1, <1>2 DEF AbstractHeader, Port!AdmittedHeader

LEMMA SameHeader ==
  ASSUME NEW a \in Port!Headers, NEW b \in Port!Headers,
         a.state = b.state, a.lease_holder = b.lease_holder, a.lease = b.lease,
         a.gate = b.gate, a.attempt_count = b.attempt_count
  PROVE  a = b
BY DEF Port!Headers

LEMMA WokenFields ==
  ASSUME NEW a \in Port!Headers
  PROVE  /\ Port!Woken(a) \in Port!Headers
         /\ Port!Woken(a).state = Port!StateWoken(a.state)
         /\ Port!Woken(a).lease_holder = a.lease_holder
         /\ Port!Woken(a).lease = a.lease
         /\ Port!Woken(a).gate = "open"
         /\ Port!Woken(a).attempt_count = a.attempt_count
<1>1. Port!StateWoken(a.state) \in Port!RunStates \cup {"absent"}
  BY DEF Port!Headers, Port!StateWoken, Port!RunStates
<1> QED
  BY <1>1 DEF Port!Woken, Port!Headers

LEMMA AgedFields ==
  ASSUME NEW a \in Port!Headers, NEW ranOut \in BOOLEAN, NEW due \in BOOLEAN
  PROVE  /\ Port!Aged(a, ranOut, due) \in Port!Headers
         /\ Port!Aged(a, ranOut, due).state = a.state
         /\ Port!Aged(a, ranOut, due).lease_holder = a.lease_holder
         /\ Port!Aged(a, ranOut, due).lease = Port!LeaseAged(a.lease, ranOut)
         /\ Port!Aged(a, ranOut, due).gate = Port!GateAged(a.gate, due)
         /\ Port!Aged(a, ranOut, due).attempt_count = a.attempt_count
<1>1. Port!LeaseAged(a.lease, ranOut) \in {"none", "fresh", "expired"}
  BY DEF Port!Headers, Port!LeaseAged
<1>2. Port!GateAged(a.gate, due) \in {"open", "parked"}
  BY DEF Port!Headers, Port!GateAged
<1> QED
  BY <1>1, <1>2 DEF Port!Aged, Port!Headers

LEMMA AbstractTyped ==
  ASSUME NEW h \in Headers, NEW t \in Nat
  PROVE  AbstractHeader(h, t) \in Port!Headers
BY LeaseStoreAssumption DEF AbstractHeader, Headers, Port!Headers, RunStates, Port!RunStates

LEMMA AbstractWoken ==
  ASSUME NEW h \in Headers, NEW t \in Nat, NEW g \in Headers,
         g = MadeRunnableAt(h, NoTime)
  PROVE  AbstractHeader(g, t) = Port!Woken(AbstractHeader(h, t))
<1>0. /\ g.state = IF h.state = "suspended" THEN "runnable" ELSE h.state
      /\ g.runnable_at = NoTime
      /\ g.lease_holder = h.lease_holder /\ g.lease_expires_at = h.lease_expires_at
      /\ g.attempt_count = h.attempt_count
  BY RunnableFields DEF NoTime
<1>1. ~(g.runnable_at > t + MaxSkew)
  BY <1>0, LeaseStoreAssumption DEF NoTime
<1>2. AbstractHeader(h, t) \in Port!Headers
  BY AbstractTyped
<1>3. AbstractHeader(g, t) \in Port!Headers
  BY AbstractTyped
<1> DEFINE a == AbstractHeader(h, t)
           b == AbstractHeader(g, t)
<1>4. /\ b.state = Port!StateWoken(a.state)
      /\ b.lease_holder = a.lease_holder /\ b.lease = a.lease
      /\ b.gate = "open" /\ b.attempt_count = a.attempt_count
  BY <1>0, <1>1 DEF AbstractHeader, Port!StateWoken
<1> HIDE DEF a, b
<1>5. b = Port!Woken(a)
  BY <1>2, <1>3, <1>4, WokenFields, SameHeader DEF a, b
<1> QED
  BY <1>5 DEF a, b

LEMMA AbstractGateSet ==
  ASSUME NEW h \in Headers, NEW t \in Nat, NEW u \in Nat, t # NoTime
  PROVE  AbstractHeader(MadeRunnableAt(h, t), u)
           = Port!GateSet(AbstractHeader(h, u), IF t > u + MaxSkew THEN "parked" ELSE "open")
<1> DEFINE a == AbstractHeader(h, u)
           b == AbstractHeader(MadeRunnableAt(h, t), u)
<1>1. a \in Port!Headers /\ b \in Port!Headers
  BY AbstractTyped, RunnableFields
<1>2. /\ b.state = a.state /\ b.lease_holder = a.lease_holder /\ b.lease = a.lease
      /\ b.attempt_count = a.attempt_count
      /\ b.gate = IF t > u + MaxSkew THEN "parked" ELSE "open"
  BY RunnableFields DEF AbstractHeader
<1>3. b.gate \in {"open", "parked"}
  BY <1>1 DEF Port!Headers
<1> HIDE DEF a, b
<1>4. /\ Port!GateSet(a, b.gate) \in Port!Headers
      /\ Port!GateSet(a, b.gate).state = a.state
      /\ Port!GateSet(a, b.gate).lease_holder = a.lease_holder
      /\ Port!GateSet(a, b.gate).lease = a.lease
      /\ Port!GateSet(a, b.gate).gate = b.gate
      /\ Port!GateSet(a, b.gate).attempt_count = a.attempt_count
  BY <1>1, <1>3 DEF Port!GateSet, Port!Headers
<1>5. b = Port!GateSet(a, b.gate)
  BY <1>1, <1>2, <1>4, SameHeader
<1>6. b = Port!GateSet(a, IF t > u + MaxSkew THEN "parked" ELSE "open")
  BY <1>2, <1>5
<1> QED
  BY <1>6 DEF a, b

LEMMA AbstractAged ==
  ASSUME NEW h \in Headers, NEW t \in Nat
  PROVE  AbstractHeader(h, t + 1)
           = Port!Aged(AbstractHeader(h, t),
                       AbstractHeader(h, t + 1).lease = "expired",
                       AbstractHeader(h, t + 1).gate = "open")
<1>1. /\ h.lease_expires_at <= t + MaxSkew => h.lease_expires_at <= t + 1 + MaxSkew
      /\ h.runnable_at > t + 1 + MaxSkew => h.runnable_at > t + MaxSkew
  BY LeaseStoreAssumption DEF Headers
<1> DEFINE a == AbstractHeader(h, t)
           b == AbstractHeader(h, t + 1)
<1>2. a \in Port!Headers /\ b \in Port!Headers
  BY AbstractTyped
<1>3. /\ b.state = a.state
      /\ b.lease_holder = a.lease_holder /\ b.attempt_count = a.attempt_count
      /\ b.lease = Port!LeaseAged(a.lease, b.lease = "expired")
      /\ b.gate = Port!GateAged(a.gate, b.gate = "open")
  BY <1>1 DEF AbstractHeader, Port!LeaseAged, Port!GateAged
<1> HIDE DEF a, b
<1>4. b = Port!Aged(a, b.lease = "expired", b.gate = "open")
  <2>1. (b.lease = "expired") \in BOOLEAN /\ (b.gate = "open") \in BOOLEAN
    OBVIOUS
  <2>2. /\ Port!Aged(a, b.lease = "expired", b.gate = "open") \in Port!Headers
        /\ Port!Aged(a, b.lease = "expired", b.gate = "open").state = a.state
        /\ Port!Aged(a, b.lease = "expired", b.gate = "open").lease_holder = a.lease_holder
        /\ Port!Aged(a, b.lease = "expired", b.gate = "open").lease
              = Port!LeaseAged(a.lease, b.lease = "expired")
        /\ Port!Aged(a, b.lease = "expired", b.gate = "open").gate
              = Port!GateAged(a.gate, b.gate = "open")
        /\ Port!Aged(a, b.lease = "expired", b.gate = "open").attempt_count = a.attempt_count
    BY <1>2, <2>1, AgedFields, Zenon
  <2> DEFINE c == Port!Aged(a, b.lease = "expired", b.gate = "open")
  <2>3. /\ c \in Port!Headers /\ b.state = c.state
        /\ b.lease_holder = c.lease_holder /\ b.lease = c.lease
        /\ b.gate = c.gate /\ b.attempt_count = c.attempt_count
    BY <1>3, <2>2, Zenon
  <2> HIDE DEF c
  <2>4. b = c
    BY <1>2, <2>3, SameHeader
  <2> QED
    BY <2>4 DEF c
<1> QED
  BY <1>4 DEF a, b

LEMMA ClaimedPortFields ==
  ASSUME NEW a \in Port!Headers, NEW w \in Workers
  PROVE  /\ Port!Claimed(a, w) \in Port!Headers
         /\ Port!Claimed(a, w).state = "running"
         /\ Port!Claimed(a, w).lease_holder = w
         /\ Port!Claimed(a, w).lease = "fresh"
         /\ Port!Claimed(a, w).gate = a.gate
         /\ Port!Claimed(a, w).attempt_count = a.attempt_count + 1
<1> DEFINE n == a.attempt_count + 1
<1>1. n \in Nat
  BY DEF Port!Headers
<1>2. Port!Claimed(a, w) = [a EXCEPT !.state = "running", !.lease_holder = w,
                                     !.lease = "fresh", !.attempt_count = n]
  BY DEF Port!Claimed
<1> HIDE DEF n
<1>3. /\ Port!Claimed(a, w).state = "running"
      /\ Port!Claimed(a, w).lease_holder = w
      /\ Port!Claimed(a, w).lease = "fresh"
      /\ Port!Claimed(a, w).gate = a.gate
      /\ Port!Claimed(a, w).attempt_count = n
  BY <1>2 DEF Port!Headers
<1>4. Port!Claimed(a, w) \in Port!Headers
  BY <1>1, <1>2 DEF Port!Headers, Port!RunStates
<1> QED
  BY <1>3, <1>4 DEF n

LEMMA ReleasedPortFields ==
  ASSUME NEW a \in Port!Headers, NEW w \in Workers, NEW s \in Port!ReleaseStates,
         Port!Holds(a, w)
  PROVE  /\ Port!Released(a, w, s) \in Port!Headers
         /\ Port!Released(a, w, s).state = s
         /\ Port!Released(a, w, s).lease_holder = Nobody
         /\ Port!Released(a, w, s).lease = "none"
         /\ Port!Released(a, w, s).gate = a.gate
         /\ Port!Released(a, w, s).attempt_count = a.attempt_count
<1>1. Port!Released(a, w, s)
        = [a EXCEPT !.state = s, !.lease_holder = Nobody, !.lease = "none"]
  BY DEF Port!Released
<1> QED
  BY <1>1 DEF Port!Headers, Port!RunStates, Port!ReleaseStates

LEMMA AbstractClaimed ==
  ASSUME NEW h \in Headers, NEW w \in Workers, NEW t \in Nat, NEW u \in Nat, u >= t
  PROVE  AbstractHeader(ClaimedAt(h, w, u), t) = Port!Claimed(AbstractHeader(h, t), w)
<1> DEFINE a == AbstractHeader(h, t)
           b == AbstractHeader(ClaimedAt(h, w, u), t)
<1>1. a \in Port!Headers /\ b \in Port!Headers
  BY AbstractTyped, ClaimedFields
<1>2. ~(u + LeaseTicks <= t + MaxSkew)
  BY LeaseStoreAssumption
<1>3. /\ b.state = "running" /\ b.lease_holder = w /\ b.lease = "fresh"
      /\ b.gate = a.gate /\ b.attempt_count = a.attempt_count + 1
  <2> DEFINE g == ClaimedAt(h, w, u)
  <2>1. /\ g.state = "running" /\ g.lease_holder = w
        /\ g.lease_expires_at = u + LeaseTicks
        /\ g.runnable_at = h.runnable_at /\ g.attempt_count = h.attempt_count + 1
    BY ClaimedFields
  <2>2. w # Nobody
    BY LeaseStoreAssumption
  <2> HIDE DEF g
  <2> QED
    BY <1>2, <2>1, <2>2 DEF AbstractHeader, g
<1> HIDE DEF a, b
<1>4. b = Port!Claimed(a, w)
  BY <1>1, <1>3, ClaimedPortFields, SameHeader
<1> QED
  BY <1>4 DEF a, b

LEMMA AbstractReleased ==
  ASSUME NEW h \in Headers, NEW w \in Workers, NEW t \in Nat,
         NEW s \in {"runnable", "suspended", "settled"},
         Port!Holds(AbstractHeader(h, t), w)
  PROVE  AbstractHeader(ReleasedTo(h, s), t) = Port!Released(AbstractHeader(h, t), w, s)
<1> DEFINE a == AbstractHeader(h, t)
           b == AbstractHeader(ReleasedTo(h, s), t)
<1>1. a \in Port!Headers /\ b \in Port!Headers
  BY AbstractTyped, ReleasedFields
<1>2. /\ b.state = s /\ b.lease_holder = Nobody /\ b.lease = "none"
      /\ b.gate = a.gate /\ b.attempt_count = a.attempt_count
  BY ReleasedFields DEF AbstractHeader
<1>3. Port!Holds(a, w) /\ s \in Port!ReleaseStates
  BY DEF Port!ReleaseStates
<1> HIDE DEF a, b
<1>4. b = Port!Released(a, w, s)
  BY <1>1, <1>2, <1>3, ReleasedPortFields, SameHeader
<1> QED
  BY <1>4 DEF a, b

LEMMA PortClaim ==
  ASSUME Inv, NEW w \in Workers, NEW r \in Runs, Claim(w, r)
  PROVE  Port!Claim(w, r)
<1> DEFINE H == [q \in Runs |-> AbstractHeader(header[q], now)]
<1>1. Port!Claimable(AbstractHeader(header[r], now))
  BY LeaseStoreAssumption DEF Inv, TypeOK, Headers, LeaseFollowsBeat, Claim, IsClaimable, Clock,
     AbstractHeader, Port!Claimable
<1>2. AbstractHeader(header[r], now)' = Port!Claimed(AbstractHeader(header[r], now), w)
  <2>1. header'[r] = ClaimedAt(header[r], w, Clock(w)) /\ now' = now
    BY DEF Inv, TypeOK, Claim
  <2>2. header[r] \in Headers /\ now \in Nat /\ Clock(w) \in Nat /\ Clock(w) >= now
    BY LeaseStoreAssumption, ClockNat DEF Inv, TypeOK, Clock
  <2> QED
    BY <2>1, <2>2, AbstractClaimed
<1>3. H' = [H EXCEPT ![r] = Port!Claimed(AbstractHeader(header[r], now), w)]
  BY <1>2, OneHeader DEF Claim, Inv, TypeOK
<1> QED
  BY <1>1, <1>3 DEF Port!Claim

LEMMA PortCreateRun ==
  ASSUME Inv, NEW r \in Runs, NEW k \in Keys \cup {NoKey},
         NEW s \in {"runnable", "nested"}, CreateRun(r, k, s)
  PROVE  Port!CreateRun(r)
<1> DEFINE H == [q \in Runs |-> AbstractHeader(header[q], now)]
<1>1. AbstractHeader(header[r], now) = Port!AbsentHeader
  BY AbstractAdmitted DEF Inv, TypeOK, Untouched, CreateRun, AbsentHeader, Port!AbsentHeader
<1>2. AbstractHeader(header[r], now)' = Port!AdmittedHeader(s)
  BY AbstractAdmitted DEF Inv, TypeOK, CreateRun
<1>3. H' = [H EXCEPT ![r] = Port!AdmittedHeader(s)]
  BY <1>2, OneHeader DEF CreateRun, Inv, TypeOK
<1> QED
  BY <1>1, <1>3 DEF Port!CreateRun

LEMMA PortRenew ==
  ASSUME Inv, NEW w \in Workers, NEW r \in Runs, Renew(w, r)
  PROVE  Port!Renew(w, r)
<1> DEFINE H == [q \in Runs |-> AbstractHeader(header[q], now)]
<1>1. Port!Holds(AbstractHeader(header[r], now), w)
  BY DEF Renew, AbstractHeader, Port!Holds
<1>2. AbstractHeader(header[r], now)' = Port!Renewed(AbstractHeader(header[r], now))
  BY LeaseStoreAssumption DEF Inv, TypeOK, Headers, Renew, Clock, AbstractHeader, Port!Renewed
<1>3. H' = [H EXCEPT ![r] = Port!Renewed(AbstractHeader(header[r], now))]
  BY <1>2, OneHeader DEF Renew, Inv, TypeOK
<1> QED
  BY <1>1, <1>3 DEF Port!Renew

LEMMA PortRelease ==
  ASSUME Inv, NEW w \in Workers, NEW r \in Runs,
         NEW s \in {"runnable", "suspended", "settled"}, Release(w, r, s)
  PROVE  Port!Release(w, r)
<1> DEFINE H == [q \in Runs |-> AbstractHeader(header[q], now)]
<1>1. Port!Holds(AbstractHeader(header[r], now), w)
  BY DEF Release, AbstractHeader, Port!Holds
<1>2. AbstractHeader(header[r], now)' = Port!Released(AbstractHeader(header[r], now), w, s)
  <2>1. header'[r] = ReleasedTo(header[r], s) /\ now' = now
    BY DEF Inv, TypeOK, Release
  <2>2. header[r] \in Headers /\ now \in Nat
    BY DEF Inv, TypeOK
  <2> QED
    BY <1>1, <2>1, <2>2, AbstractReleased
<1>3. H' = [H EXCEPT ![r] = Port!Released(AbstractHeader(header[r], now), w, s)]
  BY <1>2, OneHeader DEF Release, Inv, TypeOK
<1> QED
  BY <1>1, <1>3 DEF Port!Release, Port!ReleaseStates

LEMMA PortSettleInline ==
  ASSUME Inv, NEW r \in Runs, SettleInline(r)
  PROVE  Port!SettleInline(r)
<1> DEFINE H == [q \in Runs |-> AbstractHeader(header[q], now)]
<1>1. AbstractHeader(header[r], now)' = Port!SettledInline(AbstractHeader(header[r], now))
  BY DEF Inv, TypeOK, Headers, SettleInline, AbstractHeader, Port!SettledInline
<1>2. H' = [H EXCEPT ![r] = Port!SettledInline(AbstractHeader(header[r], now))]
  BY <1>1, OneHeader DEF SettleInline, Inv, TypeOK
<1> QED
  BY <1>2 DEF Port!SettleInline

LEMMA PortSetRunnableAt ==
  ASSUME Inv, NEW r \in Runs, NEW t \in 0..MaxTime, SetRunnableAt(r, t)
  PROVE  Port!SetRunnableAt(r)
<1> DEFINE H == [q \in Runs |-> AbstractHeader(header[q], now)]
<1>1. AbstractHeader(header[r], now).state # "absent"
  BY DEF SetRunnableAt, AbstractHeader
<1>2. CASE t = NoTime
  <2>1. AbstractHeader(header[r], now)' = Port!Woken(AbstractHeader(header[r], now))
    <3>1. TypeOK'
      BY TypeStep DEF Inv, Next
    <3>2. /\ header[r] \in Headers /\ header'[r] \in Headers
          /\ now \in Nat /\ now' = now
          /\ header'[r] = MadeRunnableAt(header[r], NoTime)
      BY <1>2, <3>1 DEF Inv, TypeOK, SetRunnableAt
    <3>3. AbstractHeader(header'[r], now) = Port!Woken(AbstractHeader(header[r], now))
      BY <3>2, AbstractWoken
    <3> QED
      BY <3>2, <3>3
  <2>2. H' = [H EXCEPT ![r] = Port!Woken(AbstractHeader(header[r], now))]
    BY <2>1, OneHeader DEF SetRunnableAt, Inv, TypeOK
  <2> QED
    BY <1>1, <2>2 DEF Port!SetRunnableAt
<1>3. CASE t # NoTime
  <2> DEFINE gate == IF t > now + MaxSkew THEN "parked" ELSE "open"
  <2>1. AbstractHeader(header[r], now)' = Port!GateSet(AbstractHeader(header[r], now), gate)
    <3>1. /\ header'[r] = MadeRunnableAt(header[r], t) /\ now' = now
          /\ header[r] \in Headers /\ now \in Nat /\ t \in Nat
      BY DEF Inv, TypeOK, SetRunnableAt
    <3> QED
      BY <1>3, <3>1, AbstractGateSet
  <2>2. H' = [H EXCEPT ![r] = Port!GateSet(AbstractHeader(header[r], now), gate)]
    BY <2>1, OneHeader DEF SetRunnableAt, Inv, TypeOK
  <2> QED
    BY <1>1, <2>2 DEF Port!SetRunnableAt
<1> QED
  BY <1>2, <1>3

LEMMA PortTick ==
  ASSUME Inv, Tick
  PROVE  Port!TimePasses
<1> DEFINE H == [q \in Runs |-> AbstractHeader(header[q], now)]
           RanOut == {q \in Runs : AbstractHeader(header[q], now)'.lease = "expired"}
           Due == {q \in Runs : AbstractHeader(header[q], now)'.gate = "open"}
<1>1. ASSUME NEW q \in Runs
      PROVE  AbstractHeader(header[q], now)' = Port!Aged(AbstractHeader(header[q], now), q \in RanOut, q \in Due)
  BY AbstractAged DEF Inv, TypeOK, Tick
<1>2. H' = [q \in Runs |-> Port!Aged(H[q], q \in RanOut, q \in Due)]
  BY <1>1
<1>3. RanOut \in SUBSET Runs /\ Due \in SUBSET Runs
  OBVIOUS
<1> QED
  BY <1>2, <1>3 DEF Port!TimePasses

\* The in-memory adapter, with clocks that disagree, does only what the Store
\* port promises.
THEOREM PortImplemented == Spec => ImplementsPort
<1> DEFINE H == [q \in Runs |-> AbstractHeader(header[q], now)]
<1>1. Init => Port!Init
  <2> SUFFICES ASSUME Init, NEW r \in Runs PROVE AbstractHeader(header[r], now) = Port!AbsentHeader
    BY DEF Port!Init
  <2> QED
    BY AbstractAdmitted DEF Init, AbsentHeader, Port!AbsentHeader
<1>2. Inv /\ [Next]_vars => [Port!Next]_([r \in Runs |-> AbstractHeader(header[r], now)])
  <2> SUFFICES ASSUME Inv, [Next]_vars PROVE Port!Next \/ H' = H
    OBVIOUS
  <2>1. CASE UNCHANGED vars
    BY <2>1 DEF vars, AbstractHeader
  <2>2. CASE Next
    BY <2>2, PortCreateRun, PortClaim, PortRenew, PortRelease, PortSettleInline,
       PortSetRunnableAt, PortTick DEF Next, Port!Next
  <2> QED
    BY <2>1, <2>2
<1> QED
  BY <1>1, <1>2, InvCorrect, PTL DEF Spec, ImplementsPort, Port!Spec

-----------------------------------------------------------------------------
(* The same header in the DynamoDB adapter, where a call in flight is two  *)
(* steps.                                                                  *)
(*                                                                         *)
(* ClaimableIsOffered speaks of the present instant only and is not        *)
(* inductive: Tick could make a Run claimable whose index entry is later.  *)
(* Indexed bounds the entry by the instant from which the claim's          *)
(* condition can hold, and so for every instant to come.  Of a read that   *)
(* is put back later the proof uses only that it was legal when it was     *)
(* read.                                                                   *)

\* A lease is on a running Run, and a running Run has one.
Legal(h) == h.lease_holder \in Workers <=> h.state = "running"

\* A Run that is claimable at some instant is offered by then, whatever the
\* instant is: claim_gsi_sk is never later than the condition of the claim
\* can come true.
Indexed(h) ==
  /\ h.state = "runnable" => h.claim_gsi_sk \in 0..h.runnable_at
  /\ h.state = "running" => h.claim_gsi_sk \in 0..Later(h.runnable_at, h.lease_expires_at)

\* Calls between their read and their write; set_runnable_at does not look at
\* the lease, and what it read was legal.
ReleaseCalls ==
  [op : {"release"}, worker : Workers, read : Items,
   arg : {"runnable", "suspended", "settled"}, tries : 1..MaxRetries]

GateCalls ==
  [op : {"set_runnable_at"}, worker : {Nobody}, read : {h \in Items : Legal(h)},
   arg : 0..MaxTime, tries : 1..MaxRetries]

\* The inductive invariant: whatever a call read, when it read it.
HeaderInv ==
  /\ item \in Items /\ Legal(item) /\ Indexed(item)
  /\ call \in [Calls -> {Idle} \cup ReleaseCalls \cup GateCalls]
  /\ clock \in Nat \ {0} /\ renewed \in 0..clock

\* A whole item computed by _header_to_item is legal and its index entry right,
\* whatever it was computed from.
LEMMA HeaderItem ==
  ASSUME NEW s \in RunStates, NEW holder \in Workers \cup {Nobody}, NEW t \in Nat, NEW r \in Nat,
         NEW n \in Nat, holder \in Workers <=> s = "running"
  PROVE  LET h == ItemOf(s, holder, t, r, n) IN
         /\ h \in Items /\ Legal(h) /\ Indexed(h) /\ h.state = s
BY DynamoHeaderAssumption DEF ItemOf, Items, Legal, Indexed, ClaimSortKey,
   Later, Unindexed, RunStates

\* create_run writes a legal item.
LEMMA HeaderInit == ItemInit => HeaderInv
<1> SUFFICES ASSUME ItemInit PROVE HeaderInv
  OBVIOUS
<1> USE DynamoHeaderAssumption
<1>1. item \in Items /\ Legal(item) /\ Indexed(item)
  BY HeaderItem DEF ItemInit, RunStates, NoTime
<1> QED BY <1>1 DEF ItemInit, HeaderInv

\* A claim and a renewal, each one conditional update that moves the index entry
\* by itself, keep the item legal and indexed.
LEMMA HeaderHeartbeat ==
  ASSUME HeaderInv, NEW w \in Workers, ClaimItem(w) \/ RenewItem(w)
  PROVE  HeaderInv'
<1> USE DynamoHeaderAssumption
<1>0. ClaimItem(w) \/ RenewItem(w)
  OBVIOUS
<1>1. /\ item' \in Items /\ Legal(item') /\ Indexed(item')
  <2> DEFINE e == clock + LeaseTicks
  <2>1. /\ e \in Nat /\ item \in Items /\ Legal(item)
    BY DEF HeaderInv
  <2> HIDE DEF e
  <2>2. CASE ClaimItem(w)
    <3>1. item' = [item EXCEPT !.state = "running", !.lease_holder = w, !.lease_expires_at = e,
                               !.attempt_count = item.attempt_count + 1, !.claim_gsi_sk = e]
      BY <2>2 DEF ClaimItem, e
    <3>2. item' \in Items
      <4>1. item' = [state |-> "running", lease_holder |-> w, lease_expires_at |-> e,
                     runnable_at |-> item.runnable_at, attempt_count |-> item.attempt_count + 1,
                     claim_gsi_sk |-> e]
        BY <2>1, <3>1 DEF Items
      <4>2. item.runnable_at \in Nat /\ item.attempt_count + 1 \in Nat
        BY <2>1 DEF Items
      <4> QED BY <2>1, <4>1, <4>2 DEF Items, RunStates
    <3>3. /\ item'.state = "running" /\ item'.lease_holder = w /\ item'.claim_gsi_sk = e
          /\ item'.lease_expires_at = e /\ item'.runnable_at \in Nat
      BY <2>1, <3>1 DEF Items
    <3> QED BY <2>1, <3>2, <3>3 DEF Legal, Indexed, Later
  <2>3. CASE RenewItem(w)
    <3>1. item' = [item EXCEPT !.lease_expires_at = e, !.claim_gsi_sk = e] /\ item.lease_holder = w
      BY <2>3 DEF RenewItem, e
    <3>2. item' \in Items
      BY <2>1, <3>1 DEF Items
    <3>3. /\ item'.state = "running" /\ item'.lease_holder = w /\ item'.claim_gsi_sk = e
          /\ item'.lease_expires_at = e /\ item'.runnable_at \in Nat
      BY <2>1, <3>1 DEF Items, Legal
    <3> QED BY <2>1, <3>2, <3>3 DEF Legal, Indexed, Later
  <2> QED BY <1>0, <2>2, <2>3
<1> QED BY <1>1 DEF HeaderInv, ClaimItem, RenewItem

\* settle_inline leaves a nested item's index entry absent.
LEMMA HeaderSettles ==
  ASSUME HeaderInv, SettleItem
  PROVE  HeaderInv'
<1> USE DynamoHeaderAssumption
<1>1. item' \in Items /\ Legal(item') /\ Indexed(item')
  BY DEF HeaderInv, SettleItem, Items, Legal, Indexed, RunStates
<1> QED BY <1>1 DEF HeaderInv, SettleItem

\* A call that reads the item remembers a legal one.
LEMMA HeaderRead ==
  ASSUME HeaderInv, NEW c \in Calls,
         \/ \E w \in Workers, s \in {"runnable", "suspended", "settled"} : ReleaseRead(c, w, s)
         \/ \E t \in 0..MaxTime : GateRead(c, t)
  PROVE  HeaderInv'
<1> USE DynamoHeaderAssumption
<1>1. PICK x \in ReleaseCalls \cup GateCalls : call' = [call EXCEPT ![c] = x]
  <2>1. CASE \E w \in Workers, s \in {"runnable", "suspended", "settled"} : ReleaseRead(c, w, s)
    <3>1. PICK w \in Workers, s \in {"runnable", "suspended", "settled"} : ReleaseRead(c, w, s)
      BY <2>1
    <3>2. Reading("release", w, item, s, 1) \in ReleaseCalls
      BY DEF Reading, ReleaseCalls, HeaderInv
    <3> QED BY <3>1, <3>2 DEF ReleaseRead
  <2>2. CASE \E t \in 0..MaxTime : GateRead(c, t)
    <3>1. PICK t \in 0..MaxTime : GateRead(c, t)
      BY <2>2
    <3>2. Reading("set_runnable_at", Nobody, item, t, 1) \in GateCalls
      BY DEF Reading, GateCalls, HeaderInv
    <3> QED BY <3>1, <3>2 DEF GateRead
  <2> QED BY <2>1, <2>2
<1> QED BY <1>1 DEF HeaderInv, ReleaseRead, GateRead

\* A call whose condition failed reads again or ends.
LEMMA HeaderRetried ==
  ASSUME HeaderInv, NEW c \in Calls, call[c] # Idle
  PROVE  Retried(c) \in {Idle} \cup ReleaseCalls \cup GateCalls
<1> USE DynamoHeaderAssumption
<1>1. call[c] \in ReleaseCalls \cup GateCalls
  BY DEF HeaderInv
<1>2. CASE Retried(c) = Idle
  BY <1>2
<1>3. CASE Retried(c) # Idle
  <2>1. Retried(c) = [call[c] EXCEPT !.read = item, !.tries = @ + 1] /\ call[c].tries # MaxRetries
    BY <1>3 DEF Retried
  <2> DEFINE x == call[c]
             y == [x EXCEPT !.read = item, !.tries = x.tries + 1]
  <2>4. y = Retried(c) /\ item \in Items /\ Legal(item)
    BY <2>1 DEF HeaderInv
  <2>5. x.tries \in 1..MaxRetries /\ x.tries + 1 \in 1..MaxRetries
    <3>1. x.tries \in 1..MaxRetries
      BY <1>1 DEF ReleaseCalls, GateCalls
    <3> QED BY <2>1, <3>1
  <2>2. CASE x \in ReleaseCalls
    <3> HIDE DEF x
    <3>1. y \in ReleaseCalls
      BY <2>2, <2>4, <2>5 DEF ReleaseCalls
    <3> QED BY <2>4, <3>1
  <2>3. CASE x \in GateCalls
    <3> HIDE DEF x
    <3>1. y \in GateCalls
      BY <2>3, <2>4, <2>5 DEF GateCalls
    <3> QED BY <2>4, <3>1
  <2> QED BY <1>1, <2>2, <2>3
<1> QED BY <1>2, <1>3

\* A release puts back an item computed from an old read only while its Worker
\* holds the lease, so only over a Run that is running.
LEMMA HeaderReleased ==
  ASSUME HeaderInv, NEW c \in Calls, ReleaseWrite(c)
  PROVE  /\ HeaderInv'
         /\ item.state # "running" => item' = item
<1> USE DynamoHeaderAssumption
<1> DEFINE h == call[c].read
<1>1. call[c] \in ReleaseCalls
  BY DEF HeaderInv, ReleaseWrite, GateCalls, Idle
<1>2. CASE item.lease_holder = call[c].worker
  <2>1. /\ item' = ItemOf(call[c].arg, Nobody, NoTime, h.runnable_at, h.attempt_count)
        /\ call' = [call EXCEPT ![c] = Idle]
    BY <1>2 DEF ReleaseWrite
  <2>2. item' \in Items /\ Legal(item') /\ Indexed(item')
    <3>1. /\ call[c].arg \in RunStates /\ call[c].arg # "running" /\ h.runnable_at \in Nat
          /\ h.attempt_count \in Nat
      BY <1>1 DEF ReleaseCalls, Items, RunStates
    <3> QED BY <2>1, <3>1, HeaderItem DEF NoTime
  <2>3. item.state = "running"
    BY <1>1, <1>2 DEF HeaderInv, Legal, ReleaseCalls
  <2> QED BY <2>1, <2>2, <2>3 DEF HeaderInv, ReleaseWrite
<1>3. CASE item.lease_holder # call[c].worker
  <2>1. item' = item /\ call' = [call EXCEPT ![c] = Retried(c)]
    BY <1>3 DEF ReleaseWrite
  <2>2. Retried(c) \in {Idle} \cup ReleaseCalls \cup GateCalls
    BY <1>1, HeaderRetried DEF ReleaseCalls, Idle
  <2> QED BY <2>1, <2>2 DEF HeaderInv, ReleaseWrite
<1> QED BY <1>2, <1>3

\* set_runnable_at puts back an item whose state is the one it finds: from an old
\* read it can only wake a suspended Run.
LEMMA HeaderGated ==
  ASSUME HeaderInv, NEW c \in Calls, GateWrite(c)
  PROVE  /\ HeaderInv'
         /\ item.state # "suspended" => item'.state = item.state
<1> USE DynamoHeaderAssumption
<1> DEFINE h == call[c].read
           t == call[c].arg
           state == IF t = NoTime /\ h.state = "suspended" THEN "runnable" ELSE h.state
<1>1. call[c] \in GateCalls
  BY DEF HeaderInv, GateWrite, ReleaseCalls, Idle
<1>2. CASE item.state = h.state
  <2>1. /\ item' = ItemOf(state, h.lease_holder, h.lease_expires_at, t, h.attempt_count)
        /\ call' = [call EXCEPT ![c] = Idle]
    BY <1>2 DEF GateWrite
  <2>2. /\ h \in Items /\ Legal(h) /\ t \in Nat
    BY <1>1 DEF GateCalls
  <2>3. state \in RunStates /\ (h.lease_holder \in Workers <=> state = "running")
    BY <2>2 DEF Items, Legal, RunStates
  <2>4. item' \in Items /\ Legal(item') /\ Indexed(item') /\ item'.state = state
    <3>1. /\ h.lease_holder \in Workers \cup {Nobody} /\ h.lease_expires_at \in Nat
          /\ h.attempt_count \in Nat
      BY <2>2 DEF Items
    <3> HIDE DEF state, h, t
    <3> QED BY <2>1, <2>2, <2>3, <3>1, HeaderItem
  <2> QED BY <1>2, <2>1, <2>4 DEF HeaderInv, GateWrite
<1>3. CASE item.state # h.state
  <2>1. item' = item /\ call' = [call EXCEPT ![c] = Retried(c)]
    BY <1>3 DEF GateWrite
  <2>2. Retried(c) \in {Idle} \cup ReleaseCalls \cup GateCalls
    BY <1>1, HeaderRetried DEF GateCalls, Idle
  <2> QED BY <2>1, <2>2 DEF HeaderInv, GateWrite
<1> QED BY <1>2, <1>3

\* What a step may do to the state of the item.
StatesMove ==
  /\ item.state = "settled" => item'.state = "settled"
  /\ item.state = "nested" => item'.state \in {"nested", "settled"}

\* Every step keeps the invariant and moves no Run out of a state it must not
\* leave.
LEMMA HeaderStep ==
  ASSUME HeaderInv, [ItemNext]_itemVars
  PROVE  HeaderInv' /\ StatesMove
<1>1. CASE UNCHANGED itemVars
  BY <1>1 DEF itemVars, HeaderInv, StatesMove
<1>2. ASSUME NEW w \in Workers, ClaimItem(w) \/ RenewItem(w)
      PROVE  HeaderInv' /\ StatesMove
  <2>1. item.state \notin {"settled", "nested"}
    BY <1>2 DEF ClaimItem, RenewItem, ItemClaimable, HeaderInv, Legal
  <2> QED BY <1>2, <2>1, HeaderHeartbeat DEF StatesMove
<1>3. ASSUME NEW c \in Calls,
             \/ \E w \in Workers, s \in {"runnable", "suspended", "settled"} : ReleaseRead(c, w, s)
             \/ \E t \in 0..MaxTime : GateRead(c, t)
      PROVE  HeaderInv' /\ StatesMove
  <2>1. HeaderInv'
    BY <1>3, HeaderRead
  <2>2. item' = item
    BY <1>3 DEF ReleaseRead, GateRead
  <2> QED BY <2>1, <2>2 DEF StatesMove
<1>4. ASSUME NEW c \in Calls, ReleaseWrite(c)
      PROVE  HeaderInv' /\ StatesMove
  BY <1>4, HeaderReleased DEF StatesMove
<1>5. ASSUME NEW c \in Calls, GateWrite(c)
      PROVE  HeaderInv' /\ StatesMove
  BY <1>5, HeaderGated DEF StatesMove
<1>6. CASE SettleItem
  BY <1>6, HeaderSettles DEF StatesMove, SettleItem, HeaderInv, Items
<1>7. CASE ItemTick
  BY <1>7 DEF ItemTick, HeaderInv, StatesMove
<1> QED BY <1>1, <1>2, <1>3, <1>4, <1>5, <1>6, <1>7 DEF ItemNext

\* The invariant implies what the index promises.
LEMMA HeaderIndexed ==
  HeaderInv => IndexIsSound
<1> SUFFICES ASSUME HeaderInv PROVE IndexIsSound
  OBVIOUS
<1>1. ItemTypeOK
  BY DEF HeaderInv, ItemTypeOK, ReleaseCalls, GateCalls, Idle
<1>2. ClaimableIsOffered
  BY DEF HeaderInv, ClaimableIsOffered, ItemClaimable, Offered, Indexed, Items, Later
<1> QED BY <1>1, <1>2 DEF IndexIsSound

\* IndexIsSound for any number of Workers, calls in flight, retries and ticks:
\* no order of conditional updates and of puts computed from old reads hides a
\* claimable Run from the index (_claim_sort_key and every write of
\* claim_gsi_sk).
THEOREM IndexStaysSound ==
  ItemSpec => []IndexIsSound
<1>1. ItemInit => HeaderInv
  BY HeaderInit
<1>2. HeaderInv /\ [ItemNext]_itemVars => HeaderInv'
  BY HeaderStep
<1> QED BY <1>1, <1>2, HeaderIndexed, PTL DEF ItemSpec

\* StatesStayLegal for the same: a put from an old read never revives a settled
\* Run, never makes a nested one claimable and never leaves a lease on a Run
\* that is not running.
THEOREM HeadersStayLegal ==
  ItemSpec => StatesStayLegal
<1>1. ItemInit => HeaderInv
  BY HeaderInit
<1>2. HeaderInv /\ [ItemNext]_itemVars => HeaderInv'
  BY HeaderStep
<1>3. HeaderInv /\ [ItemNext]_itemVars
        => [/\ item.state = "settled" => item'.state = "settled"
            /\ item.state = "nested" => item'.state \in {"nested", "settled"}]_itemVars
  BY HeaderStep DEF StatesMove
<1>4. HeaderInv => (item.lease_holder \in Workers <=> item.state = "running")
  BY DEF HeaderInv, Legal
<1> QED BY <1>1, <1>2, <1>3, <1>4, PTL DEF ItemSpec, StatesStayLegal
=============================================================================
