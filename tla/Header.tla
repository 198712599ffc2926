-------------------------------- MODULE Header --------------------------------
(***************************************************************************)
(* A run header and what each header operation of the Store port does to   *)
(* it (store/port.py), with time reduced to the two facts a claim asks of  *)
(* it: a lease is "fresh" or "expired", a Run is parked until a future     *)
(* instant or it is not.                                                   *)
(***************************************************************************)
EXTENDS Naturals

CONSTANTS
  Workers,   \* the worker ids a lease can be held under
  Nobody     \* lease_holder = None

ASSUME NobodyAssumption == Nobody \notin Workers

-----------------------------------------------------------------------------
RunStates == {"runnable", "running", "suspended", "nested", "settled"}

Headers ==
  [state : RunStates \cup {"absent"},    \* "absent": no such Run yet
   lease_holder : Workers \cup {Nobody},
   lease : {"none", "fresh", "expired"},
   gate : {"open", "parked"},            \* "parked": runnable_at is ahead
   attempt_count : Nat]

AdmittedHeader(state) ==
  [state |-> state, lease_holder |-> Nobody, lease |-> "none",
   gate |-> "open", attempt_count |-> 0]

AbsentHeader == AdmittedHeader("absent")

-----------------------------------------------------------------------------
(* What one call does to a header *)

Holds(h, w) == h.lease_holder = w

\* Mutation: an expired lease is not reclaimed.
ClaimableRunnable(h) == h.gate = "open" /\ h.state = "runnable"

Claimable(h) ==
  /\ h.gate = "open"
  /\ \/ h.state = "runnable"
     \/ h.state = "running" /\ h.lease # "fresh"

Claimed(h, w) ==
  [h EXCEPT !.state = "running", !.lease_holder = w, !.lease = "fresh",
            !.attempt_count = @ + 1]

Renewed(h) == [h EXCEPT !.lease = "fresh"]

\* A caller that does not hold the lease changes nothing.
Released(h, w, state) ==
  IF Holds(h, w)
  THEN [h EXCEPT !.state = state, !.lease_holder = Nobody, !.lease = "none"]
  ELSE h

SettledInline(h) == IF h.state = "nested" THEN [h EXCEPT !.state = "settled"] ELSE h

\* set_runnable_at with an instant, which parks when the instant is ahead.
GateSet(h, gate) == [h EXCEPT !.gate = gate]

\* set_runnable_at(None): unparks, and wakes a suspended Run only.
StateWoken(state) == IF state = "suspended" THEN "runnable" ELSE state

Woken(h) == [h EXCEPT !.gate = "open", !.state = StateWoken(@)]

\* One Run ages: its lease may run out, its parking instant may come.
LeaseAged(lease, ranOut) == IF ranOut /\ lease = "fresh" THEN "expired" ELSE lease
GateAged(gate, due) == IF due THEN "open" ELSE gate

Aged(h, ranOut, due) ==
  [h EXCEPT !.lease = LeaseAged(@, ranOut), !.gate = GateAged(@, due)]
=============================================================================
