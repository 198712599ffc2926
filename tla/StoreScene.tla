------------------------------ MODULE StoreScene ------------------------------
(***************************************************************************)
(* What the modules of the adapters share: the Workers, their leases, the  *)
(* states of a run header, and the bounds on time and claims.              *)
(***************************************************************************)

CONSTANTS
  Workers,      \* worker ids
  Nobody,       \* no lease_holder
  LeaseTicks,   \* lease_seconds
  MaxTime,      \* bound: the clock stops here
  MaxClaims     \* bound: claims of a Run

RunStates == {"runnable", "running", "suspended", "nested", "settled"}

\* An instant that is None, or an attribute that is absent; clocks start at 1.
NoTime == 0
=============================================================================
