------------------------------ MODULE StorePort ------------------------------
(***************************************************************************)
(* The Store port (store/port.py) as the run headers see it: every caller  *)
(* may make every call at every moment, because the port says nothing      *)
(* about who calls it when.  LeaseStore (the in-memory adapter, with       *)
(* clocks) implements it.                                                  *)
(***************************************************************************)
EXTENDS Header

CONSTANT Runs     \* run ids

VARIABLE header   \* header[r]: the header of Run r

\* The states a Worker hands to release.
ReleaseStates == {"runnable", "suspended", "settled"}

Init == header = [r \in Runs |-> AbsentHeader]

CreateRun(r) ==
  /\ header[r] = AbsentHeader
  /\ \E s \in {"runnable", "nested"} :
       header' = [header EXCEPT ![r] = AdmittedHeader(s)]

Claim(w, r) ==
  /\ Claimable(header[r])
  /\ header' = [header EXCEPT ![r] = Claimed(@, w)]

Renew(w, r) ==
  /\ Holds(header[r], w)
  /\ header' = [header EXCEPT ![r] = Renewed(@)]

Release(w, r) ==
  /\ Holds(header[r], w)
  /\ \E s \in ReleaseStates : header' = [header EXCEPT ![r] = Released(@, w, s)]

SettleInline(r) == header' = [header EXCEPT ![r] = SettledInline(@)]

SetRunnableAt(r) ==
  /\ header[r].state # "absent"
  /\ \/ \E g \in {"open", "parked"} : header' = [header EXCEPT ![r] = GateSet(@, g)]
     \/ header' = [header EXCEPT ![r] = Woken(@)]

TimePasses ==
  \E ranOut, due \in SUBSET Runs :
    header' = [r \in Runs |-> Aged(header[r], r \in ranOut, r \in due)]

Next ==
  \/ \E r \in Runs : CreateRun(r) \/ SettleInline(r) \/ SetRunnableAt(r)
  \/ \E w \in Workers, r \in Runs : Claim(w, r) \/ Renew(w, r) \/ Release(w, r)
  \/ TimePasses

Spec == Init /\ [][Next]_header
=============================================================================
