----------------------------- MODULE MCLeaseStore -----------------------------
(* LeaseStore on two interchangeable Runs and two Workers, one of whose    *)
(* clocks is a tick ahead.                                                 *)
EXTENDS LeaseStore, TLC

CONSTANTS w1, w2

MCWorkers == {w1, w2}
MCAhead == [w \in {w1, w2} |-> IF w = w1 THEN 0 ELSE 1]
MCSymmetry == Permutations(Runs)
=============================================================================
