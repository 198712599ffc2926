---------------------------- MODULE MCDynamoHeader ----------------------------
(* One Run, two interchangeable Workers, two calls in flight.              *)
EXTENDS DynamoHeader, TLC

MCSymmetry == Permutations(Workers) \cup Permutations(Calls)
=============================================================================
