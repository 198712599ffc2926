----------------------------- MODULE MCChildRuns -----------------------------
(* ChildRuns with two or three children of different names.                  *)
EXTENDS ChildRuns, TLC

MCNameOf == [k \in Children |-> k]
MCToolOf == <<>>
MCSymmetry == Permutations(Children)
=============================================================================
