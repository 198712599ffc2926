------------------------------ MODULE MCAttempts ------------------------------
(* Attempts on one Run with one or two tool calls.  The journal traffic that *)
(* Attempts leaves out (steps, queues, children) gets no values here.        *)
EXTENDS Attempts, TLC

CONSTANTS c1, c2

MCToolOf == [c \in Calls |-> "tool"]
MCNameOf == <<>>
MCSymmetry == Permutations(Workers)

MCTakeovers ==
  {World({"crash", "stall", "blink", "interrupt", "lost_admission"}, 3, Calls),
   World({"stall", "raise", "blink", "deadline"}, 2, Calls)}
MCRest ==
  {World({"crash", "stop", "raise", "answer", "expire", "lost_wake"}, 3, Calls),
   World({"deadline", "crash", "hang"}, 3, {c2})}
MCApproved == {World({"crash", "answer"}, 3, Calls)}
=============================================================================
