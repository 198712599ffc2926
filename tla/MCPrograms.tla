------------------------------ MODULE MCPrograms ------------------------------
(* Programs with two programs of two coroutines, and one tool per gate.       *)
EXTENDS Programs

CONSTANTS p1, p2, c1, c2, c3, c4

MCToolOf ==
  [c \in Calls |-> CASE c \in CodeCalls -> "run_code"
                     [] c = c3 -> "gated" [] c = c4 -> "denied" [] OTHER -> "read"]
MCGateOf ==
  [tool \in Tools |-> CASE tool = "gated" -> "ask" [] tool = "denied" -> "deny" [] OTHER -> "allow"]
MCNameOf == <<>>
MCScenes ==
  {[tasks |-> {1, 2}, frames |-> 3, mishaps |-> 0], [tasks |-> {1}, frames |-> 3, mishaps |-> 1]}
=============================================================================
