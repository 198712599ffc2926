------------------------------ MODULE MCContext ------------------------------
(* Context with a batch of two calls, a program's call and one child.        *)
EXTENDS Context

CONSTANTS c1, c2, c3, c4

MCToolOf == [c \in Calls |-> "tool"]
MCNameOf == [k \in Children |-> "helper"]
MCScenes ==
  {Scene(2, 5, 1, {<<>>, <<c2>>, <<c3>>, <<c4>>}, {"large", "overflow"}),
   Scene(1, 4, 1, {<<>>, <<c1>>, <<c3>>}, {"large", "overflow", "crash"}),
   Scene(1, 3, 1, {<<c1, c2>>, <<c3>>}, {"large", "overflow", "crash"}),
   Scene(1, 3, 1, {<<>>, <<c1, c2>>}, {"large", "send", "interrupt", "crash"}),
   Scene(1, 3, 1, {<<>>, <<c1, c2>>}, {"send", "child", "crash"}),
   Scene(1, 3, 1, {<<>>, <<c1, c2>>, <<c3>>}, {"large", "child"}),
   Scene(1, 2, 3, {<<>>, <<c2>>, <<c3>>}, {"large", "raise"})}
=============================================================================
