------------------------------ MODULE MCMcpSystem ------------------------------
(* Up to two callers and three connections of the pool, or up to two requests *)
(* of two connections that share a session, or one caller of each.            *)
EXTENDS McpSystem

CONSTANTS a1, a2

\* Who calls how often, whose requests are authorised and which of them need the
\* wider scope, how often the catalogue changes, and what may happen.
Scene(oauth, callers, rounds, versions, active, wide, events) ==
  [oauth |-> oauth, callers |-> callers, rounds |-> rounds, versions |-> versions,
   active |-> active, wide |-> wide, events |-> events]

Pooled(oauth, callers, rounds, versions, events) ==
  Scene(oauth, callers, rounds, versions, {}, {}, events)

Signed(rounds, active, wide, events) == Scene(TRUE, {}, rounds, 1, active, wide, events)

MCScenes ==
  {Pooled(TRUE, {a1}, 2, 3, {"lost_subscription", "fail", "age"}),
   Pooled(TRUE, {a1, a2}, 2, 1, {"cancel", "drop"}),
   Pooled(TRUE, {a1, a2}, 1, 1, {"evict", "drop"}),
   Pooled(FALSE, {a1, a2}, 1, 1, {"evict"}),
   Pooled(TRUE, {a1}, 1, 2, {"evict", "oversize"}),
   Signed(4, {Main(1), Listen(1)}, {Listen(1)}, {"revoke"}),
   Signed(3, {Main(1), Main(2)}, {Main(2)}, {"revoke"}),
   Signed(4, {Main(1), Main(2)}, {Main(2)}, {"cancel", "blip"}),
   Scene(TRUE, {a1}, 1, 1, Requests, {}, {"evict", "revoke"}),
   Scene(TRUE, {a1}, 2, 1, Requests, {}, {"drop", "revoke"}),
   Scene(TRUE, {a1}, 1, 1, Requests, {}, {"fail", "revoke"})}
=============================================================================
