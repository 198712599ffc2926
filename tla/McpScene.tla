-------------------------------- MODULE McpScene --------------------------------
(***************************************************************************)
(* What the modules of the MCP client share: how many connections there may *)
(* be, the requests they send, and the scene a behaviour plays in.         *)
(***************************************************************************)
EXTENDS Naturals

CONSTANTS
  MaxConnections,  \* bound: connections ever opened
  Scenes,          \* bound: the scenes that are looked at
  None

VARIABLE scene     \* the one of Scenes; it never changes

Connections == 1..MaxConnections

\* A connection's runner sends one request at a time; its listener is one more.
Main(i) == <<i, "main">>
Listen(i) == <<i, "listen">>
Requests == Connections \X {"main", "listen"}

\* None is neither a connection nor a request.
ASSUME McpSceneAssumption == MaxConnections \in Nat /\ None \notin (1..MaxConnections) \X {"main", "listen"}

Happens(event) == event \in scene.events
=================================================================================
