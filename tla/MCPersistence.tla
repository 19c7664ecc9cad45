--------------------------- MODULE MCPersistence -----------------------------
(* One player makes every request.                                         *)
EXTENDS Persistence

OnePlayer == [r \in Requests |-> CHOOSE p \in Players : TRUE]
=============================================================================
