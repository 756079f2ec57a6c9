--------------------------- MODULE MCPipeAcceptor ---------------------------
(* Two acceptors on one pipe name, one per way of handling a failed accept. *)
EXTENDS PipeAcceptor, TLC

CONSTANTS a1, a2

MCKind == a1 :> "ref" @@ a2 :> "coro"
MCKindOne == a1 :> "move"
=============================================================================
