---------------------------- MODULE MCEchoServer ----------------------------
(* Echo servers, callback and coroutine, called by two clients again and    *)
(* again; the server that boots next may be either.                         *)
EXTENDS EchoServer, TLC

CONSTANTS a1, a2

MCKind == a1 :> "ref" @@ a2 :> "coro"
MCKindOne == a1 :> "move"
EchoSymmetry == Permutations(Pipes) \cup Permutations(Clients)
=============================================================================
