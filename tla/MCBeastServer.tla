---------------------------- MODULE MCBeastServer ---------------------------
(* The beast server and two clients that call it again and again.          *)
EXTENDS BeastServer, TLC

CONSTANT a1

MCKind == a1 :> "ref"
=============================================================================
