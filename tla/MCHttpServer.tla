---------------------------- MODULE MCHttpServer ----------------------------
(* Up to four requests: one without a body, one whose body takes two reads, *)
(* one with an empty chunked body, one with headers that are too big.       *)
EXTENDS HttpServer, TLC

CONSTANTS plain, long, empty, big

MCSize == [r \in Requests |-> IF r = long THEN 2 ELSE 0]
=============================================================================
