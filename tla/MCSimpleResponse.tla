-------------------------- MODULE MCSimpleResponse --------------------------
(* Texts of 0, 1, 1 and 5 characters, where lengths and counts are taken    *)
(* modulo 3 (heads) and 5 (bodies); three names, one of them too long and   *)
(* all of them too many; an object used twice.                              *)
EXTENDS SimpleResponse

CONSTANTS empty, short, other, long

MCLength == [s \in Texts |-> IF s = empty THEN 0 ELSE IF s = long THEN 5 ELSE 1]
MCNames == <<short, other, long>>
=============================================================================
