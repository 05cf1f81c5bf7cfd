--------------------------- MODULE MCTokenBucket ---------------------------
(***************************************************************************)
(* Small instances of TokenBucket for TLC.                                 *)
(***************************************************************************)
EXTENDS TokenBucket, TLC

CONSTANTS s1, s2, c1, c2

\* One request at a time on each server.
OneEach == [c \in Calls |-> IF c = c1 THEN s1 ELSE s2]
=============================================================================
