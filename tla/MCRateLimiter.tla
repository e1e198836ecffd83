--------------------------- MODULE MCRateLimiter ---------------------------
(* Three calls in two processes. *)
EXTENDS RateLimiter, TLC
CONSTANTS c1, c2, c3, w1, w2
MCProcessOf == [c \in Calls |-> IF c = c3 THEN w2 ELSE w1]
Symmetry == Permutations({c1, c2})
=============================================================================
