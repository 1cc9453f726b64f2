---------------------------- MODULE MCRateLimiter ----------------------------
(* Instances of RateLimiter: the hour and day windows of the endpoints,     *)
(* scaled down so that one bucket of the longer covers two of the shorter.  *)
EXTENDS RateLimiter, TLC

CONSTANTS a, b, c, d

MCWindows == <<[len |-> 1, max |-> 2], [len |-> 2, max |-> 3]>>
Symmetric == Permutations({a, b, c, d})
=============================================================================
