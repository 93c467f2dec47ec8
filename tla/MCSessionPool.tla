--------------------------- MODULE MCSessionPool ---------------------------
(* TLC instances of SessionPool. *)
EXTENDS SessionPool, TLC

\* malloc may leave any bit pattern.
AnyGarbage == SUBSET (0 .. NBits - 1)

Perms == Permutations(Invokers)
=============================================================================
