--------------------------- MODULE MCTeecContext ---------------------------
(* TLC instances of TeecContext. *)
EXTENDS TeecContext, TLC

\* Threads, client structures and heap cells are interchangeable.
Perms == Permutations(Threads) \cup Permutations(Contexts)
            \cup Permutations(Handles) \cup Permutations(Sessions)
=============================================================================
