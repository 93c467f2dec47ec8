---------------------------- MODULE MCSharedMem ----------------------------
(* TLC instances of SharedMem. *)
EXTENDS SharedMem, TLC

\* Threads, client structures, heap cells and addresses are interchangeable.
Perms == Permutations(Threads) \cup Permutations(Blocks)
            \cup Permutations(Cells) \cup Permutations(Addrs)
=============================================================================
