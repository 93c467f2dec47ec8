------------------------------ MODULE MCFdList ------------------------------
(* TLC instances of FdList. *)
EXTENDS FdList, TLC

\* Handlers, keys and heap cells are interchangeable.
Perms == Permutations(Handlers) \cup Permutations(Keys) \cup Permutations(Cells)
=============================================================================
