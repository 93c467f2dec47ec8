----------------------------- MODULE MCFsAgent -----------------------------
(* TLC instances of FsAgent. *)
EXTENDS FsAgent, TLC

\* One directory holds all the paths.
OneDir == {Paths}

\* Paths, files, nodes, descriptors and records are interchangeable.
Perms == Permutations(Paths) \cup Permutations(Inodes) \cup Permutations(Nodes)
            \cup Permutations(Fds) \cup Permutations(Recs)
=============================================================================
