---------------------------- MODULE MCTeleport ----------------------------
(* TLC instances of Teleport. *)
EXTENDS Teleport, TLC

CONSTANTS p1, p2, x, y

\* A command for each function, fast runs, and options the table leaves out.
UserCommands ==
    {{"CREATE"}, {"CREATE", "RUN", "DESTROY", "OUTPUT", "SAVE"},
     {"ID", "RUN", "OUTPUT"}, {"ID", "OUTPUT"}, {"ID", "DELETE"},
     {"ID", "DESTROY"}, {"DESTROY"}, {"INSTALL"}, {"UNINSTALL"}}

\* Four commands that create and destroy, one of which may be another one, or
\* three of any kind.
CommandCost == [c \in UserCommands |-> IF c \in {{"CREATE"}, {"ID", "DESTROY"}} THEN 3 ELSE 4]

Symmetry == Permutations(Procs) \cup Permutations(Paths)
=============================================================================
