------------------------------ MODULE MCTeecd ------------------------------
(* TLC instance of Teecd. *)
EXTENDS Teecd

CONSTANTS p1, p2

MCClients == {<<p1, 1>>, <<p2, 1>>}
=============================================================================
