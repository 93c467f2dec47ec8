-------------------------- MODULE MCBlockingQueue --------------------------
(* TLC instances of BlockingQueue. *)
EXTENDS BlockingQueue, TLC
=============================================================================
