---------------------------- MODULE MCTlogFiles ----------------------------
(* TLC instances of TlogFiles. *)
EXTENDS TlogFiles

CONSTANTS tee, ta, tb

\* The TEE writes enough to fill all files and archives and to drop the oldest:
\* a file takes two short records or a long one, which reach the limit exactly,
\* or a short one and a long one, which pass it.  A TA fills a file with one
\* record, and another TA may find no entry free.
Lengths ==
    [u \in Uuids |->
        CASE u = tee -> [k \in 1 .. 14 |-> IF k \in {1, 2, 8} THEN 1 ELSE 2]
          [] u = ta  -> <<2>>
          [] OTHER   -> <<1>>]
=============================================================================
