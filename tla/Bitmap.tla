------------------------------- MODULE Bitmap -------------------------------
(***************************************************************************)
(* The bitmap helpers of libteec_vendor/tee_client_api.c, shared by the    *)
(* shared-memory offsets of a context and by the session pool.  A bitmap   *)
(* of n bits is the set of the positions of its 1-bits.                    *)
(***************************************************************************)
EXTENDS Integers

\* Positions outside the bitmap are ignored.
SetBit(i, n, bits) == IF i < n THEN bits \cup {i} ELSE bits

ClearBit(i, n, bits) == IF i < n THEN bits \ {i} ELSE bits

\* The lowest of a set of positions, -1 if there is none.
Lowest(S) == IF S = {} THEN -1 ELSE CHOOSE i \in S : \A j \in S : i <= j

\* IterateBitmap(SET): the position that GetAndSetBit finds and sets.
FirstClear(n, bits) == Lowest((0 .. n - 1) \ bits)

\* Mutant: the search starts from the other end.
LastSet(n, bits) ==
    LET S == (0 .. n - 1) \cap bits IN
    IF S = {} THEN -1 ELSE CHOOSE i \in S : \A j \in S : j <= i

\* IterateBitmap(CLEAR): the position that GetAndCleartBit finds and clears.
FirstSet(n, bits) == Lowest((0 .. n - 1) \cap bits)
=============================================================================
