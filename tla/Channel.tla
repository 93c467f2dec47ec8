------------------------------ MODULE Channel ------------------------------
(***************************************************************************)
(* What a blocking queue between the two worlds promises: a lossless FIFO  *)
(* channel.  What has been received is always a prefix of what was sent.   *)
(***************************************************************************)
EXTENDS Naturals, Sequences

CONSTANT Messages

VARIABLES sent, got

Init == sent = <<>> /\ got = <<>>

Send(m) == sent' = Append(sent, m) /\ UNCHANGED got

Receive ==
    /\ Len(got) < Len(sent)
    /\ got' = Append(got, sent[Len(got) + 1])
    /\ UNCHANGED sent

Next == (\E m \in Messages : Send(m)) \/ Receive

Spec == Init /\ [][Next]_<<sent, got>>
=============================================================================
