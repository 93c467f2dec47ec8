------------------------- MODULE BlockingQueueProofs -------------------------
(***************************************************************************)
(* Proofs about BlockingQueue, for a ring of any size, messages of any     *)
(* sizes that fit, and any number of producers and consumers: nothing is   *)
(* overwritten before it is read, and the queue implements a lossless FIFO *)
(* channel.                                                                *)
(***************************************************************************)
EXTENDS BlockingQueue, TLAPS

-----------------------------------------------------------------------------
(* The inductive invariant. *)

AllMessages == Messages \cup {Empty}

AllBlocks == [m : AllMessages, k : Nat]

\* TypeOK, and the types of the data.
Typed ==
    /\ TypeOK
    /\ entries \in [0 .. EntriesNr - 1 -> AllBlocks]
    /\ lock \in [{"prod", "cons"} -> Threads \cup {None}]
    /\ msg \in [Threads -> AllMessages]
    /\ buf \in [Threads -> Seq(AllBlocks)]
    /\ started \in 0 .. MaxMsgs
    /\ sent \in Seq(Messages) /\ got \in Seq(Seq(AllBlocks))

\* Who waits or copies holds the mutex of its side.
Locked == \A t \in Threads : pc[t] \in {"wait", "copy"} => lock[Side(t)] = t

\* Nothing is copied before "copy", and a producer in a call has a message.
InCall ==
    /\ \A t \in Threads : pc[t] # "copy" => buf[t] = <<>>
    /\ \A p \in Producers : pc[p] # "idle" => msg[p] \in Messages

UsedInRange == Used \in 0 .. EntriesNr - 1

\* The unread messages lie one after the other between tail and head: st gives
\* the distance from tail at which each begins.
LaidOut(st) ==
    /\ st[Len(got) + 1] = 0 /\ st[Len(sent) + 1] = Used
    /\ \A i \in Len(got) + 1 .. Len(sent) :
          /\ st[i + 1] = st[i] + sent[i].n
          /\ \A k \in 1 .. sent[i].n :
                entries[NextPos(tail, st[i] + k - 1)] = Block(sent[i], k)
          /\ \A j \in i + 1 .. Len(sent) + 1 : st[i] + sent[i].n <= st[j]

Layout == \E st \in [Len(got) + 1 .. Len(sent) + 1 -> 0 .. Used] : LaidOut(st)

\* A producer that copies has room for its message behind head, and has put
\* its first blocks there.
Writing ==
    \A p \in Producers : pc[p] = "copy" =>
       /\ Used + msg[p].n < EntriesNr
       /\ Len(buf[p]) <= msg[p].n
       /\ pos[p] = NextPos(head, Len(buf[p]))
       /\ \A k \in 1 .. Len(buf[p]) :
             entries[NextPos(head, k - 1)] = Block(msg[p], k)

\* A consumer that copies is reading the first unread message.
Reading ==
    \A c \in Consumers : pc[c] = "copy" =>
       /\ Len(got) < Len(sent)
       /\ msg[c] = sent[Len(got) + 1]
       /\ Len(buf[c]) <= msg[c].n
       /\ pos[c] = NextPos(tail, Len(buf[c]))
       /\ \A k \in 1 .. Len(buf[c]) : buf[c][k] = Block(msg[c], k)

\* What has been received is what was sent first.
Whole ==
    /\ Len(got) <= Len(sent)
    /\ \A i \in 1 .. Len(got) : got[i] = Blocks(sent[i])

IInv ==
    /\ Typed /\ Locked /\ InCall /\ UsedInRange
    /\ Layout /\ Writing /\ Reading /\ Whole

-----------------------------------------------------------------------------
(* The arithmetic of the ring. *)

\* head is Used entries past tail.
LEMMA HeadPastTail ==
    ASSUME TypeOK, UsedInRange
    PROVE  /\ head = NextPos(tail, Used)
           /\ headFlip = NextFlip(tail, tailFlip, Used)
           /\ IsEmpty <=> Used = 0
  BY QueueAssumption DEF TypeOK, UsedInRange, Used, NextPos, NextFlip, IsEmpty

\* Two distances shorter than the ring lead to different entries.
LEMMA NextPosInjective ==
    ASSUME NEW p \in 0 .. EntriesNr - 1,
           NEW d \in 0 .. EntriesNr - 1, NEW e \in 0 .. EntriesNr - 1
    PROVE  /\ NextPos(p, d) \in 0 .. EntriesNr - 1
           /\ NextPos(p, d) = NextPos(p, e) => d = e
  BY QueueAssumption DEF NextPos

\* Distance 0 leads nowhere.
LEMMA NextPosZero ==
    ASSUME NEW p \in 0 .. EntriesNr - 1
    PROVE  NextPos(p, 0) = p
  BY QueueAssumption DEF NextPos

\* Distances add up, as long as they stay shorter than the ring.
LEMMA NextPosAdds ==
    ASSUME NEW p \in 0 .. EntriesNr - 1,
           NEW d \in 0 .. EntriesNr - 1, NEW e \in 0 .. EntriesNr - 1,
           d + e < EntriesNr
    PROVE  NextPos(NextPos(p, d), e) = NextPos(p, d + e)
  BY QueueAssumption DEF NextPos

\* WaitFull lets a message through only if there is room for it.
LEMMA RoomWhenNotFull ==
    ASSUME TypeOK, UsedInRange, NEW n \in 1 .. EntriesNr, ~IsFull(n)
    PROVE  Used + n < EntriesNr
  BY QueueAssumption DEF TypeOK, UsedInRange, Used, IsFull, NextPos, NextFlip

\* SetHead lengthens the used part by the message.
LEMMA HeadMoves ==
    ASSUME TypeOK, UsedInRange, NEW n \in 1 .. EntriesNr, Used + n < EntriesNr,
           head' = NextPos(head, n), headFlip' = NextFlip(head, headFlip, n),
           UNCHANGED <<tail, tailFlip>>
    PROVE  /\ Used' = Used + n /\ UsedInRange'
           /\ head' \in 0 .. EntriesNr - 1 /\ headFlip' \in BOOLEAN
<1>1. CASE head + n < EntriesNr
  BY <1>1, QueueAssumption DEF TypeOK, UsedInRange, Used, NextPos, NextFlip
<1>2. CASE head + n >= EntriesNr
  BY <1>2, QueueAssumption DEF TypeOK, UsedInRange, Used, NextPos, NextFlip
<1> QED BY <1>1, <1>2, QueueAssumption DEF TypeOK

\* SetTail shortens it.
LEMMA TailMoves ==
    ASSUME TypeOK, UsedInRange, NEW n \in 1 .. EntriesNr, n <= Used,
           tail' = NextPos(tail, n), tailFlip' = NextFlip(tail, tailFlip, n),
           UNCHANGED <<head, headFlip>>
    PROVE  /\ Used' = Used - n /\ UsedInRange'
           /\ tail' \in 0 .. EntriesNr - 1 /\ tailFlip' \in BOOLEAN
  BY QueueAssumption DEF TypeOK, UsedInRange, Used, NextPos, NextFlip

\* The k-th entry of a message that ends within the used part lies within it,
\* and not behind head.
LEMMA InsideUsed ==
    ASSUME NEW u \in 0 .. EntriesNr - 1, NEW a \in 0 .. u, NEW n \in Nat, a + n <= u,
           NEW k \in 1 .. n, NEW b \in Nat
    PROVE  /\ a + k - 1 \in 0 .. EntriesNr - 1
           /\ a + k - 1 # u + b
  BY QueueAssumption

\* The same entry, seen from a tail that has moved by d.
LEMMA ShiftInside ==
    ASSUME NEW u \in 0 .. EntriesNr - 1, NEW d \in 1 .. u, NEW a \in d .. u,
           NEW n \in Nat, a + n <= u, NEW k \in 1 .. n, NEW b, b = a - d
    PROVE  /\ d \in 0 .. EntriesNr - 1 /\ b + k - 1 \in 0 .. EntriesNr - 1
           /\ d + (b + k - 1) < EntriesNr
           /\ d + (b + k - 1) = a + k - 1
  BY QueueAssumption

\* Positions are compared alike before and after a shift.
LEMMA ShiftStep ==
    ASSUME NEW d \in Int, NEW a \in Int, NEW n \in Int
    PROVE  /\ (a + n) - d = (a - d) + n
           /\ \A b \in Int : a + n <= b => (a - d) + n <= b - d
  OBVIOUS

-----------------------------------------------------------------------------
(* Steps that leave the ring alone. *)

\* Every other thread stays where it is.
Others(t) ==
    \A u \in Threads \ {t} :
       pc'[u] = pc[u] /\ msg'[u] = msg[u] /\ pos'[u] = pos[u] /\ buf'[u] = buf[u]

\* What is said of the ring and of the messages stays true.
LEMMA RingStill ==
    ASSUME IInv, UNCHANGED <<ring, entries, sent, got>>
    PROVE  UsedInRange' /\ Layout' /\ Whole'
<1> USE DEF ring
<1>1. Used' = Used
  BY DEF Used
<1>2. UsedInRange' /\ Whole'
  BY <1>1 DEF IInv, UsedInRange, Whole
<1>3. PICK st \in [Len(got) + 1 .. Len(sent) + 1 -> 0 .. Used] : LaidOut(st)
  BY DEF IInv, Layout
<1>4. LaidOut(st)'
  BY <1>1, <1>3 DEF LaidOut
<1> QED BY <1>1, <1>2, <1>3, <1>4 DEF Layout

\* A step of one thread that leaves the ring alone: it is enough that the
\* thread itself is where it should be.
LEMMA LocalStep ==
    ASSUME IInv, NEW t \in Threads, Others(t), Typed', Locked',
           UNCHANGED <<ring, entries, sent, got>>,
           pc'[t] # "copy" => buf'[t] = <<>>,
           t \in Producers /\ pc'[t] # "idle" => msg'[t] \in Messages,
           t \in Producers /\ pc'[t] = "copy" =>
              /\ Used + msg'[t].n < EntriesNr
              /\ buf'[t] = <<>> /\ msg'[t].n \in Nat /\ pos'[t] = head,
           t \in Consumers /\ pc'[t] = "copy" =>
              /\ Len(got) < Len(sent) /\ msg'[t] = sent[Len(got) + 1]
              /\ Len(buf'[t]) <= msg'[t].n
              /\ pos'[t] = NextPos(tail, Len(buf'[t]))
              /\ \A k \in 1 .. Len(buf'[t]) : buf'[t][k] = Block(msg'[t], k)
    PROVE  IInv'
<1>1. UsedInRange' /\ Layout' /\ Whole'
  BY RingStill
<1>2. InCall'
  BY DEF IInv, InCall, Others, Threads
<1>3. /\ Used' = Used
      /\ UNCHANGED <<head, headFlip, tail, tailFlip, entries, sent, got>>
  BY DEF Used, ring
<1>4. Writing'
  <2> SUFFICES ASSUME NEW p \in Producers, pc'[p] = "copy"
               PROVE  /\ Used + msg'[p].n < EntriesNr
                      /\ Len(buf'[p]) <= msg'[p].n
                      /\ pos'[p] = NextPos(head, Len(buf'[p]))
                      /\ \A k \in 1 .. Len(buf'[p]) :
                            entries[NextPos(head, k - 1)] = Block(msg'[p], k)
    BY <1>3 DEF Writing, NextPos
  <2>1. CASE p = t
    <3>1. Len(buf'[p]) = 0 /\ head = NextPos(head, 0)
      <4>1. head \in 0 .. EntriesNr - 1
        BY DEF IInv, Typed, TypeOK
      <4> QED BY <2>1, <4>1, NextPosZero
    <3> QED BY <2>1, <3>1
  <2>2. CASE p # t
    BY <2>2 DEF IInv, Writing, Others, Threads
  <2> QED BY <2>1, <2>2
<1>5. Reading'
  <2> SUFFICES ASSUME NEW c \in Consumers, pc'[c] = "copy"
               PROVE  /\ Len(got) < Len(sent)
                      /\ msg'[c] = sent[Len(got) + 1]
                      /\ Len(buf'[c]) <= msg'[c].n
                      /\ pos'[c] = NextPos(tail, Len(buf'[c]))
                      /\ \A k \in 1 .. Len(buf'[c]) : buf'[c][k] = Block(msg'[c], k)
    BY <1>3 DEF Reading, NextPos
  <2> QED BY DEF IInv, Reading, Others, Threads
<1> QED BY <1>1, <1>2, <1>4, <1>5 DEF IInv

\* Leave gives up the mutex and wipes the local variables.
LEMMA LeaveLocals ==
    ASSUME IInv, NEW t \in Threads, pc[t] \in {"wait", "copy"}, Leave(t)
    PROVE  /\ Others(t) /\ Locked'
           /\ pc'[t] = "idle" /\ buf'[t] = <<>>
           /\ pc' \in [Threads -> {"idle", "lock", "wait", "copy"}]
           /\ pos' \in [Threads -> 0 .. EntriesNr - 1]
           /\ msg' \in [Threads -> AllMessages]
           /\ buf' \in [Threads -> Seq(AllBlocks)]
           /\ lock' \in [{"prod", "cons"} -> Threads \cup {None}]
           /\ lock'["prod"] \in Producers \cup {None}
           /\ lock'["cons"] \in Consumers \cup {None}
<1> USE DEF IInv, Typed, TypeOK, Leave
<1>1. /\ Others(t) /\ pc'[t] = "idle" /\ buf'[t] = <<>>
      /\ pc' \in [Threads -> {"idle", "lock", "wait", "copy"}]
  BY DEF Others
<1>2. pos' \in [Threads -> 0 .. EntriesNr - 1]
  BY QueueAssumption
<1>3. msg' \in [Threads -> AllMessages]
  BY DEF AllMessages
<1>4. buf' \in [Threads -> Seq(AllBlocks)]
  <2>1. <<>> \in Seq(AllBlocks)
    OBVIOUS
  <2> QED BY <2>1
<1>5. /\ lock' \in [{"prod", "cons"} -> Threads \cup {None}]
      /\ lock'["prod"] \in Producers \cup {None}
      /\ lock'["cons"] \in Consumers \cup {None}
  BY DEF Side
<1>6. Locked'
  BY DEF Locked, Side
<1> QED BY <1>1, <1>2, <1>3, <1>4, <1>5, <1>6

\* A call ends without having changed anything.
LEMMA LeaveStep ==
    ASSUME IInv, NEW t \in Threads, pc[t] \in {"wait", "copy"}, Leave(t),
           UNCHANGED <<ring, entries, interrupt, started, sent, got>>
    PROVE  IInv'
<1>1. Typed'
  BY LeaveLocals DEF IInv, Typed, TypeOK, ring
<1> QED BY <1>1, LeaveLocals, LocalStep

\* Interruption, timeouts and a lack of memory change nothing in the ring.
LEMMA GiveUpIInv ==
    ASSUME IInv, NEW t \in Threads,
           WaitInterrupted(t) \/ WaitFailed(t) \/ AllocateFailed(t)
    PROVE  IInv'
<1>1. /\ pc[t] \in {"wait", "copy"} /\ Leave(t)
      /\ UNCHANGED <<ring, entries, interrupt, started, sent, got>>
  BY DEF WaitInterrupted, WaitFailed, AllocateFailed
<1> QED BY <1>1, LeaveStep

\* A call begins.
LEMMA BeginIInv ==
    ASSUME IInv, NEW t \in Threads,
           \/ t \in Producers /\ \E n \in Sizes : Enqueue(t, n)
           \/ t \in Consumers /\ Dequeue(t)
    PROVE  IInv'
<1>1. /\ UNCHANGED <<ring, entries, lock, interrupt, pos, buf, sent, got>>
      /\ pc[t] = "idle" /\ pc' = [pc EXCEPT ![t] = "lock"]
  BY DEF Enqueue, Dequeue, Goto
<1>2. /\ msg' \in [Threads -> AllMessages] /\ started' \in 0 .. MaxMsgs
      /\ \A u \in Threads \ {t} : msg'[u] = msg[u]
      /\ t \in Producers => msg'[t] \in Messages
  <2>1. CASE t \in Producers
    <3>1. PICK n \in Sizes : Enqueue(t, n)
      BY <2>1, QueueAssumption
    <3>2. [id |-> started + 1, n |-> n] \in Messages /\ started' \in 0 .. MaxMsgs
      BY <3>1, QueueAssumption DEF Enqueue, Messages, IInv, Typed
    <3> QED BY <3>1, <3>2 DEF Enqueue, IInv, Typed, AllMessages
  <2>2. CASE t \notin Producers
    BY <2>2 DEF Dequeue, IInv, Typed
  <2> QED BY <2>1, <2>2
<1>3. Typed'
  BY <1>1, <1>2 DEF IInv, Typed, TypeOK, ring
<1>4. Others(t) /\ pc'[t] = "lock" /\ buf'[t] = <<>>
  BY <1>1, <1>2 DEF Others, IInv, Typed, TypeOK, InCall
<1>5. Locked'
  BY <1>1, <1>4 DEF IInv, Locked, Others
<1> QED BY <1>1, <1>2, <1>3, <1>4, <1>5, LocalStep

\* A thread gets the mutex of its side.
LEMMA LockQueueIInv ==
    ASSUME IInv, NEW t \in Threads, LockQueue(t)
    PROVE  IInv'
<1>1. /\ UNCHANGED <<ring, entries, interrupt, msg, pos, buf, started, sent, got>>
      /\ pc[t] = "lock" /\ pc' = [pc EXCEPT ![t] = "wait"]
      /\ lock[Side(t)] = None /\ lock' = [lock EXCEPT ![Side(t)] = t]
  BY DEF LockQueue, Goto
<1>2. Typed'
  <2>1. /\ pc' \in [Threads -> {"idle", "lock", "wait", "copy"}]
        /\ lock' \in [{"prod", "cons"} -> Threads \cup {None}]
        /\ lock'["prod"] \in Producers \cup {None}
        /\ lock'["cons"] \in Consumers \cup {None}
    BY <1>1 DEF IInv, Typed, TypeOK, Side, Threads
  <2> QED BY <1>1, <2>1 DEF IInv, Typed, TypeOK, ring
<1>3. Others(t) /\ pc'[t] = "wait" /\ buf'[t] = <<>>
  BY <1>1 DEF Others, IInv, Typed, TypeOK, InCall
<1>4. t \in Producers => msg'[t] \in Messages
  BY <1>1 DEF IInv, InCall
<1>5. Locked'
  BY <1>1, <1>3, QueueAssumption DEF IInv, Typed, Locked, Others, Side, Threads
<1> QED BY <1>1, <1>2, <1>3, <1>4, <1>5, LocalStep

\* A side is interrupted.
LEMMA InterruptIInv ==
    ASSUME IInv, NEW s \in {"prod", "cons"}, Interrupt(s)
    PROVE  IInv'
<1>1. /\ UNCHANGED <<ring, entries, lock, pc, msg, pos, buf, started, sent, got>>
      /\ interrupt' \in [{"prod", "cons"} -> BOOLEAN]
  BY DEF Interrupt, IInv, Typed, TypeOK
<1>2. Typed' /\ Locked' /\ InCall'
  BY <1>1 DEF IInv, Typed, TypeOK, Locked, InCall, ring
<1>3. Writing' /\ Reading'
  BY <1>1 DEF IInv, Writing, Reading, Used, NextPos, ring
<1> QED BY <1>1, <1>2, <1>3, RingStill DEF IInv

\* The poll of WaitFull finds room: the message fits behind head.
LEMMA WaitFullIInv ==
    ASSUME IInv, NEW p \in Producers, WaitFull(p)
    PROVE  IInv'
<1>1. /\ UNCHANGED <<ring, entries, lock, interrupt, msg, buf, started, sent, got>>
      /\ pc[p] = "wait" /\ pc' = [pc EXCEPT ![p] = "copy"]
      /\ pos' = [pos EXCEPT ![p] = head] /\ ~IsFull(msg[p].n)
  BY DEF WaitFull, Goto
<1>2. /\ p \in Threads /\ p \notin Consumers
      /\ msg[p] \in Messages /\ buf[p] = <<>>
      /\ msg[p].n \in 1 .. EntriesNr
  BY <1>1, QueueAssumption DEF IInv, InCall, Messages, Threads
<1>3. Used + msg[p].n < EntriesNr
  BY <1>1, <1>2, RoomWhenNotFull DEF IInv, Typed
<1>4. Typed'
  <2>1. /\ pc' \in [Threads -> {"idle", "lock", "wait", "copy"}]
        /\ pos' \in [Threads -> 0 .. EntriesNr - 1]
    BY <1>1 DEF IInv, Typed, TypeOK
  <2> QED BY <1>1, <2>1 DEF IInv, Typed, TypeOK, ring
<1>5. Others(p) /\ pc'[p] = "copy" /\ pos'[p] = head
  BY <1>1, <1>2 DEF Others, IInv, Typed, TypeOK
<1>6. Locked'
  BY <1>1, <1>5 DEF IInv, Locked, Others
<1> QED BY <1>1, <1>2, <1>3, <1>4, <1>5, <1>6, LocalStep

\* If there are unread messages, tail stands at the first block of the first of
\* them, and all its blocks follow.
LEMMA FirstUnread ==
    ASSUME IInv, Used # 0
    PROVE  LET m == sent[Len(got) + 1] IN
           /\ Len(got) < Len(sent) /\ m \in Messages
           /\ m.n \in 1 .. Used
           /\ \A k \in 1 .. m.n : entries[NextPos(tail, k - 1)] = Block(m, k)
           /\ entries[tail] = Block(m, 1)
<1>1. PICK st \in [Len(got) + 1 .. Len(sent) + 1 -> 0 .. Used] : LaidOut(st)
  BY DEF IInv, Layout
<1>2. Len(got) \in Nat /\ Len(sent) \in Nat /\ Used \in Nat
  BY QueueAssumption DEF IInv, Typed, UsedInRange
<1>3. Len(got) < Len(sent)
  BY <1>1, <1>2 DEF LaidOut, IInv, Whole
<1> DEFINE j == Len(got) + 1
           m == sent[j]
<1>4. m \in Messages
  BY <1>2, <1>3 DEF IInv, Typed
<1>5. m.n \in Nat \ {0}
  <2>1. m.n \in 1 .. EntriesNr
    BY <1>4, QueueAssumption DEF Messages
  <2>2. EntriesNr \in Nat
    BY QueueAssumption
  <2> HIDE DEF m
  <2> QED BY <2>1, <2>2
<1>6. j \in Len(got) + 1 .. Len(sent) /\ j + 1 \in Len(got) + 1 .. Len(sent) + 1
  BY <1>2, <1>3
<1>7. /\ st[j] = 0 /\ st[j + 1] = st[j] + m.n
      /\ \A k \in 1 .. m.n : entries[NextPos(tail, st[j] + k - 1)] = Block(m, k)
  BY <1>1, <1>6 DEF LaidOut
<1>8. st[j + 1] \in 0 .. Used
  BY <1>1, <1>6
<1>9. m.n \in 1 .. Used
  BY <1>2, <1>5, <1>7, <1>8
<1>10. \A k \in 1 .. m.n : entries[NextPos(tail, k - 1)] = Block(m, k)
  <2> SUFFICES ASSUME NEW k \in 1 .. m.n
               PROVE  entries[NextPos(tail, k - 1)] = Block(m, k)
    OBVIOUS
  <2>1. st[j] + k - 1 = k - 1
    BY <1>5, <1>7
  <2> QED BY <1>7, <2>1
<1>11. entries[tail] = Block(m, 1)
  <2>1. tail \in 0 .. EntriesNr - 1
    BY DEF IInv, Typed, TypeOK
  <2>2. NextPos(tail, 0) = tail
    BY <2>1, NextPosZero
  <2>3. 1 \in 1 .. m.n /\ 1 - 1 = 0
    BY <1>5
  <2> QED BY <1>10, <2>2, <2>3
<1> QED BY <1>3, <1>4, <1>9, <1>10, <1>11

\* A consumer finds an unread message, and reads its size.
LEMMA WaitEmptyIInv ==
    ASSUME IInv, NEW c \in Consumers, WaitEmpty(c)
    PROVE  IInv'
<1> DEFINE m == sent[Len(got) + 1]
<1>1. Used # 0
  BY HeadPastTail DEF WaitEmpty, IInv, Typed
<1>2. /\ Len(got) < Len(sent) /\ m \in Messages /\ m.n \in 1 .. Used
      /\ entries[tail] = Block(m, 1)
  BY <1>1, FirstUnread
<1>3. entries[tail].k = 1 /\ entries[tail].m = m
  BY <1>2 DEF Block
<1>4. /\ UNCHANGED <<ring, entries, lock, interrupt, buf, started, sent, got>>
      /\ pc[c] = "wait" /\ pc' = [pc EXCEPT ![c] = "copy"]
      /\ msg' = [msg EXCEPT ![c] = m] /\ pos' = [pos EXCEPT ![c] = tail]
  BY <1>3 DEF WaitEmpty, Goto
<1>5. /\ c \in Threads /\ c \notin Producers /\ buf[c] = <<>>
  BY <1>4, QueueAssumption DEF IInv, InCall, Threads
<1>6. Typed'
  <2>1. /\ pc' \in [Threads -> {"idle", "lock", "wait", "copy"}]
        /\ pos' \in [Threads -> 0 .. EntriesNr - 1]
        /\ msg' \in [Threads -> AllMessages]
    BY <1>2, <1>4 DEF IInv, Typed, TypeOK, AllMessages
  <2> QED BY <1>4, <2>1 DEF IInv, Typed, TypeOK, ring
<1>7. /\ Others(c) /\ pc'[c] = "copy" /\ pos'[c] = tail
      /\ msg'[c] = m /\ buf'[c] = <<>>
  BY <1>4, <1>5 DEF Others, IInv, Typed, TypeOK
<1>8. Locked'
  BY <1>4, <1>7 DEF IInv, Locked, Others
<1>9. /\ Len(buf'[c]) = 0 /\ Len(buf'[c]) <= msg'[c].n
      /\ pos'[c] = NextPos(tail, Len(buf'[c]))
  <2>1. tail \in 0 .. EntriesNr - 1
    BY DEF IInv, Typed, TypeOK
  <2>2. NextPos(tail, 0) = tail
    BY <2>1, NextPosZero
  <2>3. Len(buf'[c]) = 0 /\ 0 <= m.n
    BY <1>2, <1>7, QueueAssumption DEF IInv, UsedInRange
  <2> QED BY <1>7, <2>2, <2>3
<1> QED BY <1>2, <1>4, <1>5, <1>6, <1>7, <1>8, <1>9, LocalStep

\* Where a consumer stands that copies, and how far the message reaches.
LEMMA ReaderFacts ==
    ASSUME IInv, NEW c \in Consumers, pc[c] = "copy"
    PROVE  LET m == sent[Len(got) + 1]
               b == Len(buf[c]) IN
           /\ c \in Threads /\ c \notin Producers
           /\ Len(got) < Len(sent) /\ m \in Messages /\ msg[c] = m
           /\ m.n \in 1 .. Used /\ m.n < EntriesNr
           /\ b \in 0 .. m.n /\ pos[c] = NextPos(tail, b)
           /\ \A k \in 1 .. b : buf[c][k] = Block(m, k)
           /\ \A k \in 1 .. m.n : entries[NextPos(tail, k - 1)] = Block(m, k)
           /\ pos[c] = NextPos(tail, m.n) <=> b = m.n
<1> DEFINE m == sent[Len(got) + 1]
           b == Len(buf[c])
<1>1. /\ c \in Threads /\ c \notin Producers
      /\ Len(got) < Len(sent) /\ msg[c] = m
      /\ b <= m.n /\ pos[c] = NextPos(tail, b)
      /\ \A k \in 1 .. b : buf[c][k] = Block(m, k)
  BY QueueAssumption DEF IInv, Reading, Threads
<1>2. b \in Nat
  BY <1>1 DEF IInv, Typed
<1>3. Used # 0
  <2>1. PICK st \in [Len(got) + 1 .. Len(sent) + 1 -> 0 .. Used] : LaidOut(st)
    BY DEF IInv, Layout
  <2>2. /\ Len(got) + 1 \in Len(got) + 1 .. Len(sent)
        /\ Len(got) + 2 \in Len(got) + 1 .. Len(sent) + 1
    BY <1>1 DEF IInv, Typed
  <2>3. st[Len(got) + 2] = 0 + m.n /\ st[Len(got) + 2] \in 0 .. Used
    <3>1. Len(got) + 2 = (Len(got) + 1) + 1
      BY DEF IInv, Typed
    <3> QED BY <2>1, <2>2, <3>1 DEF LaidOut
  <2>4. m \in Messages
    BY <2>2 DEF IInv, Typed
  <2>5. m.n \in 1 .. EntriesNr
    BY <2>4, QueueAssumption DEF Messages
  <2> QED BY <2>3, <2>5, QueueAssumption DEF IInv, UsedInRange
<1>4. /\ m \in Messages /\ m.n \in 1 .. Used
      /\ \A k \in 1 .. m.n : entries[NextPos(tail, k - 1)] = Block(m, k)
  BY <1>3, FirstUnread
<1>5. m.n < EntriesNr /\ b \in 0 .. m.n
  BY <1>1, <1>2, <1>4, QueueAssumption DEF IInv, UsedInRange
<1>6. pos[c] = NextPos(tail, m.n) <=> b = m.n
  <2>1. b \in 0 .. EntriesNr - 1 /\ m.n \in 0 .. EntriesNr - 1
    BY <1>2, <1>4, <1>5, QueueAssumption
  <2>2. tail \in 0 .. EntriesNr - 1
    BY DEF IInv, Typed, TypeOK
  <2>3. NextPos(tail, b) = NextPos(tail, m.n) => b = m.n
    BY <2>1, <2>2, NextPosInjective
  <2> QED BY <1>1, <2>3
<1> QED BY <1>1, <1>4, <1>5, <1>6

\* A consumer copies one more block.
LEMMA DequeueBlockIInv ==
    ASSUME IInv, NEW c \in Consumers, DequeueBlock(c)
    PROVE  IInv'
<1> DEFINE m == sent[Len(got) + 1]
           b == Len(buf[c])
<1>1. /\ UNCHANGED <<ring, entries, lock, interrupt, pc, msg, started, sent, got>>
      /\ pc[c] = "copy" /\ pos[c] # NextPos(tail, msg[c].n)
      /\ buf' = [buf EXCEPT ![c] = Append(@, entries[pos[c]])]
      /\ pos' = [pos EXCEPT ![c] = NextPos(@, 1)]
  BY DEF DequeueBlock
<1>2. /\ c \in Threads /\ c \notin Producers
      /\ Len(got) < Len(sent) /\ m \in Messages /\ msg[c] = m
      /\ m.n \in 1 .. Used /\ m.n < EntriesNr
      /\ b \in 0 .. m.n - 1 /\ pos[c] = NextPos(tail, b)
      /\ \A k \in 1 .. b : buf[c][k] = Block(m, k)
      /\ entries[pos[c]] = Block(m, b + 1)
  <2>1. /\ c \in Threads /\ c \notin Producers
        /\ Len(got) < Len(sent) /\ m \in Messages /\ msg[c] = m
        /\ m.n \in 1 .. Used /\ m.n < EntriesNr
        /\ b \in 0 .. m.n /\ pos[c] = NextPos(tail, b)
        /\ \A k \in 1 .. b : buf[c][k] = Block(m, k)
        /\ \A k \in 1 .. m.n : entries[NextPos(tail, k - 1)] = Block(m, k)
        /\ b # m.n
    BY <1>1, ReaderFacts
  <2>2. Used \in Int
    BY QueueAssumption DEF IInv, UsedInRange
  <2>3. b \in 0 .. m.n - 1 /\ b + 1 \in 1 .. m.n /\ (b + 1) - 1 = b
    BY <2>1, <2>2
  <2>4. entries[pos[c]] = Block(m, b + 1)
    BY <2>1, <2>3
  <2> QED BY <2>1, <2>3, <2>4
<1>3. /\ buf[c] \in Seq(AllBlocks) /\ entries[pos[c]] \in AllBlocks
      /\ tail \in 0 .. EntriesNr - 1 /\ pos[c] \in 0 .. EntriesNr - 1
  BY <1>2 DEF IInv, Typed, TypeOK
<1>4. Used \in Int /\ EntriesNr \in Int /\ EntriesNr >= 2
  BY QueueAssumption DEF IInv, UsedInRange
<1>5. /\ Others(c) /\ buf'[c] = Append(buf[c], entries[pos[c]])
      /\ pos'[c] = NextPos(pos[c], 1) /\ msg'[c] = m /\ pc'[c] = "copy"
  BY <1>1, <1>2 DEF Others, IInv, Typed, TypeOK
<1>6. /\ buf'[c] \in Seq(AllBlocks) /\ Len(buf'[c]) = b + 1
      /\ \A k \in 1 .. b : buf'[c][k] = buf[c][k]
      /\ buf'[c][b + 1] = entries[pos[c]]
  BY <1>3, <1>5
<1>7. \A k \in 1 .. Len(buf'[c]) : buf'[c][k] = Block(msg'[c], k)
  <2>1. \A k \in 1 .. b + 1 : k \in 1 .. b \/ k = b + 1
    BY <1>2
  <2> QED BY <1>2, <1>5, <1>6, <2>1
<1>8. pos'[c] = NextPos(tail, Len(buf'[c])) /\ pos'[c] \in 0 .. EntriesNr - 1
  <2>1. b \in 0 .. EntriesNr - 1 /\ 1 \in 0 .. EntriesNr - 1 /\ b + 1 < EntriesNr
    BY <1>2, <1>4
  <2>2. NextPos(NextPos(tail, b), 1) = NextPos(tail, b + 1)
    BY <1>3, <2>1, NextPosAdds
  <2>3. NextPos(pos[c], 1) \in 0 .. EntriesNr - 1
    BY <1>3, <2>1, NextPosInjective
  <2> QED BY <1>2, <1>5, <1>6, <2>2, <2>3
<1>9. Len(buf'[c]) <= msg'[c].n
  BY <1>2, <1>4, <1>5, <1>6
<1>10. Typed'
  <2>1. /\ pos' \in [Threads -> 0 .. EntriesNr - 1]
        /\ buf' \in [Threads -> Seq(AllBlocks)]
    BY <1>1, <1>2, <1>5, <1>6, <1>8 DEF IInv, Typed, TypeOK
  <2> QED BY <1>1, <2>1 DEF IInv, Typed, TypeOK, ring
<1>11. Locked'
  BY <1>1 DEF IInv, Locked
<1> QED BY <1>1, <1>2, <1>5, <1>7, <1>8, <1>9, <1>10, <1>11, LocalStep

-----------------------------------------------------------------------------
(* Steps that change the ring. *)

\* Where a producer stands that copies.
LEMMA WriterFacts ==
    ASSUME IInv, NEW p \in Producers, pc[p] = "copy"
    PROVE  LET b == Len(buf[p]) IN
           /\ p \in Threads /\ p \notin Consumers /\ msg[p] \in Messages
           /\ msg[p].n \in 1 .. EntriesNr - 1 /\ Used + msg[p].n < EntriesNr
           /\ b \in 0 .. msg[p].n /\ pos[p] = NextPos(head, b)
           /\ pos[p] = NextPos(tail, Used + b)
           /\ pos[p] = NextPos(head, msg[p].n) <=> b = msg[p].n
           /\ \A k \in 1 .. b : entries[NextPos(head, k - 1)] = Block(msg[p], k)
<1> DEFINE b == Len(buf[p])
<1>1. /\ p \in Threads /\ p \notin Consumers /\ msg[p] \in Messages
      /\ Used + msg[p].n < EntriesNr
      /\ b <= msg[p].n /\ pos[p] = NextPos(head, b)
      /\ \A k \in 1 .. b : entries[NextPos(head, k - 1)] = Block(msg[p], k)
  BY QueueAssumption DEF IInv, Writing, InCall, Threads
<1>2. b \in Nat
  BY <1>1 DEF IInv, Typed
<1>3. /\ Used \in 0 .. EntriesNr - 1 /\ EntriesNr \in Nat
      /\ head \in 0 .. EntriesNr - 1 /\ tail \in 0 .. EntriesNr - 1
  BY QueueAssumption DEF IInv, UsedInRange, Typed, TypeOK
<1>4. msg[p].n \in 1 .. EntriesNr
  BY <1>1, QueueAssumption DEF Messages
<1>5. /\ msg[p].n \in 1 .. EntriesNr - 1 /\ b \in 0 .. msg[p].n
      /\ b \in 0 .. EntriesNr - 1 /\ msg[p].n \in 0 .. EntriesNr - 1
      /\ Used + b < EntriesNr
  BY <1>1, <1>2, <1>3, <1>4
<1>6. NextPos(head, b) = NextPos(head, msg[p].n) => b = msg[p].n
  BY <1>3, <1>5, NextPosInjective
<1>7. NextPos(NextPos(tail, Used), b) = NextPos(tail, Used + b)
  BY <1>3, <1>5, NextPosAdds
<1>8. head = NextPos(tail, Used)
  BY HeadPastTail DEF IInv, Typed
<1> QED BY <1>1, <1>5, <1>6, <1>7, <1>8

\* Two threads of one side do not copy at the same time.
LEMMA OneCopies ==
    ASSUME IInv, NEW t \in Threads, NEW u \in Threads, Side(t) = Side(u),
           pc[t] \in {"wait", "copy"}, pc[u] \in {"wait", "copy"}
    PROVE  t = u
  BY DEF IInv, Locked

\* A producer writes one more block behind head: no unread block is there.
LEMMA EnqueueBlockIInv ==
    ASSUME IInv, NEW p \in Producers, EnqueueBlock(p)
    PROVE  IInv'
<1> DEFINE m == msg[p]
           b == Len(buf[p])
           x == Block(m, b + 1)
<1>1. /\ UNCHANGED <<ring, lock, interrupt, pc, msg, started, sent, got>>
      /\ UNCHANGED <<head, headFlip, tail, tailFlip>>
      /\ pc[p] = "copy" /\ pos[p] # NextPos(head, m.n)
      /\ entries' = [entries EXCEPT ![pos[p]] = x]
      /\ buf' = [buf EXCEPT ![p] = Append(@, x)]
      /\ pos' = [pos EXCEPT ![p] = NextPos(@, 1)]
  BY DEF EnqueueBlock, ring
<1>2. /\ p \in Threads /\ p \notin Consumers /\ m \in Messages
      /\ m.n \in 1 .. EntriesNr - 1 /\ Used + m.n < EntriesNr
      /\ b \in 0 .. m.n /\ pos[p] = NextPos(head, b)
      /\ pos[p] = NextPos(tail, Used + b) /\ b # m.n
      /\ \A k \in 1 .. b : entries[NextPos(head, k - 1)] = Block(m, k)
  BY <1>1, WriterFacts
<1>3. /\ Used \in 0 .. EntriesNr - 1 /\ EntriesNr \in Nat
      /\ head \in 0 .. EntriesNr - 1 /\ tail \in 0 .. EntriesNr - 1
  BY QueueAssumption DEF IInv, UsedInRange, Typed, TypeOK
<1>4. /\ b \in 0 .. m.n - 1 /\ b \in 0 .. EntriesNr - 1 /\ b + 1 < EntriesNr
      /\ 1 \in 0 .. EntriesNr - 1 /\ Used + b \in 0 .. EntriesNr - 1
  BY <1>2, <1>3
<1>5. x \in AllBlocks /\ buf[p] \in Seq(AllBlocks)
  <2>1. m \in AllMessages /\ buf[p] \in Seq(AllBlocks)
    BY <1>2 DEF AllMessages, IInv, Typed
  <2>2. b + 1 \in Nat
    BY <1>3, <1>4
  <2> QED BY <2>1, <2>2 DEF AllBlocks, Block
<1> HIDE DEF x
<1>6. pos[p] \in 0 .. EntriesNr - 1
  BY <1>2 DEF IInv, Typed, TypeOK
<1>7. /\ Others(p) /\ buf'[p] = Append(buf[p], x)
      /\ pos'[p] = NextPos(pos[p], 1) /\ msg'[p] = m /\ pc'[p] = "copy"
      /\ entries' \in [0 .. EntriesNr - 1 -> AllBlocks] /\ entries'[pos[p]] = x
      /\ \A i \in 0 .. EntriesNr - 1 : i # pos[p] => entries'[i] = entries[i]
  BY <1>1, <1>2, <1>5, <1>6 DEF Others, IInv, Typed, TypeOK
<1>8. buf'[p] \in Seq(AllBlocks) /\ Len(buf'[p]) = b + 1
  BY <1>5, <1>7
<1>9. pos'[p] = NextPos(head, b + 1) /\ pos'[p] \in 0 .. EntriesNr - 1
  <2>1. NextPos(NextPos(head, b), 1) = NextPos(head, b + 1)
    BY <1>3, <1>4, NextPosAdds
  <2>2. NextPos(pos[p], 1) \in 0 .. EntriesNr - 1
    BY <1>4, <1>6, NextPosInjective
  <2> QED BY <1>2, <1>7, <2>1, <2>2
<1>10. Typed'
  <2>1. /\ pos' \in [Threads -> 0 .. EntriesNr - 1]
        /\ buf' \in [Threads -> Seq(AllBlocks)]
    BY <1>1, <1>2, <1>7, <1>8, <1>9 DEF IInv, Typed, TypeOK
  <2>2. DOMAIN entries' = 0 .. EntriesNr - 1
    BY <1>7
  <2> QED BY <1>1, <1>7, <2>1, <2>2 DEF IInv, Typed, TypeOK
<1>11. Locked' /\ InCall' /\ UsedInRange' /\ Whole' /\ Used' = Used
  BY <1>1, <1>7 DEF IInv, Locked, InCall, UsedInRange, Used, Whole, Others, Threads
<1>12. Layout'
  <2>1. PICK st \in [Len(got) + 1 .. Len(sent) + 1 -> 0 .. Used] : LaidOut(st)
    BY DEF IInv, Layout
  <2>2. ASSUME NEW i \in Len(got) + 1 .. Len(sent), NEW k \in 1 .. sent[i].n
        PROVE  entries'[NextPos(tail, st[i] + k - 1)] = Block(sent[i], k)
    <3>1. /\ st[i + 1] = st[i] + sent[i].n
          /\ entries[NextPos(tail, st[i] + k - 1)] = Block(sent[i], k)
      BY <2>1 DEF LaidOut
    <3>2. /\ i \in Len(got) + 1 .. Len(sent) + 1
          /\ i + 1 \in Len(got) + 1 .. Len(sent) + 1
          /\ sent[i] \in Messages
      BY DEF IInv, Typed
    <3>3. st[i] \in 0 .. Used /\ st[i + 1] \in 0 .. Used
      BY <2>1, <3>2
    <3>4. sent[i].n \in 1 .. EntriesNr
      BY <3>2, QueueAssumption DEF Messages
    <3>5. /\ st[i] + k - 1 \in 0 .. EntriesNr - 1
          /\ st[i] + k - 1 # Used + b
      <4>1. st[i] + sent[i].n <= Used /\ sent[i].n \in Nat /\ b \in Nat
        <5>1. sent[i].n \in Nat /\ b \in Nat
          BY <1>3, <1>4, <3>4
        <5>2. st[i] + sent[i].n <= Used
          BY <3>1, <3>3
        <5> QED BY <5>1, <5>2
      <4> QED BY <1>3, <3>3, <4>1, InsideUsed
    <3>6. /\ NextPos(tail, st[i] + k - 1) # pos[p]
          /\ NextPos(tail, st[i] + k - 1) \in 0 .. EntriesNr - 1
      BY <1>2, <1>3, <1>4, <3>5, NextPosInjective
    <3> QED BY <1>7, <3>1, <3>6
  <2>3. LaidOut(st)'
    BY <1>1, <1>11, <2>1, <2>2 DEF LaidOut
  <2> QED BY <1>1, <1>11, <2>1, <2>3 DEF Layout
<1>13. Writing'
  <2> SUFFICES ASSUME NEW q \in Producers, pc'[q] = "copy"
               PROVE  /\ Used + msg'[q].n < EntriesNr
                      /\ Len(buf'[q]) <= msg'[q].n
                      /\ pos'[q] = NextPos(head, Len(buf'[q]))
                      /\ \A k \in 1 .. Len(buf'[q]) :
                            entries'[NextPos(head, k - 1)] = Block(msg'[q], k)
    BY <1>1, <1>11 DEF Writing
  <2>1. q = p
    BY <1>1, <1>2, OneCopies DEF Side, Threads
  <2>2. Used + m.n < EntriesNr /\ Len(buf'[p]) <= m.n
    BY <1>2, <1>4, <1>8
  <2>3. ASSUME NEW k \in 1 .. b + 1
        PROVE  entries'[NextPos(head, k - 1)] = Block(m, k)
    <3>1. CASE k = b + 1
      <4>1. k - 1 = b
        BY <1>4, <3>1
      <4> QED BY <1>2, <1>7, <3>1, <4>1 DEF x
    <3>2. CASE k # b + 1
      <4>1. k \in 1 .. b /\ k - 1 \in 0 .. EntriesNr - 1 /\ k - 1 # b
        BY <1>3, <1>4, <3>2
      <4>2. /\ NextPos(head, k - 1) # pos[p]
            /\ NextPos(head, k - 1) \in 0 .. EntriesNr - 1
        BY <1>2, <1>3, <1>4, <4>1, NextPosInjective
      <4> QED BY <1>2, <1>7, <4>1, <4>2
    <3> QED BY <3>1, <3>2
  <2> QED BY <1>7, <1>8, <1>9, <2>1, <2>2, <2>3
<1>14. Reading'
  BY <1>1, <1>7, QueueAssumption DEF IInv, Reading, Others, Threads, NextPos
<1> QED BY <1>10, <1>11, <1>12, <1>13, <1>14 DEF IInv

\* A message is published: its blocks are in place behind head.
LEMMA SetHeadIInv ==
    ASSUME IInv, NEW p \in Producers, SetHead(p)
    PROVE  IInv' /\ sent' = Append(sent, msg[p]) /\ msg[p] \in Messages /\ got' = got
<1> DEFINE m == msg[p]
           s == Len(sent)
           g == Len(got)
<1>1. /\ UNCHANGED <<tail, tailFlip, entries, interrupt, started, got>>
      /\ pc[p] = "copy" /\ pos[p] = NextPos(head, m.n)
      /\ head' = NextPos(head, m.n) /\ headFlip' = NextFlip(head, headFlip, m.n)
      /\ sent' = Append(sent, m) /\ Leave(p)
  BY DEF SetHead
<1>2. /\ p \in Threads /\ p \notin Consumers /\ m \in Messages
      /\ m.n \in 1 .. EntriesNr - 1 /\ Used + m.n < EntriesNr
      /\ \A k \in 1 .. m.n : entries[NextPos(head, k - 1)] = Block(m, k)
  BY <1>1, WriterFacts
<1>3. /\ Used \in 0 .. EntriesNr - 1 /\ EntriesNr \in Nat
      /\ head \in 0 .. EntriesNr - 1 /\ tail \in 0 .. EntriesNr - 1
      /\ s \in Nat /\ g \in Nat /\ g <= s /\ sent \in Seq(Messages)
  BY QueueAssumption DEF IInv, UsedInRange, Typed, TypeOK, Whole
<1>4. /\ sent' \in Seq(Messages) /\ Len(sent') = s + 1 /\ sent'[s + 1] = m
      /\ \A i \in 1 .. s : sent'[i] = sent[i]
  BY <1>1, <1>2, <1>3
<1>5. /\ Used' = Used + m.n /\ UsedInRange'
      /\ head' \in 0 .. EntriesNr - 1 /\ headFlip' \in BOOLEAN
  <2>1. m.n \in 1 .. EntriesNr
    BY <1>2, <1>3
  <2> QED BY <1>1, <1>2, <2>1, HeadMoves DEF IInv, Typed
<1>6. /\ Others(p) /\ Locked' /\ pc'[p] = "idle" /\ buf'[p] = <<>>
  BY <1>1, <1>2, LeaveLocals
<1>7. Typed'
  BY <1>1, <1>2, <1>4, <1>5, LeaveLocals DEF IInv, Typed, TypeOK
<1>8. InCall'
  BY <1>1, <1>6 DEF IInv, InCall, Others, Threads
<1>9. Whole'
  BY <1>1, <1>3, <1>4 DEF IInv, Whole
<1>10. Layout'
  <2>1. PICK st \in [g + 1 .. s + 1 -> 0 .. Used] : LaidOut(st)
    BY DEF IInv, Layout
  <2>1a. PICK st2 :
            st2 = [i \in g + 1 .. s + 2 |-> IF i = s + 2 THEN Used + m.n ELSE st[i]]
    OBVIOUS
  <2>2. /\ g + 1 \in g + 1 .. s + 1 /\ s + 1 \in g + 1 .. s + 1
        /\ g + 1 # s + 2 /\ s + 2 \in g + 1 .. s + 2
        /\ \A i \in g + 1 .. s + 1 : i # s + 2 /\ i \in g + 1 .. s + 2
        /\ \A i \in g + 1 .. s + 2 : i # s + 2 => i \in g + 1 .. s + 1
    BY <1>3
  <2>3. st2[s + 2] = Used + m.n /\ \A i \in g + 1 .. s + 1 : st2[i] = st[i]
    BY <2>2, <2>1a
  <2>4. /\ \A i \in g + 1 .. s + 1 : st[i] \in 0 .. Used + m.n
        /\ Used + m.n \in 0 .. Used + m.n
    <3>1. \A i \in g + 1 .. s + 1 : st[i] \in 0 .. Used
      BY <2>1
    <3>2. Used \in Nat /\ m.n \in Nat
      BY <1>2, <1>3
    <3> QED BY <3>1, <3>2
  <2>5. st2 \in [g + 1 .. s + 2 -> 0 .. Used + m.n]
    BY <2>2, <2>4, <2>1a
  <2>6. st2[g + 1] = 0 /\ st2[s + 2] = Used + m.n
    BY <2>1, <2>2, <2>3 DEF LaidOut
  <2>7. ASSUME NEW i \in g + 1 .. s + 1
        PROVE  /\ st2[i + 1] = st2[i] + sent'[i].n
               /\ \A k \in 1 .. sent'[i].n :
                     entries[NextPos(tail, st2[i] + k - 1)] = Block(sent'[i], k)
               /\ \A j \in i + 1 .. s + 2 : st2[i] + sent'[i].n <= st2[j]
    <3>1. CASE i = s + 1
      <4>1. /\ sent'[i] = m /\ st2[i] = Used /\ i + 1 = s + 2
            /\ \A j \in i + 1 .. s + 2 : j = s + 2
        BY <1>3, <1>4, <2>1, <2>2, <2>3, <3>1 DEF LaidOut
      <4>2. st2[i + 1] = st2[i] + m.n
        BY <2>3, <4>1
      <4>3. ASSUME NEW k \in 1 .. m.n
            PROVE  entries[NextPos(tail, Used + k - 1)] = Block(m, k)
        <5>1. /\ k - 1 \in 0 .. EntriesNr - 1 /\ Used + (k - 1) < EntriesNr
              /\ Used + (k - 1) = Used + k - 1
          BY <1>2, <1>3
        <5>2. NextPos(head, k - 1) = NextPos(tail, Used + k - 1)
          BY <1>3, <5>1, HeadPastTail, NextPosAdds DEF IInv, Typed
        <5> QED BY <1>2, <5>2
      <4> QED BY <1>2, <1>3, <2>3, <4>1, <4>2, <4>3
    <3>2. CASE i # s + 1
      <4>1. /\ i \in g + 1 .. s /\ i \in 1 .. s
            /\ i \in g + 1 .. s + 1 /\ i + 1 \in g + 1 .. s + 1
        BY <1>3, <3>2
      <4>2. sent'[i] = sent[i] /\ st2[i] = st[i] /\ st2[i + 1] = st[i + 1]
        BY <1>4, <2>3, <4>1
      <4>3. /\ st[i + 1] = st[i] + sent[i].n
            /\ \A k \in 1 .. sent[i].n :
                  entries[NextPos(tail, st[i] + k - 1)] = Block(sent[i], k)
            /\ \A j \in i + 1 .. s + 1 : st[i] + sent[i].n <= st[j]
        BY <2>1, <4>1 DEF LaidOut
      <4>4. st[i + 1] \in 0 .. Used
        BY <2>1, <4>1
      <4>5. st[i] + sent[i].n <= Used + m.n
        <5>1. st[i] + sent[i].n <= st[s + 1] /\ st[s + 1] = Used
          <6>1. s + 1 \in i + 1 .. s + 1 /\ Len(sent) + 1 = s + 1
            BY <1>3, <4>1
          <6> QED BY <2>1, <4>3, <6>1 DEF LaidOut
        <5>2. st[i] + sent[i].n \in Int /\ Used \in Int /\ m.n \in Nat
          BY <1>2, <1>3, <4>3, <4>4
        <5> QED BY <5>1, <5>2
      <4>6. \A j \in i + 1 .. s + 2 : st[i] + sent[i].n <= st2[j]
        <5> SUFFICES ASSUME NEW j \in i + 1 .. s + 2
                     PROVE  st[i] + sent[i].n <= st2[j]
          OBVIOUS
        <5>1. CASE j = s + 2
          BY <2>3, <4>5, <5>1
        <5>2. CASE j # s + 2
          <6>1. j \in i + 1 .. s + 1 /\ j \in g + 1 .. s + 1
            BY <1>3, <4>1, <5>2
          <6> QED BY <2>3, <4>3, <6>1
        <5> QED BY <5>1, <5>2
      <4> QED BY <4>2, <4>3, <4>6
    <3> QED BY <3>1, <3>2
  <2>8. Len(sent') = s + 1 /\ Len(sent') + 1 = s + 2 /\ Used' = Used + m.n /\ got' = got
        /\ UNCHANGED <<tail, entries>>
    BY <1>1, <1>3, <1>4, <1>5
  <2>9. LaidOut(st2)'
    BY <2>6, <2>7, <2>8 DEF LaidOut
  <2>10. st2 \in [Len(got') + 1 .. Len(sent') + 1 -> 0 .. Used']
    BY <2>5, <2>8
  <2> QED BY <2>9, <2>10 DEF Layout
<1>11. Writing'
  <2>1. ASSUME NEW q \in Producers PROVE pc'[q] # "copy"
    BY <1>1, <1>2, <1>6, OneCopies DEF Side, Threads, Others
  <2> QED BY <2>1 DEF Writing
<1>12. Reading'
  <2> SUFFICES ASSUME NEW c \in Consumers, pc'[c] = "copy"
               PROVE  /\ g < Len(sent')
                      /\ msg'[c] = sent'[g + 1]
                      /\ Len(buf'[c]) <= msg'[c].n
                      /\ pos'[c] = NextPos(tail, Len(buf'[c]))
                      /\ \A k \in 1 .. Len(buf'[c]) : buf'[c][k] = Block(msg'[c], k)
    BY <1>1 DEF Reading, NextPos
  <2>1. /\ c # p /\ pc[c] = "copy" /\ msg'[c] = msg[c] /\ pos'[c] = pos[c]
        /\ buf'[c] = buf[c]
    BY <1>2, <1>6 DEF Others, Threads
  <2>2. g < s /\ msg[c] = sent[g + 1]
    BY <2>1 DEF IInv, Reading
  <2>3. g + 1 \in 1 .. s /\ g < Len(sent')
    BY <1>3, <1>4, <2>2
  <2> QED BY <1>4, <2>1, <2>2, <2>3 DEF IInv, Reading
<1> QED BY <1>1, <1>2, <1>5, <1>6, <1>7, <1>8, <1>9, <1>10, <1>11, <1>12 DEF IInv

\* A message is taken: its entries are given back, and the data is what was
\* sent.
LEMMA SetTailIInv ==
    ASSUME IInv, NEW c \in Consumers, SetTail(c)
    PROVE  IInv' /\ sent' = sent /\ Len(got) < Len(sent) /\ Len(got') = Len(got) + 1
<1> DEFINE m == sent[Len(got) + 1]
           s == Len(sent)
           g == Len(got)
<1>1. /\ UNCHANGED <<head, headFlip, entries, interrupt, started, sent>>
      /\ pc[c] = "copy" /\ pos[c] = NextPos(tail, msg[c].n)
      /\ tail' = NextPos(tail, msg[c].n) /\ tailFlip' = NextFlip(tail, tailFlip, msg[c].n)
      /\ got' = Append(got, buf[c]) /\ Leave(c)
  BY DEF SetTail
<1>2. /\ c \in Threads /\ c \notin Producers /\ g < s /\ m \in Messages /\ msg[c] = m
      /\ m.n \in 1 .. Used /\ m.n < EntriesNr /\ Len(buf[c]) = m.n
      /\ \A k \in 1 .. m.n : buf[c][k] = Block(m, k)
  BY <1>1, ReaderFacts
<1>3. /\ Used \in 0 .. EntriesNr - 1 /\ EntriesNr \in Nat
      /\ head \in 0 .. EntriesNr - 1 /\ tail \in 0 .. EntriesNr - 1
      /\ s \in Nat /\ g \in Nat /\ got \in Seq(Seq(AllBlocks)) /\ buf[c] \in Seq(AllBlocks)
  BY <1>2, QueueAssumption DEF IInv, UsedInRange, Typed, TypeOK
<1>4. buf[c] = Blocks(m)
  <2>1. buf[c] = [k \in 1 .. Len(buf[c]) |-> buf[c][k]]
    BY <1>3
  <2>2. buf[c] = [k \in 1 .. m.n |-> Block(m, k)]
    BY <1>2, <2>1
  <2> QED BY <2>2 DEF Blocks
<1>5. /\ got' \in Seq(Seq(AllBlocks)) /\ Len(got') = g + 1 /\ got'[g + 1] = buf[c]
      /\ \A i \in 1 .. g : got'[i] = got[i]
  BY <1>1, <1>3
<1>6. /\ Used' = Used - m.n /\ UsedInRange'
      /\ tail' \in 0 .. EntriesNr - 1 /\ tailFlip' \in BOOLEAN
  <2>1. m.n \in 1 .. EntriesNr /\ m.n <= Used
    BY <1>2, <1>3
  <2> QED BY <1>1, <1>2, <2>1, TailMoves DEF IInv, Typed
<1>7. /\ Others(c) /\ Locked' /\ pc'[c] = "idle" /\ buf'[c] = <<>>
  BY <1>1, <1>2, LeaveLocals
<1>8. Typed'
  BY <1>1, <1>2, <1>5, <1>6, LeaveLocals DEF IInv, Typed, TypeOK
<1>9. InCall'
  BY <1>1, <1>2, <1>7 DEF IInv, InCall, Others, Threads
<1>10. Whole'
  <2>1. g + 1 <= s /\ \A i \in 1 .. g + 1 : i = g + 1 \/ i \in 1 .. g
    BY <1>2, <1>3
  <2>2. \A i \in 1 .. g + 1 : got'[i] = Blocks(sent[i])
    BY <1>4, <1>5, <2>1 DEF IInv, Whole
  <2> QED BY <1>1, <1>5, <2>1, <2>2 DEF Whole
<1>11. Layout'
  <2>1. PICK st \in [g + 1 .. s + 1 -> 0 .. Used] : LaidOut(st)
    BY DEF IInv, Layout
  <2>2. /\ st[g + 1] = 0 /\ st[g + 2] = m.n /\ st[s + 1] = Used
        /\ \A j \in g + 2 .. s + 1 : st[j] \in m.n .. Used
    <3>1. g + 1 \in g + 1 .. s /\ (g + 1) + 1 = g + 2
      BY <1>2, <1>3
    <3>2. /\ st[g + 1] = 0 /\ st[g + 2] = 0 + m.n /\ st[s + 1] = Used
          /\ \A j \in g + 2 .. s + 1 : 0 + m.n <= st[j]
      BY <2>1, <3>1 DEF LaidOut
    <3>3. \A j \in g + 2 .. s + 1 : st[j] \in 0 .. Used
      BY <1>3, <2>1
    <3> QED BY <1>2, <1>3, <3>2, <3>3
  <2>3. PICK st2 : st2 = [i \in g + 2 .. s + 1 |-> st[i] - m.n]
    OBVIOUS
  <2>4. st2 \in [g + 2 .. s + 1 -> 0 .. Used - m.n]
    <3>1. \A j \in g + 2 .. s + 1 : st[j] - m.n \in 0 .. Used - m.n
      BY <1>2, <1>3, <2>2
    <3> QED BY <2>3, <3>1
  <2>5. st2[g + 2] = 0 /\ st2[s + 1] = Used - m.n
    <3>1. g + 2 \in g + 2 .. s + 1 /\ s + 1 \in g + 2 .. s + 1
      BY <1>2, <1>3
    <3>2. m.n - m.n = 0
      BY <1>2, <1>3
    <3> QED BY <2>2, <2>3, <3>1, <3>2
  <2>6. ASSUME NEW i \in g + 2 .. s
        PROVE  /\ st2[i + 1] = st2[i] + sent[i].n
               /\ \A k \in 1 .. sent[i].n :
                     entries[NextPos(tail', st2[i] + k - 1)] = Block(sent[i], k)
               /\ \A j \in i + 1 .. s + 1 : st2[i] + sent[i].n <= st2[j]
    <3>1. /\ i \in g + 1 .. s /\ i \in 1 .. s
          /\ i \in g + 2 .. s + 1 /\ i + 1 \in g + 2 .. s + 1
      BY <1>3
    <3>2. /\ st[i + 1] = st[i] + sent[i].n
          /\ \A k \in 1 .. sent[i].n :
                entries[NextPos(tail, st[i] + k - 1)] = Block(sent[i], k)
          /\ \A j \in i + 1 .. s + 1 : st[i] + sent[i].n <= st[j]
      BY <2>1, <3>1 DEF LaidOut
    <3>3. st[i] \in m.n .. Used /\ st[i + 1] \in m.n .. Used /\ sent[i].n \in Nat
      <4>1. sent[i] \in Messages
        BY <3>1 DEF IInv, Typed
      <4>2. sent[i].n \in 1 .. EntriesNr
        BY <4>1, QueueAssumption DEF Messages
      <4>3. i \in g + 2 .. s + 1 /\ i + 1 \in g + 2 .. s + 1
        BY <3>1
      <4>4. sent[i].n \in Nat
        BY <1>3, <4>2
      <4> QED BY <2>2, <4>3, <4>4
    <3>4. st2[i] = st[i] - m.n /\ \A j \in i + 1 .. s + 1 : st2[j] = st[j] - m.n
      <4>1. \A j \in i + 1 .. s + 1 : j \in g + 2 .. s + 1
        BY <1>3, <3>1
      <4> QED BY <2>3, <3>1, <4>1
    <3>5. st2[i + 1] = st2[i] + sent[i].n
      <4>1. st2[i + 1] = st[i + 1] - m.n
        BY <2>3, <3>1
      <4>2. /\ st2[i] = st[i] - m.n /\ st[i + 1] = st[i] + sent[i].n
            /\ st[i] \in Int /\ sent[i].n \in Int /\ m.n \in Int
        BY <1>2, <1>3, <3>2, <3>3, <3>4
      <4> QED BY <4>1, <4>2, ShiftStep
    <3>6. ASSUME NEW k \in 1 .. sent[i].n
          PROVE  entries[NextPos(tail', st2[i] + k - 1)] = Block(sent[i], k)
      <4>1. /\ m.n \in 0 .. EntriesNr - 1 /\ st2[i] + k - 1 \in 0 .. EntriesNr - 1
            /\ m.n + (st2[i] + k - 1) < EntriesNr
            /\ m.n + (st2[i] + k - 1) = st[i] + k - 1
        <5>1. st[i] + sent[i].n <= Used
          <6>1. s + 1 \in i + 1 .. s + 1 /\ st[s + 1] = Used
            BY <1>3, <2>2, <3>1
          <6> QED BY <3>2, <6>1
        <5>2. /\ Used \in 0 .. EntriesNr - 1 /\ m.n \in 1 .. Used
              /\ st[i] \in m.n .. Used /\ sent[i].n \in Nat
              /\ k \in 1 .. sent[i].n /\ st2[i] = st[i] - m.n
          BY <1>2, <1>3, <3>3, <3>4
        <5> QED BY <5>1, <5>2, ShiftInside
      <4>2. NextPos(NextPos(tail, m.n), st2[i] + k - 1) = NextPos(tail, st[i] + k - 1)
        BY <1>3, <4>1, NextPosAdds
      <4> QED BY <1>1, <1>2, <3>2, <4>2
    <3>7. \A j \in i + 1 .. s + 1 : st2[i] + sent[i].n <= st2[j]
      <4> SUFFICES ASSUME NEW j \in i + 1 .. s + 1
                   PROVE  st2[i] + sent[i].n <= st2[j]
        OBVIOUS
      <4>1. st[j] \in m.n .. Used
        <5>1. j \in g + 2 .. s + 1
          BY <1>3, <3>1
        <5> QED BY <2>2, <5>1
      <4>2. st[i] + sent[i].n <= st[j] /\ st2[i] = st[i] - m.n /\ st2[j] = st[j] - m.n
        BY <3>2, <3>4
      <4>3. st[i] \in Int /\ st[j] \in Int /\ sent[i].n \in Int /\ m.n \in Int
        <5>1. m.n \in Int /\ Used \in Int
          BY <1>2, <1>3
        <5> QED BY <3>3, <4>1, <5>1
      <4> QED BY <4>2, <4>3, ShiftStep
    <3> QED BY <3>5, <3>6, <3>7
  <2>7. /\ Len(got') + 1 = g + 2 /\ Len(sent') = s /\ Used' = Used - m.n
        /\ UNCHANGED <<entries, sent>>
    BY <1>1, <1>3, <1>5, <1>6
  <2>8. LaidOut(st2)'
    BY <2>5, <2>6, <2>7 DEF LaidOut
  <2>9. st2 \in [Len(got') + 1 .. Len(sent') + 1 -> 0 .. Used']
    BY <2>4, <2>7
  <2> QED BY <2>8, <2>9 DEF Layout
<1>12. Reading'
  <2>1. ASSUME NEW d \in Consumers PROVE pc'[d] # "copy"
    BY <1>1, <1>2, <1>7, OneCopies, QueueAssumption DEF Side, Threads, Others
  <2> QED BY <2>1 DEF Reading
<1>13. Writing'
  <2> SUFFICES ASSUME NEW q \in Producers, pc'[q] = "copy"
               PROVE  /\ Used' + msg'[q].n < EntriesNr
                      /\ Len(buf'[q]) <= msg'[q].n
                      /\ pos'[q] = NextPos(head, Len(buf'[q]))
                      /\ \A k \in 1 .. Len(buf'[q]) :
                            entries[NextPos(head, k - 1)] = Block(msg'[q], k)
    BY <1>1 DEF Writing
  <2>1. /\ q # c /\ pc[q] = "copy" /\ msg'[q] = msg[q] /\ pos'[q] = pos[q]
        /\ buf'[q] = buf[q]
    BY <1>2, <1>7 DEF Others, Threads
  <2>2. msg[q].n \in 1 .. EntriesNr - 1 /\ Used + msg[q].n < EntriesNr
    BY <2>1, WriterFacts
  <2>3. Used' + msg[q].n < EntriesNr
    BY <1>2, <1>3, <1>6, <2>2
  <2> QED BY <2>1, <2>3 DEF IInv, Writing
<1> QED BY <1>1, <1>2, <1>5, <1>6, <1>7, <1>8, <1>9, <1>10, <1>11, <1>12, <1>13 DEF IInv

-----------------------------------------------------------------------------
(* The theorems. *)

\* The queue is empty at first.
LEMMA InitIInv == Init => IInv
<1> SUFFICES ASSUME Init PROVE IInv
  OBVIOUS
<1>1. Typed
  <2>1. Block(Empty, 0) \in AllBlocks /\ Empty \in AllMessages
    BY DEF Block, AllBlocks, AllMessages
  <2>2. /\ entries \in [0 .. EntriesNr - 1 -> AllBlocks]
        /\ msg \in [Threads -> AllMessages]
        /\ buf \in [Threads -> Seq(AllBlocks)]
        /\ sent \in Seq(Messages) /\ got \in Seq(Seq(AllBlocks))
    BY <2>1 DEF Init
  <2>3. TypeOK /\ lock \in [{"prod", "cons"} -> Threads \cup {None}] /\ started \in 0 .. MaxMsgs
    <3>1. 0 \in 0 .. EntriesNr - 1 /\ 0 \in 0 .. MaxMsgs
      BY QueueAssumption
    <3> QED BY <3>1 DEF Init, TypeOK
  <2> QED BY <2>2, <2>3 DEF Typed
<1>2. Locked /\ InCall /\ Writing /\ Reading /\ Whole
  BY DEF Init, Locked, InCall, Writing, Reading, Whole, Threads
<1>3. Used = 0 /\ UsedInRange
  <2>1. Used = 0
    <3>1. headFlip = tailFlip
      BY Zenon DEF Init
    <3>2. head - tail = 0
      BY DEF Init
    <3> QED BY <3>1, <3>2 DEF Used
  <2> QED BY <2>1, QueueAssumption DEF UsedInRange
<1>4. Layout
  <2>1. PICK st : st = [i \in 1 .. 1 |-> 0]
    OBVIOUS
  <2>2. /\ Len(got) = 0 /\ Len(sent) = 0
        /\ st \in [Len(got) + 1 .. Len(sent) + 1 -> 0 .. Used] /\ st[1] = 0
    BY <1>3, <2>1 DEF Init
  <2>3. LaidOut(st)
    BY <1>3, <2>2 DEF LaidOut
  <2> QED BY <2>2, <2>3 DEF Layout
<1> QED BY <1>1, <1>2, <1>3, <1>4 DEF IInv

\* Every step keeps the invariant.
LEMMA NextIInv == IInv /\ [Next]_vars => IInv'
<1> SUFFICES ASSUME IInv, [Next]_vars PROVE IInv'
  OBVIOUS
<1>1. ASSUME NEW p \in Producers, Produce(p) \/ \E n \in Sizes : Enqueue(p, n)
      PROVE  IInv'
  BY <1>1, WaitFullIInv, EnqueueBlockIInv, SetHeadIInv, BeginIInv DEF Produce, Threads
<1>2. ASSUME NEW c \in Consumers, Consume(c) \/ Dequeue(c)
      PROVE  IInv'
  BY <1>2, WaitEmptyIInv, GiveUpIInv, DequeueBlockIInv, SetTailIInv, BeginIInv
     DEF Consume, Threads
<1>3. ASSUME NEW t \in Threads, LockQueue(t) \/ WaitInterrupted(t) \/ WaitFailed(t)
      PROVE  IInv'
  BY <1>3, LockQueueIInv, GiveUpIInv
<1>4. ASSUME NEW s \in {"prod", "cons"}, Interrupt(s) PROVE IInv'
  BY <1>4, InterruptIInv
<1>5. CASE UNCHANGED vars
  <2>1. /\ Typed' /\ Locked' /\ InCall' /\ Writing' /\ Reading'
        /\ UNCHANGED <<ring, entries, sent, got>>
    BY <1>5 DEF vars, ring, IInv, Typed, TypeOK, Locked, InCall, Writing, Reading,
                Used, NextPos
  <2> QED BY <2>1, RingStill DEF IInv
<1> QED BY <1>1, <1>2, <1>3, <1>4, <1>5 DEF Next

\* The invariant holds in every reachable state.
THEOREM InvariantHolds == Spec => []IInv
  BY InitIInv, NextIInv, PTL DEF Spec

\* No producer writes to an entry whose message has not been read, tail stands
\* on the first block of a message whenever WaitEmpty lets a consumer through,
\* and head never catches up with tail: the flip bits, tested without a lock
\* that covers both sides, tell a full ring from an empty one for every size of
\* the ring and of the messages.
THEOREM NothingOverwritten == Spec => []NoOverwrite
<1>1. IInv => NoOverwrite
  <2> SUFFICES ASSUME IInv PROVE NoOverwrite
    OBVIOUS
  <2>1. TypeOK /\ Used \in 0 .. EntriesNr - 1
    BY DEF IInv, Typed, UsedInRange
  <2>2. ASSUME NEW p \in Producers, pc[p] = "copy", pos[p] # NextPos(head, msg[p].n)
        PROVE  Distance(pos[p]) >= Used
    <3> DEFINE b == Len(buf[p])
    <3>1. /\ msg[p].n \in 1 .. EntriesNr - 1 /\ Used + msg[p].n < EntriesNr
          /\ b \in 0 .. msg[p].n /\ pos[p] = NextPos(tail, Used + b)
      BY <2>2, WriterFacts
    <3> HIDE DEF b
    <3>2. EntriesNr \in Nat /\ tail \in 0 .. EntriesNr - 1
      BY QueueAssumption DEF IInv, Typed, TypeOK
    <3>3. Used + b \in 0 .. EntriesNr - 1 /\ Used + b >= Used
      BY <2>1, <3>1, <3>2
    <3>4. ASSUME NEW d \in 0 .. EntriesNr - 1
          PROVE  Distance(NextPos(tail, d)) = d
      BY <3>2 DEF Distance, NextPos
    <3> QED BY <3>1, <3>3, <3>4
  <2>3. ~IsEmpty => entries[tail].k = 1 /\ entries[tail].m # Empty
    <3> SUFFICES ASSUME ~IsEmpty
                 PROVE  entries[tail].k = 1 /\ entries[tail].m # Empty
      OBVIOUS
    <3>1. Used # 0
      BY HeadPastTail DEF IInv, Typed
    <3>2. PICK m \in Messages : entries[tail] = Block(m, 1)
      BY <3>1, FirstUnread
    <3>3. m # Empty
      BY <3>2 DEF Messages, Empty
    <3> QED BY <3>2, <3>3 DEF Block
  <2> QED BY <2>1, <2>2, <2>3 DEF NoOverwrite
<1> QED BY <1>1, InvariantHolds, PTL

-----------------------------------------------------------------------------
(* The refinement. *)

\* A message can be told from its blocks.
LEMMA BlocksInjective ==
    ASSUME NEW m \in Messages, NEW n \in Messages, Blocks(m) = Blocks(n)
    PROVE  m = n
<1>1. 1 \in 1 .. m.n /\ 1 \in 1 .. n.n
  <2>1. m.n \in 1 .. EntriesNr /\ n.n \in 1 .. EntriesNr
    BY QueueAssumption DEF Messages
  <2> QED BY <2>1, QueueAssumption
<1>2. Blocks(m)[1] = Block(m, 1) /\ Blocks(n)[1] = Block(n, 1)
  BY <1>1 DEF Blocks
<1> QED BY <1>2 DEF Block

\* What the consumers have received, as messages, is a prefix of what was sent.
ReceivedIsPrefix == Received = [i \in 1 .. Len(got) |-> sent[i]]

\* This follows from the invariant.
LEMMA PrefixReceived == IInv => ReceivedIsPrefix
<1> SUFFICES ASSUME IInv PROVE ReceivedIsPrefix
  OBVIOUS
<1>1. ASSUME NEW i \in 1 .. Len(got)
      PROVE  /\ \E m \in Messages : got[i] = Blocks(m)
             /\ (CHOOSE m \in Messages : got[i] = Blocks(m)) = sent[i]
  <2>1. got[i] = Blocks(sent[i]) /\ sent[i] \in Messages
    BY DEF IInv, Whole, Typed
  <2>2. \A m \in Messages : got[i] = Blocks(m) => m = sent[i]
    BY <2>1, BlocksInjective
  <2> QED BY <2>1, <2>2
<1> QED BY <1>1 DEF Received, ReceivedIsPrefix

\* A queue is a FIFO channel between the two worlds: every message arrives
\* whole, once, and in the order in which the heads were published, for any
\* number of producers and consumers; only SetHead sends and only SetTail
\* receives.
THEOREM QueueIsChannel == Spec => FifoChannel
<1>1. Init => Chan!Init
  BY DEF Init, Chan!Init, Received
<1>2. IInv /\ IInv' /\ [Next]_vars => [Chan!Next]_<<sent, Received>>
  <2> SUFFICES ASSUME IInv, IInv', [Next]_vars
               PROVE  Chan!Next \/ UNCHANGED <<sent, Received>>
    OBVIOUS
  <2>1. ReceivedIsPrefix /\ ReceivedIsPrefix'
    <3>1. (IInv => ReceivedIsPrefix) /\ (IInv => ReceivedIsPrefix)'
      BY PrefixReceived, PTL
    <3> QED BY <3>1
  <2>2. ASSUME UNCHANGED got PROVE UNCHANGED Received
    BY <2>2 DEF Received
  <2>3. ASSUME NEW p \in Producers, SetHead(p) PROVE Chan!Next
    <3>1. sent' = Append(sent, msg[p]) /\ msg[p] \in Messages /\ got' = got
      BY <2>3, SetHeadIInv
    <3> QED BY <2>2, <3>1 DEF Chan!Next, Chan!Send
  <2>4. ASSUME NEW c \in Consumers, SetTail(c) PROVE Chan!Next
    <3>1. sent' = sent /\ Len(got) < Len(sent) /\ Len(got') = Len(got) + 1
      BY <2>4, SetTailIInv
    <3>2. /\ Received = [i \in 1 .. Len(got) |-> sent[i]]
          /\ Received' = [i \in 1 .. Len(got) + 1 |-> sent[i]]
      BY <2>1, <3>1 DEF ReceivedIsPrefix
    <3>3. Len(got) \in Nat /\ Len(Received) = Len(got)
      BY <3>2 DEF IInv, Typed
    <3>4. Received \in Seq(Messages)
      BY <3>1, <3>2 DEF IInv, Typed
    <3>5. Received' = Append(Received, sent[Len(got) + 1])
      BY <3>2, <3>3, <3>4
    <3> QED BY <3>1, <3>3, <3>5 DEF Chan!Next, Chan!Receive
  <2>5. ASSUME UNCHANGED <<sent, got>> PROVE UNCHANGED <<sent, Received>>
    BY <2>5, <2>2
  <2>6. \/ \E p \in Producers : SetHead(p)
        \/ \E c \in Consumers : SetTail(c)
        \/ UNCHANGED <<sent, got>>
    BY DEF Next, vars, Produce, Consume, Enqueue, Dequeue, LockQueue, WaitFull,
           WaitInterrupted, WaitFailed, EnqueueBlock, WaitEmpty, AllocateFailed,
           DequeueBlock, Interrupt
  <2> QED BY <2>3, <2>4, <2>5, <2>6
<1>3. Spec => []IInv
  BY InvariantHolds
<1> QED BY <1>1, <1>2, <1>3, PTL DEF Spec, FifoChannel, Chan!Spec
=============================================================================
