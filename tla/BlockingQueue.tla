--------------------------- MODULE BlockingQueue ---------------------------
(***************************************************************************)
(* The ring buffer in shared memory through which the posix proxy and the  *)
(* TEE exchange tasks and results (posix_proxy/src/xtasklet/               *)
(* blocking_queue.c).  The producers sit in one world and the consumers in *)
(* the other; each side has its own queue object with its own mutex and    *)
(* interrupt flag, and only head, tail and the entries are shared.  A      *)
(* message takes several consecutive entries; positions carry a flip bit   *)
(* that changes whenever they wrap around.                                 *)
(***************************************************************************)
EXTENDS Integers, Sequences, FiniteSets

CONSTANTS
    Producers, Consumers,
    EntriesNr,  \* entries of the ring
    Sizes,      \* numbers of entries that messages take
    MaxMsgs,    \* bound on the messages of a behaviour
    None

ASSUME QueueAssumption ==
    /\ Producers \cap Consumers = {}
    /\ EntriesNr \in Nat \ {0, 1}
    /\ Sizes \subseteq 1 .. EntriesNr
    /\ MaxMsgs \in Nat
    /\ None \notin Producers \cup Consumers

VARIABLES
    head, headFlip, tail, tailFlip, \* shared: the two positions
    entries,    \* shared: what each entry holds
    lock,       \* the mutex of each side's queue object
    interrupt,  \* the interrupt flag of each side's queue object
    pc,         \* where each thread is
    msg,        \* producer: the message; consumer: the metadata it has read
    pos,        \* the entry that a thread copies next
    buf,        \* consumer: the blocks copied so far
    started,    \* messages that a producer has begun to enqueue
    sent, got   \* history: messages published, and data received

ring == <<head, headFlip, tail, tailFlip>>
vars == <<ring, entries, lock, interrupt, pc, msg, pos, buf, started, sent, got>>

Threads == Producers \cup Consumers

Side(t) == IF t \in Producers THEN "prod" ELSE "cons"

\* A message is its number and its size in entries; block k of it is what an
\* entry holds.  The first block carries the metadata.
Messages == [id : 1 .. MaxMsgs, n : Sizes]

Block(m, k) == [m |-> m, k |-> k]

Blocks(m) == [k \in 1 .. m.n |-> Block(m, k)]

Empty == [id |-> 0, n |-> 0]

Init ==
    /\ head = 0 /\ headFlip = FALSE
    /\ tail = 0 /\ tailFlip = FALSE
    /\ entries = [i \in 0 .. EntriesNr - 1 |-> Block(Empty, 0)]
    /\ lock = [s \in {"prod", "cons"} |-> None]
    /\ interrupt = [s \in {"prod", "cons"} |-> FALSE]
    /\ pc = [t \in Threads |-> "idle"]
    /\ msg = [t \in Threads |-> Empty]
    /\ pos = [t \in Threads |-> 0]
    /\ buf = [t \in Threads |-> <<>>]
    /\ started = 0
    /\ sent = <<>> /\ got = <<>>

-----------------------------------------------------------------------------
\* (p + n) % EntriesNr, for n <= EntriesNr, and the flip bit that goes with it.
NextPos(p, n) == IF p + n >= EntriesNr THEN p + n - EntriesNr ELSE p + n

NextFlip(p, f, n) == IF p + n >= EntriesNr THEN ~f ELSE f

\* Mutant: forgets that head may already have wrapped once more than tail.
IsFullOneLap(n) ==
    NextFlip(head, headFlip, n) # tailFlip /\ NextPos(head, n) >= tail

\* The test of WaitFull for a message of n entries.
IsFull(n) ==
    LET nextHead == NextPos(head, n)
        nextHeadFlip == NextFlip(head, headFlip, n) IN
    \/ nextHeadFlip # tailFlip /\ nextHead >= tail
    \/ headFlip # tailFlip /\ nextHeadFlip = tailFlip

\* Mutant: a ring in which head has wrapped and tail has not reads as empty.
IsEmptyWrapped == headFlip # tailFlip \/ head = tail

\* The test of WaitEmpty.
IsEmpty == headFlip = tailFlip /\ head = tail

Goto(t, loc) == pc' = [pc EXCEPT ![t] = loc]

\* The call ends: UnlockQueue, DerefQueue, return.
Leave(t) ==
    /\ lock' = [lock EXCEPT ![Side(t)] = None]
    /\ pc' = [pc EXCEPT ![t] = "idle"]
    /\ msg' = [msg EXCEPT ![t] = Empty]
    /\ pos' = [pos EXCEPT ![t] = 0]
    /\ buf' = [buf EXCEPT ![t] = <<>>]

-----------------------------------------------------------------------------
(* BlockingEnqueue *)

Enqueue(p, n) ==
    /\ pc[p] = "idle"
    /\ started < MaxMsgs
    /\ started' = started + 1
    /\ msg' = [msg EXCEPT ![p] = [id |-> started + 1, n |-> n]]
    /\ Goto(p, "lock")
    /\ UNCHANGED <<ring, entries, lock, interrupt, pos, buf, sent, got>>

\* BlockingDequeue
Dequeue(c) ==
    /\ pc[c] = "idle"
    /\ Goto(c, "lock")
    /\ UNCHANGED <<ring, entries, lock, interrupt, msg, pos, buf, started, sent, got>>

\* Mutant: the mutex does not exclude.
LockQueueAnyway(t) ==
    /\ pc[t] = "lock"
    /\ Goto(t, "wait")
    /\ UNCHANGED <<ring, entries, lock, interrupt, msg, pos, buf, started, sent, got>>

LockQueue(t) ==
    /\ pc[t] = "lock"
    /\ lock[Side(t)] = None
    /\ lock' = [lock EXCEPT ![Side(t)] = t]
    /\ Goto(t, "wait")
    /\ UNCHANGED <<ring, entries, interrupt, msg, pos, buf, started, sent, got>>

\* The loop of WaitFull polls with the mutex held until there is room ...
WaitFull(p) ==
    /\ pc[p] = "wait" /\ p \in Producers
    /\ ~interrupt["prod"]
    /\ ~IsFull(msg[p].n)
    /\ pos' = [pos EXCEPT ![p] = head]
    /\ Goto(p, "copy")
    /\ UNCHANGED <<ring, entries, lock, interrupt, msg, buf, started, sent, got>>

\* ... or until its side is interrupted; WaitEmpty likewise.
WaitInterrupted(t) ==
    /\ pc[t] = "wait"
    /\ interrupt[Side(t)]
    /\ Leave(t)
    /\ UNCHANGED <<ring, entries, interrupt, started, sent, got>>

\* Blocking: the poll gives up, at its timeout or when usleep fails.
WaitFailed(t) ==
    /\ pc[t] = "wait"
    /\ ~interrupt[Side(t)]
    /\ IF t \in Producers THEN IsFull(msg[t].n) ELSE IsEmpty
    /\ Leave(t)
    /\ UNCHANGED <<ring, entries, interrupt, started, sent, got>>

\* The loop of EnqueueBlocks: metadata and data of one entry.
EnqueueBlock(p) ==
    /\ pc[p] = "copy" /\ p \in Producers
    /\ pos[p] # NextPos(head, msg[p].n)
    /\ entries' = [entries EXCEPT ![pos[p]] = Block(msg[p], Len(buf[p]) + 1)]
    /\ buf' = [buf EXCEPT ![p] = Append(@, Block(msg[p], Len(buf[p]) + 1))]
    /\ pos' = [pos EXCEPT ![p] = NextPos(@, 1)]
    /\ UNCHANGED <<ring, lock, interrupt, pc, msg, started, sent, got>>

\* Its end: SetHead publishes the message.
SetHead(p) ==
    /\ pc[p] = "copy" /\ p \in Producers
    /\ pos[p] = NextPos(head, msg[p].n)
    /\ head' = NextPos(head, msg[p].n)
    /\ headFlip' = NextFlip(head, headFlip, msg[p].n)
    /\ sent' = Append(sent, msg[p])
    /\ Leave(p)
    /\ UNCHANGED <<tail, tailFlip, entries, interrupt, started, got>>

-----------------------------------------------------------------------------
(* BlockingDequeue *)

\* WaitEmpty, then GetMetadata of the entry at tail: the number of entries
\* that it claims for its message, or an error that leaves tail where it is.
WaitEmpty(c) ==
    /\ pc[c] = "wait" /\ c \in Consumers
    /\ ~interrupt["cons"]
    /\ ~IsEmpty
    /\ IF entries[tail].k = 1
       THEN /\ msg' = [msg EXCEPT ![c] = entries[tail].m]
            /\ pos' = [pos EXCEPT ![c] = tail]
            /\ Goto(c, "copy")
            /\ UNCHANGED <<lock, buf>>
       ELSE Leave(c)
    /\ UNCHANGED <<ring, entries, interrupt, started, sent, got>>

\* No memory for the message: it stays in the queue.
AllocateFailed(c) ==
    /\ pc[c] = "copy" /\ c \in Consumers
    /\ pos[c] = tail /\ buf[c] = <<>>
    /\ Leave(c)
    /\ UNCHANGED <<ring, entries, interrupt, started, sent, got>>

\* The loop of DequeueBlocks: the data of one entry.
DequeueBlock(c) ==
    /\ pc[c] = "copy" /\ c \in Consumers
    /\ pos[c] # NextPos(tail, msg[c].n)
    /\ buf' = [buf EXCEPT ![c] = Append(@, entries[pos[c]])]
    /\ pos' = [pos EXCEPT ![c] = NextPos(@, 1)]
    /\ UNCHANGED <<ring, entries, lock, interrupt, pc, msg, started, sent, got>>

\* Its end: SetTail gives the entries back, and the caller has the data.
SetTail(c) ==
    /\ pc[c] = "copy" /\ c \in Consumers
    /\ pos[c] = NextPos(tail, msg[c].n)
    /\ tail' = NextPos(tail, msg[c].n)
    /\ tailFlip' = NextFlip(tail, tailFlip, msg[c].n)
    /\ got' = Append(got, buf[c])
    /\ Leave(c)
    /\ UNCHANGED <<head, headFlip, entries, interrupt, started, sent>>

\* BlockingQueueInterrupt
Interrupt(s) ==
    /\ ~interrupt[s]
    /\ interrupt' = [interrupt EXCEPT ![s] = TRUE]
    /\ UNCHANGED <<ring, entries, lock, pc, msg, pos, buf, started, sent, got>>

-----------------------------------------------------------------------------
Produce(p) == WaitFull(p) \/ EnqueueBlock(p) \/ SetHead(p)

Consume(c) ==
    WaitEmpty(c) \/ AllocateFailed(c) \/ DequeueBlock(c) \/ SetTail(c)

Next ==
    \/ \E p \in Producers : Produce(p) \/ \E n \in Sizes : Enqueue(p, n)
    \/ \E c \in Consumers : Consume(c) \/ Dequeue(c)
    \/ \E t \in Threads : LockQueue(t) \/ WaitInterrupted(t) \/ WaitFailed(t)
    \/ \E s \in {"prod", "cons"} : Interrupt(s)

Spec == Init /\ [][Next]_vars

\* Threads that have begun a call go on with it, the consumers (ExecutorFetch
\* and its counterpart) call BlockingDequeue again and again, and memory is
\* not always short.  A mutex promises no order among the threads that wait.
FairSpec ==
    /\ Spec
    /\ \A p \in Producers : WF_vars(Produce(p) \/ WaitInterrupted(p))
    /\ \A c \in Consumers :
          /\ WF_vars(Dequeue(c)) /\ WF_vars(WaitEmpty(c) \/ WaitInterrupted(c))
          /\ SF_vars(DequeueBlock(c)) /\ WF_vars(SetTail(c))
    /\ WF_vars(\E c \in Consumers : LockQueue(c))
    /\ WF_vars(\E p \in Producers : LockQueue(p))

-----------------------------------------------------------------------------
(* Properties *)

\* Every variable holds a value of its C type.
TypeOK ==
    /\ head \in 0 .. EntriesNr - 1 /\ tail \in 0 .. EntriesNr - 1
    /\ headFlip \in BOOLEAN /\ tailFlip \in BOOLEAN
    /\ DOMAIN entries = 0 .. EntriesNr - 1
    /\ lock["prod"] \in Producers \cup {None}
    /\ lock["cons"] \in Consumers \cup {None}
    /\ interrupt \in [{"prod", "cons"} -> BOOLEAN]
    /\ pc \in [Threads -> {"idle", "lock", "wait", "copy"}]
    /\ pos \in [Threads -> 0 .. EntriesNr - 1]

\* Entries between tail and head, which the flip bits tell apart from those
\* between head and tail.
Used == IF headFlip = tailFlip THEN head - tail ELSE EntriesNr - tail + head

\* The distance of position i from tail.
Distance(i) == IF i >= tail THEN i - tail ELSE EntriesNr - tail + i

\* The ring never overflows (head does not catch up with tail, so that different
\* flip bits always mean that head has wrapped once more), and a producer only
\* writes to entries that hold no unread message, also while consumers move
\* tail: nothing published is overwritten before it is read.  tail always
\* stands on the first entry of a message, so that GetMetadata never meets a
\* position that "contains no metadata".  Every variable keeps its type.
NoOverwrite ==
    /\ TypeOK
    /\ Used \in 0 .. EntriesNr - 1
    /\ \A p \in Producers :
       pc[p] = "copy" /\ pos[p] # NextPos(head, msg[p].n) =>
          Distance(pos[p]) >= Used
    /\ ~IsEmpty => entries[tail].k = 1 /\ entries[tail].m # Empty

\* What the consumers receive, as whole messages: the block sequences read.
Received == [i \in 1 .. Len(got) |->
                IF \E m \in Messages : got[i] = Blocks(m)
                THEN CHOOSE m \in Messages : got[i] = Blocks(m)
                ELSE Empty]

\* The queue is a lossless FIFO channel: every message arrives whole, once,
\* and in the order in which the heads were published.
Chan == INSTANCE Channel WITH got <- Received

FifoChannel == Chan!Spec

\* Messages smaller than the ring get through: a producer that waits for room
\* finds it, since the consumers go on, unless a side is interrupted.
EnqueueCompletes ==
    \A p \in Producers :
       (pc[p] = "wait") ~>
          (pc[p] # "wait" \/ interrupt["prod"] \/ interrupt["cons"])
=============================================================================
