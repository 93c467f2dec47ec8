--------------------------- MODULE SharedMemProofs ---------------------------
(***************************************************************************)
(* Proofs about SharedMem, for any number of threads, blocks, cells,       *)
(* addresses and positions.                                                *)
(***************************************************************************)
EXTENDS SharedMem, FiniteSetTheorems, WellFoundedInduction, TLAPS

-----------------------------------------------------------------------------
(* The inductive invariant. *)

\* The steps between GetBnContext and PutBnContext.
HoldPcs == {"bit", "map", "unbit", "fail", "insert", "publish", "remove", "putShm",
            "unmap", "clearBit", "check", "ioctl", "putCtx"}

Pcs == HoldPcs \cup {"idle", "get", "drain"}

Ops == {"none", "allocate", "register", "release", "use", "finalize"}

Buffers == Addrs \cup ClientBufs \cup {ZeroPtr, Nil}

Typed ==
    /\ listed \in BOOLEAN /\ ctxLive \in BOOLEAN /\ stray \in BOOLEAN
    /\ ctxCnt \in Nat
    /\ bits \subseteq 0 .. NBits - 1
    /\ shmList \subseteq Cells /\ mapped \subseteq Cells
    /\ kind \in [Cells -> AllKinds \cup {"free"}]
    /\ off \in [Cells -> 0 .. NBits - 1]
    /\ addr \in [Cells -> Buffers]
    /\ scnt \in [Cells -> Nat]
    /\ bufOf \in [Blocks -> Buffers]
    /\ pc \in [Threads -> Pcs] /\ op \in [Threads -> Ops]
    /\ tblk \in [Threads -> Blocks \cup {Nil}]
    /\ tcell \in [Threads -> Cells \cup {Nil}]

\* The context's references are the list's and those of the threads in its
\* calls; who drains it has it alone, and afterwards nobody is in a call.
CtxHolders == {t \in Threads : pc[t] \in HoldPcs}

CtxRefs ==
    /\ ctxCnt = (IF listed THEN 1 ELSE 0) + Cardinality(CtxHolders)
    /\ \A t \in Threads : pc[t] = "drain" =>
          /\ ~listed /\ ctxLive /\ CtxHolders = {}
          /\ \A u \in Threads \ {t} : pc[u] # "drain"
    /\ ~ctxLive =>
          ~listed /\ shmList = {} /\ \A t \in Threads : pc[t] \in {"idle", "get"}

\* What a thread does fits its call, and a block of the client is in the hands
\* of one thread at most.
InCall ==
    \A t \in Threads :
       /\ pc[t] = "idle" => op[t] = "none" /\ tblk[t] = Nil /\ tcell[t] = Nil
       /\ pc[t] = "get" => op[t] \in {"allocate", "register", "release", "use"}
       /\ pc[t] \in {"bit", "map", "unbit", "fail"} => op[t] = "allocate"
       /\ pc[t] \in {"insert", "publish"} => op[t] \in {"allocate", "register"}
       /\ pc[t] = "remove" => op[t] = "release"
       /\ pc[t] \in {"check", "ioctl"} => op[t] = "use"
       /\ op[t] \in {"allocate", "register", "release", "use"} => tblk[t] \in Blocks
       /\ tblk[t] # Nil => \A u \in Threads \ {t} : tblk[u] # tblk[t]

\* Where a thread has a cell, and where it has it for itself.
CellPcs == {"bit", "map", "unbit", "fail", "insert", "publish", "putShm", "unmap", "clearBit"}

InHand ==
    \A t \in Threads :
       /\ pc[t] \in CellPcs => tcell[t] # Nil
       /\ pc[t] \in {"remove", "check", "ioctl", "putCtx", "drain"} => tcell[t] = Nil
       /\ pc[t] = "get" => (tcell[t] # Nil <=> op[t] \in {"allocate", "register"})
       /\ pc[t] = "get" /\ op[t] = "register" => kind[tcell[t]] = "registered"
       /\ tcell[t] # Nil => kind[tcell[t]] # "free"
       /\ tcell[t] # Nil /\ pc[t] \notin {"publish", "putShm"} =>
             /\ tcell[t] \notin shmList
             /\ \A u \in Threads \ {t} : tcell[u] # tcell[t]
       /\ pc[t] \in {"bit", "unbit"} => TakesBit(kind[tcell[t]])

\* The references of every cell are the list's and those of the threads that
\* are about to put it, and every cell in use is in the list or in a thread's
\* hands.
CellRefs ==
    /\ \A c \in shmList : kind[c] # "free"
    /\ \A c \in Cells :
          /\ scnt[c] = (IF c \in shmList THEN 1 ELSE 0) + Cardinality(ShmHolders(c))
          /\ kind[c] # "free" => c \in shmList \/ \E t \in Threads : tcell[t] = c
    /\ \A c \in mapped :
          /\ kind[c] # "free"
          /\ \A t \in Threads : tcell[t] = c =>
                pc[t] \in {"insert", "publish", "putShm", "unmap"}

\* A set position has an owner, also after a stray release; before one, it is
\* the only one.
Positions ==
    /\ \A i \in bits : \E c \in Cells : OwnsBit(c) /\ off[c] = i
    /\ ~stray =>
          /\ \A c \in Cells : OwnsBit(c) => off[c] \in bits
          /\ \A c, d \in Cells : OwnsBit(c) /\ OwnsBit(d) /\ off[c] = off[d] => c = d

\* The buffer of the client's structure during a call.
InBuffer ==
    \A t \in Threads :
       /\ op[t] \in {"release", "use"} => bufOf[tblk[t]] # Nil
       /\ op[t] = "allocate"
             /\ pc[t] \in {"get", "bit", "map", "unbit", "fail", "insert", "publish"}
             => bufOf[tblk[t]] = Nil
       /\ op[t] = "register" => bufOf[tblk[t]] \in ClientBufs
       /\ op[t] = "register" /\ pc[t] \in {"get", "insert", "publish"}
             => addr[tcell[t]] \in ClientBufs

\* As long as the context is in use, the blocks with a buffer, and those that
\* are about to get it, are no more than the listed cells with it.  Blocks of
\* size 0 all have the same buffer, and a release takes any cell that has it.
ListedAt(a) == {c \in shmList : addr[c] = a}
BlocksAt(a) == {b \in Blocks : bufOf[b] = a
                  /\ \A t \in Threads : tblk[t] = b /\ op[t] = "release" =>
                        pc[t] \in {"get", "remove"}}
PublishingAt(a) == {t \in Threads : pc[t] = "publish" /\ addr[tcell[t]] = a}

Backed ==
    listed \/ CtxHolders # {} =>
       \A a \in Addrs \cup {ZeroPtr} :
          Cardinality(BlocksAt(a)) + Cardinality(PublishingAt(a))
             <= Cardinality(ListedAt(a))

IInv ==
    /\ Typed /\ CtxRefs /\ InCall /\ InHand /\ CellRefs
    /\ Positions /\ InBuffer /\ Backed

-----------------------------------------------------------------------------
(* The bitmap: IterateBitmap stops at the lowest position it looks for, for
   bitmaps of any length. *)

\* The order of the natural numbers, as a relation.
LessThan == {p \in Nat \X Nat : p[1] < p[2]}

\* It is well founded (stated by the library for the operator <).
LEMMA LessThanWellFounded == IsWellFoundedOn(LessThan, Nat)
  BY NatLessThanWellFounded DEF OpToRel, LessThan

\* Lowest returns the minimum of a set of positions, so the loop of
\* IterateBitmap stops at the first position it looks for.
LEMMA LowestIsMinimum ==
    ASSUME NEW S \in SUBSET Nat, S # {}
    PROVE  Lowest(S) \in S /\ \A i \in S : Lowest(S) <= i
<1>1. PICK i \in S : \A j \in S : <<j, i>> \notin LessThan
  BY LessThanWellFounded, WFMin
<1>2. \A j \in S : ~(j < i)
  BY <1>1 DEF LessThan
<1>3. \A j \in S : i <= j
  BY <1>2
<1> QED BY <1>3 DEF Lowest

\* GetAndSetBit: the position found is clear, and -1 means that all are set.
LEMMA FirstClearIsClear ==
    ASSUME NEW n \in Nat, NEW set
    PROVE  \/ FirstClear(n, set) \in (0 .. n - 1) \ set
           \/ FirstClear(n, set) = -1 /\ 0 .. n - 1 \subseteq set
<1>1. CASE (0 .. n - 1) \ set = {}
  BY <1>1 DEF FirstClear, Lowest
<1>2. CASE (0 .. n - 1) \ set # {}
  BY <1>2, LowestIsMinimum DEF FirstClear
<1> QED BY <1>1, <1>2

-----------------------------------------------------------------------------
(* Counting. *)

Finite(S) == IsFiniteSet(S) /\ Cardinality(S) \in Nat

Counted ==
    /\ Finite(CtxHolders)
    /\ \A c : Finite(ShmHolders(c))
    /\ \A a : Finite(BlocksAt(a)) /\ Finite(PublishingAt(a)) /\ Finite(ListedAt(a))

\* What the invariant counts can be counted, now ...
LEMMA Countable == Typed => Counted
<1>0. SUFFICES ASSUME Typed PROVE Counted
  OBVIOUS
<1>1. \A S \in SUBSET Threads : Finite(S)
  BY SharedMemAssumption, FS_Subset, FS_CardinalityType DEF Finite
<1>2. \A S \in SUBSET Blocks : Finite(S)
  BY SharedMemAssumption, FS_Subset, FS_CardinalityType DEF Finite
<1>3. \A S \in SUBSET Cells : Finite(S)
  BY SharedMemAssumption, FS_Subset, FS_CardinalityType DEF Finite
<1>4. \A c : Finite(ShmHolders(c))
  BY <1>1 DEF ShmHolders
<1>5. \A a : Finite(BlocksAt(a))
  BY <1>2 DEF BlocksAt
<1>6. \A a : Finite(PublishingAt(a))
  BY <1>1 DEF PublishingAt
<1>7. \A a : Finite(ListedAt(a))
  BY <1>0, <1>3 DEF ListedAt, Typed
<1>8. Finite(CtxHolders)
  BY <1>1 DEF CtxHolders
<1> QED BY <1>4, <1>5, <1>6, <1>7, <1>8 DEF Counted

\* ... and in the next state.
LEMMA CountableNext == (Typed => Counted)'
  BY Countable, PTL

\* The cardinalities of sets that gain or lose an element, or elements.
LEMMA OneMore ==
    ASSUME NEW S, Finite(S), NEW x, x \notin S
    PROVE  Finite(S \cup {x}) /\ Cardinality(S \cup {x}) = Cardinality(S) + 1
  BY FS_AddElement, FS_CardinalityType DEF Finite

LEMMA OneLess ==
    ASSUME NEW S, Finite(S), NEW x \in S
    PROVE  /\ Finite(S \ {x}) /\ Cardinality(S \ {x}) = Cardinality(S) - 1
           /\ Cardinality(S) >= 1
<1>1. IsFiniteSet(S \ {x}) /\ Cardinality(S \ {x}) = Cardinality(S) - 1
  BY FS_RemoveElement DEF Finite
<1>2. Cardinality(S \ {x}) \in Nat
  BY <1>1, FS_CardinalityType
<1> QED BY <1>1, <1>2 DEF Finite

LEMMA NotMore ==
    ASSUME NEW S, Finite(S), NEW R, R \subseteq S
    PROVE  Finite(R) /\ Cardinality(R) <= Cardinality(S)
  BY FS_Subset, FS_CardinalityType DEF Finite

LEMMA Empty ==
    /\ Finite({}) /\ Cardinality({}) = 0
    /\ \A S : Finite(S) /\ Cardinality(S) = 0 => S = {}
  BY FS_EmptySet DEF Finite

-----------------------------------------------------------------------------
(* Kinds of step. *)

\* Every other thread stays where it is.
Others(t) ==
    \A u \in Threads \ {t} :
       pc'[u] = pc[u] /\ op'[u] = op[u] /\ tblk'[u] = tblk[u] /\ tcell'[u] = tcell[u]

\* A thread goes on in its call, with its cell or without.
LEMMA GotoLocals ==
    ASSUME Typed, NEW t \in Threads, NEW loc \in Pcs, Goto(t, loc),
           op' = op, tblk' = tblk,
           NEW c \in Cells \cup {Nil},
           tcell' = tcell \/ tcell' = [tcell EXCEPT ![t] = c]
    PROVE  /\ Others(t) /\ pc'[t] = loc
           /\ pc' \in [Threads -> Pcs] /\ tcell' \in [Threads -> Cells \cup {Nil}]
           /\ tcell' = tcell \/ tcell'[t] = c
  BY DEF Typed, Goto, Others

\* A thread inside of its call keeps its reference to the context.
LEMMA CtxKept ==
    ASSUME IInv, NEW t \in Threads, Others(t), UNCHANGED ctx,
           pc[t] \in HoldPcs, pc'[t] \in HoldPcs
    PROVE  CtxRefs' /\ CtxHolders # {} /\ CtxHolders' = CtxHolders /\ ctxLive
<1>1. CtxHolders' = CtxHolders /\ t \in CtxHolders
  BY DEF CtxHolders, Others
<1>2. ctxLive
  BY DEF IInv, CtxRefs, HoldPcs
<1>3. \A u \in Threads : pc'[u] # "drain"
  BY <1>1 DEF IInv, CtxRefs, Others, HoldPcs
<1> QED BY <1>1, <1>2, <1>3 DEF IInv, CtxRefs, ctx

\* Blocks stay backed while there are no more of them and no fewer cells.
LEMMA StillBacked ==
    ASSUME IInv, Typed', listed \/ CtxHolders # {},
           \A a \in Addrs \cup {ZeroPtr} :
              /\ BlocksAt(a)' \subseteq BlocksAt(a)
              /\ PublishingAt(a)' \subseteq PublishingAt(a)
              /\ ListedAt(a) \subseteq ListedAt(a)'
    PROVE  Backed'
<1>0. SUFFICES ASSUME NEW a \in Addrs \cup {ZeroPtr}
               PROVE  (Cardinality(BlocksAt(a)) + Cardinality(PublishingAt(a))
                         <= Cardinality(ListedAt(a)))'
  BY DEF Backed
<1>1. Finite(BlocksAt(a)) /\ Finite(PublishingAt(a)) /\ Finite(ListedAt(a))
  BY Countable DEF IInv, Counted
<1>3. Finite(BlocksAt(a)') /\ Finite(PublishingAt(a)') /\ Finite(ListedAt(a)')
  BY CountableNext DEF Counted, Finite
<1>4. /\ Cardinality(BlocksAt(a)') <= Cardinality(BlocksAt(a))
      /\ Cardinality(PublishingAt(a)') <= Cardinality(PublishingAt(a))
      /\ Cardinality(ListedAt(a)) <= Cardinality(ListedAt(a)')
  BY <1>1, <1>3, NotMore
<1>5. Cardinality(BlocksAt(a)) + Cardinality(PublishingAt(a)) <= Cardinality(ListedAt(a))
  BY DEF IInv, Backed
<1> QED BY <1>1, <1>3, <1>4, <1>5 DEF Finite

\* A thread moves on in its call, and its call keeps its kind: what is said
\* about the context, the calls and the client's structures stays, as long as
\* no address but that of its own cell changes.
LEMMA HeldStep ==
    ASSUME IInv, Typed', NEW t \in Threads, Others(t),
           UNCHANGED <<ctx, shmList, bufOf>>, op' = op, tblk' = tblk,
           pc[t] \in HoldPcs \ {"publish"},
           pc'[t] \in HoldPcs \ {"publish", "remove", "check"},
           pc'[t] \in {"bit", "map", "unbit", "fail", "insert"} =>
              pc[t] \in {"bit", "map", "unbit"},
           pc'[t] = "ioctl" => pc[t] = "check",
           \A d \in Cells : addr'[d] # addr[d] =>
              d = tcell[t] /\ pc[t] # "putShm"
    PROVE  CtxRefs' /\ InCall' /\ InBuffer' /\ Backed'
<1>1. /\ CtxRefs' /\ CtxHolders # {}
  BY CtxKept DEF HoldPcs
<1>2. InCall'
  BY DEF IInv, InCall, Others, HoldPcs
<1>3. \A d \in Cells : addr'[d] # addr[d] =>
         /\ d \notin shmList /\ \A u \in Threads \ {t} : tcell[u] # d
  <2>1. \A d \in Cells : d # Nil
    BY SharedMemAssumption
  <2> QED BY <2>1 DEF IInv, InHand
<1>4. InBuffer'
  <2>1. \A u \in Threads \ {t} : tcell'[u] \in Cells => addr'[tcell'[u]] = addr[tcell[u]]
    BY <1>3 DEF Others
  <2>2. \A u \in Threads : pc[u] \in {"get", "insert", "publish"} /\ op[u] = "register" =>
           tcell[u] \in Cells
    BY DEF IInv, InHand, CellPcs, Typed
  <2>3. pc'[t] \notin {"get", "publish"} /\ (op[t] = "register" => pc'[t] # "insert")
    BY DEF HoldPcs, IInv, InCall
  <2> QED BY <2>1, <2>2, <2>3 DEF IInv, InBuffer, Others, HoldPcs
<1>5. ASSUME NEW a
      PROVE  /\ BlocksAt(a)' \subseteq BlocksAt(a)
             /\ PublishingAt(a)' \subseteq PublishingAt(a)
             /\ ListedAt(a) \subseteq ListedAt(a)'
  <2>1. BlocksAt(a)' \subseteq BlocksAt(a)
    BY DEF BlocksAt, Others, HoldPcs
  <2>2. PublishingAt(a)' \subseteq PublishingAt(a)
    <3>1. \A u \in Threads : pc[u] = "publish" => tcell[u] \in Cells
      BY DEF IInv, InHand, CellPcs, Typed
    <3> QED BY <1>3, <3>1 DEF PublishingAt, Others
  <2>3. ListedAt(a) \subseteq ListedAt(a)'
    BY <1>3 DEF ListedAt, IInv, Typed
  <2> QED BY <2>1, <2>2, <2>3
<1>6. Backed'
  BY <1>1, <1>5, StillBacked
<1> QED BY <1>1, <1>2, <1>4, <1>6

-----------------------------------------------------------------------------
(* The steps of an invocation with a reference. *)

\* The cells as they are, and a thread that has none before and after.
LEMMA CellsStill ==
    ASSUME IInv, NEW t \in Threads, Others(t), UNCHANGED <<bits, shmList, cell, mapped>>,
           stray' = stray, tcell' = tcell, tcell[t] = Nil,
           pc'[t] \notin CellPcs, pc'[t] # "get" \/ op'[t] \notin {"allocate", "register"}
    PROVE  InHand' /\ CellRefs' /\ Positions'
<1>1. \A c \in Cells : c # Nil
  BY SharedMemAssumption
<1>2. InHand'
  BY DEF IInv, InHand, Others, CellPcs, cell
<1>3. \A c \in Cells : ShmHolders(c)' = ShmHolders(c)
  BY <1>1 DEF ShmHolders, Others
<1>4. CellRefs'
  BY <1>1, <1>3 DEF IInv, CellRefs, Others, cell, Typed
<1>5. \A c \in Cells : OwnsBit(c)' = OwnsBit(c)
  BY <1>1 DEF OwnsBit, Others, cell
<1>6. Positions'
  BY <1>5 DEF IInv, Positions, cell
<1> QED BY <1>2, <1>4, <1>6

\* TEEC_CheckOperation, and the ioctl.
LEMMA MemrefIInv ==
    ASSUME IInv, NEW t \in Threads, CheckMemRef(t) \/ MemrefIoctl(t), UNCHANGED stray
    PROVE  IInv'
<1>1. /\ pc[t] \in {"check", "ioctl"}
      /\ \E loc \in {"ioctl", "putCtx"} : Goto(t, loc) /\ (loc = "ioctl" => pc[t] = "check")
      /\ op' = op /\ tblk' = tblk /\ tcell' = tcell
      /\ UNCHANGED <<ctx, bits, shmList, cell, mapped, bufOf, stray>>
  BY DEF CheckMemRef, MemrefIoctl, SameCall
<1>2. PICK loc \in {"ioctl", "putCtx"} : Goto(t, loc) /\ (loc = "ioctl" => pc[t] = "check")
  BY <1>1
<1>3. /\ Others(t) /\ pc'[t] = loc
      /\ pc' \in [Threads -> Pcs] /\ tcell' \in [Threads -> Cells \cup {Nil}]
  BY <1>1, <1>2, GotoLocals DEF IInv, Pcs, HoldPcs
<1>4. Typed'
  BY <1>1, <1>3 DEF IInv, Typed, ctx, cell
<1>5. tcell[t] = Nil
  BY <1>1 DEF IInv, InHand
<1>6. InHand' /\ CellRefs' /\ Positions'
  BY <1>1, <1>3, <1>5, CellsStill DEF CellPcs
<1>7. CtxRefs' /\ InCall' /\ InBuffer' /\ Backed'
  BY <1>1, <1>2, <1>3, <1>4, HeldStep DEF HoldPcs, cell
<1> QED BY <1>4, <1>6, <1>7 DEF IInv

-----------------------------------------------------------------------------
(* The cell in a thread's hands. *)

\* Before it is published and after its last reference, a cell is one thread's
\* own: no list has it, no other thread, and nobody will put it.
LEMMA OwnCell ==
    ASSUME IInv, NEW t \in Threads, pc[t] \in CellPcs \cup {"get"}, tcell[t] # Nil,
           pc[t] \notin {"publish", "putShm"}
    PROVE  /\ tcell[t] \in Cells /\ kind[tcell[t]] # "free"
           /\ tcell[t] \notin shmList
           /\ \A u \in Threads \ {t} : tcell[u] # tcell[t]
           /\ ShmHolders(tcell[t]) = {} /\ scnt[tcell[t]] = 0
<1>1. /\ tcell[t] \in Cells /\ kind[tcell[t]] # "free"
      /\ tcell[t] \notin shmList
      /\ \A u \in Threads \ {t} : tcell[u] # tcell[t]
  BY DEF IInv, Typed, InHand
<1>2. ShmHolders(tcell[t]) = {}
  BY <1>1 DEF ShmHolders
<1>3. scnt[tcell[t]] = 0
  BY <1>1, <1>2, Empty DEF IInv, CellRefs
<1> QED BY <1>1, <1>2, <1>3

\* Who does not come to or from the steps with a reference leaves the holders
\* of every cell as they are.
LEMMA HoldersSame ==
    ASSUME NEW t \in Threads, Others(t),
           pc[t] \notin {"publish", "putShm"}, pc'[t] \notin {"publish", "putShm"}
    PROVE  \A c : ShmHolders(c)' = ShmHolders(c)
  BY DEF ShmHolders, Others

\* GetAndSetBitWithLock
LEMMA AllocateBitIInv ==
    ASSUME IInv, NEW t \in Threads, AllocateBit(t), UNCHANGED stray
    PROVE  IInv'
<1>1. /\ pc[t] = "bit" /\ op' = op /\ tblk' = tblk /\ tcell' = tcell
      /\ UNCHANGED <<ctx, shmList, kind, addr, scnt, mapped, bufOf, stray>>
  BY DEF AllocateBit, SameCall
<1>2. PICK c \in Cells : c = tcell[t] /\ c # Nil
  BY <1>1, OwnCell DEF IInv, InHand, CellPcs
<1>3. /\ c \notin shmList /\ TakesBit(kind[c])
      /\ \A u \in Threads \ {t} : tcell[u] # c
  BY <1>1, <1>2, OwnCell DEF IInv, InHand, CellPcs
<1>4. PICK i : i = FirstClear(NBits, bits)
  OBVIOUS
<1>5. \/ i \in (0 .. NBits - 1) \ bits
      \/ i = -1
  BY <1>4, SharedMemAssumption, FirstClearIsClear
<1>6. \/ Goto(t, "fail") /\ bits' = bits /\ off' = off
      \/ /\ i \in 0 .. NBits - 1 /\ i \notin bits
         /\ bits' = bits \cup {i} /\ off' = [off EXCEPT ![c] = i]
         /\ Goto(t, "map")
  <2>1. \/ i < 0 /\ Goto(t, "fail") /\ bits' = bits /\ off' = off
        \/ /\ ~(i < 0)
           /\ bits' = SetBit(i, NBits, bits)
           /\ off' = [off EXCEPT ![c] = i]
           /\ Goto(t, "map")
    BY <1>2, <1>4 DEF AllocateBit
  <2>2. i < 0 \/ i \in (0 .. NBits - 1) \ bits
    BY <1>5
  <2>3. i \in (0 .. NBits - 1) => ~(i < 0) /\ SetBit(i, NBits, bits) = bits \cup {i}
    BY SharedMemAssumption DEF SetBit
  <2> QED BY <2>1, <2>2, <2>3
<1>7. PICK loc \in {"fail", "map"} : Goto(t, loc)
  BY <1>6
<1>8. /\ Others(t) /\ pc'[t] = loc /\ tcell'[t] = c
      /\ pc' \in [Threads -> Pcs] /\ tcell' \in [Threads -> Cells \cup {Nil}]
  BY <1>1, <1>2, <1>7, GotoLocals DEF IInv, Pcs, HoldPcs
<1>9. \/ pc'[t] = "fail" /\ bits' = bits /\ off' = off
      \/ /\ pc'[t] = "map" /\ i \in 0 .. NBits - 1 /\ i \notin bits
         /\ bits' = bits \cup {i} /\ off' = [off EXCEPT ![c] = i]
  BY <1>6 DEF Goto, IInv, Typed
<1>10. Typed'
  <2>1. bits' \subseteq 0 .. NBits - 1 /\ off' \in [Cells -> 0 .. NBits - 1]
    BY <1>9 DEF IInv, Typed
  <2>2. Typed /\ op' = op /\ tblk' = tblk /\ UNCHANGED <<listed, ctxLive, ctxCnt>>
    BY <1>1 DEF IInv, ctx
  <2> QED BY <1>1, <1>8, <2>1, <2>2 DEF Typed
<1>11. CtxRefs' /\ InCall' /\ InBuffer' /\ Backed'
  BY <1>1, <1>7, <1>8, <1>10, HeldStep DEF HoldPcs
<1>12. InHand'
  BY <1>1, <1>7, <1>8 DEF IInv, InHand, Others, CellPcs
<1>13. CellRefs'
  <2>1. \A d : ShmHolders(d)' = ShmHolders(d)
    BY <1>1, <1>7, <1>8, HoldersSame
  <2>2. c \notin mapped
    BY <1>1, <1>2 DEF IInv, CellRefs
  <2> QED BY <1>1, <1>2, <1>8, <2>1, <2>2 DEF IInv, CellRefs, Others, Typed
<1>14. Positions'
  <2>1. \A d \in Cells \ {c} : OwnsBit(d)' = OwnsBit(d) /\ off'[d] = off[d]
    BY <1>1, <1>2, <1>8, <1>9 DEF OwnsBit, Others, IInv, Typed
  <2>2. ~OwnsBit(c)
    BY <1>1, <1>2 DEF OwnsBit
  <2>3. CASE pc'[t] = "fail" /\ bits' = bits /\ off' = off
    <3>1. ~OwnsBit(c)'
      BY <1>8, <2>3 DEF OwnsBit
    <3> QED BY <1>1, <2>1, <2>2, <2>3, <3>1 DEF IInv, Positions
  <2>4. CASE /\ pc'[t] = "map" /\ i \in 0 .. NBits - 1 /\ i \notin bits
             /\ bits' = bits \cup {i} /\ off' = [off EXCEPT ![c] = i]
    <3>1. off'[c] = i /\ OwnsBit(c)'
      BY <1>1, <1>3, <1>8, <2>4 DEF OwnsBit, Others, IInv, Typed, TakesBit
    <3>2. \A j \in bits' : \E d \in Cells : OwnsBit(d)' /\ off'[d] = j
      BY <2>1, <2>2, <2>4, <3>1 DEF IInv, Positions
    <3>3. ~stray' => \A d \in Cells : OwnsBit(d)' => off'[d] \in bits'
      BY <1>1, <2>1, <2>4, <3>1 DEF IInv, Positions
    <3>4. ~stray' => \A d, e \in Cells :
             OwnsBit(d)' /\ OwnsBit(e)' /\ off'[d] = off'[e] => d = e
      BY <1>1, <2>1, <2>4, <3>1 DEF IInv, Positions
    <3> QED BY <3>2, <3>3, <3>4 DEF Positions
  <2> QED BY <1>9, <2>3, <2>4
<1> QED BY <1>10, <1>11, <1>12, <1>13, <1>14 DEF IInv

\* mmap or malloc of the buffer.
LEMMA AllocateBufferIInv ==
    ASSUME IInv, NEW t \in Threads, AllocateBuffer(t), UNCHANGED stray
    PROVE  IInv'
<1>1. /\ pc[t] = "map" /\ op' = op /\ tblk' = tblk /\ tcell' = tcell
      /\ UNCHANGED <<ctx, bits, shmList, kind, off, scnt, bufOf, stray>>
  BY DEF AllocateBuffer, SameCall
<1>2. PICK c \in Cells : c = tcell[t] /\ c # Nil
  BY <1>1, OwnCell DEF IInv, InHand, CellPcs
<1>3. /\ c \notin shmList /\ kind[c] # "free"
      /\ \A u \in Threads \ {t} : tcell[u] # c
  BY <1>1, <1>2, OwnCell DEF CellPcs
<1>4. PICK loc \in {"insert", "unbit", "fail"} :
         /\ Goto(t, loc)
         /\ loc = "unbit" => kind[c] = "mapped"
         /\ loc = "fail" => kind[c] # "mapped" /\ kind[c] # "zeroSize"
         /\ addr' = addr \/ \E a \in Addrs \cup {ZeroPtr} : addr' = [addr EXCEPT ![c] = a]
         /\ mapped' = mapped \/ (mapped' = mapped \cup {c} /\ loc = "insert")
  <2>1. \/ /\ Goto(t, "insert")
           /\ \E a \in Addrs \cup {ZeroPtr} : addr' = [addr EXCEPT ![c] = a]
           /\ mapped' = mapped \/ mapped' = mapped \cup {c}
        \/ /\ Goto(t, "unbit") /\ kind[c] = "mapped"
           /\ addr' = addr /\ mapped' = mapped
        \/ /\ Goto(t, "fail") /\ kind[c] # "mapped" /\ kind[c] # "zeroSize"
           /\ addr' = addr /\ mapped' = mapped
    BY <1>2 DEF AllocateBuffer
  <2> QED BY <2>1
<1>5. /\ Others(t) /\ pc'[t] = loc /\ tcell'[t] = c
      /\ pc' \in [Threads -> Pcs] /\ tcell' \in [Threads -> Cells \cup {Nil}]
  BY <1>1, <1>2, <1>4, GotoLocals DEF IInv, Pcs, HoldPcs
<1>6. /\ addr' \in [Cells -> Buffers]
      /\ \A d \in Cells : addr'[d] # addr[d] => d = tcell[t] /\ pc[t] # "putShm"
  BY <1>1, <1>2, <1>4 DEF IInv, Typed, Buffers
<1>7. Typed'
  BY <1>1, <1>2, <1>4, <1>5, <1>6 DEF IInv, Typed, ctx
<1>8. CtxRefs' /\ InCall' /\ InBuffer' /\ Backed'
  BY <1>1, <1>5, <1>6, <1>7, HeldStep DEF HoldPcs
<1>9. InHand'
  BY <1>1, <1>2, <1>4, <1>5 DEF IInv, InHand, Others, CellPcs, TakesBit
<1>10. CellRefs'
  <2>1. \A d : ShmHolders(d)' = ShmHolders(d)
    BY <1>1, <1>5, HoldersSame
  <2>2. c \notin mapped
    BY <1>1, <1>2 DEF IInv, CellRefs
  <2>3. \A d \in mapped' : /\ kind'[d] # "free"
                           /\ \A u \in Threads : tcell'[u] = d =>
                                 pc'[u] \in {"insert", "publish", "putShm", "unmap"}
    BY <1>1, <1>2, <1>3, <1>4, <1>5, <2>2 DEF IInv, CellRefs, Others
  <2> QED BY <1>1, <1>2, <1>5, <2>1, <2>3 DEF IInv, CellRefs, Others, Typed
<1>11. Positions'
  <2>1. \A d \in Cells : OwnsBit(d)' = OwnsBit(d)
    BY <1>1, <1>2, <1>3, <1>4, <1>5 DEF OwnsBit, Others, TakesBit
  <2> QED BY <1>1, <2>1 DEF IInv, Positions
<1> QED BY <1>7, <1>8, <1>9, <1>10, <1>11 DEF IInv

\* A position is cleared together with the ownership of its cell: the others
\* keep theirs, and after a stray clearing nothing is claimed of them.
LEMMA PositionCleared ==
    ASSUME IInv, NEW c \in Cells, ~OwnsBit(c)',
           \A d \in Cells \ {c} : OwnsBit(d)' = OwnsBit(d) /\ off'[d] = off[d],
           \/ bits' = bits \ {off[c]}
           \/ bits' = bits /\ ~OwnsBit(c),
           ~stray' => ~stray /\ (OwnsBit(c) \/ bits' = bits \/ off[c] \notin bits)
    PROVE  Positions'
<1>1. \A i \in bits' : \E d \in Cells \ {c} : OwnsBit(d) /\ off[d] = i
  BY DEF IInv, Positions
<1>2. \A i \in bits' : \E d \in Cells : OwnsBit(d)' /\ off'[d] = i
  BY <1>1
<1>3. ASSUME ~stray', NEW d \in Cells, OwnsBit(d)'
      PROVE  off'[d] \in bits'
  <2>1. d # c /\ OwnsBit(d) /\ off'[d] = off[d] /\ off[d] \in bits
    BY <1>3 DEF IInv, Positions
  <2>2. CASE OwnsBit(c)
    BY <1>3, <2>1, <2>2 DEF IInv, Positions
  <2>3. CASE bits' = bits \/ off[c] \notin bits
    BY <2>1, <2>3
  <2> QED BY <1>3, <2>2, <2>3
<1>4. ~stray' => \A d, e \in Cells :
         OwnsBit(d)' /\ OwnsBit(e)' /\ off'[d] = off'[e] => d = e
  BY DEF IInv, Positions
<1> QED BY <1>2, <1>3, <1>4 DEF Positions

\* RelaseBufferAndClearBit after a failed mmap
LEMMA AllocateUndoBitIInv ==
    ASSUME IInv, NEW t \in Threads, AllocateUndoBit(t), UNCHANGED stray
    PROVE  IInv'
<1>1. /\ pc[t] = "unbit" /\ op' = op /\ tblk' = tblk /\ tcell' = tcell
      /\ UNCHANGED <<ctx, shmList, cell, mapped, bufOf, stray>>
      /\ Goto(t, "fail")
      /\ bits' = ClearBit(off[tcell[t]], NBits, bits)
  BY DEF AllocateUndoBit, SameCall
<1>2. PICK c \in Cells : c = tcell[t] /\ c # Nil
  BY <1>1, OwnCell DEF IInv, InHand, CellPcs
<1>3. /\ c \notin shmList /\ TakesBit(kind[c])
      /\ \A u \in Threads \ {t} : tcell[u] # c
  BY <1>1, <1>2, OwnCell DEF IInv, InHand, CellPcs
<1>4. /\ Others(t) /\ pc'[t] = "fail" /\ tcell'[t] = c
      /\ pc' \in [Threads -> Pcs] /\ tcell' \in [Threads -> Cells \cup {Nil}]
  BY <1>1, <1>2, GotoLocals DEF IInv, Pcs, HoldPcs
<1>5. bits' = bits \ {off[c]}
  BY <1>1, <1>2, SharedMemAssumption DEF ClearBit, IInv, Typed
<1>6. Typed'
  BY <1>1, <1>4, <1>5 DEF IInv, Typed, ctx, cell
<1>7. CtxRefs' /\ InCall' /\ InBuffer' /\ Backed'
  BY <1>1, <1>4, <1>6, HeldStep DEF HoldPcs, cell
<1>8. InHand'
  BY <1>1, <1>4 DEF IInv, InHand, Others, CellPcs, cell
<1>9. CellRefs'
  <2>1. \A d : ShmHolders(d)' = ShmHolders(d)
    BY <1>1, <1>4, HoldersSame
  <2>2. c \notin mapped
    BY <1>1, <1>2 DEF IInv, CellRefs
  <2> QED BY <1>1, <1>2, <1>4, <2>1, <2>2 DEF IInv, CellRefs, Others, Typed, cell
<1>10. Positions'
  <2>1. \A d \in Cells \ {c} : OwnsBit(d)' = OwnsBit(d) /\ off'[d] = off[d]
    BY <1>1, <1>2, <1>4 DEF OwnsBit, Others, cell
  <2>2. OwnsBit(c) /\ ~OwnsBit(c)'
    BY <1>1, <1>2, <1>3, <1>4 DEF OwnsBit
  <2> QED BY <1>1, <1>5, <2>1, <2>2, PositionCleared
<1> QED BY <1>6, <1>7, <1>8, <1>9, <1>10 DEF IInv

-----------------------------------------------------------------------------
(* Cells are freed, and lose references. *)

\* A thread frees the cell that is its own, and goes on without one.
LEMMA OwnFreed ==
    ASSUME IInv, NEW t \in Threads, Others(t), NEW c \in Cells, c = tcell[t],
           pc[t] \in {"get", "fail", "unmap", "clearBit"},
           pc'[t] \in {"putCtx", "idle"}, tcell'[t] = Nil, FreeCell(c),
           shmList' = shmList, mapped' = mapped \ {c}
    PROVE  /\ InHand' /\ CellRefs' /\ ~OwnsBit(c)'
           /\ \A d \in Cells \ {c} : OwnsBit(d)' = OwnsBit(d) /\ off'[d] = off[d]
           /\ \A d \in Cells : addr'[d] # addr[d] => d = c
           /\ kind' \in [Cells -> AllKinds \cup {"free"}]
           /\ off' \in [Cells -> 0 .. NBits - 1]
           /\ addr' \in [Cells -> Buffers]
           /\ scnt' \in [Cells -> Nat]
<1>1. c # Nil /\ \A d \in Cells : d # Nil
  BY SharedMemAssumption
<1>2. /\ c \notin shmList /\ \A u \in Threads \ {t} : tcell[u] # c
      /\ ShmHolders(c) = {}
  BY <1>1, OwnCell DEF CellPcs
<1>3. /\ kind' = [kind EXCEPT ![c] = "free"] /\ off' = [off EXCEPT ![c] = 0]
      /\ addr' = [addr EXCEPT ![c] = Nil] /\ scnt' = [scnt EXCEPT ![c] = 0]
  BY DEF FreeCell
<1>4. 0 \in 0 .. NBits - 1
  BY SharedMemAssumption
<1>5. /\ kind' \in [Cells -> AllKinds \cup {"free"}] /\ off' \in [Cells -> 0 .. NBits - 1]
      /\ addr' \in [Cells -> Buffers] /\ scnt' \in [Cells -> Nat]
  BY <1>3, <1>4 DEF IInv, Typed, Buffers
<1>6. /\ kind'[c] = "free" /\ scnt'[c] = 0
      /\ \A d \in Cells \ {c} : /\ kind'[d] = kind[d] /\ off'[d] = off[d]
                                /\ addr'[d] = addr[d] /\ scnt'[d] = scnt[d]
  BY <1>3 DEF IInv, Typed
<1>7. InHand'
  BY <1>2, <1>6 DEF IInv, InHand, Others, CellPcs, Typed
<1>8. CellRefs'
  <2>1. \A d : ShmHolders(d)' = ShmHolders(d)
    BY HoldersSame
  <2>2. \A d \in shmList' : kind'[d] # "free"
    BY <1>2, <1>6 DEF IInv, CellRefs, Typed
  <2>3. \A d \in Cells :
          /\ scnt'[d] = (IF d \in shmList' THEN 1 ELSE 0) + Cardinality(ShmHolders(d)')
          /\ kind'[d] # "free" => d \in shmList' \/ \E u \in Threads : tcell'[u] = d
    <3> TAKE d \in Cells
    <3>1. CASE d = c
      BY <3>1, <1>2, <1>6, <2>1, Empty
    <3>2. CASE d # c
      BY <3>2, <1>6, <2>1 DEF IInv, CellRefs, Others
    <3> QED BY <3>1, <3>2
  <2>4. \A d \in mapped' : /\ kind'[d] # "free"
                           /\ \A u \in Threads : tcell'[u] = d =>
                                 pc'[u] \in {"insert", "publish", "putShm", "unmap"}
    BY <1>1, <1>6 DEF IInv, CellRefs, Others, Typed
  <2> QED BY <2>2, <2>3, <2>4 DEF CellRefs
<1>9. ~OwnsBit(c)' /\ \A d \in Cells \ {c} : OwnsBit(d)' = OwnsBit(d)
  BY <1>1, <1>6 DEF OwnsBit, Others, TakesBit
<1> QED BY <1>5, <1>6, <1>7, <1>8, <1>9

\* The allocation failed: its object is freed.
LEMMA AllocateFailIInv ==
    ASSUME IInv, NEW t \in Threads, AllocateFail(t), UNCHANGED stray
    PROVE  IInv'
<1>1. /\ pc[t] = "fail" /\ op' = op /\ tblk' = tblk
      /\ tcell' = [tcell EXCEPT ![t] = Nil] /\ FreeCell(tcell[t])
      /\ UNCHANGED <<ctx, bits, shmList, mapped, bufOf, stray>>
      /\ Goto(t, "putCtx")
  BY DEF AllocateFail
<1>2. PICK c \in Cells : c = tcell[t]
  BY <1>1, OwnCell DEF IInv, InHand, CellPcs
<1>3. /\ Others(t) /\ pc'[t] = "putCtx" /\ tcell'[t] = Nil
      /\ pc' \in [Threads -> Pcs] /\ tcell' \in [Threads -> Cells \cup {Nil}]
  BY <1>1, GotoLocals DEF IInv, Pcs, HoldPcs, Typed
<1>4. mapped' = mapped \ {c}
  BY <1>1, <1>2 DEF IInv, CellRefs
<1>5. /\ InHand' /\ CellRefs' /\ ~OwnsBit(c)'
      /\ \A d \in Cells \ {c} : OwnsBit(d)' = OwnsBit(d) /\ off'[d] = off[d]
      /\ \A d \in Cells : addr'[d] # addr[d] => d = c
      /\ kind' \in [Cells -> AllKinds \cup {"free"}]
      /\ off' \in [Cells -> 0 .. NBits - 1]
      /\ addr' \in [Cells -> Buffers]
      /\ scnt' \in [Cells -> Nat]
  BY <1>1, <1>2, <1>3, <1>4, OwnFreed
<1>6. Typed'
  BY <1>1, <1>3, <1>5 DEF IInv, Typed, ctx
<1>7. CtxRefs' /\ InCall' /\ InBuffer' /\ Backed'
  BY <1>1, <1>2, <1>3, <1>5, <1>6, HeldStep DEF HoldPcs
<1>8. ~OwnsBit(c)
  BY <1>1, <1>2 DEF OwnsBit
<1>9. Positions'
  BY <1>1, <1>5, <1>8, PositionCleared
<1> QED BY <1>5, <1>6, <1>7, <1>9 DEF IInv

\* ReleaseSharedMemory: the buffer, ...
LEMMA ReleaseBufferIInv ==
    ASSUME IInv, NEW t \in Threads, ReleaseBuffer(t), UNCHANGED stray
    PROVE  IInv'
<1>1. /\ pc[t] = "unmap" /\ op' = op /\ tblk' = tblk
      /\ mapped' = mapped \ {tcell[t]}
      /\ UNCHANGED <<ctx, bits, shmList, bufOf, stray>>
  BY DEF ReleaseBuffer
<1>2. PICK c \in Cells : c = tcell[t] /\ c # Nil
  BY <1>1, OwnCell DEF IInv, InHand, CellPcs
<1>3. CASE kind[c] = "registered"
  <2>1. /\ FreeCell(c) /\ tcell' = [tcell EXCEPT ![t] = Nil] /\ Goto(t, "putCtx")
    BY <1>2, <1>3 DEF ReleaseBuffer
  <2>2. /\ Others(t) /\ pc'[t] = "putCtx" /\ tcell'[t] = Nil
        /\ pc' \in [Threads -> Pcs] /\ tcell' \in [Threads -> Cells \cup {Nil}]
    BY <1>1, <2>1, GotoLocals DEF IInv, Pcs, HoldPcs, Typed
  <2>3. /\ InHand' /\ CellRefs' /\ ~OwnsBit(c)'
        /\ \A d \in Cells \ {c} : OwnsBit(d)' = OwnsBit(d) /\ off'[d] = off[d]
        /\ \A d \in Cells : addr'[d] # addr[d] => d = c
        /\ kind' \in [Cells -> AllKinds \cup {"free"}]
        /\ off' \in [Cells -> 0 .. NBits - 1]
        /\ addr' \in [Cells -> Buffers]
        /\ scnt' \in [Cells -> Nat]
    BY <1>1, <1>2, <2>1, <2>2, OwnFreed
  <2>4. Typed'
    BY <1>1, <2>2, <2>3 DEF IInv, Typed, ctx
  <2>5. CtxRefs' /\ InCall' /\ InBuffer' /\ Backed'
    BY <1>1, <1>2, <2>2, <2>3, <2>4, HeldStep DEF HoldPcs
  <2>6. ~OwnsBit(c)
    BY <1>3 DEF OwnsBit, TakesBit
  <2>7. Positions'
    BY <1>1, <2>3, <2>6, PositionCleared
  <2> QED BY <2>3, <2>4, <2>5, <2>7 DEF IInv
<1>4. CASE kind[c] # "registered"
  <2>1. UNCHANGED cell /\ tcell' = tcell /\ Goto(t, "clearBit")
    BY <1>2, <1>4 DEF ReleaseBuffer
  <2>2. /\ Others(t) /\ pc'[t] = "clearBit" /\ tcell'[t] = c
        /\ pc' \in [Threads -> Pcs] /\ tcell' \in [Threads -> Cells \cup {Nil}]
    BY <1>1, <1>2, <2>1, GotoLocals DEF IInv, Pcs, HoldPcs
  <2>3. Typed'
    BY <1>1, <2>1, <2>2 DEF IInv, Typed, ctx, cell
  <2>4. CtxRefs' /\ InCall' /\ InBuffer' /\ Backed'
    BY <1>1, <1>2, <2>1, <2>2, <2>3, HeldStep DEF HoldPcs, cell
  <2>5. InHand'
    BY <1>1, <2>1, <2>2 DEF IInv, InHand, Others, CellPcs, cell
  <2>6. CellRefs'
    <3>1. \A d : ShmHolders(d)' = ShmHolders(d)
      BY <1>1, <2>2, HoldersSame
    <3> QED BY <1>1, <1>2, <2>1, <2>2, <3>1 DEF IInv, CellRefs, Others, Typed, cell
  <2>7. Positions'
    <3>1. \A d \in Cells : OwnsBit(d)' = OwnsBit(d)
      BY <1>1, <1>2, <2>1, <2>2 DEF OwnsBit, Others, cell
    <3> QED BY <1>1, <2>1, <3>1 DEF IInv, Positions, cell
  <2> QED BY <2>3, <2>4, <2>5, <2>6, <2>7 DEF IInv
<1> QED BY <1>3, <1>4

\* ... and the bit at its offset.
LEMMA ReleaseClearBitIInv ==
    ASSUME IInv, NEW t \in Threads, ReleaseClearBit(t)
    PROVE  IInv'
<1>1. /\ pc[t] = "clearBit" /\ op' = op /\ tblk' = tblk
      /\ tcell' = [tcell EXCEPT ![t] = Nil] /\ FreeCell(tcell[t])
      /\ ClearBitOf(tcell[t]) /\ Goto(t, "putCtx")
      /\ UNCHANGED <<ctx, shmList, mapped, bufOf>>
  BY DEF ReleaseClearBit
<1>2. PICK c \in Cells : c = tcell[t] /\ c # Nil
  BY <1>1, OwnCell DEF IInv, InHand, CellPcs
<1>3. /\ Others(t) /\ pc'[t] = "putCtx" /\ tcell'[t] = Nil
      /\ pc' \in [Threads -> Pcs] /\ tcell' \in [Threads -> Cells \cup {Nil}]
  BY <1>1, GotoLocals DEF IInv, Pcs, HoldPcs, Typed
<1>4. mapped' = mapped \ {c}
  BY <1>1, <1>2 DEF IInv, CellRefs
<1>5. /\ InHand' /\ CellRefs' /\ ~OwnsBit(c)'
      /\ \A d \in Cells \ {c} : OwnsBit(d)' = OwnsBit(d) /\ off'[d] = off[d]
      /\ \A d \in Cells : addr'[d] # addr[d] => d = c
      /\ kind' \in [Cells -> AllKinds \cup {"free"}]
      /\ off' \in [Cells -> 0 .. NBits - 1]
      /\ addr' \in [Cells -> Buffers]
      /\ scnt' \in [Cells -> Nat]
  BY <1>1, <1>2, <1>3, <1>4, OwnFreed
<1>6. /\ bits' = bits \ {off[c]} /\ off[c] \in 0 .. NBits - 1
      /\ stray' = (stray \/ (~TakesBit(kind[c]) /\ off[c] \in bits))
  BY <1>1, <1>2, SharedMemAssumption DEF ClearBitOf, ClearBit, IInv, Typed
<1>7. Typed'
  <2>1. stray' \in BOOLEAN
    BY <1>6
  <2> QED BY <1>1, <1>3, <1>5, <1>6, <2>1 DEF IInv, Typed, ctx
<1>8. CtxRefs' /\ InCall' /\ InBuffer' /\ Backed'
  BY <1>1, <1>2, <1>3, <1>5, <1>7, HeldStep DEF HoldPcs
<1>9. OwnsBit(c) <=> TakesBit(kind[c])
  BY <1>1, <1>2, OwnCell DEF OwnsBit, CellPcs
<1>10. Positions'
  BY <1>5, <1>6, <1>9, PositionCleared
<1> QED BY <1>5, <1>7, <1>8, <1>10 DEF IInv

\* Blocks stay backed at an address where as many blocks and publications as
\* cells are lost, or a publication becomes a block.
LEMMA BackedAt ==
    ASSUME IInv, Typed', listed \/ CtxHolders # {}, NEW a \in Addrs \cup {ZeroPtr},
           \/ /\ BlocksAt(a)' \subseteq BlocksAt(a)
              /\ PublishingAt(a)' \subseteq PublishingAt(a)
              /\ ListedAt(a) \subseteq ListedAt(a)'
           \/ \E c, t : /\ BlocksAt(a)' \subseteq BlocksAt(a)
                        /\ PublishingAt(a)' \subseteq PublishingAt(a) \cup {t}
                        /\ t \notin PublishingAt(a)
                        /\ ListedAt(a)' = ListedAt(a) \cup {c} /\ c \notin ListedAt(a)
           \/ \E b, t : /\ BlocksAt(a)' \subseteq BlocksAt(a) \cup {b}
                        /\ b \notin BlocksAt(a)
                        /\ PublishingAt(a)' = PublishingAt(a) \ {t} /\ t \in PublishingAt(a)
                        /\ ListedAt(a)' = ListedAt(a)
           \/ \E c, b : /\ BlocksAt(a)' = BlocksAt(a) \ {b} /\ b \in BlocksAt(a)
                        /\ PublishingAt(a)' \subseteq PublishingAt(a)
                        /\ ListedAt(a)' = ListedAt(a) \ {c} /\ c \in ListedAt(a)
    PROVE  Cardinality(BlocksAt(a)') + Cardinality(PublishingAt(a)')
              <= Cardinality(ListedAt(a)')
<1>1. PICK B, P, L : B = BlocksAt(a) /\ P = PublishingAt(a) /\ L = ListedAt(a)
  OBVIOUS
<1>2. PICK B2, P2, L2 : B2 = BlocksAt(a)' /\ P2 = PublishingAt(a)' /\ L2 = ListedAt(a)'
  OBVIOUS
<1>3. Finite(B) /\ Finite(P) /\ Finite(L)
  BY <1>1, Countable DEF IInv, Counted
<1>4. Finite(B2) /\ Finite(P2) /\ Finite(L2)
  BY <1>2, CountableNext DEF Counted, Finite
<1>5. Cardinality(B) + Cardinality(P) <= Cardinality(L)
  BY <1>1 DEF IInv, Backed
<1>6. CASE B2 \subseteq B /\ P2 \subseteq P /\ L \subseteq L2
  <2>1. /\ Cardinality(B2) <= Cardinality(B) /\ Cardinality(P2) <= Cardinality(P)
        /\ Cardinality(L) <= Cardinality(L2)
    BY <1>3, <1>4, <1>6, NotMore
  <2> QED BY <1>2, <1>3, <1>4, <1>5, <2>1 DEF Finite
<1>7. ASSUME NEW c, NEW t, B2 \subseteq B, P2 \subseteq P \cup {t}, t \notin P,
             L2 = L \cup {c}, c \notin L
      PROVE  Cardinality(B2) + Cardinality(P2) <= Cardinality(L2)
  <2>1. /\ Finite(P \cup {t}) /\ Cardinality(P \cup {t}) = Cardinality(P) + 1
        /\ Cardinality(L2) = Cardinality(L) + 1
    BY <1>3, <1>7, OneMore
  <2>2. Cardinality(B2) <= Cardinality(B) /\ Cardinality(P2) <= Cardinality(P \cup {t})
    BY <1>3, <1>7, <2>1, NotMore
  <2> QED BY <1>3, <1>4, <1>5, <2>1, <2>2 DEF Finite
<1>8. ASSUME NEW b, NEW t, B2 \subseteq B \cup {b}, b \notin B, P2 = P \ {t}, t \in P, L2 = L
      PROVE  Cardinality(B2) + Cardinality(P2) <= Cardinality(L2)
  <2>1. Finite(B \cup {b}) /\ Cardinality(B \cup {b}) = Cardinality(B) + 1
    BY <1>3, <1>8, OneMore
  <2>2. Cardinality(P2) = Cardinality(P) - 1
    BY <1>3, <1>8, OneLess
  <2>3. Cardinality(B2) <= Cardinality(B \cup {b})
    BY <1>8, <2>1, NotMore
  <2> QED BY <1>3, <1>4, <1>5, <1>8, <2>1, <2>2, <2>3 DEF Finite
<1>9. ASSUME NEW c, NEW b, B2 = B \ {b}, b \in B, P2 \subseteq P, L2 = L \ {c}, c \in L
      PROVE  Cardinality(B2) + Cardinality(P2) <= Cardinality(L2)
  <2>1. Cardinality(B2) = Cardinality(B) - 1 /\ Cardinality(L2) = Cardinality(L) - 1
    BY <1>3, <1>9, OneLess
  <2>2. Cardinality(P2) <= Cardinality(P)
    BY <1>3, <1>9, NotMore
  <2> QED BY <1>3, <1>4, <1>5, <2>1, <2>2 DEF Finite
<1> QED BY <1>1, <1>2, <1>6, <1>7, <1>8, <1>9

\* The block goes into the list, with a reference for the list and one for the
\* call.
LEMMA InsertShrMemIInv ==
    ASSUME IInv, NEW t \in Threads, InsertShrMem(t), UNCHANGED stray
    PROVE  IInv'
<1>1. /\ pc[t] = "insert" /\ op' = op /\ tblk' = tblk /\ tcell' = tcell
      /\ Goto(t, "publish")
      /\ UNCHANGED <<ctx, bits, kind, off, addr, mapped, bufOf, stray>>
  BY DEF InsertShrMem, SameCall
<1>2. PICK c \in Cells : c = tcell[t] /\ c # Nil
  BY <1>1, OwnCell DEF IInv, InHand, CellPcs
<1>3. /\ c \notin shmList /\ kind[c] # "free"
      /\ \A u \in Threads \ {t} : tcell[u] # c
      /\ ShmHolders(c) = {}
  BY <1>1, <1>2, OwnCell DEF CellPcs
<1>4. shmList' = shmList \cup {c} /\ scnt' = [scnt EXCEPT ![c] = 2]
  BY <1>2 DEF InsertShrMem
<1>5. /\ Others(t) /\ pc'[t] = "publish" /\ tcell'[t] = c
      /\ pc' \in [Threads -> Pcs] /\ tcell' \in [Threads -> Cells \cup {Nil}]
  BY <1>1, <1>2, GotoLocals DEF IInv, Pcs, HoldPcs
<1>6. Typed'
  BY <1>1, <1>4, <1>5 DEF IInv, Typed, ctx
<1>7. CtxRefs' /\ CtxHolders # {}
  BY <1>1, <1>5, CtxKept DEF HoldPcs
<1>8. InCall' /\ InBuffer'
  BY <1>1, <1>5 DEF IInv, InCall, InBuffer, Others
<1>9. InHand'
  BY <1>1, <1>2, <1>3, <1>4, <1>5 DEF IInv, InHand, Others, CellPcs
<1>10. CellRefs'
  <2>1. \A d \in Cells \ {c} : ShmHolders(d)' = ShmHolders(d)
    BY <1>1, <1>2, <1>5 DEF ShmHolders, Others
  <2>2. Cardinality(ShmHolders(c)') = 1
    <3>1. ShmHolders(c)' = {} \cup {t}
      BY <1>3, <1>5 DEF ShmHolders, Others
    <3> QED BY <3>1, Empty, OneMore
  <2>3. scnt'[c] = 2 /\ \A d \in Cells \ {c} : scnt'[d] = scnt[d]
    BY <1>4 DEF IInv, Typed
  <2>4. \A d \in Cells :
          /\ scnt'[d] = (IF d \in shmList' THEN 1 ELSE 0) + Cardinality(ShmHolders(d)')
          /\ kind'[d] # "free" => d \in shmList' \/ \E u \in Threads : tcell'[u] = d
    <3> TAKE d \in Cells
    <3>1. CASE d = c
      BY <3>1, <1>4, <2>2, <2>3
    <3>2. CASE d # c
      BY <3>2, <1>1, <1>4, <2>1, <2>3 DEF IInv, CellRefs
    <3> QED BY <3>1, <3>2
  <2>5. \A d \in shmList' : kind'[d] # "free"
    BY <1>1, <1>3, <1>4 DEF IInv, CellRefs
  <2>6. \A d \in mapped' : /\ kind'[d] # "free"
                           /\ \A u \in Threads : tcell'[u] = d =>
                                 pc'[u] \in {"insert", "publish", "putShm", "unmap"}
    BY <1>1, <1>5 DEF IInv, CellRefs, Others
  <2> QED BY <2>4, <2>5, <2>6 DEF CellRefs
<1>11. Positions'
  <2>1. \A d \in Cells : OwnsBit(d)' = OwnsBit(d)
    BY <1>1, <1>2, <1>5 DEF OwnsBit, Others
  <2> QED BY <1>1, <2>1 DEF IInv, Positions
<1>12. Backed'
  <2>1. SUFFICES ASSUME NEW a \in Addrs \cup {ZeroPtr}
                 PROVE  Cardinality(BlocksAt(a)') + Cardinality(PublishingAt(a)')
                           <= Cardinality(ListedAt(a)')
    BY DEF Backed
  <2>2. BlocksAt(a)' = BlocksAt(a)
    BY <1>1, <1>5 DEF BlocksAt, Others
  <2>3. CASE addr[c] = a
    <3>1. ListedAt(a)' = ListedAt(a) \cup {c} /\ c \notin ListedAt(a)
      BY <1>1, <1>3, <1>4, <2>3 DEF ListedAt
    <3>2. PublishingAt(a)' \subseteq PublishingAt(a) \cup {t} /\ t \notin PublishingAt(a)
      BY <1>1, <1>5 DEF PublishingAt, Others
    <3> QED BY <1>6, <1>7, <2>2, <3>1, <3>2, BackedAt
  <2>4. CASE addr[c] # a
    <3>1. ListedAt(a)' = ListedAt(a)
      BY <1>1, <1>4, <2>4 DEF ListedAt
    <3>2. PublishingAt(a)' \subseteq PublishingAt(a)
      BY <1>1, <1>5, <2>4 DEF PublishingAt, Others
    <3> QED BY <1>6, <1>7, <2>2, <3>1, <3>2, BackedAt
  <2> QED BY <2>3, <2>4
<1> QED BY <1>6, <1>7, <1>8, <1>9, <1>10, <1>11, <1>12 DEF IInv

\* No address that a block can be given is a buffer of the client's own.
LEMMA AddrsApart == \A a \in Addrs \cup {ZeroPtr} : a # Nil /\ a \notin ClientBufs
  BY SharedMemAssumption

\* The client's structure gets the buffer.
LEMMA PublishBufferIInv ==
    ASSUME IInv, NEW t \in Threads, PublishBuffer(t), UNCHANGED stray
    PROVE  IInv'
<1>1. /\ pc[t] = "publish" /\ op' = op /\ tblk' = tblk /\ tcell' = tcell
      /\ Goto(t, "putShm")
      /\ UNCHANGED <<ctx, bits, shmList, cell, mapped, stray>>
  BY DEF PublishBuffer, SameCall
<1>2. PICK c \in Cells : c = tcell[t] /\ c # Nil
  BY <1>1 DEF IInv, InHand, CellPcs, Typed
<1>3. PICK b \in Blocks : b = tblk[t] /\ b # Nil
  BY <1>1, SharedMemAssumption DEF IInv, InCall
<1>4. bufOf' = [bufOf EXCEPT ![b] = addr[c]]
  BY <1>2, <1>3 DEF PublishBuffer
<1>5. \A u \in Threads \ {t} : tblk[u] # b
  BY <1>3 DEF IInv, InCall
<1>6. /\ Others(t) /\ pc'[t] = "putShm" /\ tcell'[t] = c
      /\ pc' \in [Threads -> Pcs] /\ tcell' \in [Threads -> Cells \cup {Nil}]
  BY <1>1, <1>2, GotoLocals DEF IInv, Pcs, HoldPcs
<1>7. Typed'
  BY <1>1, <1>4, <1>6 DEF IInv, Typed, ctx, cell
<1>8. CtxRefs' /\ CtxHolders # {}
  BY <1>1, <1>6, CtxKept DEF HoldPcs
<1>9. InCall'
  BY <1>1, <1>6 DEF IInv, InCall, Others
<1>10. bufOf'[b] = addr[c] /\ \A d \in Blocks \ {b} : bufOf'[d] = bufOf[d]
  BY <1>4 DEF IInv, Typed
<1>11. InBuffer'
  <2>1. \A u \in Threads \ {t} : op[u] \in {"allocate", "register", "release", "use"} =>
           bufOf'[tblk[u]] = bufOf[tblk[u]]
    BY <1>5, <1>10 DEF IInv, InCall
  <2>2. op[t] \in {"allocate", "register"}
    BY <1>1 DEF IInv, InCall
  <2>3. op[t] = "register" => bufOf'[tblk[t]] \in ClientBufs
    BY <1>1, <1>2, <1>3, <1>10 DEF IInv, InBuffer
  <2> QED BY <1>1, <1>6, <2>1, <2>2, <2>3 DEF IInv, InBuffer, Others, cell
<1>12. InHand'
  BY <1>1, <1>6 DEF IInv, InHand, Others, CellPcs, cell
<1>13. CellRefs'
  <2>1. \A d : ShmHolders(d)' = ShmHolders(d)
    BY <1>1, <1>6 DEF ShmHolders, Others
  <2> QED BY <1>1, <1>6, <2>1 DEF IInv, CellRefs, Others, Typed, cell
<1>14. Positions'
  <2>1. \A d \in Cells : OwnsBit(d)' = OwnsBit(d)
    BY <1>1, <1>6 DEF OwnsBit, Others, cell
  <2> QED BY <1>1, <2>1 DEF IInv, Positions, cell
<1>15. Backed'
  <2>1. SUFFICES ASSUME NEW a \in Addrs \cup {ZeroPtr}
                 PROVE  Cardinality(BlocksAt(a)') + Cardinality(PublishingAt(a)')
                           <= Cardinality(ListedAt(a)')
    BY DEF Backed
  <2>2. ListedAt(a)' = ListedAt(a)
    BY <1>1 DEF ListedAt, cell
  <2>3. CASE addr[c] = a
    <3>1. bufOf[b] = Nil
      <4>1. op[t] # "register"
        BY <1>1, <1>2, <2>3, AddrsApart DEF IInv, InBuffer
      <4> QED BY <1>1, <1>3, <4>1 DEF IInv, InCall, InBuffer
    <3>2. BlocksAt(a)' \subseteq BlocksAt(a) \cup {b} /\ b \notin BlocksAt(a)
      BY <1>1, <1>6, <1>10, <3>1, AddrsApart DEF BlocksAt, Others
    <3>3. PublishingAt(a)' = PublishingAt(a) \ {t} /\ t \in PublishingAt(a)
      BY <1>1, <1>2, <1>6, <2>3 DEF PublishingAt, Others, cell
    <3> QED BY <1>7, <1>8, <2>2, <3>2, <3>3, BackedAt
  <2>4. CASE addr[c] # a
    <3>1. BlocksAt(a)' \subseteq BlocksAt(a)
      BY <1>1, <1>6, <1>10, <2>4 DEF BlocksAt, Others
    <3>2. PublishingAt(a)' \subseteq PublishingAt(a)
      BY <1>1, <1>6 DEF PublishingAt, Others, cell
    <3> QED BY <1>7, <1>8, <2>2, <3>1, <3>2, BackedAt
  <2> QED BY <2>3, <2>4
<1> QED BY <1>7, <1>8, <1>9, <1>11, <1>12, <1>13, <1>14, <1>15 DEF IInv

\* TEEC_FindAndRemoveShrMemHidl: the list's reference passes to the thread.
LEMMA FindAndRemoveShrMemIInv ==
    ASSUME IInv, NEW t \in Threads, FindAndRemoveShrMem(t), UNCHANGED stray
    PROVE  IInv'
<1>1. /\ pc[t] = "remove" /\ op' = op /\ tblk' = tblk
      /\ UNCHANGED <<ctx, bits, cell, mapped, bufOf, stray>>
  BY DEF FindAndRemoveShrMem
<1>2. PICK b \in Blocks : b = tblk[t] /\ b # Nil
  BY <1>1, SharedMemAssumption DEF IInv, InCall
<1>3. /\ op[t] = "release" /\ tcell[t] = Nil
      /\ \A u \in Threads \ {t} : tblk[u] # b
  BY <1>1, <1>2 DEF IInv, InCall, InHand
<1>4. CASE UNCHANGED <<shmList, tcell>> /\ Goto(t, "putCtx")
  <2>1. /\ Others(t) /\ pc'[t] = "putCtx" /\ tcell'[t] = Nil
        /\ pc' \in [Threads -> Pcs] /\ tcell' \in [Threads -> Cells \cup {Nil}]
    BY <1>1, <1>3, <1>4, GotoLocals DEF IInv, Pcs, HoldPcs
  <2>2. Typed'
    BY <1>1, <1>4, <2>1 DEF IInv, Typed, ctx, cell
  <2>3. InHand' /\ CellRefs' /\ Positions'
    BY <1>1, <1>3, <1>4, <2>1, CellsStill DEF CellPcs
  <2>4. CtxRefs' /\ InCall' /\ InBuffer' /\ Backed'
    BY <1>1, <1>4, <2>1, <2>2, HeldStep DEF HoldPcs, cell
  <2> QED BY <2>2, <2>3, <2>4 DEF IInv
<1>5. ASSUME NEW c \in shmList, addr[c] = bufOf[b], shmList' = shmList \ {c},
             tcell' = [tcell EXCEPT ![t] = c], Goto(t, "putShm")
      PROVE  IInv'
  <2>1. c \in Cells /\ c # Nil /\ kind[c] # "free"
    BY SharedMemAssumption DEF IInv, Typed, CellRefs
  <2>2. /\ Others(t) /\ pc'[t] = "putShm" /\ tcell'[t] = c
        /\ pc' \in [Threads -> Pcs] /\ tcell' \in [Threads -> Cells \cup {Nil}]
    BY <1>1, <1>5, <2>1, GotoLocals DEF IInv, Pcs, HoldPcs, Typed
  <2>3. Typed'
    BY <1>1, <1>5, <2>2 DEF IInv, Typed, ctx, cell
  <2>4. CtxRefs' /\ CtxHolders # {}
    BY <1>1, <2>2, CtxKept DEF HoldPcs
  <2>5. InCall' /\ InBuffer'
    BY <1>1, <1>3, <2>2 DEF IInv, InCall, InBuffer, Others, cell
  <2>6. InHand'
    BY <1>1, <1>5, <2>1, <2>2 DEF IInv, InHand, Others, CellPcs, cell
  <2>7. CellRefs'
    <3>1. \A d \in Cells \ {c} : ShmHolders(d)' = ShmHolders(d)
      BY <1>1, <1>3, <2>2 DEF ShmHolders, Others
    <3>2. Cardinality(ShmHolders(c)') = Cardinality(ShmHolders(c)) + 1
      <4>1. ShmHolders(c)' = ShmHolders(c) \cup {t} /\ t \notin ShmHolders(c)
        BY <1>1, <2>2 DEF ShmHolders, Others
      <4> QED BY <4>1, OneMore, Countable DEF IInv, Counted
    <3>3. \A d \in Cells :
            /\ scnt'[d] = (IF d \in shmList' THEN 1 ELSE 0) + Cardinality(ShmHolders(d)')
            /\ kind'[d] # "free" => d \in shmList' \/ \E u \in Threads : tcell'[u] = d
      <4> TAKE d \in Cells
      <4>1. CASE d = c
        <5>1. Cardinality(ShmHolders(c)) \in Nat
          BY Countable DEF IInv, Counted, Finite
        <5>2. scnt[c] = 1 + Cardinality(ShmHolders(c))
          BY <2>1 DEF IInv, CellRefs
        <5> QED BY <4>1, <5>1, <5>2, <1>1, <1>5, <2>2, <3>2 DEF cell
      <4>2. CASE d # c
        BY <4>2, <1>1, <1>3, <1>5, <2>2, <3>1, SharedMemAssumption
           DEF IInv, CellRefs, Others, cell
      <4> QED BY <4>1, <4>2
    <3>4. \A d \in shmList' : kind'[d] # "free"
      BY <1>1, <1>5 DEF IInv, CellRefs, cell
    <3>5. \A d \in mapped' : /\ kind'[d] # "free"
                             /\ \A u \in Threads : tcell'[u] = d =>
                                   pc'[u] \in {"insert", "publish", "putShm", "unmap"}
      BY <1>1, <2>2 DEF IInv, CellRefs, Others, cell
    <3> QED BY <3>3, <3>4, <3>5 DEF CellRefs
  <2>8. Positions'
    <3>1. \A d \in Cells : OwnsBit(d)' = OwnsBit(d)
      BY <1>1, <1>3, <2>2, SharedMemAssumption DEF OwnsBit, Others, cell
    <3> QED BY <1>1, <3>1 DEF IInv, Positions, cell
  <2>9. Backed'
    <3>1. SUFFICES ASSUME NEW a \in Addrs \cup {ZeroPtr}
                   PROVE  Cardinality(BlocksAt(a)') + Cardinality(PublishingAt(a)')
                             <= Cardinality(ListedAt(a)')
      BY DEF Backed
    <3>2. PublishingAt(a)' \subseteq PublishingAt(a)
      BY <1>1, <2>2 DEF PublishingAt, Others, cell
    <3>3. CASE addr[c] = a
      <4>1. BlocksAt(a)' = BlocksAt(a) \ {b} /\ b \in BlocksAt(a)
        BY <1>1, <1>2, <1>3, <1>5, <2>2, <3>3 DEF BlocksAt, Others
      <4>2. ListedAt(a)' = ListedAt(a) \ {c} /\ c \in ListedAt(a)
        BY <1>1, <1>5, <3>3 DEF ListedAt, cell
      <4> QED BY <2>3, <2>4, <3>2, <4>1, <4>2, BackedAt
    <3>4. CASE addr[c] # a
      <4>1. BlocksAt(a)' \subseteq BlocksAt(a)
        BY <1>1, <1>2, <2>2 DEF BlocksAt, Others
      <4>2. ListedAt(a) \subseteq ListedAt(a)'
        BY <1>1, <1>5, <3>4 DEF ListedAt, cell
      <4> QED BY <2>3, <2>4, <3>2, <4>1, <4>2, BackedAt
    <3> QED BY <3>3, <3>4
  <2> QED BY <2>3, <2>4, <2>5, <2>6, <2>7, <2>8, <2>9 DEF IInv
<1> QED BY <1>2, <1>4, <1>5 DEF FindAndRemoveShrMem, SameBuffer

\* PutBnShrMem: a reference less, and with the last one the cell is the
\* thread's own.
LEMMA PutBnShrMemIInv ==
    ASSUME IInv, NEW t \in Threads, PutBnShrMem(t), UNCHANGED stray
    PROVE  IInv'
<1>1. /\ pc[t] = "putShm" /\ op' = op /\ tblk' = tblk
      /\ UNCHANGED <<ctx, bits, shmList, kind, off, addr, mapped, bufOf, stray>>
  BY DEF PutBnShrMem
<1>2. PICK c \in Cells : c = tcell[t] /\ c # Nil
  BY <1>1 DEF IInv, InHand, CellPcs, Typed
<1>3. PICK n : n = Cardinality(ShmHolders(c)) - 1
  OBVIOUS
<1>4. /\ n \in Nat /\ Finite(ShmHolders(c) \ {t}) /\ Cardinality(ShmHolders(c) \ {t}) = n
      /\ Finite(ShmHolders(c)) /\ t \in ShmHolders(c)
  <2>1. t \in ShmHolders(c) /\ Finite(ShmHolders(c))
    BY <1>1, <1>2, Countable DEF IInv, Counted, ShmHolders
  <2> QED BY <1>3, <2>1, OneLess DEF Finite
<1>5. /\ scnt[c] = (IF c \in shmList THEN 1 ELSE 0) + n + 1
      /\ kind[c] # "free"
  <2>1. scnt[c] = (IF c \in shmList THEN 1 ELSE 0) + Cardinality(ShmHolders(c))
    BY DEF IInv, CellRefs
  <2>2. Cardinality(ShmHolders(c)) = n + 1
    BY <1>3, <1>4 DEF Finite
  <2>3. kind[c] # "free"
    BY <1>2 DEF IInv, InHand
  <2> QED BY <1>4, <2>1, <2>2, <2>3
<1>6. /\ scnt'[c] = (IF c \in shmList THEN 1 ELSE 0) + n
      /\ scnt' \in [Cells -> Nat]
      /\ \A d \in Cells \ {c} : scnt'[d] = scnt[d]
  <2>1. scnt' = [scnt EXCEPT ![c] = scnt[c] - 1]
    BY <1>2 DEF PutBnShrMem
  <2>2. scnt[c] - 1 = (IF c \in shmList THEN 1 ELSE 0) + n /\ scnt[c] - 1 \in Nat
    BY <1>4, <1>5
  <2> QED BY <2>1, <2>2 DEF IInv, Typed
<1>7. PICK loc \in {"unmap", "putCtx"} :
         /\ Goto(t, loc)
         /\ loc = "unmap" => scnt[c] = 1 /\ tcell' = tcell
         /\ loc = "putCtx" => scnt[c] # 1 /\ tcell' = [tcell EXCEPT ![t] = Nil]
  <2>1. CASE scnt[c] = 1
    BY <1>2, <2>1 DEF PutBnShrMem
  <2>2. CASE scnt[c] # 1
    BY <1>2, <2>2 DEF PutBnShrMem
  <2> QED BY <2>1, <2>2
<1>8. /\ Others(t) /\ pc'[t] = loc
      /\ pc' \in [Threads -> Pcs] /\ tcell' \in [Threads -> Cells \cup {Nil}]
  BY <1>1, <1>7, GotoLocals DEF IInv, Pcs, HoldPcs, Typed
<1>9. /\ loc = "unmap" => tcell'[t] = c /\ n = 0 /\ c \notin shmList
      /\ loc = "putCtx" => tcell'[t] = Nil /\ (c \in shmList \/ n > 0)
  BY <1>2, <1>4, <1>5, <1>7 DEF IInv, Typed
<1>10. Typed'
  BY <1>1, <1>6, <1>8 DEF IInv, Typed, ctx
<1>11. CtxRefs' /\ InCall' /\ InBuffer' /\ Backed'
  BY <1>1, <1>8, <1>10, HeldStep DEF HoldPcs
<1>12. n = 0 => \A u \in Threads \ {t} : tcell[u] # c \/ pc[u] \notin {"publish", "putShm"}
  <2>1. n = 0 => ShmHolders(c) \ {t} = {}
    BY <1>4, Empty
  <2> QED BY <2>1 DEF ShmHolders
<1>13. InHand'
  <2>1. n = 0 => \A u \in Threads \ {t} : tcell[u] # c
    BY <1>2, <1>12 DEF IInv, InHand
  <2> QED BY <1>1, <1>2, <1>5, <1>8, <1>9, <2>1 DEF IInv, InHand, Others, CellPcs
<1>14. CellRefs'
  <2>1. \A d \in Cells \ {c} : ShmHolders(d)' = ShmHolders(d)
    BY <1>2, <1>8, <1>9, SharedMemAssumption DEF ShmHolders, Others
  <2>2. ShmHolders(c)' = ShmHolders(c) \ {t}
    BY <1>8 DEF ShmHolders, Others
  <2>3. \A d \in Cells :
          scnt'[d] = (IF d \in shmList' THEN 1 ELSE 0) + Cardinality(ShmHolders(d)')
    <3> TAKE d \in Cells
    <3>1. CASE d = c
      BY <3>1, <1>1, <1>4, <1>6, <2>2
    <3>2. CASE d # c
      BY <3>2, <1>1, <1>6, <2>1 DEF IInv, CellRefs
    <3> QED BY <3>1, <3>2
  <2>4. \A d \in Cells : kind'[d] # "free" =>
           d \in shmList' \/ \E u \in Threads : tcell'[u] = d
    <3> TAKE d \in Cells
    <3>1. CASE d = c /\ loc = "putCtx" /\ c \notin shmList
      <4>1. ShmHolders(c) \ {t} # {}
        BY <1>4, <1>9, <3>1, Empty
      <4> QED BY <1>8, <3>1, <4>1 DEF ShmHolders, Others
    <3>2. CASE d = c /\ (loc = "unmap" \/ c \in shmList)
      BY <1>1, <1>9, <3>2
    <3>3. CASE d # c
      BY <3>3, <1>1, <1>2, <1>8 DEF IInv, CellRefs, Others
    <3> QED BY <3>1, <3>2, <3>3
  <2>5. \A d \in shmList' : kind'[d] # "free"
    BY <1>1 DEF IInv, CellRefs
  <2>6. \A d \in mapped' : /\ kind'[d] # "free"
                           /\ \A u \in Threads : tcell'[u] = d =>
                                 pc'[u] \in {"insert", "publish", "putShm", "unmap"}
    BY <1>1, <1>2, <1>8, <1>9, SharedMemAssumption DEF IInv, CellRefs, Others, Typed
  <2> QED BY <2>3, <2>4, <2>5, <2>6 DEF CellRefs
<1>15. Positions'
  <2>1. \A d \in Cells : OwnsBit(d)' = OwnsBit(d)
    BY <1>1, <1>2, <1>8, <1>9, SharedMemAssumption DEF OwnsBit, Others
  <2> QED BY <1>1, <2>1 DEF IInv, Positions
<1> QED BY <1>10, <1>11, <1>13, <1>14, <1>15 DEF IInv

-----------------------------------------------------------------------------
(* The client's calls. *)

\* A call begins.
LEMMA CallLocals ==
    ASSUME IInv, NEW t \in Threads, NEW o \in Ops, NEW b \in Blocks \cup {Nil},
           NEW c \in Cells \cup {Nil}, NEW loc \in Pcs, Call(t, o, b, c, loc)
    PROVE  /\ Others(t) /\ pc[t] = "idle" /\ pc'[t] = loc
           /\ op[t] = "none" /\ tblk[t] = Nil /\ tcell[t] = Nil
           /\ op'[t] = o /\ tblk'[t] = b /\ tcell'[t] = c
           /\ pc' \in [Threads -> Pcs] /\ op' \in [Threads -> Ops]
           /\ tblk' \in [Threads -> Blocks \cup {Nil}]
           /\ tcell' \in [Threads -> Cells \cup {Nil}]
  BY DEF Call, IInv, InCall, Typed, Others

\* A call that works on a block does not touch the context yet.
LEMMA CallBegins ==
    ASSUME IInv, NEW t \in Threads, Others(t), UNCHANGED <<ctx, shmList>>,
           pc[t] = "idle", pc'[t] = "get", tblk'[t] \in Blocks, Free(tblk'[t]),
           op'[t] \in {"allocate", "register", "release", "use"}
    PROVE  CtxRefs' /\ InCall' /\ CtxHolders' = CtxHolders
<1>1. CtxHolders' = CtxHolders
  BY DEF CtxHolders, Others, HoldPcs
<1>2. CtxRefs'
  BY <1>1 DEF IInv, CtxRefs, Others, ctx
<1>3. InCall'
  BY DEF IInv, InCall, Others, Free
<1> QED BY <1>1, <1>2, <1>3

\* If nobody has the context, nothing is to be backed.
LEMMA BackedIdle ==
    ASSUME IInv, Typed', listed' = listed, CtxHolders' = CtxHolders,
           \A a \in Addrs \cup {ZeroPtr} :
              /\ BlocksAt(a)' \subseteq BlocksAt(a)
              /\ PublishingAt(a)' \subseteq PublishingAt(a)
              /\ ListedAt(a) \subseteq ListedAt(a)'
    PROVE  Backed'
<1>1. CASE listed \/ CtxHolders # {}
  BY <1>1, StillBacked
<1>2. CASE ~(listed \/ CtxHolders # {})
  BY <1>2 DEF Backed
<1> QED BY <1>1, <1>2

\* A cell is taken from the heap for a block.
LEMMA NewCell ==
    ASSUME IInv, NEW t \in Threads, Others(t), NEW c \in Cells, NEW k \in AllKinds,
           kind[c] = "free", kind' = [kind EXCEPT ![c] = k],
           pc[t] = "idle", pc'[t] = "get", tcell[t] = Nil, tcell'[t] = c,
           op'[t] \in {"allocate", "register"}, op'[t] = "register" => k = "registered",
           UNCHANGED <<bits, shmList, off, scnt, mapped, stray>>
    PROVE  /\ InHand' /\ CellRefs' /\ Positions'
           /\ c \notin shmList /\ \A u \in Threads : tcell[u] # c
           /\ kind' \in [Cells -> AllKinds \cup {"free"}]
<1>1. c # Nil /\ \A d \in Cells : d # Nil
  BY SharedMemAssumption
<1>2. /\ c \notin shmList /\ c \notin mapped
      /\ \A u \in Threads : tcell[u] # c
  BY <1>1 DEF IInv, InHand, CellRefs
<1>3. /\ kind' \in [Cells -> AllKinds \cup {"free"}]
      /\ kind'[c] = k /\ k # "free" /\ \A d \in Cells \ {c} : kind'[d] = kind[d]
  BY DEF IInv, Typed, AllKinds
<1>4. InHand'
  BY <1>1, <1>2, <1>3 DEF IInv, InHand, Others, CellPcs, Typed
<1>5. CellRefs'
  <2>1. \A d : ShmHolders(d)' = ShmHolders(d)
    BY HoldersSame
  <2>2. \A d \in Cells :
          /\ scnt'[d] = (IF d \in shmList' THEN 1 ELSE 0) + Cardinality(ShmHolders(d)')
          /\ kind'[d] # "free" => d \in shmList' \/ \E u \in Threads : tcell'[u] = d
    <3>1. \A d \in Cells :
            scnt'[d] = (IF d \in shmList' THEN 1 ELSE 0) + Cardinality(ShmHolders(d)')
      BY <2>1 DEF IInv, CellRefs
    <3>2. \A d \in Cells : kind'[d] # "free" =>
             d \in shmList' \/ \E u \in Threads : tcell'[u] = d
      BY <1>1, <1>3 DEF IInv, CellRefs, Others
    <3> QED BY <3>1, <3>2
  <2>3. \A d \in shmList' : kind'[d] # "free"
    BY <1>2, <1>3 DEF IInv, CellRefs, Typed
  <2>4. \A d \in mapped' : /\ kind'[d] # "free"
                           /\ \A u \in Threads : tcell'[u] = d =>
                                 pc'[u] \in {"insert", "publish", "putShm", "unmap"}
    BY <1>2, <1>3 DEF IInv, CellRefs, Others, Typed
  <2> QED BY <2>2, <2>3, <2>4 DEF CellRefs
<1>6. Positions'
  <2>1. ~OwnsBit(c) /\ ~OwnsBit(c)'
    BY DEF OwnsBit, TakesBit
  <2>2. \A d \in Cells \ {c} : OwnsBit(d)' = OwnsBit(d)
    BY <1>1, <1>3 DEF OwnsBit, Others
  <2> QED BY <2>1, <2>2 DEF IInv, Positions
<1> QED BY <1>2, <1>3, <1>4, <1>5, <1>6

\* TEEC_AllocateSharedMemory
LEMMA AllocateSharedMemoryIInv ==
    ASSUME IInv, NEW t \in Threads, NEW b \in Blocks, NEW k \in Kinds,
           AllocateSharedMemory(t, b, k), UNCHANGED stray
    PROVE  IInv'
<1>1. /\ bufOf[b] = Nil /\ Free(b)
      /\ UNCHANGED <<ctx, bits, shmList, off, addr, scnt, mapped, bufOf, stray>>
  BY DEF AllocateSharedMemory
<1>2. PICK c \in Cells : /\ kind[c] = "free" /\ kind' = [kind EXCEPT ![c] = k]
                         /\ Call(t, "allocate", b, c, "get")
  BY DEF AllocateSharedMemory
<1>3. /\ Others(t) /\ pc[t] = "idle" /\ pc'[t] = "get"
      /\ op[t] = "none" /\ tblk[t] = Nil /\ tcell[t] = Nil
      /\ op'[t] = "allocate" /\ tblk'[t] = b /\ tcell'[t] = c
      /\ pc' \in [Threads -> Pcs] /\ op' \in [Threads -> Ops]
      /\ tblk' \in [Threads -> Blocks \cup {Nil}]
      /\ tcell' \in [Threads -> Cells \cup {Nil}]
  BY <1>2, CallLocals DEF Ops, Pcs
<1>4. k \in AllKinds
  BY SharedMemAssumption
<1>5. /\ InHand' /\ CellRefs' /\ Positions'
      /\ c \notin shmList /\ \A u \in Threads : tcell[u] # c
      /\ kind' \in [Cells -> AllKinds \cup {"free"}]
  BY <1>1, <1>2, <1>3, <1>4, NewCell
<1>6. Typed'
  BY <1>1, <1>3, <1>5 DEF IInv, Typed, ctx
<1>7. CtxRefs' /\ InCall' /\ CtxHolders' = CtxHolders
  BY <1>1, <1>3, CallBegins
<1>8. InBuffer'
  BY <1>1, <1>3 DEF IInv, InBuffer, Others
<1>9. \A a \in Addrs \cup {ZeroPtr} :
         /\ BlocksAt(a)' \subseteq BlocksAt(a)
         /\ PublishingAt(a)' \subseteq PublishingAt(a)
         /\ ListedAt(a) \subseteq ListedAt(a)'
  BY <1>1, <1>3 DEF BlocksAt, PublishingAt, ListedAt, Others
<1>10. Backed'
  BY <1>1, <1>6, <1>7, <1>9, BackedIdle DEF ctx
<1> QED BY <1>5, <1>6, <1>7, <1>8, <1>10 DEF IInv

\* TEEC_RegisterSharedMemory
LEMMA RegisterSharedMemoryIInv ==
    ASSUME IInv, NEW t \in Threads, NEW b \in Blocks, NEW a \in ClientBufs,
           RegisterSharedMemory(t, b, a), UNCHANGED stray
    PROVE  IInv'
<1>1. /\ bufOf[b] = Nil /\ Free(b) /\ bufOf' = [bufOf EXCEPT ![b] = a]
      /\ UNCHANGED <<ctx, bits, shmList, off, scnt, mapped, stray>>
  BY DEF RegisterSharedMemory
<1>2. PICK c \in Cells : /\ kind[c] = "free" /\ kind' = [kind EXCEPT ![c] = "registered"]
                         /\ addr' = [addr EXCEPT ![c] = a]
                         /\ Call(t, "register", b, c, "get")
  BY DEF RegisterSharedMemory
<1>3. /\ Others(t) /\ pc[t] = "idle" /\ pc'[t] = "get"
      /\ op[t] = "none" /\ tblk[t] = Nil /\ tcell[t] = Nil
      /\ op'[t] = "register" /\ tblk'[t] = b /\ tcell'[t] = c
      /\ pc' \in [Threads -> Pcs] /\ op' \in [Threads -> Ops]
      /\ tblk' \in [Threads -> Blocks \cup {Nil}]
      /\ tcell' \in [Threads -> Cells \cup {Nil}]
  BY <1>2, CallLocals DEF Ops, Pcs
<1>4. /\ InHand' /\ CellRefs' /\ Positions'
      /\ c \notin shmList /\ \A u \in Threads : tcell[u] # c
      /\ kind' \in [Cells -> AllKinds \cup {"free"}]
  BY <1>1, <1>2, <1>3, NewCell DEF AllKinds
<1>5. /\ bufOf' \in [Blocks -> Buffers] /\ addr' \in [Cells -> Buffers]
      /\ bufOf'[b] = a /\ \A e \in Blocks \ {b} : bufOf'[e] = bufOf[e]
      /\ addr'[c] = a /\ \A d \in Cells \ {c} : addr'[d] = addr[d]
  BY <1>1, <1>2 DEF IInv, Typed, Buffers
<1>6. Typed'
  BY <1>1, <1>3, <1>4, <1>5 DEF IInv, Typed, ctx
<1>7. CtxRefs' /\ InCall' /\ CtxHolders' = CtxHolders
  BY <1>1, <1>3, CallBegins
<1>8. InBuffer'
  <2>1. \A u \in Threads \ {t} : op[u] \in {"allocate", "register", "release", "use"} =>
           bufOf'[tblk[u]] = bufOf[tblk[u]]
    BY <1>1, <1>5 DEF IInv, InCall, Free
  <2>2. \A u \in Threads : pc[u] \in {"get", "insert", "publish"} /\ op[u] = "register" =>
           addr'[tcell[u]] = addr[tcell[u]]
    BY <1>4, <1>5 DEF IInv, InHand, CellPcs, Typed
  <2> QED BY <1>3, <1>5, <2>1, <2>2 DEF IInv, InBuffer, Others
<1>9. ASSUME NEW x \in Addrs \cup {ZeroPtr}
      PROVE  /\ BlocksAt(x)' \subseteq BlocksAt(x)
             /\ PublishingAt(x)' \subseteq PublishingAt(x)
             /\ ListedAt(x) \subseteq ListedAt(x)'
  <2>1. BlocksAt(x)' \subseteq BlocksAt(x)
    BY <1>3, <1>5, AddrsApart DEF BlocksAt, Others
  <2>2. PublishingAt(x)' \subseteq PublishingAt(x)
    <3>1. \A u \in Threads : pc[u] = "publish" => tcell[u] \in Cells
      BY DEF IInv, InHand, CellPcs, Typed
    <3> QED BY <1>3, <1>4, <1>5, <3>1 DEF PublishingAt, Others
  <2>3. ListedAt(x) \subseteq ListedAt(x)'
    BY <1>1, <1>4, <1>5 DEF ListedAt, IInv, Typed
  <2> QED BY <2>1, <2>2, <2>3
<1>10. Backed'
  BY <1>1, <1>6, <1>7, <1>9, BackedIdle DEF ctx
<1> QED BY <1>4, <1>6, <1>7, <1>8, <1>10 DEF IInv

\* TEEC_ReleaseSharedMemory, and an invocation with a reference to the block.
LEMMA UseIInv ==
    ASSUME IInv, NEW t \in Threads, NEW b \in Blocks,
           ReleaseSharedMemory(t, b) \/ InvokeWithMemref(t, b), UNCHANGED stray
    PROVE  IInv'
<1>1. /\ bufOf[b] # Nil /\ Free(b)
      /\ UNCHANGED <<ctx, bits, shmList, cell, mapped, bufOf, stray>>
  BY DEF ReleaseSharedMemory, InvokeWithMemref
<1>2. PICK o \in {"release", "use"} : Call(t, o, b, Nil, "get")
  BY DEF ReleaseSharedMemory, InvokeWithMemref
<1>3. /\ Others(t) /\ pc[t] = "idle" /\ pc'[t] = "get"
      /\ op[t] = "none" /\ tblk[t] = Nil /\ tcell[t] = Nil
      /\ op'[t] = o /\ tblk'[t] = b /\ tcell'[t] = Nil
      /\ pc' \in [Threads -> Pcs] /\ op' \in [Threads -> Ops]
      /\ tblk' \in [Threads -> Blocks \cup {Nil}]
      /\ tcell' \in [Threads -> Cells \cup {Nil}]
  BY <1>2, CallLocals DEF Ops, Pcs
<1>4. tcell' = tcell
  BY <1>3 DEF Others, IInv, Typed
<1>5. InHand' /\ CellRefs' /\ Positions'
  BY <1>1, <1>3, <1>4, CellsStill DEF CellPcs
<1>6. Typed'
  BY <1>1, <1>3 DEF IInv, Typed, ctx, cell
<1>7. CtxRefs' /\ InCall' /\ CtxHolders' = CtxHolders
  BY <1>1, <1>3, CallBegins
<1>8. InBuffer'
  BY <1>1, <1>3 DEF IInv, InBuffer, Others, cell
<1>9. \A a \in Addrs \cup {ZeroPtr} :
         /\ BlocksAt(a)' \subseteq BlocksAt(a)
         /\ PublishingAt(a)' \subseteq PublishingAt(a)
         /\ ListedAt(a) \subseteq ListedAt(a)'
  BY <1>1, <1>3 DEF BlocksAt, PublishingAt, ListedAt, Others, cell
<1>10. Backed'
  BY <1>1, <1>6, <1>7, <1>9, BackedIdle DEF ctx
<1> QED BY <1>5, <1>6, <1>7, <1>8, <1>10 DEF IInv

-----------------------------------------------------------------------------
(* References to the context. *)

\* A thread that comes into its call counts, and while the context is listed
\* nobody drains it.
LEMMA CtxEntered ==
    ASSUME IInv, NEW t \in Threads, Others(t), listed,
           pc[t] \in {"idle", "get"}, pc'[t] \in HoldPcs, ctxLive' = ctxLive,
           \/ listed' = listed /\ ctxCnt' = ctxCnt + 1
           \/ listed' = FALSE /\ ctxCnt' = ctxCnt
    PROVE  CtxRefs'
<1>1. CtxHolders' = CtxHolders \cup {t} /\ t \notin CtxHolders
  BY DEF CtxHolders, Others, HoldPcs
<1>2. Cardinality(CtxHolders') = Cardinality(CtxHolders) + 1
  BY <1>1, OneMore, Countable DEF IInv, Counted
<1>3. ctxLive /\ listed \in BOOLEAN
  BY DEF IInv, CtxRefs, Typed
<1>4. \A u \in Threads : pc'[u] # "drain"
  BY DEF IInv, CtxRefs, Others, HoldPcs
<1>5. ctxCnt = 1 + Cardinality(CtxHolders) /\ Cardinality(CtxHolders) \in Nat
  BY Countable DEF IInv, CtxRefs, Counted, Finite
<1>6. ctxCnt' = (IF listed' THEN 1 ELSE 0) + Cardinality(CtxHolders')
  <2>1. CASE listed' = listed /\ ctxCnt' = ctxCnt + 1
    <3>1. listed'
      BY <2>1
    <3> QED BY <1>2, <1>5, <2>1, <3>1
  <2>2. CASE listed' = FALSE /\ ctxCnt' = ctxCnt
    <3>1. ~listed'
      BY <2>2
    <3> QED BY <1>2, <1>5, <2>2, <3>1
  <2> QED BY <2>1, <2>2
<1> QED BY <1>3, <1>4, <1>6 DEF CtxRefs

\* A call returns.
LEMMA LeaveLocals ==
    ASSUME IInv, NEW t \in Threads, Leave(t)
    PROVE  /\ Others(t) /\ pc'[t] = "idle"
           /\ op'[t] = "none" /\ tblk'[t] = Nil /\ tcell'[t] = Nil
           /\ pc' \in [Threads -> Pcs] /\ op' \in [Threads -> Ops]
           /\ tblk' \in [Threads -> Blocks \cup {Nil}]
           /\ tcell' \in [Threads -> Cells \cup {Nil}]
           /\ bufOf' \in [Blocks -> Buffers]
           /\ \A e \in Blocks : e # tblk[t] \/ op[t] # "release" => bufOf'[e] = bufOf[e]
           /\ op[t] = "release" => bufOf'[tblk[t]] = Nil
<1>1. /\ Others(t) /\ pc'[t] = "idle"
      /\ op'[t] = "none" /\ tblk'[t] = Nil /\ tcell'[t] = Nil
      /\ pc' \in [Threads -> Pcs] /\ op' \in [Threads -> Ops]
      /\ tblk' \in [Threads -> Blocks \cup {Nil}]
      /\ tcell' \in [Threads -> Cells \cup {Nil}]
  BY DEF Leave, IInv, Typed, Others, Pcs, HoldPcs, Ops
<1>2. CASE op[t] = "release"
  <2>1. tblk[t] \in Blocks /\ bufOf' = [bufOf EXCEPT ![tblk[t]] = Nil]
    BY <1>2 DEF Leave, IInv, InCall
  <2> QED BY <1>1, <1>2, <2>1 DEF IInv, Typed, Buffers
<1>3. CASE op[t] # "release"
  <2>1. bufOf' = bufOf
    BY <1>3 DEF Leave
  <2> QED BY <1>1, <1>3, <2>1 DEF IInv, Typed
<1> QED BY <1>2, <1>3

\* It leaves the others' calls, the client's structures and what backs them
\* alone, but for the structure of the block it has released.
LEMMA CallEnds ==
    ASSUME IInv, NEW t \in Threads, Leave(t), shmList' = shmList,
           \A d \in Cells : addr'[d] # addr[d] =>
              d \notin shmList /\ \A u \in Threads \ {t} : tcell[u] # d
    PROVE  /\ InCall' /\ InBuffer'
           /\ \A a \in Addrs \cup {ZeroPtr} :
                 /\ BlocksAt(a)' \subseteq BlocksAt(a)
                 /\ PublishingAt(a)' \subseteq PublishingAt(a)
                 /\ ListedAt(a) \subseteq ListedAt(a)'
<1>1. /\ Others(t) /\ pc'[t] = "idle"
      /\ op'[t] = "none" /\ tblk'[t] = Nil /\ tcell'[t] = Nil
      /\ \A e \in Blocks : e # tblk[t] \/ op[t] # "release" => bufOf'[e] = bufOf[e]
      /\ op[t] = "release" => bufOf'[tblk[t]] = Nil
  BY LeaveLocals
<1>2. InCall'
  BY <1>1 DEF IInv, InCall, Others
<1>3. InBuffer'
  <2>1. \A u \in Threads \ {t} : op[u] \in {"allocate", "register", "release", "use"} =>
           bufOf'[tblk[u]] = bufOf[tblk[u]]
    <3>1. Nil \notin Blocks
      BY SharedMemAssumption
    <3> QED BY <1>1, <3>1 DEF IInv, InCall
  <2>2. \A u \in Threads \ {t} :
           pc[u] \in {"get", "insert", "publish"} /\ op[u] = "register" =>
              addr'[tcell[u]] = addr[tcell[u]]
    BY DEF IInv, InHand, CellPcs, Typed
  <2> QED BY <1>1, <2>1, <2>2 DEF IInv, InBuffer, Others
<1>4. ASSUME NEW a \in Addrs \cup {ZeroPtr}
      PROVE  /\ BlocksAt(a)' \subseteq BlocksAt(a)
             /\ PublishingAt(a)' \subseteq PublishingAt(a)
             /\ ListedAt(a) \subseteq ListedAt(a)'
  <2>1. BlocksAt(a)' \subseteq BlocksAt(a)
    BY <1>1, AddrsApart DEF BlocksAt, Others
  <2>2. PublishingAt(a)' \subseteq PublishingAt(a)
    <3>1. \A u \in Threads : pc[u] = "publish" => tcell[u] \in Cells
      BY DEF IInv, InHand, CellPcs, Typed
    <3> QED BY <1>1, <3>1 DEF PublishingAt, Others
  <2>3. ListedAt(a) \subseteq ListedAt(a)'
    BY DEF ListedAt, IInv, Typed
  <2> QED BY <2>1, <2>2, <2>3
<1> QED BY <1>2, <1>3, <1>4

\* GetBnContext
LEMMA GetContextIInv ==
    ASSUME IInv, NEW t \in Threads, GetContext(t), UNCHANGED stray
    PROVE  IInv'
<1>1. /\ pc[t] = "get"
      /\ UNCHANGED <<listed, ctxLive, bits, shmList, mapped, stray>>
  BY DEF GetContext
<1>2. CASE listed
  <2>1. /\ ctxCnt' = ctxCnt + 1 /\ UNCHANGED <<cell, bufOf>>
        /\ op' = op /\ tblk' = tblk /\ tcell' = tcell
    BY <1>2 DEF GetContext, CtxInc, SameCall
  <2>2. PICK loc \in {"insert", "remove", "check", "bit", "map"} :
           /\ Goto(t, loc)
           /\ \/ op[t] = "register" /\ loc = "insert"
              \/ op[t] = "release" /\ loc = "remove"
              \/ op[t] = "use" /\ loc = "check"
              \/ op[t] = "allocate" /\ loc = "bit" /\ TakesBit(kind[tcell[t]])
              \/ op[t] = "allocate" /\ loc = "map" /\ ~TakesBit(kind[tcell[t]])
    <3>1. CASE op[t] = "register"
      <4>1. Goto(t, "insert")
        BY <1>2, <3>1 DEF GetContext, Goto
      <4> QED BY <3>1, <4>1
    <3>2. CASE op[t] = "release"
      <4>1. Goto(t, "remove")
        BY <1>2, <3>2 DEF GetContext, Goto
      <4> QED BY <3>2, <4>1
    <3>3. CASE op[t] = "use"
      <4>1. Goto(t, "check")
        BY <1>2, <3>3 DEF GetContext, Goto
      <4> QED BY <3>3, <4>1
    <3>4. CASE op[t] = "allocate"
      <4>1. CASE TakesBit(kind[tcell[t]])
        <5>1. Goto(t, "bit")
          BY <1>2, <3>4, <4>1 DEF GetContext, Goto
        <5> QED BY <3>4, <4>1, <5>1
      <4>2. CASE ~TakesBit(kind[tcell[t]])
        <5>1. Goto(t, "map")
          BY <1>2, <3>4, <4>2 DEF GetContext, Goto
        <5> QED BY <3>4, <4>2, <5>1
      <4> QED BY <4>1, <4>2
    <3> QED BY <1>1, <3>1, <3>2, <3>3, <3>4 DEF IInv, InCall
  <2>3. /\ Others(t) /\ pc'[t] = loc
        /\ pc' \in [Threads -> Pcs] /\ tcell' \in [Threads -> Cells \cup {Nil}]
    BY <2>1, <2>2, GotoLocals DEF IInv, Pcs, HoldPcs
  <2>4. Typed'
    <3>1. ctxCnt' \in Nat
      BY <2>1 DEF IInv, Typed
    <3> QED BY <1>1, <2>1, <2>3, <3>1 DEF IInv, Typed, cell
  <2>5. CtxRefs'
    BY <1>1, <1>2, <2>1, <2>3, CtxEntered DEF HoldPcs
  <2>6. InCall'
    BY <1>1, <2>1, <2>2, <2>3 DEF IInv, InCall, Others
  <2>7. InBuffer'
    BY <1>1, <2>1, <2>2, <2>3 DEF IInv, InBuffer, Others, cell
  <2>8. InHand'
    BY <1>1, <2>1, <2>2, <2>3 DEF IInv, InHand, Others, CellPcs, cell
  <2>9. CellRefs'
    <3>1. \A d : ShmHolders(d)' = ShmHolders(d)
      BY <1>1, <2>3, HoldersSame
    <3>2. \A d \in mapped : tcell[t] # d
      BY <1>1 DEF IInv, CellRefs
    <3> QED BY <1>1, <2>1, <2>3, <3>1, <3>2 DEF IInv, CellRefs, Others, Typed, cell
  <2>10. Positions'
    <3>1. \A d \in Cells : OwnsBit(d)' = OwnsBit(d)
      <4>1. CASE tcell[t] = Nil
        BY <2>1, <2>3, <4>1, SharedMemAssumption DEF OwnsBit, Others, cell
      <4>2. CASE tcell[t] # Nil
        <5>1. op[t] \in {"allocate", "register"}
          BY <1>1, <4>2 DEF IInv, InHand
        <5>2. op[t] = "register" => ~TakesBit(kind[tcell[t]])
          BY <1>1 DEF IInv, InHand, TakesBit
        <5>3. ~TakesBit(kind[tcell[t]]) \/ pc'[t] = "bit"
          BY <2>2, <2>3, <5>1, <5>2
        <5>4. \A d \in Cells : tcell[t] = d => ~OwnsBit(d) /\ ~OwnsBit(d)'
          BY <1>1, <2>1, <5>3 DEF OwnsBit, cell
        <5> QED BY <2>1, <2>3, <5>4 DEF OwnsBit, Others, cell
      <4> QED BY <4>1, <4>2
    <3> QED BY <1>1, <2>1, <3>1 DEF IInv, Positions, cell
  <2>11. Backed'
    <3>1. ASSUME NEW a \in Addrs \cup {ZeroPtr}
          PROVE  /\ BlocksAt(a)' \subseteq BlocksAt(a)
                 /\ PublishingAt(a)' \subseteq PublishingAt(a)
                 /\ ListedAt(a) \subseteq ListedAt(a)'
      BY <1>1, <2>1, <2>3 DEF BlocksAt, PublishingAt, ListedAt, Others, cell
    <3> QED BY <1>2, <2>4, <3>1, StillBacked
  <2> QED BY <2>4, <2>5, <2>6, <2>7, <2>8, <2>9, <2>10, <2>11 DEF IInv
<1>3. CASE ~listed
  <2>1. /\ ctxCnt' = ctxCnt /\ Leave(t)
        /\ IF tcell[t] # Nil THEN FreeCell(tcell[t]) ELSE UNCHANGED cell
    BY <1>3 DEF GetContext
  <2>2. /\ Others(t) /\ pc'[t] = "idle"
        /\ op'[t] = "none" /\ tblk'[t] = Nil /\ tcell'[t] = Nil
        /\ pc' \in [Threads -> Pcs] /\ op' \in [Threads -> Ops]
        /\ tblk' \in [Threads -> Blocks \cup {Nil}]
        /\ tcell' \in [Threads -> Cells \cup {Nil}]
        /\ bufOf' \in [Blocks -> Buffers]
    BY <2>1, LeaveLocals
  <2>3. /\ InHand' /\ CellRefs' /\ Positions'
        /\ \A d \in Cells : addr'[d] # addr[d] =>
              d \notin shmList /\ \A u \in Threads \ {t} : tcell[u] # d
        /\ kind' \in [Cells -> AllKinds \cup {"free"}]
        /\ off' \in [Cells -> 0 .. NBits - 1]
        /\ addr' \in [Cells -> Buffers]
        /\ scnt' \in [Cells -> Nat]
    <3>1. CASE tcell[t] # Nil
      <4>1. PICK c \in Cells : c = tcell[t]
        BY <3>1 DEF IInv, Typed
      <4>2. /\ FreeCell(c) /\ mapped' = mapped \ {c} /\ ~OwnsBit(c)
        BY <1>1, <2>1, <3>1, <4>1 DEF IInv, CellRefs, OwnsBit
      <4>3. /\ InHand' /\ CellRefs' /\ ~OwnsBit(c)'
            /\ \A d \in Cells \ {c} : OwnsBit(d)' = OwnsBit(d) /\ off'[d] = off[d]
            /\ \A d \in Cells : addr'[d] # addr[d] => d = c
            /\ kind' \in [Cells -> AllKinds \cup {"free"}]
            /\ off' \in [Cells -> 0 .. NBits - 1]
            /\ addr' \in [Cells -> Buffers]
            /\ scnt' \in [Cells -> Nat]
        BY <1>1, <2>2, <4>1, <4>2, OwnFreed
      <4>4. Positions'
        BY <1>1, <4>2, <4>3, PositionCleared
      <4>5. c \notin shmList /\ \A u \in Threads \ {t} : tcell[u] # c
        BY <1>1, <3>1, <4>1, OwnCell
      <4> QED BY <4>3, <4>4, <4>5
    <3>2. CASE tcell[t] = Nil
      <4>1. UNCHANGED cell /\ tcell' = tcell
        BY <2>1, <2>2, <3>2 DEF Others, IInv, Typed
      <4>2. InHand' /\ CellRefs' /\ Positions'
        BY <1>1, <2>2, <3>2, <4>1, CellsStill DEF CellPcs
      <4> QED BY <4>1, <4>2 DEF IInv, Typed, cell
    <3> QED BY <3>1, <3>2
  <2>4. Typed'
    BY <1>1, <2>1, <2>2, <2>3 DEF IInv, Typed
  <2>5. /\ InCall' /\ InBuffer'
        /\ \A a \in Addrs \cup {ZeroPtr} :
              /\ BlocksAt(a)' \subseteq BlocksAt(a)
              /\ PublishingAt(a)' \subseteq PublishingAt(a)
              /\ ListedAt(a) \subseteq ListedAt(a)'
    BY <1>1, <2>1, <2>3, CallEnds
  <2>6. CtxHolders' = CtxHolders
    BY <1>1, <2>2 DEF CtxHolders, Others, HoldPcs
  <2>7. CtxRefs'
    BY <1>1, <2>1, <2>2, <2>6 DEF IInv, CtxRefs, Others
  <2>8. Backed'
    BY <1>1, <2>4, <2>5, <2>6, BackedIdle
  <2> QED BY <2>3, <2>4, <2>5, <2>7, <2>8 DEF IInv
<1> QED BY <1>2, <1>3

\* PutBnContext: the thread returns, or drains the context that it has alone.
LEMMA PutContextIInv ==
    ASSUME IInv, NEW t \in Threads, PutContext(t), UNCHANGED stray
    PROVE  IInv'
<1>1. /\ pc[t] = "putCtx" /\ ctxCnt' = ctxCnt - 1
      /\ UNCHANGED <<listed, ctxLive, bits, shmList, cell, mapped, stray>>
  BY DEF PutContext
<1>2. /\ tcell[t] = Nil /\ ctxLive /\ t \in CtxHolders
      /\ \A u \in Threads : pc[u] # "drain"
  BY <1>1 DEF IInv, InHand, CtxRefs, CtxHolders, HoldPcs
<1>3. /\ Finite(CtxHolders) /\ Finite(CtxHolders \ {t})
      /\ Cardinality(CtxHolders \ {t}) = Cardinality(CtxHolders) - 1
  BY <1>2, OneLess, Countable DEF IInv, Counted
<1>4. /\ ctxCnt' = (IF listed THEN 1 ELSE 0) + Cardinality(CtxHolders \ {t})
      /\ ctxCnt' \in Nat /\ ctxCnt = ctxCnt' + 1
  <2>1. ctxCnt = (IF listed THEN 1 ELSE 0) + Cardinality(CtxHolders)
    BY DEF IInv, CtxRefs
  <2> QED BY <1>1, <1>3, <2>1 DEF Finite
<1>5. CASE ctxCnt = 1
  <2>1. Goto(t, "drain") /\ bufOf' = bufOf /\ op' = op /\ tblk' = tblk /\ tcell' = tcell
    BY <1>5 DEF PutContext, SameCall
  <2>2. /\ Others(t) /\ pc'[t] = "drain"
        /\ pc' \in [Threads -> Pcs] /\ tcell' \in [Threads -> Cells \cup {Nil}]
    BY <2>1, GotoLocals DEF IInv, Pcs
  <2>3. CtxHolders' = CtxHolders \ {t}
    BY <2>2 DEF CtxHolders, Others, HoldPcs
  <2>4. ctxCnt' = 0 /\ ~listed /\ CtxHolders' = {}
    <3>1. ctxCnt' = 0
      BY <1>4, <1>5
    <3>2. ~listed /\ Cardinality(CtxHolders \ {t}) = 0
      BY <1>3, <1>4, <3>1 DEF Finite
    <3> QED BY <1>3, <2>3, <3>1, <3>2, Empty
  <2>5. Typed'
    BY <1>1, <1>4, <2>1, <2>2 DEF IInv, Typed, cell
  <2>6. CtxRefs'
    BY <1>1, <1>2, <1>4, <2>2, <2>3, <2>4 DEF CtxRefs, Others
  <2>7. InCall' /\ InBuffer'
    BY <1>1, <2>1, <2>2 DEF IInv, InCall, InBuffer, Others, cell
  <2>8. InHand' /\ CellRefs' /\ Positions'
    BY <1>1, <1>2, <2>1, <2>2, CellsStill DEF CellPcs
  <2>9. Backed'
    BY <1>1, <2>4 DEF Backed
  <2> QED BY <2>5, <2>6, <2>7, <2>8, <2>9 DEF IInv
<1>6. CASE ctxCnt # 1
  <2>1. Leave(t)
    BY <1>6 DEF PutContext
  <2>2. /\ Others(t) /\ pc'[t] = "idle"
        /\ op'[t] = "none" /\ tblk'[t] = Nil /\ tcell'[t] = Nil
        /\ pc' \in [Threads -> Pcs] /\ op' \in [Threads -> Ops]
        /\ tblk' \in [Threads -> Blocks \cup {Nil}]
        /\ tcell' \in [Threads -> Cells \cup {Nil}]
        /\ bufOf' \in [Blocks -> Buffers]
    BY <2>1, LeaveLocals
  <2>3. CtxHolders' = CtxHolders \ {t}
    BY <2>2 DEF CtxHolders, Others, HoldPcs
  <2>4. Typed'
    BY <1>1, <1>4, <2>2 DEF IInv, Typed, cell
  <2>5. CtxRefs'
    <3>1. \A u \in Threads : pc'[u] # "drain"
      BY <1>2, <2>2 DEF Others
    <3> QED BY <1>1, <1>2, <1>4, <2>3, <3>1 DEF CtxRefs
  <2>6. /\ InCall' /\ InBuffer'
        /\ \A a \in Addrs \cup {ZeroPtr} :
              /\ BlocksAt(a)' \subseteq BlocksAt(a)
              /\ PublishingAt(a)' \subseteq PublishingAt(a)
              /\ ListedAt(a) \subseteq ListedAt(a)'
    BY <1>1, <2>1, CallEnds DEF cell
  <2>7. tcell' = tcell
    BY <1>2, <2>2 DEF Others, IInv, Typed
  <2>8. InHand' /\ CellRefs' /\ Positions'
    BY <1>1, <1>2, <2>2, <2>7, CellsStill DEF CellPcs
  <2>9. Backed'
    BY <1>2, <2>4, <2>6, StillBacked
  <2> QED BY <2>4, <2>5, <2>6, <2>8, <2>9 DEF IInv
<1> QED BY <1>5, <1>6

\* TEEC_FinalizeContext: the list's reference becomes the thread's.
LEMMA FinalizeContextIInv ==
    ASSUME IInv, NEW t \in Threads, FinalizeContext(t), UNCHANGED stray
    PROVE  IInv'
<1>1. /\ listed /\ listed' = FALSE /\ Call(t, "finalize", Nil, Nil, "putCtx")
      /\ UNCHANGED <<ctxCnt, ctxLive, bits, shmList, cell, mapped, bufOf, stray>>
  BY DEF FinalizeContext
<1>2. /\ Others(t) /\ pc[t] = "idle" /\ pc'[t] = "putCtx"
      /\ op[t] = "none" /\ tblk[t] = Nil /\ tcell[t] = Nil
      /\ op'[t] = "finalize" /\ tblk'[t] = Nil /\ tcell'[t] = Nil
      /\ pc' \in [Threads -> Pcs] /\ op' \in [Threads -> Ops]
      /\ tblk' \in [Threads -> Blocks \cup {Nil}]
      /\ tcell' \in [Threads -> Cells \cup {Nil}]
  BY <1>1, CallLocals DEF Ops, Pcs, HoldPcs
<1>3. tcell' = tcell
  BY <1>2 DEF Others, IInv, Typed
<1>4. Typed'
  BY <1>1, <1>2 DEF IInv, Typed, cell
<1>5. CtxRefs'
  BY <1>1, <1>2, CtxEntered DEF HoldPcs
<1>6. InCall' /\ InBuffer'
  BY <1>1, <1>2 DEF IInv, InCall, InBuffer, Others, cell
<1>7. InHand' /\ CellRefs' /\ Positions'
  BY <1>1, <1>2, <1>3, CellsStill DEF CellPcs
<1>8. \A a \in Addrs \cup {ZeroPtr} :
         /\ BlocksAt(a)' \subseteq BlocksAt(a)
         /\ PublishingAt(a)' \subseteq PublishingAt(a)
         /\ ListedAt(a) \subseteq ListedAt(a)'
  BY <1>1, <1>2 DEF BlocksAt, PublishingAt, ListedAt, Others, cell
<1>9. Backed'
  BY <1>1, <1>4, <1>8, StillBacked
<1> QED BY <1>4, <1>5, <1>6, <1>7, <1>9 DEF IInv

-----------------------------------------------------------------------------
(* The end of a context, and the next one. *)

\* Who drains the context has every listed block to itself.
LEMMA Draining ==
    ASSUME IInv, NEW t \in Threads, pc[t] = "drain"
    PROVE  /\ ~listed /\ ctxLive /\ CtxHolders = {} /\ tcell[t] = Nil
           /\ \A u \in Threads \ {t} : pc[u] \in {"idle", "get"}
           /\ \A c \in shmList :
                 scnt[c] = 1 /\ ShmHolders(c) = {} /\ \A u \in Threads : tcell[u] # c
<1>1. /\ ~listed /\ ctxLive /\ CtxHolders = {} /\ tcell[t] = Nil
  BY DEF IInv, CtxRefs, InHand
<1>2. \A u \in Threads \ {t} : pc[u] \in {"idle", "get"}
  BY <1>1 DEF IInv, CtxRefs, CtxHolders, Typed, Pcs
<1>3. ASSUME NEW c \in shmList
      PROVE  scnt[c] = 1 /\ ShmHolders(c) = {} /\ \A u \in Threads : tcell[u] # c
  <2>1. c \in Cells /\ c # Nil
    BY SharedMemAssumption DEF IInv, Typed
  <2>2. ShmHolders(c) = {}
    BY <1>2 DEF ShmHolders
  <2>3. scnt[c] = 1
    BY <2>1, <2>2, Empty DEF IInv, CellRefs
  <2>4. \A u \in Threads : tcell[u] # c
    BY <1>2, <2>1 DEF IInv, InHand
  <2> QED BY <2>2, <2>3, <2>4
<1> QED BY <1>1, <1>2, <1>3

\* The shared memory loop of TEEC_FinalizeContextHidl
LEMMA DrainShrMemIInv ==
    ASSUME IInv, NEW t \in Threads, NEW c \in Cells, DrainShrMem(t, c)
    PROVE  IInv'
<1>1. /\ pc[t] = "drain" /\ c \in shmList /\ shmList' = shmList \ {c}
      /\ pc' = pc /\ op' = op /\ tblk' = tblk /\ tcell' = tcell
      /\ UNCHANGED <<ctx, bufOf>>
  BY DEF DrainShrMem, SameCall
<1>2. /\ ~listed /\ ctxLive /\ CtxHolders = {}
      /\ scnt[c] = 1 /\ ShmHolders(c) = {} /\ \A u \in Threads : tcell[u] # c
  BY <1>1, Draining
<1>3. /\ mapped' = mapped \ {c}
      /\ \/ kind[c] = "registered" /\ UNCHANGED <<bits, stray>>
         \/ kind[c] # "registered" /\ ClearBitOf(c)
      /\ FreeCell(c)
  BY <1>2 DEF DrainShrMem
<1>4. /\ kind' = [kind EXCEPT ![c] = "free"] /\ off' = [off EXCEPT ![c] = 0]
      /\ addr' = [addr EXCEPT ![c] = Nil] /\ scnt' = [scnt EXCEPT ![c] = 0]
  BY <1>3 DEF FreeCell
<1>5. 0 \in 0 .. NBits - 1
  BY SharedMemAssumption
<1>6. /\ kind' \in [Cells -> AllKinds \cup {"free"}] /\ off' \in [Cells -> 0 .. NBits - 1]
      /\ addr' \in [Cells -> Buffers] /\ scnt' \in [Cells -> Nat]
  BY <1>4, <1>5 DEF IInv, Typed, Buffers
<1>7. /\ kind'[c] = "free" /\ scnt'[c] = 0
      /\ \A d \in Cells \ {c} : /\ kind'[d] = kind[d] /\ off'[d] = off[d]
                                /\ addr'[d] = addr[d] /\ scnt'[d] = scnt[d]
  BY <1>4 DEF IInv, Typed
<1>8. \/ kind[c] = "registered" /\ bits' = bits /\ stray' = stray
      \/ /\ bits' = bits \ {off[c]}
         /\ stray' = (stray \/ (~TakesBit(kind[c]) /\ off[c] \in bits))
  BY <1>3, SharedMemAssumption DEF ClearBitOf, ClearBit, IInv, Typed
<1>9. Typed'
  <2>1. stray' \in BOOLEAN /\ bits' \subseteq bits
    BY <1>8 DEF IInv, Typed
  <2> QED BY <1>1, <1>3, <1>6, <2>1 DEF IInv, Typed, ctx
<1>10. CtxRefs'
  <2>1. CtxHolders' = CtxHolders
    BY <1>1 DEF CtxHolders
  <2> QED BY <1>1, <1>2, <2>1 DEF IInv, CtxRefs, ctx
<1>11. InCall' /\ InHand'
  <2>1. InCall'
    BY <1>1 DEF IInv, InCall
  <2>2. InHand'
    BY <1>1, <1>2, <1>7 DEF IInv, InHand, Typed, CellPcs
  <2> QED BY <2>1, <2>2
<1>12. InBuffer'
  <2>1. \A u \in Threads : pc[u] \in {"get", "insert", "publish"} /\ op[u] = "register" =>
           addr'[tcell[u]] = addr[tcell[u]]
    BY <1>2, <1>7 DEF IInv, InHand, CellPcs, Typed
  <2> QED BY <1>1, <2>1 DEF IInv, InBuffer
<1>13. CellRefs'
  <2>1. \A d : ShmHolders(d)' = ShmHolders(d)
    BY <1>1 DEF ShmHolders
  <2>2. \A d \in Cells :
          /\ scnt'[d] = (IF d \in shmList' THEN 1 ELSE 0) + Cardinality(ShmHolders(d)')
          /\ kind'[d] # "free" => d \in shmList' \/ \E u \in Threads : tcell'[u] = d
    <3> TAKE d \in Cells
    <3>1. CASE d = c
      BY <3>1, <1>1, <1>2, <1>7, <2>1, Empty
    <3>2. CASE d # c
      BY <3>2, <1>1, <1>7, <2>1 DEF IInv, CellRefs
    <3> QED BY <3>1, <3>2
  <2>3. \A d \in shmList' : kind'[d] # "free"
    BY <1>1, <1>7 DEF IInv, CellRefs, Typed
  <2>4. \A d \in mapped' : /\ kind'[d] # "free"
                           /\ \A u \in Threads : tcell'[u] = d =>
                                 pc'[u] \in {"insert", "publish", "putShm", "unmap"}
    BY <1>1, <1>3, <1>7 DEF IInv, CellRefs, Typed
  <2> QED BY <2>2, <2>3, <2>4 DEF CellRefs
<1>14. Positions'
  <2>1. ~OwnsBit(c)' /\ \A d \in Cells \ {c} : OwnsBit(d)' = OwnsBit(d)
    BY <1>1, <1>7 DEF OwnsBit, TakesBit
  <2>2. OwnsBit(c) <=> TakesBit(kind[c])
    BY <1>2 DEF OwnsBit
  <2>3. kind[c] = "registered" => ~TakesBit(kind[c])
    BY DEF TakesBit
  <2>4. CASE kind[c] = "registered" /\ bits' = bits /\ stray' = stray
    BY <1>7, <2>1, <2>2, <2>3, <2>4, PositionCleared
  <2>5. CASE /\ bits' = bits \ {off[c]}
             /\ stray' = (stray \/ (~TakesBit(kind[c]) /\ off[c] \in bits))
    BY <1>7, <2>1, <2>2, <2>5, PositionCleared
  <2> QED BY <1>8, <2>4, <2>5
<1>15. Backed'
  <2>1. CtxHolders' = {} /\ ~listed'
    BY <1>1, <1>2 DEF CtxHolders, ctx
  <2> QED BY <2>1 DEF Backed
<1> QED BY <1>9, <1>10, <1>11, <1>12, <1>13, <1>14, <1>15 DEF IInv

\* The context is gone.
LEMMA DrainEndIInv ==
    ASSUME IInv, NEW t \in Threads, DrainEnd(t), UNCHANGED stray
    PROVE  IInv'
<1>1. /\ pc[t] = "drain" /\ shmList = {} /\ ctxLive' = FALSE /\ Leave(t)
      /\ UNCHANGED <<listed, ctxCnt, bits, shmList, cell, mapped, stray>>
  BY DEF DrainEnd
<1>2. /\ ~listed /\ CtxHolders = {} /\ tcell[t] = Nil
      /\ \A u \in Threads \ {t} : pc[u] \in {"idle", "get"}
  BY <1>1, Draining
<1>3. /\ Others(t) /\ pc'[t] = "idle"
      /\ op'[t] = "none" /\ tblk'[t] = Nil /\ tcell'[t] = Nil
      /\ pc' \in [Threads -> Pcs] /\ op' \in [Threads -> Ops]
      /\ tblk' \in [Threads -> Blocks \cup {Nil}]
      /\ tcell' \in [Threads -> Cells \cup {Nil}]
      /\ bufOf' \in [Blocks -> Buffers]
  BY <1>1, LeaveLocals
<1>4. CtxHolders' = CtxHolders
  BY <1>1, <1>3 DEF CtxHolders, Others, HoldPcs
<1>5. Typed'
  BY <1>1, <1>3 DEF IInv, Typed, cell
<1>6. CtxRefs'
  <2>1. \A u \in Threads : pc'[u] \in {"idle", "get"}
    BY <1>2, <1>3 DEF Others
  <2> QED BY <1>1, <1>2, <1>4, <2>1 DEF IInv, CtxRefs
<1>7. InCall' /\ InBuffer'
  BY <1>1, CallEnds DEF cell
<1>8. tcell' = tcell
  BY <1>2, <1>3 DEF Others, IInv, Typed
<1>9. InHand' /\ CellRefs' /\ Positions'
  BY <1>1, <1>2, <1>3, <1>8, CellsStill DEF CellPcs
<1>10. Backed'
  BY <1>1, <1>2, <1>4 DEF Backed
<1> QED BY <1>5, <1>6, <1>7, <1>9, <1>10 DEF IInv

\* Without a context there is no block, no mapping and no position.
LEMMA NoneLeft ==
    ASSUME IInv, ~ctxLive
    PROVE  /\ shmList = {} /\ mapped = {} /\ bits = {}
           /\ \A t \in Threads : pc[t] \in {"idle", "get"}
<1>1. shmList = {} /\ \A t \in Threads : pc[t] \in {"idle", "get"}
  BY DEF IInv, CtxRefs
<1>2. mapped = {}
  <2>1. \A c \in mapped : c \in Cells /\ kind[c] # "free" /\ \A t \in Threads : tcell[t] # c
    BY <1>1 DEF IInv, CellRefs, Typed
  <2> QED BY <1>1, <2>1 DEF IInv, CellRefs
<1>3. \A c \in Cells : ~OwnsBit(c)
  <2>1. \A c \in Cells : kind[c] # "free" => \E t \in Threads : tcell[t] = c
    BY <1>1 DEF IInv, CellRefs
  <2>2. \A t \in Threads : tcell[t] # Nil => pc[t] = "get"
    BY <1>1 DEF IInv, InCall
  <2> QED BY <2>1, <2>2, SharedMemAssumption DEF OwnsBit, TakesBit
<1>4. bits = {}
  BY <1>3 DEF IInv, Positions
<1> QED BY <1>1, <1>2, <1>4

\* TEEC_InitializeContext once more
LEMMA InitializeContextIInv ==
    ASSUME IInv, NEW t \in Threads, InitializeContext(t)
    PROVE  IInv'
<1>1. /\ ~ctxLive /\ \A u \in Threads : pc[u] = "idle"
      /\ listed' = TRUE /\ ctxLive' = TRUE /\ ctxCnt' = 1
      /\ bits' = {} /\ stray' = FALSE
      /\ bufOf' = [b \in Blocks |-> Nil]
      /\ UNCHANGED <<shmList, cell, mapped, pc, op, tblk, tcell>>
  BY DEF InitializeContext, thr
<1>2. shmList = {} /\ mapped = {}
  BY <1>1, NoneLeft
<1>3. /\ \A u \in Threads : op[u] = "none" /\ tblk[u] = Nil /\ tcell[u] = Nil
      /\ \A c \in Cells : kind[c] = "free"
  BY <1>1, <1>2, SharedMemAssumption DEF IInv, InCall, CellRefs
<1>4. Typed'
  BY <1>1 DEF IInv, Typed, Buffers, cell
<1>5. CtxRefs'
  <2>1. CtxHolders' = {}
    BY <1>1 DEF CtxHolders, HoldPcs
  <2> QED BY <1>1, <2>1, Empty DEF CtxRefs
<1>6. InCall' /\ InHand' /\ InBuffer'
  BY <1>1, <1>3 DEF IInv, InCall, InHand, InBuffer, CellPcs, cell
<1>7. CellRefs'
  <2>1. \A c : ShmHolders(c)' = ShmHolders(c)
    BY <1>1 DEF ShmHolders
  <2> QED BY <1>1, <2>1 DEF IInv, CellRefs, cell
<1>8. Positions'
  <2>1. \A c \in Cells : ~OwnsBit(c)'
    BY <1>1, <1>3 DEF OwnsBit, TakesBit, cell
  <2> QED BY <1>1, <2>1 DEF Positions
<1>9. Backed'
  <2>1. SUFFICES ASSUME NEW a \in Addrs \cup {ZeroPtr}
                 PROVE  Cardinality(BlocksAt(a)') + Cardinality(PublishingAt(a)')
                           <= Cardinality(ListedAt(a)')
    BY DEF Backed
  <2>2. BlocksAt(a)' = {} /\ PublishingAt(a)' = {} /\ ListedAt(a)' = {}
    BY <1>1, <1>2, AddrsApart DEF BlocksAt, PublishingAt, ListedAt
  <2> QED BY <2>2, Empty
<1> QED BY <1>4, <1>5, <1>6, <1>7, <1>8, <1>9 DEF IInv

-----------------------------------------------------------------------------
(* The theorems. *)

\* A context without blocks satisfies the invariant.
LEMMA InitIInv == Init => IInv
<1> SUFFICES ASSUME Init PROVE IInv
  OBVIOUS
<1> USE DEF Init
<1>1. Typed
  <2>1. 0 \in 0 .. NBits - 1
    BY SharedMemAssumption
  <2> QED BY <2>1 DEF Typed, Buffers, Pcs, Ops
<1>2. CtxRefs
  <2>1. CtxHolders = {}
    BY DEF CtxHolders, HoldPcs
  <2> QED BY <2>1, Empty DEF CtxRefs
<1>3. InCall /\ InHand /\ InBuffer
  BY DEF InCall, InHand, InBuffer, CellPcs
<1>4. CellRefs
  <2>1. \A c : ShmHolders(c) = {}
    BY DEF ShmHolders
  <2> QED BY <2>1, Empty DEF CellRefs
<1>5. Positions
  BY DEF Positions, OwnsBit, TakesBit
<1>6. Backed
  <2>1. \A a \in Addrs \cup {ZeroPtr} :
           BlocksAt(a) = {} /\ PublishingAt(a) = {} /\ ListedAt(a) = {}
    BY AddrsApart DEF BlocksAt, PublishingAt, ListedAt
  <2> QED BY <2>1, Empty DEF Backed
<1> QED BY <1>1, <1>2, <1>3, <1>4, <1>5, <1>6 DEF IInv

\* A step that changes nothing.
LEMMA StutterIInv ==
    ASSUME IInv, UNCHANGED vars
    PROVE  IInv'
<1> USE DEF vars, ctx, cell, thr
<1>1. Typed' /\ InCall' /\ InHand' /\ InBuffer'
  BY DEF IInv, Typed, InCall, InHand, InBuffer
<1>2. CtxHolders' = CtxHolders /\ \A c : ShmHolders(c)' = ShmHolders(c)
  BY DEF CtxHolders, ShmHolders
<1>3. CtxRefs' /\ CellRefs'
  BY <1>2 DEF IInv, CtxRefs, CellRefs
<1>4. \A c : OwnsBit(c)' = OwnsBit(c)
  BY DEF OwnsBit
<1>5. Positions'
  BY <1>4 DEF IInv, Positions
<1>6. \A a : /\ BlocksAt(a)' = BlocksAt(a)
             /\ PublishingAt(a)' = PublishingAt(a) /\ ListedAt(a)' = ListedAt(a)
  BY DEF BlocksAt, PublishingAt, ListedAt
<1>7. Backed'
  BY <1>2, <1>6 DEF IInv, Backed
<1> QED BY <1>1, <1>3, <1>5, <1>7 DEF IInv

\* Every step keeps it.
LEMMA NextIInv == IInv /\ [Next]_vars => IInv'
<1> SUFFICES ASSUME IInv, [Next]_vars PROVE IInv'
  OBVIOUS
<1>1. CASE UNCHANGED vars
  BY <1>1, StutterIInv
<1>2. ASSUME NEW t \in Threads, Start(t)
      PROVE  IInv'
  <2>1. CASE InitializeContext(t)
    BY <2>1, InitializeContextIInv
  <2>2. CASE FinalizeContext(t) /\ UNCHANGED stray
    BY <2>2, FinalizeContextIInv
  <2>3. ASSUME NEW b \in Blocks, NEW k \in Kinds,
               AllocateSharedMemory(t, b, k), UNCHANGED stray
        PROVE  IInv'
    BY <2>3, AllocateSharedMemoryIInv
  <2>4. ASSUME NEW b \in Blocks, NEW a \in ClientBufs,
               RegisterSharedMemory(t, b, a), UNCHANGED stray
        PROVE  IInv'
    BY <2>4, RegisterSharedMemoryIInv
  <2>5. ASSUME NEW b \in Blocks, UNCHANGED stray,
               ReleaseSharedMemory(t, b) \/ InvokeWithMemref(t, b)
        PROVE  IInv'
    BY <2>5, UseIInv
  <2> QED BY <1>2, <2>1, <2>2, <2>3, <2>4, <2>5 DEF Start
<1>3. ASSUME NEW t \in Threads, Step(t)
      PROVE  IInv'
  BY <1>3, GetContextIInv, PutContextIInv, AllocateBitIInv, AllocateBufferIInv,
     AllocateUndoBitIInv, AllocateFailIInv, InsertShrMemIInv, PublishBufferIInv,
     FindAndRemoveShrMemIInv, PutBnShrMemIInv, ReleaseBufferIInv, MemrefIInv,
     DrainEndIInv DEF Step
<1>4. ASSUME NEW t \in Threads, Release(t)
      PROVE  IInv'
  BY <1>4, ReleaseClearBitIInv, DrainShrMemIInv DEF Release
<1> QED BY <1>1, <1>2, <1>3, <1>4 DEF Next

\* The invariant holds in every state that is reached.
THEOREM InvariantHolds == Spec => []IInv
  BY InitIInv, NextIInv, PTL DEF Spec

\* ops_cnt of a block is its list's reference and those of the calls, however
\* allocations, releases and the draining of the context interleave, and what
\* ReleaseSharedMemory frees is in nobody else's hands.
THEOREM RefCountsHold == Spec => []ShmRefCount
<1>1. IInv => ShmRefCount
  <2> SUFFICES ASSUME IInv PROVE ShmRefCount
    OBVIOUS
  <2>1. \A c \in shmList : kind[c] # "free" /\ scnt[c] = 1 + Cardinality(ShmHolders(c))
    BY DEF IInv, CellRefs, Typed
  <2>2. \A t \in Threads : tcell[t] # Nil => kind[tcell[t]] # "free"
    BY DEF IInv, InHand
  <2>3. \A t \in Threads : pc[t] \in {"unmap", "clearBit"} =>
           \A u \in Threads \ {t} : tcell[u] # tcell[t]
    BY DEF IInv, InHand, CellPcs
  <2> QED BY <2>1, <2>2, <2>3 DEF ShmRefCount
<1> QED BY <1>1, InvariantHolds, PTL

\* The set bits of shm_bitmap are the offsets of the blocks that took one, each
\* its own, until a release of a zero-copy block clears somebody else's.
THEOREM OffsetsExact == Spec => []BitmapExact
<1>1. IInv => BitmapExact
  <2> SUFFICES ASSUME IInv PROVE BitmapExact
    OBVIOUS
  <2>1. bits \subseteq 0 .. NBits - 1 /\ \A c \in Cells : off[c] \in 0 .. NBits - 1
    BY DEF IInv, Typed
  <2>2. ~stray => bits = {off[c] : c \in {d \in Cells : OwnsBit(d)}}
    BY DEF IInv, Positions
  <2>3. ~stray => \A c, d \in Cells :
           OwnsBit(c) /\ OwnsBit(d) /\ off[c] = off[d] => c = d
    BY DEF IInv, Positions
  <2> QED BY <2>1, <2>2, <2>3 DEF BitmapExact
<1> QED BY <1>1, InvariantHolds, PTL

\* What TEEC_CheckOperation has accepted is still listed at the ioctl, also
\* while others release blocks with the same buffer.
THEOREM AcceptedStaysListed == Spec => []MemrefStillValid
<1>1. IInv => MemrefStillValid
  <2> SUFFICES ASSUME IInv, NEW t \in Threads, pc[t] = "ioctl"
               PROVE  ctxLive /\ (bufOf[tblk[t]] \in ClientBufs \/ SameBuffer(tblk[t]) # {})
    BY DEF MemrefStillValid
  <2>1. PICK b \in Blocks : b = tblk[t] /\ op[t] = "use"
    BY DEF IInv, InCall
  <2>2. ctxLive /\ t \in CtxHolders
    BY DEF IInv, CtxRefs, CtxHolders, HoldPcs
  <2> SUFFICES ASSUME bufOf[b] \notin ClientBufs PROVE SameBuffer(b) # {}
    BY <2>1, <2>2
  <2>3. PICK a \in Addrs \cup {ZeroPtr} : a = bufOf[b]
    BY <2>1 DEF IInv, InBuffer, Typed, Buffers
  <2>4. b \in BlocksAt(a)
    <3>1. \A u \in Threads : tblk[u] = b => u = t
      BY <2>1, SharedMemAssumption DEF IInv, InCall
    <3> QED BY <2>1, <2>3, <3>1 DEF BlocksAt
  <2>5. Finite(BlocksAt(a)) /\ Finite(PublishingAt(a)) /\ Finite(ListedAt(a))
    BY Countable DEF IInv, Counted
  <2>6. /\ Cardinality(BlocksAt(a)) >= 1
        /\ Cardinality(BlocksAt(a)) + Cardinality(PublishingAt(a))
              <= Cardinality(ListedAt(a))
    BY <2>2, <2>4, <2>5, OneLess DEF IInv, Backed
  <2>7. ListedAt(a) # {}
    <3>1. Cardinality(ListedAt(a)) # 0
      BY <2>5, <2>6 DEF Finite
    <3> QED BY <3>1, Empty
  <2> QED BY <2>3, <2>7 DEF SameBuffer, ListedAt
<1> QED BY <1>1, InvariantHolds, PTL

\* TEEC_FinalizeContext leaves no block, no mapping and no offset behind.
THEOREM ContextLeavesNothing == Spec => []NothingLeft
<1>1. IInv => NothingLeft
  BY NoneLeft DEF NothingLeft
<1> QED BY <1>1, InvariantHolds, PTL
==============================================================================
