----------------------------- MODULE SharedMem -----------------------------
(***************************************************************************)
(* Shared memory of one TEE context (libteec_vendor/tee_client_api.c):     *)
(* the reference-counted blocks (TEEC_SharedMemoryHidl), the context's     *)
(* list of them, and shm_bitmap, whose positions are the page offsets at   *)
(* which blocks are mapped from the driver.  Several threads allocate,     *)
(* register, use and release blocks while one may finalize the context.    *)
(***************************************************************************)
EXTENDS Integers, FiniteSets, Bitmap

CONSTANTS
    Threads,    \* threads of the client application
    Blocks,     \* TEEC_SharedMemory structures of the client
    Cells,      \* heap cells for TEEC_SharedMemoryHidl
    Addrs,      \* addresses that malloc and mmap can return
    ClientBufs, \* buffers of the client's own that it can register
    ZeroPtr,    \* ZERO_SIZE_PTR, the buffer of every block of size 0
    Kinds,      \* the kinds of block that the client asks for
    NBits,      \* size of shm_bitmap (8 * NUM_OF_SHAREMEM_BITMAP)
    Nil

\* "mapped": TEEC_MEM_INPUT, OUTPUT or INOUT; "zeroSize": the same with size
\* 0; "zeroCopy": TEEC_MEM_SHARED_INOUT or REGISTER_INOUT; "registered":
\* TEEC_RegisterSharedMemory.
AllKinds == {"mapped", "zeroSize", "zeroCopy", "registered"}

ASSUME SharedMemAssumption ==
    /\ IsFiniteSet(Threads) /\ IsFiniteSet(Blocks) /\ IsFiniteSet(Cells)
    /\ Kinds \subseteq AllKinds
    /\ NBits \in Nat \ {0}
    /\ Nil \notin Threads \cup Blocks \cup Cells \cup Addrs \cup ClientBufs
    /\ ZeroPtr \notin Addrs \cup ClientBufs \cup {Nil}
    /\ Addrs \cap ClientBufs = {}

VARIABLES
    listed, ctxCnt, ctxLive, \* the context: in g_teecContextList, ops_cnt
    bits,                    \* shm_bitmap
    shmList,                 \* shrd_mem_list
    kind, off, addr, scnt,   \* the cells: flags, offset, buffer, ops_cnt
    mapped,                  \* cells whose buffer is mapped from the driver
    bufOf,                   \* sharedMem->buffer of the client's structures
    stray,                   \* history: a block lost its position to another
    pc, op, tblk, tcell      \* the threads and their local variables

ctx  == <<listed, ctxCnt, ctxLive>>
cell == <<kind, off, addr, scnt>>
thr  == <<pc, op, tblk, tcell>>
vars == <<ctx, bits, shmList, cell, mapped, bufOf, stray, thr>>

Init ==
    /\ listed = TRUE /\ ctxCnt = 1 /\ ctxLive = TRUE
    /\ bits = {} /\ shmList = {} /\ mapped = {}
    /\ kind = [c \in Cells |-> "free"]
    /\ off = [c \in Cells |-> 0]
    /\ addr = [c \in Cells |-> Nil]
    /\ scnt = [c \in Cells |-> 0]
    /\ bufOf = [b \in Blocks |-> Nil]
    /\ pc = [t \in Threads |-> "idle"]
    /\ op = [t \in Threads |-> "none"]
    /\ tblk = [t \in Threads |-> Nil]
    /\ tcell = [t \in Threads |-> Nil]
    /\ stray = FALSE

-----------------------------------------------------------------------------
Goto(t, loc) == pc' = [pc EXCEPT ![t] = loc]

\* The client works on a block with one thread at a time.
Free(b) == \A t \in Threads : tblk[t] # b

Call(t, o, b, c, loc) ==
    /\ pc[t] = "idle"
    /\ pc' = [pc EXCEPT ![t] = loc]
    /\ op' = [op EXCEPT ![t] = o]
    /\ tblk' = [tblk EXCEPT ![t] = b]
    /\ tcell' = [tcell EXCEPT ![t] = c]

\* The API function returns; TEEC_ReleaseSharedMemory wipes the client's
\* structure on its way out.
Leave(t) ==
    /\ pc' = [pc EXCEPT ![t] = "idle"]
    /\ op' = [op EXCEPT ![t] = "none"]
    /\ tblk' = [tblk EXCEPT ![t] = Nil]
    /\ tcell' = [tcell EXCEPT ![t] = Nil]
    /\ bufOf' = IF op[t] = "release" THEN [bufOf EXCEPT ![tblk[t]] = Nil]
                                     ELSE bufOf

SameCall == UNCHANGED <<op, tblk, tcell>>

FreeCell(c) ==
    /\ kind' = [kind EXCEPT ![c] = "free"]
    /\ off' = [off EXCEPT ![c] = 0]
    /\ addr' = [addr EXCEPT ![c] = Nil]
    /\ scnt' = [scnt EXCEPT ![c] = 0]

\* Blocks that take a position of shm_bitmap when they are allocated.
TakesBit(k) == k \in {"mapped", "zeroSize"}

\* ReleaseSharedMemory clears the bit at the block's offset: for a zero-copy
\* block, which took none, that is position 0, somebody else's if it is set.
ClearBitOf(c) ==
    /\ bits' = ClearBit(off[c], NBits, bits)
    /\ stray' = (stray \/ (~TakesBit(kind[c]) /\ off[c] \in bits))

-----------------------------------------------------------------------------
(* The client's calls. *)

\* TEEC_AllocateSharedMemory, MallocShrMemHidl: a zeroed cell, so offset = 0.
AllocateSharedMemory(t, b, k) ==
    /\ k \in Kinds \ {"registered"}
    /\ bufOf[b] = Nil /\ Free(b)
    /\ \E c \in Cells :
          /\ kind[c] = "free"
          /\ kind' = [kind EXCEPT ![c] = k]
          /\ Call(t, "allocate", b, c, "get")
    /\ UNCHANGED <<ctx, bits, shmList, off, addr, scnt, mapped, bufOf>>

\* TEEC_RegisterSharedMemory on a buffer that the client owns.
RegisterSharedMemory(t, b, a) ==
    /\ "registered" \in Kinds
    /\ bufOf[b] = Nil /\ Free(b)
    /\ bufOf' = [bufOf EXCEPT ![b] = a]
    /\ \E c \in Cells :
          /\ kind[c] = "free"
          /\ kind' = [kind EXCEPT ![c] = "registered"]
          /\ addr' = [addr EXCEPT ![c] = a]
          /\ Call(t, "register", b, c, "get")
    /\ UNCHANGED <<ctx, bits, shmList, off, scnt, mapped>>

ReleaseSharedMemory(t, b) ==
    /\ bufOf[b] # Nil /\ Free(b)
    /\ Call(t, "release", b, Nil, "get")
    /\ UNCHANGED <<ctx, bits, shmList, cell, mapped, bufOf>>

\* TEEC_InvokeCommand with a reference to the block among its parameters.
InvokeWithMemref(t, b) ==
    /\ bufOf[b] # Nil /\ Free(b)
    /\ Call(t, "use", b, Nil, "get")
    /\ UNCHANGED <<ctx, bits, shmList, cell, mapped, bufOf>>

\* TEEC_FinalizeContext: the list's reference passes to this thread.
FinalizeContext(t) ==
    /\ listed
    /\ listed' = FALSE
    /\ Call(t, "finalize", Nil, Nil, "putCtx")
    /\ UNCHANGED <<ctxCnt, ctxLive, bits, shmList, cell, mapped, bufOf>>

\* TEEC_InitializeContext after the old context is gone; the client has
\* dropped the blocks of the old one.
InitializeContext(t) ==
    /\ ~ctxLive
    /\ \A u \in Threads : pc[u] = "idle"
    /\ listed' = TRUE /\ ctxLive' = TRUE /\ ctxCnt' = 1
    /\ bits' = {} /\ stray' = FALSE
    /\ bufOf' = [b \in Blocks |-> Nil]
    /\ UNCHANGED <<shmList, cell, mapped, thr>>

-----------------------------------------------------------------------------
(* Their steps. *)

\* Mutant: the context is used without a reference to it.
CtxIncLost == UNCHANGED ctxCnt

CtxInc == ctxCnt' = ctxCnt + 1

\* GetBnContext; without a context the call ends, and what it allocated is
\* freed again.
GetContext(t) ==
    /\ pc[t] = "get"
    /\ IF listed
       THEN /\ CtxInc
            /\ Goto(t, CASE op[t] = "register" -> "insert"
                         [] op[t] = "release"  -> "remove"
                         [] op[t] = "use"      -> "check"
                         [] op[t] = "allocate" ->
                              IF TakesBit(kind[tcell[t]]) THEN "bit" ELSE "map")
            /\ SameCall
            /\ UNCHANGED <<cell, bufOf>>
       ELSE /\ IF tcell[t] # Nil THEN FreeCell(tcell[t]) ELSE UNCHANGED cell
            /\ Leave(t)
            /\ UNCHANGED ctxCnt
    /\ UNCHANGED <<listed, ctxLive, bits, shmList, mapped>>

\* GetAndSetBitWithLock
AllocateBit(t) ==
    /\ pc[t] = "bit"
    /\ LET i == FirstClear(NBits, bits) IN
       IF i < 0
       THEN Goto(t, "fail") /\ UNCHANGED <<bits, off>>
       ELSE /\ bits' = SetBit(i, NBits, bits)
            /\ off' = [off EXCEPT ![tcell[t]] = i]
            /\ Goto(t, "map")
    /\ SameCall
    /\ UNCHANGED <<ctx, shmList, kind, addr, scnt, mapped, bufOf>>

\* mmap or malloc of the buffer, either of which may fail.
AllocateBuffer(t) ==
    /\ pc[t] = "map"
    /\ LET c == tcell[t] IN
       \/ /\ kind[c] = "zeroSize"
          /\ addr' = [addr EXCEPT ![c] = ZeroPtr]
          /\ Goto(t, "insert")
          /\ UNCHANGED mapped
       \/ /\ kind[c] # "zeroSize"
          /\ \E a \in Addrs :
                /\ \A d \in Cells : addr[d] # a
                /\ addr' = [addr EXCEPT ![c] = a]
          /\ mapped' = IF kind[c] = "mapped" THEN mapped \cup {c} ELSE mapped
          /\ Goto(t, "insert")
       \/ /\ kind[c] # "zeroSize"
          /\ Goto(t, IF kind[c] = "mapped" THEN "unbit" ELSE "fail")
          /\ UNCHANGED <<addr, mapped>>
    /\ SameCall
    /\ UNCHANGED <<ctx, bits, shmList, kind, off, scnt, bufOf>>

\* Mutant: a failed mmap does not return the position.
AllocateKeepBit(t) ==
    /\ pc[t] = "unbit"
    /\ Goto(t, "fail")
    /\ SameCall
    /\ UNCHANGED <<ctx, bits, shmList, cell, mapped, bufOf>>

\* RelaseBufferAndClearBit after a failed mmap
AllocateUndoBit(t) ==
    /\ pc[t] = "unbit"
    /\ bits' = ClearBit(off[tcell[t]], NBits, bits)
    /\ Goto(t, "fail")
    /\ SameCall
    /\ UNCHANGED <<ctx, shmList, cell, mapped, bufOf>>

\* The code frees the object after PutBnContext; it was never listed, so that
\* nobody else reaches it and the order of the two cannot be seen.
AllocateFail(t) ==
    /\ pc[t] = "fail"
    /\ FreeCell(tcell[t])
    /\ tcell' = [tcell EXCEPT ![t] = Nil]
    /\ Goto(t, "putCtx")
    /\ UNCHANGED <<ctx, bits, shmList, mapped, bufOf, op, tblk>>

\* Mutant: no reference for the list.
InsertShrMemNoRef(t) ==
    /\ pc[t] = "insert"
    /\ shmList' = shmList \cup {tcell[t]}
    /\ scnt' = [scnt EXCEPT ![tcell[t]] = 1]
    /\ Goto(t, "publish")
    /\ SameCall
    /\ UNCHANGED <<ctx, bits, kind, off, addr, mapped, bufOf>>

\* ops_cnt = 1, then under shrMemLock into the list and ops_cnt++.
InsertShrMem(t) ==
    /\ pc[t] = "insert"
    /\ shmList' = shmList \cup {tcell[t]}
    /\ scnt' = [scnt EXCEPT ![tcell[t]] = 2]
    /\ Goto(t, "publish")
    /\ SameCall
    /\ UNCHANGED <<ctx, bits, kind, off, addr, mapped, bufOf>>

PublishBuffer(t) ==
    /\ pc[t] = "publish"
    /\ bufOf' = [bufOf EXCEPT ![tblk[t]] = addr[tcell[t]]]
    /\ Goto(t, "putShm")
    /\ SameCall
    /\ UNCHANGED <<ctx, bits, shmList, cell, mapped>>

\* The listed blocks whose buffer is that of the client's structure.
SameBuffer(b) == {c \in shmList : addr[c] = bufOf[b]}

\* TEEC_FindAndRemoveShrMemHidl
FindAndRemoveShrMem(t) ==
    /\ pc[t] = "remove"
    /\ \/ \E c \in SameBuffer(tblk[t]) :
             /\ shmList' = shmList \ {c}
             /\ tcell' = [tcell EXCEPT ![t] = c]
             /\ Goto(t, "putShm")
       \/ /\ SameBuffer(tblk[t]) = {}
          /\ Goto(t, "putCtx")
          /\ UNCHANGED <<shmList, tcell>>
    /\ UNCHANGED <<ctx, bits, cell, mapped, bufOf, op, tblk>>

PutBnShrMem(t) ==
    /\ pc[t] = "putShm"
    /\ scnt' = [scnt EXCEPT ![tcell[t]] = @ - 1]
    /\ IF scnt[tcell[t]] = 1
       THEN Goto(t, "unmap") /\ UNCHANGED tcell
       ELSE Goto(t, "putCtx") /\ tcell' = [tcell EXCEPT ![t] = Nil]
    /\ UNCHANGED <<ctx, bits, shmList, kind, off, addr, mapped, bufOf, op, tblk>>

\* ReleaseSharedMemory at ops_cnt 0: the buffer ...
ReleaseBuffer(t) ==
    /\ pc[t] = "unmap"
    /\ mapped' = mapped \ {tcell[t]}
    /\ IF kind[tcell[t]] = "registered"
       THEN /\ FreeCell(tcell[t])
            /\ tcell' = [tcell EXCEPT ![t] = Nil]
            /\ Goto(t, "putCtx")
       ELSE Goto(t, "clearBit") /\ UNCHANGED <<cell, tcell>>
    /\ UNCHANGED <<ctx, bits, shmList, bufOf, op, tblk>>

\* ... and the bit at its offset, whether or not the block took one.
ReleaseClearBit(t) ==
    /\ pc[t] = "clearBit"
    /\ ClearBitOf(tcell[t])
    /\ FreeCell(tcell[t])
    /\ tcell' = [tcell EXCEPT ![t] = Nil]
    /\ Goto(t, "putCtx")
    /\ UNCHANGED <<ctx, shmList, mapped, bufOf, op, tblk>>

\* TEEC_CheckOperation: a reference to an allocated block needs a listed one
\* with the same buffer (CheckSharedBufferExist); one to a registered block
\* does not.
CheckMemRef(t) ==
    /\ pc[t] = "check"
    /\ Goto(t, IF bufOf[tblk[t]] \in ClientBufs \/ SameBuffer(tblk[t]) # {}
               THEN "ioctl" ELSE "putCtx")
    /\ SameCall
    /\ UNCHANGED <<ctx, bits, shmList, cell, mapped, bufOf>>

\* The driver resolves the buffer of the reference.
MemrefIoctl(t) ==
    /\ pc[t] = "ioctl"
    /\ Goto(t, "putCtx")
    /\ SameCall
    /\ UNCHANGED <<ctx, bits, shmList, cell, mapped, bufOf>>

PutContext(t) ==
    /\ pc[t] = "putCtx"
    /\ ctxCnt' = ctxCnt - 1
    /\ IF ctxCnt = 1
       THEN Goto(t, "drain") /\ SameCall /\ UNCHANGED bufOf
       ELSE Leave(t)
    /\ UNCHANGED <<listed, ctxLive, bits, shmList, cell, mapped>>

\* TEEC_FinalizeContextHidl, the shared memory loop: PutBnShrMem on a block
\* that is still listed, which releases it if nobody else has a reference.
DrainShrMem(t, c) ==
    /\ pc[t] = "drain"
    /\ c \in shmList
    /\ shmList' = shmList \ {c}
    /\ IF scnt[c] = 1
       THEN /\ mapped' = mapped \ {c}
            /\ \/ kind[c] = "registered" /\ UNCHANGED <<bits, stray>>
               \/ kind[c] # "registered" /\ ClearBitOf(c)
            /\ FreeCell(c)
       ELSE /\ scnt' = [scnt EXCEPT ![c] = @ - 1]
            /\ UNCHANGED <<mapped, bits, stray, kind, off, addr>>
    /\ SameCall
    /\ UNCHANGED <<ctx, bufOf, pc>>

\* Mutant: the context goes while blocks are still listed.
DrainEarly(t) ==
    /\ pc[t] = "drain"
    /\ ctxLive' = FALSE
    /\ Leave(t)
    /\ UNCHANGED <<listed, ctxCnt, bits, shmList, cell, mapped>>

DrainEnd(t) ==
    /\ pc[t] = "drain"
    /\ shmList = {}
    /\ ctxLive' = FALSE
    /\ Leave(t)
    /\ UNCHANGED <<listed, ctxCnt, bits, shmList, cell, mapped>>

-----------------------------------------------------------------------------
Start(t) ==
    \/ InitializeContext(t)
    \/ /\ \/ FinalizeContext(t)
          \/ \E b \in Blocks :
                \/ \E k \in Kinds : AllocateSharedMemory(t, b, k)
                \/ \E a \in ClientBufs : RegisterSharedMemory(t, b, a)
                \/ ReleaseSharedMemory(t, b)
                \/ InvokeWithMemref(t, b)
       /\ UNCHANGED stray

\* The steps that release a position of shm_bitmap, and all the others.
Release(t) == ReleaseClearBit(t) \/ \E c \in Cells : DrainShrMem(t, c)

Step(t) ==
    /\ \/ GetContext(t) \/ PutContext(t)
       \/ AllocateBit(t) \/ AllocateBuffer(t) \/ AllocateUndoBit(t) \/ AllocateFail(t)
       \/ InsertShrMem(t) \/ PublishBuffer(t)
       \/ FindAndRemoveShrMem(t) \/ PutBnShrMem(t) \/ ReleaseBuffer(t)
       \/ CheckMemRef(t) \/ MemrefIoctl(t)
       \/ DrainEnd(t)
    /\ UNCHANGED stray

Next == \E t \in Threads : Start(t) \/ Step(t) \/ Release(t)

Spec == Init /\ [][Next]_vars

-----------------------------------------------------------------------------
(* Properties *)

\* The threads that own a reference to cell c.
ShmHolders(c) == {t \in Threads : tcell[t] = c /\ pc[t] \in {"publish", "putShm"}}

\* ops_cnt of a listed or published block is one for the list ("pair with
\* ops_cnt++ when add to list", "pair with Initial value 1") plus one for
\* every thread that is about to put it; a freed block is in no list and in
\* no thread's hands.
ShmRefCount ==
    /\ \A c \in shmList :
          kind[c] # "free" /\ scnt[c] = 1 + Cardinality(ShmHolders(c))
    /\ \A t \in Threads : tcell[t] # Nil => kind[tcell[t]] # "free"
    /\ \A t \in Threads : pc[t] \in {"unmap", "clearBit"} =>
          \A u \in Threads \ {t} : tcell[u] # tcell[t]

\* The cells that own the position at their offset: a thread has set it, and
\* has not come to the point where it is cleared.
OwnsBit(c) ==
    /\ TakesBit(kind[c])
    /\ \A t \in Threads :
          tcell[t] = c => pc[t] \notin {"get", "bit", "fail"}

\* The set positions of shm_bitmap are those of the blocks that took one,
\* each block its own: no offset is lost however allocations fail, and none
\* is free while a block is mapped at it, as long as no release of a
\* zero-copy block has taken position 0 from another block.
BitmapExact ==
    /\ bits \subseteq 0 .. NBits - 1
    /\ \A c \in Cells : off[c] \in 0 .. NBits - 1
    /\ ~stray =>
          /\ bits = {off[c] : c \in {d \in Cells : OwnsBit(d)}}
          /\ \A c, d \in Cells : OwnsBit(c) /\ OwnsBit(d) /\ off[c] = off[d] => c = d

\* The buffer that TEEC_CheckOperation accepted is still listed, and its
\* context alive, when the driver resolves it.
MemrefStillValid ==
    \A t \in Threads : pc[t] = "ioctl" =>
       /\ ctxLive
       /\ bufOf[tblk[t]] \in ClientBufs \/ SameBuffer(tblk[t]) # {}

\* A finalized context leaves nothing behind, whatever became of the
\* positions meanwhile: no block, no mapping, no offset.
NothingLeft == ~ctxLive => shmList = {} /\ mapped = {} /\ bits = {}
=============================================================================
