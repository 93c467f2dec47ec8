-------------------------- MODULE SessionPoolProofs --------------------------
(***************************************************************************)
(* Proofs about SessionPool, for any number of invokers, any pool size and *)
(* whatever malloc leaves in the bitmap.                                   *)
(***************************************************************************)
EXTENDS SessionPool, FiniteSetTheorems, WellFoundedInduction, TLAPS

-----------------------------------------------------------------------------
(* The inductive invariant. *)

Locs == {"idle", "wait", "take", "invoke", "post", "corrupted"}

\* The sessions that can be taken: 1-bits below opened.  Those above are
\* whatever malloc left.
Free == usage \cap 0 .. opened - 1

\* An invoker with a key that is not yet a session, or no longer.
KeyLocs == {"take", "post", "corrupted"}
WithKey == {t \in Invokers : ipc[t] \in KeyLocs}

\* CreateSessionsFn counts what it opens; the creator calls it for session 0.
LoopCounts ==
    /\ opened = IF wpc = "post" THEN wi + 1 ELSE wi
    /\ wpc \in {"open", "mark", "post"} => wi < PoolSize
    /\ wpc = "created" <=> phase = "creating" /\ wpc \notin {"open", "mark", "post"}
    /\ phase = "creating" /\ wpc # "created" => wi = 0
    /\ phase = "gone" => wpc = "done"

\* The open sessions are those counted, and the one just opened.
SessionsExact ==
    sessions = IF phase = "gone" THEN {}
               ELSE (0 .. opened - 1) \cup (IF wpc = "mark" THEN {wi} ELSE {})

\* Invocations happen only while the caller has the pool.
Quiet == phase # "up" => \A t \in Invokers : ipc[t] = "idle"

\* A session in an invoker's hands is opened, marked as taken, not dead, and in
\* nobody else's hands.
InHands ==
    \A t \in Invokers :
       /\ ipc[t] = "invoke" <=> held[t] # None
       /\ held[t] # None =>
             /\ held[t] \in (0 .. opened - 1) \ (usage \cup dead)
             /\ \A u \in Invokers \ {t} : held[u] # held[t]

\* A dead session is never offered again.
DeadStaysOut == dead \subseteq (0 .. opened - 1) \ usage

\* Sessions are free or in use, and every key stands for a free session.
Counted ==
    /\ Cardinality(Free) = opened - inuse
    /\ keys + InFlight = Cardinality(Free)

NeverCorrupted == \A t \in Invokers : ipc[t] # "corrupted"

IInv ==
    /\ TypeOK /\ LoopCounts /\ SessionsExact /\ Quiet
    /\ InHands /\ DeadStaysOut /\ Counted /\ NeverCorrupted

-----------------------------------------------------------------------------
(* The bitmap: IterateBitmap stops at the lowest position it looks for, for
   bitmaps of any length. *)

\* The order of the natural numbers, as a relation.
LessThan == {p \in Nat \X Nat : p[1] < p[2]}

\* It is well founded (stated by the library for the operator <).
LEMMA LessThanWellFounded == IsWellFoundedOn(LessThan, Nat)
  BY NatLessThanWellFounded DEF OpToRel, LessThan

\* Lowest returns the minimum of a set of positions, so the loop of
\* IterateBitmap stops at the first position it looks for.
LEMMA LowestIsMinimum ==
    ASSUME NEW S \in SUBSET Nat, S # {}
    PROVE  Lowest(S) \in S /\ \A i \in S : Lowest(S) <= i
<1>1. PICK i \in S : \A j \in S : <<j, i>> \notin LessThan
  BY LessThanWellFounded, WFMin
<1>2. \A j \in S : ~(j < i)
  BY <1>1 DEF LessThan
<1>3. \A j \in S : i <= j
  BY <1>2
<1> QED BY <1>3 DEF Lowest

\* GetAndCleartBit: the position found is set, and none below it is.
LEMMA FirstSetIsSet ==
    ASSUME NEW n \in Nat, NEW set, NEW i \in (0 .. n - 1) \cap set
    PROVE  FirstSet(n, set) \in (0 .. n - 1) \cap set /\ FirstSet(n, set) <= i
<1> DEFINE S == (0 .. n - 1) \cap set
<1>1. S \in SUBSET Nat /\ i \in S
  OBVIOUS
<1>2. Lowest(S) \in S /\ Lowest(S) <= i
  <2> HIDE DEF S
  <2> QED BY <1>1, LowestIsMinimum
<1> QED BY <1>2 DEF FirstSet

-----------------------------------------------------------------------------
(* Counting. *)

\* The free sessions and the invokers with a key can be counted.
LEMMA Countable ==
    ASSUME TypeOK
    PROVE  /\ IsFiniteSet(Free) /\ Cardinality(Free) \in Nat
           /\ IsFiniteSet(WithKey) /\ Cardinality(WithKey) \in Nat
           /\ Cardinality(Free) <= opened
<1>1. /\ IsFiniteSet(0 .. opened - 1) /\ opened \in Nat
      /\ Cardinality(0 .. opened - 1) = opened
  BY PoolAssumption, FS_Interval DEF TypeOK
<1>2. /\ IsFiniteSet(Free) /\ Cardinality(Free) \in Nat
      /\ Cardinality(Free) <= opened
  BY <1>1, FS_Subset, FS_CardinalityType DEF Free
<1>3. IsFiniteSet(WithKey) /\ Cardinality(WithKey) \in Nat
  BY PoolAssumption, FS_Subset, FS_CardinalityType DEF WithKey
<1> QED BY <1>2, <1>3

\* InFlight counts the invokers with a key, and the key the worker posts.
LEMMA InFlightCount ==
    /\ InFlight = Cardinality(WithKey) + (IF wpc = "post" THEN 1 ELSE 0)
    /\ InFlight' = Cardinality(WithKey') + (IF wpc' = "post" THEN 1 ELSE 0)
  BY DEF InFlight, WithKey, KeyLocs

\* Every other invoker stays where it is.
Others(t) ==
    \A u \in Invokers \ {t} : ipc'[u] = ipc[u] /\ held'[u] = held[u]

\* An invoker gets a key, gives one up, or neither.
LEMMA KeyMoves ==
    ASSUME TypeOK, NEW t \in Invokers, Others(t)
    PROVE  /\ ipc[t] \notin KeyLocs /\ ipc'[t] \in KeyLocs =>
                 Cardinality(WithKey') = Cardinality(WithKey) + 1
           /\ ipc[t] \in KeyLocs /\ ipc'[t] \notin KeyLocs =>
                 Cardinality(WithKey') = Cardinality(WithKey) - 1
           /\ (ipc[t] \in KeyLocs <=> ipc'[t] \in KeyLocs) =>
                 Cardinality(WithKey') = Cardinality(WithKey)
<1>1. CASE ipc[t] \notin KeyLocs /\ ipc'[t] \in KeyLocs
  <2>1. WithKey' = WithKey \cup {t} /\ t \notin WithKey
    BY <1>1 DEF WithKey, Others
  <2>2. Cardinality(WithKey') = Cardinality(WithKey) + 1
    BY <2>1, Countable, FS_AddElement
  <2> QED BY <1>1, <2>2
<1>2. CASE ipc[t] \in KeyLocs /\ ipc'[t] \notin KeyLocs
  <2>1. WithKey' = WithKey \ {t} /\ t \in WithKey
    BY <1>2 DEF WithKey, Others
  <2>2. Cardinality(WithKey') = Cardinality(WithKey) - 1
    BY <2>1, Countable, FS_RemoveElement
  <2> QED BY <1>2, <2>2
<1>3. CASE ipc[t] \in KeyLocs <=> ipc'[t] \in KeyLocs
  <2>1. WithKey' = WithKey
    BY <1>3 DEF WithKey, Others
  <2> QED BY <1>3, <2>1
<1> QED BY <1>1, <1>2, <1>3

\* An invoker's step.
LEMMA GotoLocals ==
    ASSUME TypeOK, NEW t \in Invokers, NEW loc \in Locs, Goto(t, loc),
           NEW h \in 0 .. NBits - 1 \cup {None},
           UNCHANGED held \/ held' = [held EXCEPT ![t] = h]
    PROVE  /\ Others(t) /\ ipc'[t] = loc
           /\ ipc' \in [Invokers -> Locs]
           /\ held' \in [Invokers -> 0 .. NBits - 1 \cup {None}]
           /\ held' = held \/ held'[t] = h
  BY DEF TypeOK, Goto, Others, Locs

-----------------------------------------------------------------------------
(* The creator and the worker. *)

\* A step of the creator or of the worker that leaves the pool and the
\* invokers alone keeps what is said about them.
LEMMA PoolStill ==
    ASSUME IInv, UNCHANGED <<pool, ipc, held>>, wpc' # "post", wpc # "post"
    PROVE  InHands' /\ DeadStaysOut' /\ Counted' /\ NeverCorrupted'
<1> USE DEF pool
<1>1. InHands' /\ DeadStaysOut' /\ NeverCorrupted'
  BY DEF IInv, InHands, DeadStaysOut, NeverCorrupted
<1>2. Free' = Free /\ WithKey' = WithKey
  BY DEF Free, WithKey
<1>3. InFlight' = InFlight
  BY DEF InFlight
<1>4. Counted'
  BY <1>2, <1>3 DEF IInv, Counted
<1> QED BY <1>1, <1>4

\* A session is opened, or the loop gives up.
LEMMA OpenSessionIInv ==
    ASSUME IInv, OpenSession
    PROVE  IInv'
<1>1. /\ UNCHANGED <<phase, pool, wi, ipc, held>> /\ wpc = "open"
      /\ \/ sessions' = sessions \cup {wi} /\ wpc' = "mark"
         \/ sessions' = sessions /\ wpc' = LoopEnd
  BY DEF OpenSession
<1>2. wi \in 0 .. PoolSize - 1
  BY <1>1, PoolAssumption DEF IInv, TypeOK, LoopCounts
<1>3. TypeOK'
  BY <1>1, <1>2 DEF IInv, TypeOK, pool, LoopEnd
<1>4. LoopCounts'
  BY <1>1 DEF IInv, LoopCounts, pool, LoopEnd
<1>5. SessionsExact'
  BY <1>1 DEF IInv, LoopCounts, SessionsExact, pool, LoopEnd
<1>6. Quiet'
  BY <1>1 DEF IInv, Quiet
<1>7. wpc # "post" /\ wpc' # "post"
  BY <1>1 DEF LoopEnd
<1> QED BY <1>1, <1>3, <1>4, <1>5, <1>6, <1>7, PoolStill DEF IInv

\* The session is marked as one that can be taken, whatever its bit was.
LEMMA MarkOpenedIInv ==
    ASSUME IInv, MarkOpened
    PROVE  IInv'
<1>1. /\ UNCHANGED <<phase, inuse, keys, dead, sessions, wi, ipc, held>>
      /\ wpc = "mark" /\ wpc' = "post" /\ opened' = opened + 1
      /\ usage' = SetBit(wi, NBits, usage)
  BY DEF MarkOpened
<1>2. /\ wi \in 0 .. PoolSize - 1 /\ opened = wi
      /\ phase # "gone"
  BY <1>1, PoolAssumption DEF IInv, TypeOK, LoopCounts
<1>3. usage' = usage \cup {wi} /\ wi \in 0 .. NBits - 1
  BY <1>1, <1>2, PoolAssumption DEF SetBit
<1>4. TypeOK'
  BY <1>1, <1>2, <1>3, PoolAssumption DEF IInv, TypeOK
<1>5. LoopCounts'
  BY <1>1, <1>2 DEF IInv, LoopCounts
<1>6. 0 .. opened' - 1 = (0 .. opened - 1) \cup {opened} /\ opened \in Nat
  BY <1>1, <1>2, PoolAssumption
<1>7. SessionsExact'
  BY <1>1, <1>2, <1>6 DEF IInv, SessionsExact
<1>8. Quiet' /\ NeverCorrupted'
  BY <1>1 DEF IInv, Quiet, NeverCorrupted
<1>9. InHands' /\ DeadStaysOut'
  BY <1>1, <1>2, <1>3, <1>6 DEF IInv, InHands, DeadStaysOut
<1>10. Counted'
  <2>1. Free' = Free \cup {opened} /\ opened \notin Free
    BY <1>2, <1>3, <1>6 DEF Free
  <2>2. Cardinality(Free') = Cardinality(Free) + 1
    BY <2>1, Countable, FS_AddElement DEF IInv
  <2>3. InFlight' = InFlight + 1
    <3>1. WithKey' = WithKey
      BY <1>1 DEF WithKey
    <3>2. InFlight = Cardinality(WithKey) /\ InFlight' = Cardinality(WithKey) + 1
      BY <1>1, <3>1, InFlightCount, Countable DEF IInv
    <3> QED BY <3>2
  <2>4. keys \in Nat /\ opened \in Nat /\ inuse \in Nat /\ InFlight \in Nat
    BY <1>1, <1>6, Countable, InFlightCount DEF IInv, TypeOK
  <2> QED BY <1>1, <2>2, <2>3, <2>4, Countable DEF IInv, Counted
<1> QED BY <1>4, <1>5, <1>7, <1>8, <1>9, <1>10 DEF IInv

\* Its key is posted, and the loop goes on.
LEMMA PostOpenedIInv ==
    ASSUME IInv, PostOpened
    PROVE  IInv'
<1>1. /\ UNCHANGED <<phase, opened, inuse, usage, dead, sessions, ipc, held>>
      /\ wpc = "post" /\ keys' = keys + 1 /\ wi' = wi + 1
      /\ wpc' = IF phase = "creating" \/ wi + 1 = PoolSize THEN LoopEnd ELSE "open"
  BY DEF PostOpened
<1>2. wi \in 0 .. PoolSize - 1 /\ phase # "gone"
  BY <1>1, PoolAssumption DEF IInv, TypeOK, LoopCounts
<1>3. wpc' \in {"created", "done", "open"} /\ wpc' # "post"
  BY <1>1 DEF LoopEnd
<1>4. TypeOK'
  BY <1>1, <1>2, <1>3, PoolAssumption DEF IInv, TypeOK
<1>5. LoopCounts'
  BY <1>1, <1>2, <1>3, PoolAssumption DEF IInv, LoopCounts, LoopEnd
<1>6. SessionsExact'
  BY <1>1, <1>2, <1>3 DEF IInv, SessionsExact
<1>7. Quiet' /\ NeverCorrupted' /\ InHands' /\ DeadStaysOut'
  BY <1>1 DEF IInv, Quiet, NeverCorrupted, InHands, DeadStaysOut
<1>8. Counted'
  <2>1. Free' = Free /\ WithKey' = WithKey
    BY <1>1 DEF Free, WithKey
  <2>2. InFlight = Cardinality(WithKey) + 1 /\ InFlight' = Cardinality(WithKey)
    BY <1>1, <1>3, <2>1, InFlightCount, Countable DEF IInv
  <2> QED BY <1>1, <2>1, <2>2, Countable DEF IInv, Counted, TypeOK
<1> QED BY <1>4, <1>5, <1>6, <1>7, <1>8 DEF IInv

\* The creator hands the rest to the worker.
LEMMA StartWorkerIInv ==
    ASSUME IInv, StartWorker
    PROVE  IInv'
<1>1. /\ UNCHANGED <<pool, sessions, wi, ipc, held>> /\ opened = 1
      /\ wpc = "created" /\ wpc' = "open" /\ phase' = "up"
  BY DEF StartWorker
<1>2. TypeOK' /\ Quiet'
  BY <1>1 DEF IInv, TypeOK, Quiet, pool
<1>3. LoopCounts'
  BY <1>1, PoolAssumption DEF IInv, LoopCounts, pool
<1>4. SessionsExact'
  BY <1>1 DEF IInv, LoopCounts, SessionsExact, pool
<1> QED BY <1>1, <1>2, <1>3, <1>4, PoolStill DEF IInv

\* All sessions are closed: nothing is being opened, and nobody invokes.
LEMMA CloseAllIInv ==
    ASSUME IInv, CloseAll, wpc' = "done", wpc \in {"created", "done"},
           phase # "gone", \A t \in Invokers : ipc[t] = "idle"
    PROVE  IInv'
<1>1. /\ UNCHANGED <<pool, wi, ipc, held>> /\ phase' = "gone"
      /\ sessions' = sessions \ (0 .. opened - 1)
  BY DEF CloseAll
<1>2. sessions' = {}
  BY <1>1 DEF IInv, SessionsExact
<1>3. TypeOK' /\ Quiet'
  BY <1>1, <1>2 DEF IInv, TypeOK, Quiet, pool
<1>4. LoopCounts' /\ SessionsExact'
  BY <1>1, <1>2 DEF IInv, LoopCounts, SessionsExact, pool
<1> QED BY <1>1, <1>3, <1>4, PoolStill DEF IInv

\* Destroying the pool, or giving up creating it, closes all.
LEMMA DestroyIInv ==
    ASSUME IInv, CreateFailed \/ Destroy
    PROVE  IInv'
<1>1. CASE CreateFailed
  <2>1. /\ CloseAll /\ wpc' = "done" /\ wpc = "created" /\ phase = "creating"
        /\ \A t \in Invokers : ipc[t] = "idle"
    BY <1>1 DEF CreateFailed, IInv, LoopCounts, Quiet
  <2> QED BY <2>1, CloseAllIInv
<1>2. CASE Destroy
  <2>1. /\ CloseAll /\ wpc' = "done" /\ wpc = "done" /\ phase = "up"
        /\ \A t \in Invokers : ipc[t] = "idle"
    BY <1>2 DEF Destroy
  <2> QED BY <2>1, CloseAllIInv
<1> QED BY <1>1, <1>2

\* A pool without sessions and invocations, as AllocSessionPool leaves it.
Fresh ==
    /\ phase = "creating" /\ opened = 0 /\ inuse = 0 /\ keys = 0
    /\ usage \in Garbage /\ dead = {} /\ sessions = {}
    /\ wpc = "open" /\ wi = 0
    /\ ipc \in [Invokers -> Locs]
    /\ held \in [Invokers -> 0 .. NBits - 1 \cup {None}]
    /\ \A t \in Invokers : ipc[t] = "idle" /\ held[t] = None

\* It satisfies the invariant.
LEMMA FreshPool == Fresh => IInv
<1> SUFFICES ASSUME Fresh PROVE IInv
  OBVIOUS
<1> USE DEF Fresh
<1>1. TypeOK
  BY PoolAssumption DEF TypeOK, Locs
<1>2. LoopCounts
  BY PoolAssumption DEF LoopCounts
<1>3. SessionsExact /\ Quiet /\ InHands /\ DeadStaysOut /\ NeverCorrupted
  BY DEF SessionsExact, Quiet, InHands, DeadStaysOut, NeverCorrupted
<1>4. Counted
  <2>1. Free = {} /\ WithKey = {}
    BY DEF Free, WithKey, KeyLocs
  <2>2. Cardinality(Free) = 0 /\ Cardinality(WithKey) = 0
    BY <2>1, FS_EmptySet
  <2> QED BY <2>2, InFlightCount DEF Counted
<1> QED BY <1>1, <1>2, <1>3, <1>4 DEF IInv

\* A pool is created again.
LEMMA RecreateIInv ==
    ASSUME IInv, Recreate
    PROVE  IInv'
<1>1. /\ phase' = "creating" /\ opened' = 0 /\ inuse' = 0 /\ keys' = 0
      /\ usage' \in Garbage /\ dead' = {} /\ sessions' = {}
      /\ wpc' = "open" /\ wi' = 0
  BY DEF Recreate, IInv, SessionsExact
<1>2. /\ ipc' \in [Invokers -> Locs]
      /\ held' \in [Invokers -> 0 .. NBits - 1 \cup {None}]
      /\ \A t \in Invokers : ipc'[t] = "idle" /\ held'[t] = None
  BY DEF Recreate, IInv, TypeOK, Quiet, InHands, Locs
<1>3. Fresh'
  BY <1>1, <1>2 DEF Fresh
<1>4. (Fresh => IInv)'
  BY FreshPool, PTL
<1> QED BY <1>3, <1>4

-----------------------------------------------------------------------------
(* The invokers. *)

\* What none of the invokers' steps changes.
LEMMA InvokerFrame ==
    ASSUME IInv, NEW t \in Invokers, Invoke(t) \/ Serve(t)
    PROVE  /\ UNCHANGED <<phase, opened, sessions, wpc, wi>>
           /\ LoopCounts' /\ SessionsExact' /\ Quiet'
<1>1. /\ UNCHANGED <<phase, opened, sessions, wpc, wi>>
      /\ phase = "up"
  BY DEF Invoke, Serve, SemWait, GetSessionFromPool, InvokeDead, PutSessionToPool,
         SemPost, IInv, Quiet, pool
<1> QED BY <1>1 DEF IInv, LoopCounts, SessionsExact, Quiet

\* An invoker that takes no session, gives none back and leaves the bitmap
\* alone: the keys alone move.
LEMMA KeyStep ==
    ASSUME IInv, NEW t \in Invokers, NEW loc \in Locs \ {"invoke", "corrupted"},
           ipc[t] # "invoke", Goto(t, loc),
           UNCHANGED <<opened, inuse, usage, dead, held, wpc>>, keys' \in Nat,
           keys' = keys + (IF ipc[t] \in KeyLocs THEN 1 ELSE 0)
                        - (IF loc \in KeyLocs THEN 1 ELSE 0)
    PROVE  InHands' /\ DeadStaysOut' /\ Counted' /\ NeverCorrupted'
<1>1. /\ Others(t) /\ ipc'[t] = loc
  BY PoolAssumption, GotoLocals DEF IInv
<1>2. InHands' /\ NeverCorrupted'
  BY <1>1 DEF IInv, InHands, NeverCorrupted, Others
<1>3. DeadStaysOut'
  BY DEF IInv, DeadStaysOut
<1>4. Counted'
  <2>1. Free' = Free
    BY DEF Free
  <2>2. /\ keys' + Cardinality(WithKey') = keys + Cardinality(WithKey)
        /\ Cardinality(WithKey') \in Int
    <3>1. keys \in Nat /\ Cardinality(WithKey) \in Nat
      BY Countable DEF IInv, TypeOK
    <3>2. Cardinality(WithKey') = Cardinality(WithKey)
                                    + (IF loc \in KeyLocs THEN 1 ELSE 0)
                                    - (IF ipc[t] \in KeyLocs THEN 1 ELSE 0)
      <4>1. CASE ipc[t] \in KeyLocs /\ loc \in KeyLocs
        BY <1>1, <3>1, <4>1, KeyMoves DEF IInv
      <4>2. CASE ipc[t] \in KeyLocs /\ loc \notin KeyLocs
        BY <1>1, <3>1, <4>2, KeyMoves DEF IInv
      <4>3. CASE ipc[t] \notin KeyLocs /\ loc \in KeyLocs
        BY <1>1, <3>1, <4>3, KeyMoves DEF IInv
      <4>4. CASE ipc[t] \notin KeyLocs /\ loc \notin KeyLocs
        BY <1>1, <3>1, <4>4, KeyMoves DEF IInv
      <4> QED BY <4>1, <4>2, <4>3, <4>4
    <3> QED BY <3>1, <3>2
  <2>3. keys' + InFlight' = keys + InFlight
    <3>1. wpc' = wpc /\ keys \in Nat /\ Cardinality(WithKey) \in Nat
      BY Countable DEF IInv, TypeOK
    <3> QED BY <2>2, <3>1, InFlightCount
  <2> QED BY <2>1, <2>3 DEF IInv, Counted
<1> QED BY <1>2, <1>3, <1>4

\* An invocation begins, and waits at the semaphore; it takes a key; a key is
\* posted.
LEMMA KeyStepsIInv ==
    ASSUME IInv, NEW t \in Invokers, Invoke(t) \/ SemWait(t) \/ SemPost(t)
    PROVE  IInv'
<1>0. Invoke(t) \/ Serve(t)
  BY DEF Serve
<1>1. CASE Invoke(t)
  <2>1. /\ ipc[t] = "idle" /\ Goto(t, "wait") /\ keys' = keys /\ keys \in Nat
        /\ UNCHANGED <<opened, inuse, usage, dead, held, wpc>>
    BY <1>1 DEF Invoke, pool, IInv, TypeOK
  <2>2. InHands' /\ DeadStaysOut' /\ Counted' /\ NeverCorrupted'
    BY <2>1, KeyStep DEF Locs, KeyLocs
  <2>3. TypeOK'
    BY <1>1, <2>1 DEF IInv, TypeOK, Invoke, Goto
  <2> QED BY <1>0, <2>2, <2>3, InvokerFrame DEF IInv
<1>2. CASE SemWait(t)
  <2>1. /\ ipc[t] = "wait" /\ Goto(t, "take") /\ keys' = keys - 1 /\ keys' \in Nat
        /\ UNCHANGED <<opened, inuse, usage, dead, held, wpc>> /\ keys \in Nat
    BY <1>2 DEF SemWait, IInv, TypeOK
  <2>2. InHands' /\ DeadStaysOut' /\ Counted' /\ NeverCorrupted'
    BY <2>1, KeyStep DEF Locs, KeyLocs
  <2>3. TypeOK'
    BY <1>2, <2>1 DEF IInv, TypeOK, SemWait, Goto
  <2> QED BY <1>0, <2>2, <2>3, InvokerFrame DEF IInv
<1>3. CASE SemPost(t)
  <2>1. /\ ipc[t] = "post" /\ Goto(t, "idle") /\ keys' = keys + 1 /\ keys' \in Nat
        /\ UNCHANGED <<opened, inuse, usage, dead, held, wpc>> /\ keys \in Nat
    BY <1>3 DEF SemPost, IInv, TypeOK, NeverCorrupted
  <2>2. InHands' /\ DeadStaysOut' /\ Counted' /\ NeverCorrupted'
    BY <2>1, KeyStep DEF Locs, KeyLocs
  <2>3. TypeOK'
    BY <1>3, <2>1 DEF IInv, TypeOK, SemPost, Goto
  <2> QED BY <1>0, <2>2, <2>3, InvokerFrame DEF IInv
<1> QED BY <1>1, <1>2, <1>3

\* An invoker with a key finds a session, and one that has been opened: the
\* keys are as many as the 1-bits below opened, and the search begins at 0.
LEMMA KeyFindsSession ==
    ASSUME IInv, NEW t \in Invokers, ipc[t] = "take"
    PROVE  FirstSet(NBits, usage) \in Free
<1>1. t \in WithKey
  BY DEF WithKey, KeyLocs
<1>2. Cardinality(WithKey) # 0
  BY <1>1, Countable, FS_EmptySet DEF IInv
<1>3. Cardinality(Free) # 0
  BY <1>2, Countable, InFlightCount DEF IInv, Counted, TypeOK
<1>4. PICK i : i \in Free
  BY <1>3, FS_EmptySet
<1>5. i \in (0 .. NBits - 1) \cap usage
  BY <1>4 DEF Free, IInv, TypeOK
<1>6. /\ FirstSet(NBits, usage) \in (0 .. NBits - 1) \cap usage
      /\ FirstSet(NBits, usage) <= i
  BY <1>5, PoolAssumption, FirstSetIsSet
<1> QED BY <1>4, <1>6, PoolAssumption DEF Free, IInv, TypeOK

\* It takes the session it finds.
LEMMA GetSessionIInv ==
    ASSUME IInv, NEW t \in Invokers, GetSessionFromPool(t)
    PROVE  IInv'
<1> DEFINE used == FirstSet(NBits, usage)
<1>1. used \in Free /\ ipc[t] = "take"
  BY KeyFindsSession DEF GetSessionFromPool
<1>2. /\ used \in 0 .. opened - 1 /\ used \in usage
      /\ used \in 0 .. NBits - 1 /\ used # -1 /\ used # None
  BY <1>1, PoolAssumption DEF Free, IInv, TypeOK
<1> HIDE DEF used
<1>3. /\ usage' = usage \ {used} /\ inuse' = inuse + 1
      /\ held' = [held EXCEPT ![t] = used] /\ Goto(t, "invoke")
      /\ UNCHANGED <<phase, opened, keys, dead, sessions, wpc, wi>>
  BY <1>2, PoolAssumption DEF GetSessionFromPool, ClearBit, used
<1>4. /\ Others(t) /\ ipc'[t] = "invoke" /\ held'[t] = used
      /\ ipc' \in [Invokers -> Locs]
      /\ held' \in [Invokers -> 0 .. NBits - 1 \cup {None}]
  BY <1>2, <1>3 DEF Others, Goto, Locs, IInv, TypeOK
<1>5. TypeOK'
  <2>1. usage \subseteq 0 .. NBits - 1 /\ inuse \in Nat
    BY DEF IInv, TypeOK
  <2>2. usage' \subseteq usage /\ inuse' \in Nat
    BY <1>3, <2>1
  <2>3. usage' \subseteq 0 .. NBits - 1
    BY <2>1, <2>2
  <2> QED BY <1>3, <1>4, <2>2, <2>3 DEF IInv, TypeOK, Locs
<1>6. InHands'
  BY <1>1, <1>2, <1>3, <1>4 DEF IInv, InHands, DeadStaysOut, Others
<1>7. DeadStaysOut' /\ NeverCorrupted'
  BY <1>3, <1>4 DEF IInv, DeadStaysOut, NeverCorrupted, Others
<1>8. Counted'
  <2>1. Free' = Free \ {used}
    BY <1>3 DEF Free
  <2>2. Cardinality(Free') = Cardinality(Free) - 1
    BY <1>1, <2>1, Countable, FS_RemoveElement DEF IInv
  <2>3. Cardinality(WithKey') = Cardinality(WithKey) - 1
    BY <1>1, <1>4, KeyMoves DEF KeyLocs, IInv
  <2>4. InFlight' = InFlight - 1
    BY <1>3, <2>3, InFlightCount, Countable DEF IInv
  <2>5. opened \in Nat /\ inuse \in Nat /\ keys \in Nat /\ InFlight \in Nat
    BY InFlightCount, Countable, PoolAssumption DEF IInv, TypeOK
  <2> QED BY <1>3, <2>2, <2>4, <2>5, Countable DEF IInv, Counted
<1> QED BY <1>5, <1>6, <1>7, <1>8, InvokerFrame DEF IInv, Serve

\* The session turns out dead: it stays out of the pool, and so does its key.
LEMMA InvokeDeadIInv ==
    ASSUME IInv, NEW t \in Invokers, InvokeDead(t)
    PROVE  IInv'
<1>1. /\ ipc[t] = "invoke" /\ dead' = dead \cup {held[t]}
      /\ held' = [held EXCEPT ![t] = None] /\ Goto(t, "idle")
      /\ UNCHANGED <<phase, opened, inuse, keys, usage, sessions, wpc, wi>>
  BY DEF InvokeDead
<1>2. /\ Others(t) /\ ipc'[t] = "idle" /\ held'[t] = None
      /\ ipc' \in [Invokers -> Locs]
      /\ held' \in [Invokers -> 0 .. NBits - 1 \cup {None}]
  BY <1>1 DEF Others, Goto, Locs, IInv, TypeOK
<1>3. held[t] \in (0 .. opened - 1) \ (usage \cup dead)
  BY <1>1 DEF IInv, InHands
<1>4. TypeOK'
  <2>1. dead \subseteq 0 .. PoolSize - 1 /\ opened \in 0 .. PoolSize
    BY DEF IInv, TypeOK
  <2>2. held[t] \in 0 .. PoolSize - 1
    BY <1>3, <2>1, PoolAssumption
  <2>3. dead' \subseteq 0 .. PoolSize - 1
    BY <1>1, <2>1, <2>2
  <2> QED BY <1>1, <1>2, <2>3 DEF IInv, TypeOK, Locs
<1>5. InHands'
  BY <1>1, <1>2 DEF IInv, InHands, Others
<1>6. DeadStaysOut' /\ NeverCorrupted'
  BY <1>1, <1>2, <1>3 DEF IInv, DeadStaysOut, NeverCorrupted, Others
<1>7. Counted'
  <2>1. Free' = Free
    BY <1>1 DEF Free
  <2>2. Cardinality(WithKey') = Cardinality(WithKey)
    BY <1>1, <1>2, KeyMoves DEF KeyLocs, IInv
  <2>3. InFlight' = InFlight
    BY <1>1, <2>2, InFlightCount
  <2> QED BY <1>1, <2>1, <2>3 DEF IInv, Counted
<1> QED BY <1>4, <1>5, <1>6, <1>7, InvokerFrame DEF IInv, Serve

\* The session is put back, and its key is on its way.
LEMMA PutSessionIInv ==
    ASSUME IInv, NEW t \in Invokers, PutSessionToPool(t)
    PROVE  IInv'
<1>1. held[t] \in (0 .. opened - 1) \ (usage \cup dead) /\ ipc[t] = "invoke"
  BY DEF PutSessionToPool, IInv, InHands
<1>2. /\ usage' = usage \cup {held[t]} /\ inuse' = inuse - 1
      /\ held' = [held EXCEPT ![t] = None] /\ Goto(t, "post")
      /\ UNCHANGED <<phase, opened, keys, dead, sessions, wpc, wi>>
  BY <1>1, PoolAssumption DEF PutSessionToPool, SetBit, IInv, TypeOK
<1>3. /\ Others(t) /\ ipc'[t] = "post" /\ held'[t] = None
      /\ ipc' \in [Invokers -> Locs]
      /\ held' \in [Invokers -> 0 .. NBits - 1 \cup {None}]
  BY <1>2 DEF Others, Goto, Locs, IInv, TypeOK
<1>4. Counted' /\ inuse' \in Nat
  <2>1. Free' = Free \cup {held[t]} /\ held[t] \notin Free
    BY <1>1, <1>2 DEF Free
  <2>2. Cardinality(Free') = Cardinality(Free) + 1
    BY <2>1, Countable, FS_AddElement DEF IInv
  <2>3. Cardinality(WithKey') = Cardinality(WithKey) + 1
    BY <1>1, <1>3, KeyMoves DEF KeyLocs, IInv
  <2>4. InFlight' = InFlight + 1
    BY <1>2, <2>3, InFlightCount, Countable DEF IInv
  <2>5. opened \in Nat /\ inuse \in Nat /\ keys \in Nat /\ InFlight \in Nat
    BY InFlightCount, Countable, PoolAssumption DEF IInv, TypeOK
  <2>6. Cardinality(Free') <= opened
    <3>1. Free' \subseteq 0 .. opened - 1
      BY <1>2 DEF Free
    <3>2. IsFiniteSet(0 .. opened - 1) /\ Cardinality(0 .. opened - 1) = opened
      BY <2>5, FS_Interval
    <3> QED BY <3>1, <3>2, FS_Subset
  <2> QED BY <1>2, <2>2, <2>4, <2>5, <2>6, Countable DEF IInv, Counted
<1>5. TypeOK'
  <2>1. usage \subseteq 0 .. NBits - 1 /\ opened \in 0 .. PoolSize
    BY DEF IInv, TypeOK
  <2>2. held[t] \in 0 .. NBits - 1
    BY <1>1, <2>1, PoolAssumption
  <2>3. usage' \subseteq 0 .. NBits - 1
    BY <1>2, <2>1, <2>2
  <2> QED BY <1>2, <1>3, <1>4, <2>3 DEF IInv, TypeOK, Locs
<1>6. InHands'
  BY <1>1, <1>2, <1>3 DEF IInv, InHands, Others
<1>7. DeadStaysOut' /\ NeverCorrupted'
  BY <1>1, <1>2, <1>3 DEF IInv, DeadStaysOut, NeverCorrupted, Others
<1> QED BY <1>4, <1>5, <1>6, <1>7, InvokerFrame DEF IInv, Serve

-----------------------------------------------------------------------------
(* The theorems. *)

\* A pool just allocated has neither sessions nor keys.
LEMMA InitIInv == Init => IInv
<1>1. Init => Fresh
  BY DEF Init, Fresh, Locs
<1> QED BY <1>1, FreshPool

\* Every step keeps the invariant.
LEMMA NextIInv == IInv /\ [Next]_vars => IInv'
<1> SUFFICES ASSUME IInv, [Next]_vars PROVE IInv'
  OBVIOUS
<1>1. CASE Worker
  BY <1>1, OpenSessionIInv, MarkOpenedIInv, PostOpenedIInv DEF Worker
<1>2. CASE StartWorker
  BY <1>2, StartWorkerIInv
<1>3. CASE CreateFailed \/ Destroy
  BY <1>3, DestroyIInv
<1>4. CASE Recreate
  BY <1>4, RecreateIInv
<1>5. ASSUME NEW t \in Invokers, Invoke(t) \/ Serve(t) PROVE IInv'
  BY <1>5, KeyStepsIInv, GetSessionIInv, InvokeDeadIInv, PutSessionIInv DEF Serve
<1>6. CASE UNCHANGED vars
  <2>1. /\ TypeOK' /\ LoopCounts' /\ SessionsExact' /\ Quiet'
        /\ InHands' /\ DeadStaysOut' /\ NeverCorrupted'
    BY <1>6 DEF vars, pool, IInv, TypeOK, LoopCounts, SessionsExact, Quiet,
                InHands, DeadStaysOut, NeverCorrupted
  <2>2. Counted'
    BY <1>6 DEF vars, pool, IInv, Counted, Free, InFlight
  <2> QED BY <2>1, <2>2 DEF IInv
<1> QED BY <1>1, <1>2, <1>3, <1>4, <1>5, <1>6 DEF Next

\* The invariant holds in every reachable state.
THEOREM InvariantHolds == Spec => []IInv
  BY InitIInv, NextIInv, PTL DEF Spec

\* A session that GetSessionFromPool hands out has been opened, is not dead and
\* is in nobody else's hands, for any number of invokers, any size of the pool
\* and any contents that malloc leaves in the bitmap: no key without a 1-bit
\* below opened, so the lowest 1-bit is never garbage.
THEOREM OnlyOpenSessionsTaken == Spec => []TakenIsOpen
<1>1. IInv => TakenIsOpen
  <2> SUFFICES ASSUME IInv, NEW t \in Invokers, held[t] # None
               PROVE  /\ held[t] < opened /\ held[t] \in sessions \ dead
                      /\ \A u \in Invokers \ {t} : held[u] # held[t]
    BY DEF TakenIsOpen
  <2>1. /\ held[t] \in (0 .. opened - 1) \ (usage \cup dead)
        /\ \A u \in Invokers \ {t} : held[u] # held[t]
    BY DEF IInv, InHands
  <2>2. phase # "gone"
    BY DEF IInv, InHands, Quiet
  <2>3. opened \in Nat
    BY PoolAssumption DEF IInv, TypeOK
  <2> QED BY <2>1, <2>2, <2>3 DEF IInv, SessionsExact
<1> QED BY <1>1, InvariantHolds, PTL

\* The semaphore, together with the keys on their way, has exactly the value
\* opened - inuse, although no lock covers both, and the branch marked
\* "shouldn't happen" in GetSessionFromPool is never taken.
THEOREM KeysExact == Spec => []KeysMatch
<1>1. IInv => KeysMatch
  BY DEF IInv, KeysMatch, Counted, NeverCorrupted
<1> QED BY <1>1, InvariantHolds, PTL

\* TEEC_SessionPoolDestroy, and a TEEC_SessionPoolCreate that fails, close every
\* session that was opened.
THEOREM AllSessionsClosed == Spec => []NoSessionLeft
<1>1. IInv => NoSessionLeft
  BY DEF IInv, NoSessionLeft, SessionsExact
<1> QED BY <1>1, InvariantHolds, PTL
=============================================================================
