---------------------------- MODULE SessionPool ----------------------------
(***************************************************************************)
(* The session pool (libteec_vendor/tee_session_pool.c): a creator opens   *)
(* the first session and leaves the others to a detached worker, while     *)
(* invokers take sessions out of the pool and put them back.  A counting   *)
(* semaphore (keys) says how many sessions can be taken, a bitmap (usage)  *)
(* which ones; the two are updated in separate steps.                      *)
(***************************************************************************)
EXTENDS Integers, FiniteSets, Bitmap

CONSTANTS
    Invokers,   \* threads that call TEEC_SessionPoolInvoke
    PoolSize,   \* sessions to open (5 .. 100 in the code)
    NBits,      \* bits of usage: usageSize bytes, 8 for each session
    Garbage,    \* the contents that malloc may leave in usage
    None

ASSUME PoolAssumption ==
    /\ IsFiniteSet(Invokers)
    /\ PoolSize \in Nat \ {0, 1}
    /\ NBits \in Nat /\ NBits >= PoolSize
    /\ Garbage \subseteq SUBSET (0 .. NBits - 1)
    /\ None \notin Nat

VARIABLES
    phase,      \* "creating", "up" (pool returned to the caller), "gone"
    opened,     \* sp->opened
    inuse,      \* sp->inuse
    keys,       \* value of the semaphore sp->keys
    usage,      \* sp->usage, a 1-bit for a session that can be taken
    dead,       \* sessions with isDead set
    sessions,   \* TEE: the pool's sessions that are open
    wpc, wi,    \* CreateSessionsFn: where it is, and its loop variable
    ipc, held   \* the invokers, and the session each has taken

pool == <<opened, inuse, keys, usage, dead>>
vars == <<phase, pool, sessions, wpc, wi, ipc, held>>

\* AllocSessionPool; usage is not initialized.
Init ==
    /\ phase = "creating"
    /\ opened = 0 /\ inuse = 0 /\ keys = 0
    /\ usage \in Garbage
    /\ dead = {} /\ sessions = {}
    /\ wpc = "open" /\ wi = 0
    /\ ipc = [t \in Invokers |-> "idle"]
    /\ held = [t \in Invokers |-> None]

-----------------------------------------------------------------------------
(* CreateSessionsFn, called by the creator for session 0 (reqCount = 1) and *)
(* run by the worker for the others.                                        *)

\* The loop is over: the creator returns to TEEC_SessionPoolCreate.
LoopEnd == IF phase = "creating" THEN "created" ELSE "done"

OpenSession ==
    /\ wpc = "open"
    /\ \/ /\ sessions' = sessions \cup {wi}
          /\ wpc' = "mark"
       \/ wpc' = LoopEnd /\ UNCHANGED sessions
    /\ UNCHANGED <<phase, pool, wi, ipc, held>>

MarkOpened ==
    /\ wpc = "mark"
    /\ usage' = SetBit(wi, NBits, usage)
    /\ opened' = opened + 1
    /\ wpc' = "post"
    /\ UNCHANGED <<phase, inuse, keys, dead, sessions, wi, ipc, held>>

PostOpened ==
    /\ wpc = "post"
    /\ keys' = keys + 1
    /\ wi' = wi + 1
    /\ wpc' = IF phase = "creating" \/ wi + 1 = PoolSize THEN LoopEnd ELSE "open"
    /\ UNCHANGED <<phase, opened, inuse, usage, dead, sessions, ipc, held>>

\* The creator starts the worker and returns the pool.
StartWorker ==
    /\ wpc = "created" /\ opened = 1
    /\ phase' = "up"
    /\ wpc' = "open"
    /\ UNCHANGED <<pool, sessions, wi, ipc, held>>

\* Mutant: the last opened session is forgotten.
CloseAllButLast ==
    /\ sessions' = sessions \ (0 .. opened - 2)
    /\ phase' = "gone"
    /\ UNCHANGED <<pool, wi, ipc, held>>

\* The loop of TEEC_SessionPoolDestroy, and FreeSessionPool.
CloseAll ==
    /\ sessions' = sessions \ (0 .. opened - 1)
    /\ phase' = "gone"
    /\ UNCHANGED <<pool, wi, ipc, held>>

\* The first session or the worker could not be created.
CreateFailed ==
    /\ wpc = "created"
    /\ wpc' = "done"
    /\ CloseAll

\* TEEC_SessionPoolDestroy; the caller has no invocation in progress, and
\* waits until the worker has ended.
Destroy ==
    /\ phase = "up"
    /\ \A t \in Invokers : ipc[t] = "idle"
    /\ wpc = "done"
    /\ CloseAll
    /\ UNCHANGED wpc

-----------------------------------------------------------------------------
(* TEEC_SessionPoolInvoke *)

Goto(t, loc) == ipc' = [ipc EXCEPT ![t] = loc]

Invoke(t) ==
    /\ phase = "up"
    /\ ipc[t] = "idle"
    /\ Goto(t, "wait")
    /\ UNCHANGED <<phase, pool, sessions, wpc, wi, held>>

\* GetSessionFromPool: sem_wait, then usageLock.
SemWait(t) ==
    /\ ipc[t] = "wait"
    /\ keys > 0
    /\ keys' = keys - 1
    /\ Goto(t, "take")
    /\ UNCHANGED <<phase, opened, inuse, usage, dead, sessions, wpc, wi, held>>

\* Without a 1-bit the call reports a corrupted bitmap and posts the key again.
GetSessionFromPool(t) ==
    /\ ipc[t] = "take"
    /\ LET used == FirstSet(NBits, usage) IN
       IF used = -1
       THEN Goto(t, "corrupted") /\ UNCHANGED <<inuse, usage, held>>
       ELSE /\ usage' = ClearBit(used, NBits, usage)
            /\ inuse' = inuse + 1
            /\ held' = [held EXCEPT ![t] = used]
            /\ Goto(t, "invoke")
    /\ UNCHANGED <<phase, opened, keys, dead, sessions, wpc, wi>>

\* TEEC_InvokeCommand returned TEEC_ERROR_TARGET_DEAD: the session stays out.
InvokeDead(t) ==
    /\ ipc[t] = "invoke"
    /\ dead' = dead \cup {held[t]}
    /\ held' = [held EXCEPT ![t] = None]
    /\ Goto(t, "idle")
    /\ UNCHANGED <<phase, opened, inuse, keys, usage, sessions, wpc, wi>>

\* Mutant: inuse is not decremented.
PutSessionInUse(t) ==
    /\ ipc[t] = "invoke"
    /\ usage' = SetBit(held[t], NBits, usage)
    /\ held' = [held EXCEPT ![t] = None]
    /\ Goto(t, "post")
    /\ UNCHANGED <<phase, opened, inuse, keys, dead, sessions, wpc, wi>>

\* TEEC_InvokeCommand returned anything else; PutSessionToPool under the lock.
PutSessionToPool(t) ==
    /\ ipc[t] = "invoke"
    /\ usage' = SetBit(held[t], NBits, usage)
    /\ inuse' = inuse - 1
    /\ held' = [held EXCEPT ![t] = None]
    /\ Goto(t, "post")
    /\ UNCHANGED <<phase, opened, keys, dead, sessions, wpc, wi>>

\* Mutant: the key is lost.
SemPostLost(t) ==
    /\ ipc[t] \in {"post", "corrupted"}
    /\ Goto(t, "idle")
    /\ UNCHANGED <<phase, pool, sessions, wpc, wi, held>>

\* sem_post of PutSessionToPool, or of GetSessionFromPool when it fails.
SemPost(t) ==
    /\ ipc[t] \in {"post", "corrupted"}
    /\ keys' = keys + 1
    /\ Goto(t, "idle")
    /\ UNCHANGED <<phase, opened, inuse, usage, dead, sessions, wpc, wi, held>>

Worker == OpenSession \/ MarkOpened \/ PostOpened

Serve(t) ==
    \/ SemWait(t) \/ GetSessionFromPool(t) \/ SemPost(t)
    \/ InvokeDead(t) \/ PutSessionToPool(t)

\* TEEC_SessionPoolCreate again, once the pool is gone.
Recreate ==
    /\ phase = "gone"
    /\ phase' = "creating"
    /\ opened' = 0 /\ inuse' = 0 /\ keys' = 0
    /\ usage' \in Garbage
    /\ dead' = {}
    /\ wpc' = "open" /\ wi' = 0
    /\ UNCHANGED <<sessions, ipc, held>>

Next ==
    \/ Worker \/ StartWorker \/ CreateFailed \/ Destroy \/ Recreate
    \/ \E t \in Invokers : Invoke(t) \/ Serve(t)

Spec == Init /\ [][Next]_vars

\* The worker and every invocation in progress go on; the TEE answers every
\* command.  sem_wait promises no order among the waiting threads.
FairSpec ==
    /\ Spec
    /\ WF_vars(Worker)
    /\ \A t \in Invokers : WF_vars(Serve(t))

-----------------------------------------------------------------------------
(* Properties *)

\* Every variable holds a value of its C type.
TypeOK ==
    /\ phase \in {"creating", "up", "gone"}
    /\ opened \in 0 .. PoolSize /\ inuse \in Nat /\ keys \in Nat
    /\ usage \subseteq 0 .. NBits - 1
    /\ dead \subseteq 0 .. PoolSize - 1
    /\ sessions \subseteq 0 .. PoolSize - 1
    /\ wpc \in {"open", "mark", "post", "created", "done"}
    /\ wi \in 0 .. PoolSize
    /\ ipc \in [Invokers -> {"idle", "wait", "take", "invoke", "post", "corrupted"}]
    /\ held \in [Invokers -> 0 .. NBits - 1 \cup {None}]

\* A session in the hands of an invoker has been opened, is not dead, and is
\* in nobody else's hands, whatever malloc left in the bitmap: the lowest
\* 1-bit that GetAndCleartBit finds always belongs to an opened session.
TakenIsOpen ==
    \A t \in Invokers : held[t] # None =>
       /\ held[t] < opened /\ held[t] \in sessions \ dead
       /\ \A u \in Invokers \ {t} : held[u] # held[t]

\* Keys that are on their way: taken from the semaphore and not yet turned
\* into a session, or not yet posted.
InFlight == Cardinality({t \in Invokers : ipc[t] \in {"take", "post", "corrupted"}})
               + (IF wpc = "post" THEN 1 ELSE 0)

\* "keys value equal opend - inuse", counting the keys in flight; a dead
\* session stays in use.  And the branch marked "shouldn't happen" (no 1-bit in
\* usage after sem_wait) is never taken.  Every variable keeps its type.
KeysMatch ==
    /\ TypeOK
    /\ phase # "gone" => keys + InFlight = opened - inuse
    /\ \A t \in Invokers : ipc[t] # "corrupted"

\* After TEEC_SessionPoolDestroy, or a failed TEEC_SessionPoolCreate, the TEE
\* has no session of the pool left.
NoSessionLeft == phase = "gone" => sessions = {}

\* While a session is alive or being opened, waiting invokers make progress:
\* one of them gets a session.  (When every session has died they wait for
\* ever: a dead session's key is never posted.)
WaitersServed ==
    (\E t \in Invokers : ipc[t] = "wait")
       ~> \/ \E t \in Invokers : ipc[t] = "invoke"
          \/ wpc = "done" /\ dead = 0 .. opened - 1
=============================================================================
