----------------------------- MODULE PosixProxy -----------------------------
(***************************************************************************)
(* The life of a posix proxy (posix_proxy/src/posix_proxy.c) with its two  *)
(* tasklets (cross_tasklet.c, thread_pool.c).  The main thread creates the *)
(* control tasklet, whose executor creates and destroys the data tasklet   *)
(* when the TEE asks for it; in the end the main thread destroys both.     *)
(* The executors of the data tasklet use the package list (FdList), and a  *)
(* sweeping thread drops old packages from it.                             *)
(*                                                                         *)
(* The rings are counters of the calls in them: they have room, and a      *)
(* message can be allocated (see BlockingQueue for when they do not).  A   *)
(* proxy in a child process ends when the TEE has unregistered it, that of *)
(* tee_teleport itself when the TEE program has ended.                     *)
(*                                                                         *)
(* On the TEE's request a proxy creates another one in a child process and *)
(* waits three seconds for its answer.  The model has the whole life of    *)
(* one proxy; of its children it has what the parent can notice.           *)
(***************************************************************************)
EXTENDS Integers, Sequences

CONSTANTS
    NData,      \* executors of the data tasklet
    MaxCalls,   \* calls that the TEE has on the data tasklet at a time
    FailsAt,    \* positions at which pthread_create may fail
    NKids       \* child processes that can be created

ASSUME ProxyAssumption ==
    /\ NData \in Nat \ {0}
    /\ MaxCalls \in Nat
    /\ FailsAt \subseteq 0 .. NData - 1
    /\ NKids \in Nat

Tasklets == {"ctrl", "data"}
Concurrency(x) == IF x = "ctrl" THEN 1 ELSE NData
Executors == {"ctrl"} \X {0} \cup {"data"} \X (0 .. NData - 1)
Of(x) == {e \in Executors : e[1] = x}

\* The threads that create and destroy tasklets: the main thread, and the
\* executor of the control tasklet while it serves a call.
Actors == {"main", "ctrl"}

Kids == 1 .. NKids

VARIABLES
    child,              \* does the proxy run in a child process?
    tl, priv,           \* tasklets: struct Xtasklet is allocated; priv is set
    terminated,
    intrRes, intrTask,  \* the interrupt flags of resQ and taskQ
    tasks,              \* calls in taskQ
    ex, started,        \* where the executors are; how many have been started
    list,               \* struct FdList is allocated
    sweeper, exitSem,   \* the sweeping thread; fdListTimeoutTExitSem is posted
    dt, dtTl,           \* struct DataTasklet is allocated; its tl is set
    proxy, gData,       \* g_posix_proxy is set, and its dataTasklet
    destroySem,
    pc, after,          \* actors: where they are, and where to return to
    target,             \* actors: the tasklet they create or destroy
    known,              \* TEE: tasklets whose memory it has been given
    request, calls,     \* TEE: its control call, its data calls not answered
    ended,              \* TEE: it makes no more calls
    nkids, kid,         \* children: how many were created; where they are
    ok, posted,         \* whose shared result is 0; whose semaphore is posted
    told, late          \* history: reported to the TEE; given up by the parent

xvars == <<tl, priv, terminated, intrRes, intrTask>>
lvars == <<list, sweeper, exitSem, dt, dtTl>>
gvars == <<child, proxy, gData, destroySem>>
tvars == <<known, request, calls, ended>>
avars == <<pc, after, target>>
kvars == <<nkids, kid, ok, posted, told, late>>
vars == <<xvars, lvars, gvars, tvars, avars, kvars, tasks, ex, started>>

Init ==
    /\ child \in BOOLEAN
    /\ tl = [x \in Tasklets |-> FALSE] /\ priv = [x \in Tasklets |-> FALSE]
    /\ terminated = [x \in Tasklets |-> FALSE]
    /\ intrRes = [x \in Tasklets |-> FALSE] /\ intrTask = [x \in Tasklets |-> FALSE]
    /\ tasks = [x \in Tasklets |-> 0]
    /\ ex = [e \in Executors |-> "off"] /\ started = 0
    /\ list = FALSE /\ sweeper = "off" /\ exitSem = FALSE
    /\ dt = FALSE /\ dtTl = FALSE
    /\ proxy = FALSE /\ gData = FALSE /\ destroySem = 0
    /\ pc = [a \in Actors |-> IF a = "main" THEN "create" ELSE "idle"]
    /\ after = [a \in Actors |-> <<>>]
    /\ target = [a \in Actors |-> IF a = "main" THEN "ctrl" ELSE "data"]
    /\ known = {} /\ request = "none" /\ calls = 0 /\ ended = FALSE
    /\ nkids = 0 /\ kid = [k \in Kids |-> "none"]
    /\ ok = {} /\ posted = {} /\ told = {} /\ late = {}

Goto(a, loc) == pc' = [pc EXCEPT ![a] = loc] /\ UNCHANGED <<after, target>>

\* Call the procedure at loc and go on at cont.
Call(a, loc, cont) ==
    /\ pc' = [pc EXCEPT ![a] = loc]
    /\ after' = [after EXCEPT ![a] = <<cont>> \o @]
    /\ UNCHANGED target

Return(a) ==
    /\ pc' = [pc EXCEPT ![a] = Head(after[a])]
    /\ after' = [after EXCEPT ![a] = Tail(@)]
    /\ UNCHANGED target

\* A creation that fails ends the proxy, or the TEE's call.
Failed(a) == Goto(a, IF a = "main" THEN "over" ELSE "return")

-----------------------------------------------------------------------------
(* cross_tasklet.c and thread_pool.c *)

\* Mutant: the queues keep the interrupt flags of their predecessors.
CreateInterrupted(a) ==
    LET x == target[a] IN
    /\ pc[a] = "create"
    /\ tl' = [tl EXCEPT ![x] = TRUE]
    /\ terminated' = [terminated EXCEPT ![x] = FALSE]
    /\ started' = 0
    /\ Goto(a, "start")
    /\ UNCHANGED <<lvars, gvars, tvars, tasks, ex, priv, intrRes, intrTask>>

\* XtaskletCreate up to the thread pool: the structure and its queues, or
\* nothing.
XtaskletCreate(a) ==
    LET x == target[a] IN
    /\ pc[a] = "create"
    /\ \/ /\ tl' = [tl EXCEPT ![x] = TRUE]
          /\ terminated' = [terminated EXCEPT ![x] = FALSE]
          /\ intrRes' = [intrRes EXCEPT ![x] = FALSE]
          /\ intrTask' = [intrTask EXCEPT ![x] = FALSE]
          /\ started' = 0
          /\ Goto(a, "start")
          /\ UNCHANGED priv
       \/ Goto(a, "failed") /\ UNCHANGED <<xvars, started>>
    /\ UNCHANGED <<lvars, gvars, tvars, tasks, ex>>

\* One round of the loop of ThreadPoolInit.
StartThread(a) ==
    LET x == target[a] IN
    /\ pc[a] = "start"
    /\ \/ /\ ex' = [ex EXCEPT ![<<x, started>>] = "loop"]
          /\ started' = started + 1
          /\ Goto(a, IF started + 1 = Concurrency(x) THEN "setPriv" ELSE "start")
       \/ /\ started \in FailsAt
          /\ Goto(a, "joinStarted")
          /\ UNCHANGED <<ex, started>>
    /\ UNCHANGED <<xvars, lvars, gvars, tvars, tasks>>

\* ThreadPoolFinalize after a failure joins the threads that were started;
\* XtaskletCreate then interrupts the queues and frees everything.
JoinStarted(a) ==
    LET x == target[a] IN
    /\ pc[a] = "joinStarted"
    /\ \A e \in Of(x) : ex[e] = "off"
    /\ tl' = [tl EXCEPT ![x] = FALSE]
    /\ Goto(a, "failed")
    /\ UNCHANGED <<lvars, gvars, tvars, tasks, ex, started, priv, terminated,
                   intrRes, intrTask>>

\* The rest of XtaskletCreate.
SetPriv(a) ==
    /\ pc[a] = "setPriv"
    /\ priv' = [priv EXCEPT ![target[a]] = TRUE]
    /\ Goto(a, IF a = "main" THEN "register" ELSE "startSweeper")
    /\ UNCHANGED <<lvars, gvars, tvars, tasks, ex, started, tl, terminated,
                   intrRes, intrTask>>

\* XtaskletDestroy, step by step.
Terminate(a) ==
    /\ pc[a] = "terminate"
    /\ terminated' = [terminated EXCEPT ![target[a]] = TRUE]
    /\ Goto(a, "intrRes")
    /\ UNCHANGED <<lvars, gvars, tvars, tasks, ex, started, tl, priv, intrRes, intrTask>>

InterruptRes(a) ==
    /\ pc[a] = "intrRes"
    /\ intrRes' = [intrRes EXCEPT ![target[a]] = TRUE]
    /\ Goto(a, "intrTask")
    /\ UNCHANGED <<lvars, gvars, tvars, tasks, ex, started, tl, priv, terminated, intrTask>>

\* Mutant: the result queue is interrupted twice, the task queue never.
InterruptResAgain(a) ==
    /\ pc[a] = "intrTask"
    /\ intrRes' = [intrRes EXCEPT ![target[a]] = TRUE]
    /\ Goto(a, "join")
    /\ UNCHANGED <<lvars, gvars, tvars, tasks, ex, started, tl, priv, terminated, intrTask>>

InterruptTask(a) ==
    /\ pc[a] = "intrTask"
    /\ intrTask' = [intrTask EXCEPT ![target[a]] = TRUE]
    /\ Goto(a, "join")
    /\ UNCHANGED <<lvars, gvars, tvars, tasks, ex, started, tl, priv, terminated, intrRes>>

\* Mutant: the threads are not joined.
FreeWithoutJoin(a) ==
    LET x == target[a] IN
    /\ pc[a] = "join"
    /\ tl' = [tl EXCEPT ![x] = FALSE]
    /\ priv' = [priv EXCEPT ![x] = FALSE]
    /\ tasks' = [tasks EXCEPT ![x] = 0]
    /\ known' = known \ {x}
    /\ Return(a)
    /\ UNCHANGED <<lvars, gvars, request, calls, ended, ex, started, terminated,
                   intrRes, intrTask>>

\* Join the executors, free the queues and the tasklet.  With the memory go
\* the calls that are in it.
JoinAndFree(a) ==
    LET x == target[a] IN
    /\ pc[a] = "join"
    /\ \A e \in Of(x) : ex[e] = "off"
    /\ tl' = [tl EXCEPT ![x] = FALSE]
    /\ priv' = [priv EXCEPT ![x] = FALSE]
    /\ tasks' = [tasks EXCEPT ![x] = 0]
    /\ known' = known \ {x}
    /\ Return(a)
    /\ UNCHANGED <<lvars, gvars, request, calls, ended, ex, started, terminated,
                   intrRes, intrTask>>

\* ExecutorFetch: the loop, dequeuing, serving a data call, and the answer,
\* which is lost if the queue is interrupted.
Fetch(e) ==
    /\ ex[e] = "loop"
    /\ ex' = [ex EXCEPT ![e] = IF terminated[e[1]] THEN "off" ELSE "dequeue"]
    /\ UNCHANGED <<xvars, lvars, gvars, tvars, avars, tasks, started>>

Dequeue(e) ==
    /\ ex[e] = "dequeue"
    /\ \/ /\ intrTask[e[1]]
          /\ ex' = [ex EXCEPT ![e] = "loop"]
          /\ UNCHANGED tasks
       \/ /\ ~intrTask[e[1]] /\ tasks[e[1]] > 0
          /\ tasks' = [tasks EXCEPT ![e[1]] = @ - 1]
          /\ ex' = [ex EXCEPT ![e] = "run"]
    /\ UNCHANGED <<xvars, lvars, gvars, tvars, avars, started>>

DataCallHandler(e) ==
    /\ e[1] = "data" /\ ex[e] = "run"
    /\ ex' = [ex EXCEPT ![e] = "enqueue"]
    /\ UNCHANGED <<xvars, lvars, gvars, tvars, avars, tasks, started>>

Enqueue(e) ==
    LET answers == ~intrRes[e[1]] IN
    /\ ex[e] = "enqueue"
    /\ ex' = [ex EXCEPT ![e] = "loop"]
    /\ calls' = IF answers /\ e[1] = "data" THEN calls - 1 ELSE calls
    /\ request' = IF answers /\ e[1] = "ctrl" THEN "none" ELSE request
    /\ UNCHANGED <<xvars, lvars, gvars, avars, tasks, started, known, ended>>

-----------------------------------------------------------------------------
(* The data tasklet and its sweeping thread. *)

\* FdListPkgTimeoutThreadWork: the exit semaphore, or ten seconds have passed.
SweeperWait ==
    /\ sweeper = "wait"
    /\ sweeper' = IF exitSem THEN "off" ELSE IF dtTl THEN "sweep" ELSE "wait"
    /\ UNCHANGED <<xvars, gvars, tvars, avars, tasks, ex, started, list, exitSem, dt, dtTl>>

SweeperSweep ==
    /\ sweeper = "sweep" /\ sweeper' = "wait"
    /\ UNCHANGED <<xvars, gvars, tvars, avars, tasks, ex, started, list, exitSem, dt, dtTl>>

\* FreeDataTasklet: post the sweeping thread's semaphore.
FreeDataTasklet(a) ==
    /\ pc[a] = "freeData"
    /\ exitSem' = TRUE
    /\ Goto(a, "joinSweeper")
    /\ UNCHANGED <<xvars, gvars, tvars, tasks, ex, started, list, sweeper, dt, dtTl>>

\* Mutant: the sweeping thread is not joined.
SweeperNotJoined(a) ==
    /\ pc[a] = "joinSweeper"
    /\ list' = FALSE
    /\ Call(a, "terminate", "freeDt")
    /\ UNCHANGED <<xvars, gvars, tvars, tasks, ex, started, sweeper, exitSem, dt, dtTl>>

\* Join it, and FdListDestroy; XtaskletDestroy comes next.
JoinSweeper(a) ==
    /\ pc[a] = "joinSweeper"
    /\ sweeper = "off"
    /\ list' = FALSE
    /\ Call(a, "terminate", "freeDt")
    /\ UNCHANGED <<xvars, gvars, tvars, tasks, ex, started, sweeper, exitSem, dt, dtTl>>

FreeDt(a) ==
    /\ pc[a] = "freeDt"
    /\ dt' = FALSE /\ dtTl' = FALSE
    /\ Return(a)
    /\ UNCHANGED <<xvars, gvars, tvars, tasks, ex, started, list, sweeper, exitSem>>

\* CreatDataTasklet: FdListInit.
NewList ==
    /\ pc["ctrl"] = "newList"
    /\ gData' = FALSE
    /\ \/ list' = TRUE /\ Goto("ctrl", "create")
       \/ UNCHANGED list /\ Goto("ctrl", "return")
    /\ UNCHANGED <<xvars, tvars, tasks, ex, started, child, proxy, destroySem,
                   sweeper, exitSem, dt, dtTl>>

\* A failure of XtaskletCreate, or after an XtaskletDestroy.
CreateFailed(a) ==
    /\ pc[a] = "failed"
    /\ list' = IF a = "ctrl" THEN FALSE ELSE list
    /\ Failed(a)
    /\ UNCHANGED <<xvars, gvars, tvars, tasks, ex, started, sweeper, exitSem, dt, dtTl>>

\* FdListTimeoutThreadCreat; without it the executor is destroyed.
StartSweeper ==
    /\ pc["ctrl"] = "startSweeper"
    /\ \/ /\ dt' = TRUE /\ sweeper' = "wait" /\ exitSem' = FALSE
          /\ Goto("ctrl", "setTl")
       \/ UNCHANGED <<dt, sweeper, exitSem>> /\ Call("ctrl", "terminate", "failed")
    /\ UNCHANGED <<xvars, gvars, tvars, tasks, ex, started, list, dtTl>>

SetTl ==
    /\ pc["ctrl"] = "setTl"
    /\ dtTl' = TRUE
    /\ Goto("ctrl", "register")
    /\ UNCHANGED <<xvars, gvars, tvars, tasks, ex, started, list, sweeper, exitSem, dt>>

\* PosixProxyRegisterTaskletRequest, the ioctl that gives the memory to the
\* TEE.
Register(a) ==
    /\ pc[a] = "register"
    /\ \/ known' = known \cup {target[a]} /\ Goto(a, "publish")
       \/ /\ UNCHANGED known
          /\ IF a = "main" THEN Call(a, "terminate", "over")
                           ELSE Call(a, "freeData", "return")
    /\ UNCHANGED <<xvars, lvars, gvars, tasks, ex, started, request, calls, ended>>

\* The main thread allocates and fills g_posix_proxy, or fails although the TEE
\* knows the memory by now; the control executor sets its dataTasklet.
Publish(a) ==
    /\ pc[a] = "publish"
    /\ \/ a = "main" /\ proxy' = TRUE /\ UNCHANGED gData /\ Goto(a, "wait")
       \/ a = "main" /\ UNCHANGED <<proxy, gData>> /\ Call(a, "terminate", "over")
       \/ a = "ctrl" /\ gData' = TRUE /\ UNCHANGED proxy /\ Goto(a, "return")
    /\ UNCHANGED <<xvars, lvars, tvars, tasks, ex, started, child, destroySem>>

-----------------------------------------------------------------------------
(* Control calls, and the main thread. *)

\* PosixCtrlTaskletCallHandler; the functions for the data tasklet begin with
\* FreeDataTasklet of g_posix_proxy->dataTasklet, which may be null.
CtrlCallHandler ==
    LET cont == IF request = "unregister" THEN "post" ELSE "newList" IN
    /\ ex[<<"ctrl", 0>>] = "run" /\ pc["ctrl"] = "idle"
    /\ \/ request = "registerCtrl" /\ Goto("ctrl", "spawn")
       \/ request # "registerCtrl" /\ ~proxy /\ Goto("ctrl", "return")
       \/ request # "registerCtrl" /\ proxy /\ gData /\ Call("ctrl", "freeData", cont)
       \/ request # "registerCtrl" /\ proxy /\ ~gData /\ Goto("ctrl", cont)
    /\ UNCHANGED <<xvars, lvars, gvars, tvars, tasks, ex, started>>

\* The end of PosixProxyUnregisterAllTasklet.
PostDestroy ==
    /\ pc["ctrl"] = "post"
    /\ gData' = FALSE
    /\ destroySem' = destroySem + 1
    /\ Goto("ctrl", "return")
    /\ UNCHANGED <<xvars, lvars, tvars, tasks, ex, started, child, proxy>>

CtrlReturn ==
    /\ pc["ctrl"] = "return"
    /\ Goto("ctrl", "idle")
    /\ ex' = [ex EXCEPT ![<<"ctrl", 0>>] = "enqueue"]
    /\ UNCHANGED <<xvars, lvars, gvars, tvars, tasks, started>>

\* sem_wait of a child, or the end of TriggerPortal; then PosixProxyDestroy,
\* which begins with FreeCtrlTasklet.
MainWait ==
    /\ pc["main"] = "wait"
    /\ \/ child /\ destroySem > 0 /\ destroySem' = destroySem - 1 /\ UNCHANGED ended
       \/ /\ ~child /\ request = "none" /\ calls = 0
          /\ ended' = TRUE /\ UNCHANGED destroySem
    /\ Call("main", "terminate", "freeRest")
    /\ UNCHANGED <<xvars, lvars, tasks, ex, started, child, proxy, gData, known,
                   request, calls>>

\* Mutant: the data tasklet is forgotten.
FreeRestKeepData ==
    /\ pc["main"] = "freeRest"
    /\ pc' = [pc EXCEPT !["main"] = "exit"]
    /\ UNCHANGED <<xvars, lvars, gvars, tvars, tasks, ex, started, after, target>>

\* FreeDataTasklet of g_posix_proxy->dataTasklet, if it is set.
FreeRest ==
    /\ pc["main"] = "freeRest"
    /\ target' = [target EXCEPT !["main"] = "data"]
    /\ IF gData THEN /\ pc' = [pc EXCEPT !["main"] = "freeData"]
                     /\ after' = [after EXCEPT !["main"] = <<"exit">>]
                ELSE pc' = [pc EXCEPT !["main"] = "exit"] /\ UNCHANGED after
    /\ UNCHANGED <<xvars, lvars, gvars, tvars, tasks, ex, started>>

\* PosixProxyExitDev, and g_posix_proxy is freed.
MainExit ==
    /\ pc["main"] = "exit"
    /\ proxy' = FALSE /\ gData' = FALSE
    /\ Goto("main", "reap")
    /\ UNCHANGED <<xvars, lvars, tvars, tasks, ex, started, child, destroySem>>

-----------------------------------------------------------------------------
(* Child processes. *)

\* A thread of the proxy may be inside malloc or free: the sweeping thread, an
\* executor that takes a message from the queue (BlockingDequeue allocates the
\* task), serves it, or frees the task when it has been answered.
InAllocator ==
    \/ sweeper = "sweep"
    \/ \E e \in Of("data") : \/ ex[e] = "dequeue" /\ tasks["data"] > 0
                             \/ ex[e] \in {"run", "enqueue"}

\* Mutant: the shared result is not preset to -1.
CloneResultZero ==
    /\ pc["ctrl"] = "spawn"
    /\ nkids < NKids
    /\ nkids' = nkids + 1
    /\ kid' = [kid EXCEPT ![nkids + 1] = "init"]
    /\ ok' = ok \cup {nkids + 1}
    /\ Goto("ctrl", "await")
    /\ UNCHANGED <<posted, told, late>>

\* PosixProxyRegisterCtrlTasklet up to the clone: a semaphore, shared memory
\* with the result -1, a stack and the child, or nothing of it.  (shmat is taken
\* not to fail: the code compares its result with NULL, which a failure is not,
\* and goes on to write through it.)  clone does not run the handlers of fork: a
\* lock of the allocator that another thread holds stays locked in the child for
\* ever.
CloneChild ==
    /\ pc["ctrl"] = "spawn"
    /\ \/ /\ nkids < NKids
          /\ nkids' = nkids + 1
          /\ \E s \in {"init"} \cup (IF InAllocator THEN {"stuck"} ELSE {}) :
                kid' = [kid EXCEPT ![nkids + 1] = s]
          /\ Goto("ctrl", "await")
       \/ Goto("ctrl", "return") /\ UNCHANGED <<nkids, kid>>
    /\ UNCHANGED <<ok, posted, told, late>>

\* Mutant: sem_wait.
WaitForEver ==
    /\ pc["ctrl"] = "await"
    /\ nkids \in posted
    /\ Goto("ctrl", "result")
    /\ UNCHANGED kvars

\* sem_timedwait of three seconds.
WaitChild ==
    /\ pc["ctrl"] = "await"
    /\ late' = IF nkids \in posted THEN late ELSE late \cup {nkids}
    /\ Goto("ctrl", "result")
    /\ UNCHANGED <<nkids, kid, ok, posted, told>>

\* The result, whether or not the wait was in vain; the child's pid is the
\* answer if it is 0.  The semaphore and the memory are dropped.
ReadResult ==
    /\ pc["ctrl"] = "result"
    /\ told' = IF nkids \in ok THEN told \cup {nkids} ELSE told
    /\ Goto("ctrl", "return")
    /\ UNCHANGED <<nkids, kid, ok, posted, late>>

KidGoes(k, from, to) == kid[k] = from /\ kid' = [kid EXCEPT ![k] = to]

\* PosixProxyInit of the child, which ends with the TEE knowing it.
KidInit(k) ==
    /\ KidGoes(k, "init", "up") \/ KidGoes(k, "init", "failed")
    /\ UNCHANGED <<ok, posted>>

\* Mutant: the semaphore is posted before the result is written.
KidReportEarly(k) ==
    \/ KidGoes(k, "up", "written") /\ posted' = posted \cup {k} /\ UNCHANGED ok
    \/ KidGoes(k, "written", "serving") /\ ok' = ok \cup {k} /\ UNCHANGED posted

\* ChildPosixProxyFunc writes its result, then posts the semaphore.
KidReport(k) ==
    \/ KidGoes(k, "up", "written") /\ ok' = ok \cup {k} /\ UNCHANGED posted
    \/ KidGoes(k, "written", "serving") /\ posted' = posted \cup {k} /\ UNCHANGED ok

\* A child that failed reports that and ends; another one ends when its
\* destroySem is posted and PosixProxyDestroy is done.
KidEnd(k) ==
    /\ \/ KidGoes(k, "failed", "gone") /\ posted' = posted \cup {k}
       \/ KidGoes(k, "ending", "gone") /\ UNCHANGED posted
    /\ UNCHANGED ok

\* Mutant: the proxy ends without waiting for its children.
ReapNone ==
    /\ pc["main"] = "reap"
    /\ Goto("main", "over")
    /\ UNCHANGED kvars

\* The loop of wait at the end of PosixProxyDestroy.
ReapChildren ==
    /\ pc["main"] = "reap"
    /\ \/ \E k \in Kids : KidGoes(k, "gone", "reaped") /\ UNCHANGED avars
       \/ /\ \A k \in 1 .. nkids : kid[k] = "reaped"
          /\ Goto("main", "over")
          /\ UNCHANGED kid
    /\ UNCHANGED <<nkids, ok, posted, told, late>>

-----------------------------------------------------------------------------
(* The TEE. *)

\* A control call: one about the data tasklet at a time when no data call is
\* in progress, one for a child when the proxy is set up and runs a program.
TeeCtrlCall(r) ==
    /\ "ctrl" \in known /\ request = "none" /\ ~ended
    /\ IF r = "registerCtrl" THEN proxy ELSE calls = 0
    /\ request' = r
    /\ ended' = (r = "unregister")
    /\ tasks' = [tasks EXCEPT !["ctrl"] = @ + 1]
    /\ UNCHANGED <<xvars, lvars, gvars, avars, ex, started, known, calls>>

TeeDataCall ==
    /\ "data" \in known /\ calls < MaxCalls /\ ~ended
    /\ request \in {"none", "registerCtrl"}
    /\ calls' = calls + 1
    /\ tasks' = [tasks EXCEPT !["data"] = @ + 1]
    /\ UNCHANGED <<xvars, lvars, gvars, avars, ex, started, known, request, ended>>

\* The TEE unregisters a child, which then posts its destroySem.
TeeEndsKid ==
    /\ \E k \in Kids : KidGoes(k, "serving", "ending")
    /\ UNCHANGED <<nkids, ok, posted, told, late>>

-----------------------------------------------------------------------------
ActorStep(a) ==
    \/ XtaskletCreate(a) \/ StartThread(a) \/ JoinStarted(a) \/ SetPriv(a)
    \/ Terminate(a) \/ InterruptRes(a) \/ InterruptTask(a) \/ JoinAndFree(a)
    \/ FreeDataTasklet(a) \/ JoinSweeper(a) \/ FreeDt(a)
    \/ CreateFailed(a) \/ Register(a) \/ Publish(a)

MainStep ==
    \/ (ActorStep("main") \/ MainWait \/ FreeRest \/ MainExit) /\ UNCHANGED kvars
    \/ ReapChildren /\ UNCHANGED <<xvars, lvars, gvars, tvars, tasks, ex, started>>

CtrlStep ==
    \/ /\ \/ ActorStep("ctrl") \/ CtrlCallHandler \/ NewList \/ StartSweeper \/ SetTl
          \/ PostDestroy \/ CtrlReturn
       /\ UNCHANGED kvars
    \/ /\ CloneChild \/ WaitChild \/ ReadResult
       /\ UNCHANGED <<xvars, lvars, gvars, tvars, tasks, ex, started>>

ExecutorStep(e) ==
    (Fetch(e) \/ Dequeue(e) \/ DataCallHandler(e) \/ Enqueue(e)) /\ UNCHANGED kvars

SweeperStep == (SweeperWait \/ SweeperSweep) /\ UNCHANGED kvars

KidStep(k) ==
    /\ KidInit(k) \/ KidReport(k) \/ KidEnd(k)
    /\ UNCHANGED <<xvars, lvars, gvars, tvars, avars, tasks, ex, started,
                   nkids, told, late>>

TeeStep ==
    \/ /\ \/ \E r \in {"registerData", "registerCtrl", "unregister"} : TeeCtrlCall(r)
          \/ TeeDataCall
       /\ UNCHANGED kvars
    \/ TeeEndsKid /\ UNCHANGED <<xvars, lvars, gvars, tvars, avars, tasks, ex, started>>

Next ==
    \/ MainStep \/ CtrlStep \/ SweeperStep
    \/ \E e \in Executors : ExecutorStep(e)
    \/ \E k \in Kids : KidStep(k)
    \/ TeeStep

Spec == Init /\ [][Next]_vars

\* Every thread of the proxy and every child that is not stuck goes on, and
\* calls of the handlers end.  Nothing is assumed of the TEE.
FairSpec ==
    /\ Spec
    /\ WF_vars(MainStep) /\ WF_vars(CtrlStep) /\ WF_vars(SweeperStep)
    /\ \A e \in Executors : WF_vars(ExecutorStep(e))
    /\ \A k \in Kids : WF_vars(KidStep(k))

-----------------------------------------------------------------------------
(* Properties *)

Locations == {"create", "start", "joinStarted", "setPriv", "terminate", "intrRes",
              "intrTask", "join", "freeData", "joinSweeper", "freeDt", "failed",
              "register", "publish", "wait", "freeRest", "exit", "over", "idle",
              "newList", "startSweeper", "setTl", "post", "return",
              "spawn", "await", "result", "reap"}

\* Every variable holds a value of its C type.
TypeOK ==
    /\ child \in BOOLEAN
    /\ \A f \in {tl, priv, terminated, intrRes, intrTask} : f \in [Tasklets -> BOOLEAN]
    /\ tasks \in [Tasklets -> Nat]
    /\ ex \in [Executors -> {"off", "loop", "dequeue", "run", "enqueue"}]
    /\ started \in 0 .. NData
    /\ sweeper \in {"off", "wait", "sweep"}
    /\ \A b \in {list, exitSem, dt, dtTl, proxy, gData, ended} : b \in BOOLEAN
    /\ destroySem \in 0 .. 1
    /\ pc \in [Actors -> Locations] /\ after \in [Actors -> Seq(Locations)]
    /\ target \in [Actors -> Tasklets]
    /\ known \subseteq Tasklets
    /\ request \in {"none", "registerData", "registerCtrl", "unregister"}
    /\ calls \in 0 .. MaxCalls
    /\ nkids \in 0 .. NKids
    /\ kid \in [Kids -> {"none", "stuck", "init", "up", "written", "serving",
                         "failed", "ending", "gone", "reaped"}]
    /\ \A ks \in {ok, posted, told, late} : ks \subseteq Kids

\* The types hold, and nobody uses a tasklet or its queues after
\* XtaskletDestroy has freed them: not an executor, and not a second thread
\* that destroys the same tasklet.  A handler of a data call gets the package
\* list, set and not yet destroyed, although executors start before tl->priv
\* is set; and the sweeping thread, which reads dataTasklet->tl while it is
\* being set, finds the list too.
TaskletAlive ==
    /\ TypeOK
    /\ \A e \in Executors : ex[e] # "off" => tl[e[1]]
    /\ \A a \in Actors :
          pc[a] \in {"terminate", "intrRes", "intrTask", "join"} => tl[target[a]]
    /\ \A e \in Of("data") : ex[e] = "run" => list /\ priv["data"]
    /\ sweeper # "off" => dt
    /\ sweeper = "sweep" => list /\ tl["data"] /\ priv["data"]

\* The global structure never points to a data tasklet that is gone for
\* anybody who may read it, and when the main thread is done nothing is left:
\* no thread, tasklet, list, structure or child process, whatever failed on
\* the way.
NothingLeft ==
    /\ gData /\ pc["ctrl"] = "idle" /\ pc["main"] # "exit" => dt \/ pc["main"] = "freeDt"
    /\ pc["main"] = "over" =>
          /\ ~proxy /\ ~dt /\ ~list /\ sweeper = "off"
          /\ \A x \in Tasklets : ~tl[x]
          /\ \A e \in Executors : ex[e] = "off"
          /\ \A k \in Kids : kid[k] \in {"none", "reaped"}

\* The TEE is given the pid of a child only if the child has set up its proxy,
\* and a proxy that is set up is one that the TEE was told of, unless it came
\* up later than the three seconds that its parent waits.
ChildAnswer ==
    /\ \A k \in told : kid[k] \in {"written", "serving", "ending", "gone", "reaped"}
    /\ \A k \in Kids : kid[k] \in {"up", "written", "serving", "ending"} =>
          \/ k \in told \cup late
          \/ k = nkids /\ pc["ctrl"] \in {"await", "result"}

\* Every data call is answered, and every request to register a data tasklet,
\* also the first after a data tasklet has been replaced, or a child's control
\* tasklet, however the child behaves; unless the proxy could not be set up
\* and has taken back the memory of its control tasklet.
CallsAnswered ==
    /\ calls = MaxCalls ~> calls < MaxCalls
    /\ request \in {"registerData", "registerCtrl"} ~>
          request = "none" \/ "ctrl" \notin known

\* A proxy whose end the TEE has asked for, or that has begun to end, ends: no
\* join waits for a thread that waits in a queue.  Only children that are stuck
\* or that the TEE still uses can hold it up, at the very end.
ProxyEnds ==
    /\ child /\ request = "unregister" /\ pc["ctrl"] \in {"freeData", "post"} ~>
          pc["main"] \in {"reap", "over"}
    /\ pc["main"] = "terminate" ~> pc["main"] \in {"reap", "over"}
    /\ pc["main"] = "reap" /\ (\A k \in Kids : kid[k] \notin {"stuck", "serving"}) ~>
          pc["main"] = "over" \/ \E k \in Kids : kid[k] = "serving"
=============================================================================
