-------------------------- MODULE PosixProxyProofs --------------------------
(***************************************************************************)
(* Proofs about PosixProxy, for any number of executors, calls and child   *)
(* processes, wherever the creation of a thread may fail.                  *)
(***************************************************************************)
EXTENDS PosixProxy, FiniteSetTheorems, SequenceTheorems, TLAPS

-----------------------------------------------------------------------------
(* The inductive invariant. *)

\* Where the two threads are, and where they return to.
ActorsTyped ==
    /\ pc \in [Actors -> Locations] /\ after \in [Actors -> Seq(Locations)]
    /\ target \in [Actors -> Tasklets]

\* The types, those of the proxy apart from those of its children.
Typed ==
    /\ child \in BOOLEAN
    /\ tl \in [Tasklets -> BOOLEAN] /\ priv \in [Tasklets -> BOOLEAN]
    /\ terminated \in [Tasklets -> BOOLEAN]
    /\ intrRes \in [Tasklets -> BOOLEAN] /\ intrTask \in [Tasklets -> BOOLEAN]
    /\ tasks \in [Tasklets -> Nat]
    /\ ex \in [Executors -> {"off", "loop", "dequeue", "run", "enqueue"}]
    /\ started \in 0 .. NData
    /\ sweeper \in {"off", "wait", "sweep"}
    /\ list \in BOOLEAN /\ exitSem \in BOOLEAN /\ dt \in BOOLEAN /\ dtTl \in BOOLEAN
    /\ proxy \in BOOLEAN /\ gData \in BOOLEAN /\ ended \in BOOLEAN
    /\ destroySem \in 0 .. 1
    /\ known \subseteq Tasklets
    /\ request \in {"none", "registerData", "registerCtrl", "unregister"}
    /\ calls \in 0 .. MaxCalls

KidsTyped ==
    /\ nkids \in 0 .. NKids
    /\ kid \in [Kids -> {"none", "stuck", "init", "up", "written", "serving",
                         "failed", "ending", "gone", "reaped"}]
    /\ ok \subseteq Kids /\ posted \subseteq Kids /\ told \subseteq Kids /\ late \subseteq Kids

\* XtaskletDestroy up to the join.
Destroying == {"terminate", "intrRes", "intrTask", "join"}

\* The control executor: CtrlE runs a handler, at rest or in CreatDataTasklet
\* and FreeDataTasklet.
CtrlE == <<"ctrl", 0>>
Resting == {"idle", "return", "spawn", "await", "result"}
Creating == {"create", "start", "joinStarted", "setPriv", "startSweeper", "setTl",
             "register", "publish", "failed"}
Freeing == {"freeData", "joinSweeper", "freeDt"}

\* The main thread: where it may be, where it returns to and which tasklet is
\* meant.
MainSetsUp == {"create", "start", "joinStarted", "setPriv", "failed", "register",
               "publish"}

MainPlace ==
    \/ /\ pc["main"] \in MainSetsUp \cup {"wait", "freeRest"}
       /\ after["main"] = <<>> /\ target["main"] = "ctrl"
    \/ /\ pc["main"] \in Destroying
       /\ after["main"] \in {<<"over">>, <<"freeRest">>} /\ target["main"] = "ctrl"
    \/ /\ pc["main"] \in Freeing
       /\ after["main"] = <<"exit">> /\ target["main"] = "data"
    \/ /\ pc["main"] \in Destroying
       /\ after["main"] = <<"freeDt", "exit">> /\ target["main"] = "data"
    \/ /\ pc["main"] \in {"exit", "reap"}
       /\ after["main"] = <<>> /\ target["main"] = "data"
    \/ pc["main"] = "over" /\ after["main"] = <<>>

\* PosixProxyDestroy has begun.
Closing ==
    \/ pc["main"] \in Destroying /\ after["main"] = <<"freeRest">>
    \/ pc["main"] \in {"freeRest", "reap"}
    \/ target["main"] = "data"

\* The control executor, which serves a call whenever it is not idle.  It frees
\* the data tasklet in order to replace it, to unregister it, or because it
\* could not be registered.
Continuations == {"newList", "post", "return"}

CtrlPlace ==
    /\ target["ctrl"] = "data"
    /\ \/ pc["ctrl"] \in Resting \cup Creating \cup {"newList", "post"} /\ after["ctrl"] = <<>>
       \/ pc["ctrl"] \in Destroying /\ after["ctrl"] = <<"failed">>
       \/ \E c \in Continuations :
             \/ pc["ctrl"] \in Freeing /\ after["ctrl"] = <<c>>
             \/ pc["ctrl"] \in Destroying /\ after["ctrl"] = <<"freeDt", c>>
    /\ pc["ctrl"] # "idle" => ex[CtrlE] = "run"

\* What there is of a data tasklet at each location of the thread that creates
\* or frees it.
PartsAt(loc, ret) ==
    /\ list <=> \/ loc \in {"create", "start", "joinStarted", "setPriv", "failed"}
                \/ loc \in {"startSweeper", "setTl", "register", "publish"}
                \/ loc \in {"freeData", "joinSweeper"}
                \/ loc \in Destroying /\ ret = <<"failed">>
    /\ tl["data"] <=> \/ loc \in {"start", "joinStarted", "setPriv"}
                      \/ loc \in {"startSweeper", "setTl", "register", "publish"}
                      \/ loc \in {"freeData", "joinSweeper"} \cup Destroying
    /\ priv["data"] <=> \/ loc \in {"startSweeper", "setTl", "register", "publish"}
                        \/ loc \in {"freeData", "joinSweeper"} \cup Destroying
    /\ dt <=> \/ loc \in {"setTl", "register", "publish"} \cup Freeing
              \/ loc \in Destroying /\ ret # <<"failed">>
    /\ dtTl <=> \/ loc \in {"register", "publish"} \cup Freeing
                \/ loc \in Destroying /\ ret # <<"failed">>
    /\ sweeper # "off" =>
          loc \in {"setTl", "register", "publish", "freeData", "joinSweeper"}
    /\ sweeper = "sweep" => loc # "setTl"

\* All of it, or nothing.
Whole ==
    list /\ tl["data"] /\ priv["data"] /\ dt /\ dtTl

Nothing ==
    ~list /\ ~tl["data"] /\ ~priv["data"] /\ ~dt /\ ~dtTl /\ sweeper = "off"

\* The main thread frees it at the end; until then it is the control executor's,
\* or it is there if the global structure says so.
DataParts ==
    /\ target["main"] = "data" => PartsAt(pc["main"], after["main"])
    /\ target["main"] = "ctrl" /\ pc["ctrl"] \notin Resting =>
          PartsAt(pc["ctrl"], after["ctrl"])
    /\ target["main"] = "ctrl" /\ pc["ctrl"] \in Resting =>
          IF gData THEN Whole ELSE Nothing

\* The control tasklet is the main thread's.
CtrlParts ==
    tl["ctrl"] <=> /\ target["main"] = "ctrl"
                   /\ pc["main"] \in {"start", "joinStarted", "setPriv", "register",
                                      "publish", "wait"} \cup Destroying

\* Executors run in a tasklet that exists.  While ThreadPoolInit runs, the
\* executors not yet started are off; a second thread never uses its counter.
ExecutorsOwned ==
    /\ \A e \in Executors : ex[e] # "off" => tl[e[1]]
    /\ \A a \in Actors : pc[a] = "start" =>
          /\ started < Concurrency(target[a])
          /\ \A e \in Of(target[a]) : e[2] >= started => ex[e] = "off"

\* The global structure: it is there from Publish until the end, control calls
\* but for the first checks need it, and it is empty while a data tasklet is
\* created or could not be registered.
Global ==
    /\ pc["main"] \in MainSetsUp => ~proxy
    /\ pc["main"] \in Destroying /\ after["main"] = <<"over">> => ~proxy
    /\ pc["main"] \in {"reap", "over"} => ~proxy
    /\ ~proxy => ~gData
    /\ pc["ctrl"] \notin {"idle", "return"} \/ request = "registerCtrl" => proxy
    /\ \/ pc["ctrl"] \in Creating
       \/ after["ctrl"] \in {<<"failed">>, <<"return">>, <<"freeDt", "return">>}
       => ~gData

\* A control call is in the queue or with the executor; those about the data
\* tasklet come when no data call is in progress, and the last one is the one
\* that unregisters everything.
Requests ==
    /\ tasks["ctrl"] # 0 => tasks["ctrl"] = 1 /\ ex[CtrlE] \notin {"run", "enqueue"}
    /\ tasks["ctrl"] > 0 \/ ex[CtrlE] \in {"run", "enqueue"} => request # "none"
    /\ request \in {"registerData", "unregister"} => calls = 0
    /\ request = "unregister" => ended
    /\ request = "registerCtrl" => ~ended
    /\ pc["ctrl"] \in {"spawn", "await", "result"} => request = "registerCtrl"
    /\ pc["ctrl"] \notin Resting => request \in {"registerData", "unregister"}
    /\ \/ pc["ctrl"] = "post"
       \/ after["ctrl"] \in {<<"post">>, <<"freeDt", "post">>}
       => request = "unregister"

\* The data calls in the queue and with the executors are not answered yet.
Busy == {i \in 0 .. NData - 1 : ex[<<"data", i>>] \in {"run", "enqueue"}}

Counted == tasks["data"] + Cardinality(Busy) <= calls

\* When the proxy's end is decided, the last call is served up to its answer.
Ending ==
    destroySem = 1 \/ Closing =>
       /\ ended /\ calls = 0 /\ tasks["ctrl"] = 0
       /\ pc["ctrl"] \in {"idle", "return"}
       /\ ex[CtrlE] = "run" => pc["ctrl"] = "return"
       /\ child => ~gData

\* The main thread frees the data tasklet that the structure points to.
MainFrees ==
    target["main"] = "data" =>
       /\ ex[CtrlE] = "off"
       /\ pc["main"] \notin {"exit", "reap", "over"} => gData

\* Children: there is none before the proxy is set up, and at the end each is
\* reaped.
KidsReaped ==
    /\ ~proxy /\ target["main"] = "ctrl" => nkids = 0
    /\ pc["main"] = "over" => \A k \in Kids : kid[k] \in {"none", "reaped"}

\* The shared result, the semaphore and what the parent makes of them.
KidAnswers ==
    /\ \A k \in Kids : k > nkids =>
          kid[k] = "none" /\ k \notin ok /\ k \notin posted /\ k \notin told
    /\ \A k \in ok : kid[k] \in {"written", "serving", "ending", "gone", "reaped"}
    /\ \A k \in Kids : kid[k] \in {"written", "serving", "ending"} => k \in ok
    /\ told \subseteq ok
    /\ \A k \in posted : k \in ok \/ kid[k] \in {"gone", "reaped"}
    /\ \A k \in Kids : kid[k] \in {"init", "up", "written", "serving", "ending"} =>
          \/ k \in told \cup late
          \/ k = nkids /\ pc["ctrl"] \in {"await", "result"}
    /\ pc["ctrl"] \in {"await", "result"} => nkids > 0
    /\ pc["ctrl"] = "result" => nkids \in posted \cup late

\* The proxy itself, and its children.
ProxyInv ==
    /\ MainPlace /\ CtrlPlace /\ DataParts /\ CtrlParts /\ ExecutorsOwned
    /\ Global /\ Requests /\ Counted /\ Ending /\ MainFrees

IInv == ActorsTyped /\ Typed /\ KidsTyped /\ ProxyInv /\ KidsReaped /\ KidAnswers

\* Sets of locations and views of the state are expanded in every proof.
USE DEF Actors, Tasklets, Destroying, Resting, Creating, Freeing, MainSetsUp,
        Continuations, CtrlE, xvars, lvars, gvars, tvars, avars, kvars

-----------------------------------------------------------------------------
(* Locations and return stacks. *)

\* What Call and Return do to the return stacks, which have one or two entries.
LEMMA Stacks ==
    /\ \A c : Head(<<c>>) = c /\ Tail(<<c>>) = <<>> /\ <<c>> \o <<>> = <<c>>
    /\ \A c, d : Head(<<c, d>>) = c /\ Tail(<<c, d>>) = <<d>> /\ <<c>> \o <<d>> = <<c, d>>
<1>1. \A c : Head(<<c>>) = c /\ Tail(<<c>>) = <<>>
  OBVIOUS
<1>2. \A c : <<c>> \o <<>> = <<c>>
  OBVIOUS
<1>3. \A c, d : Head(<<c, d>>) = c
  OBVIOUS
<1>4. \A c, d : Tail(<<c, d>>) = <<d>>
  OBVIOUS
<1>5. ASSUME NEW c, NEW d
      PROVE  <<c>> \o <<d>> = <<c, d>>
  <2> DEFINE S == {c, d}
             s == <<c>> \o <<d>>
             t == <<c, d>>
  <2>1. <<c>> \in Seq(S) /\ <<d>> \in Seq(S) /\ Len(<<c>>) = 1 /\ Len(<<d>>) = 1
    OBVIOUS
  <2>2. s \in Seq(S) /\ Len(s) = 2
    BY <2>1, ConcatProperties
  <2>3. s[1] = c /\ s[2] = d
    BY <2>1, ConcatProperties
  <2>4. t \in Seq(S) /\ Len(t) = 2 /\ t[1] = c /\ t[2] = d
    OBVIOUS
  <2> HIDE DEF s, t, S
  <2>5. \A i \in 1 .. Len(s) : s[i] = t[i]
    BY <2>2, <2>3, <2>4
  <2>6. s = t
    BY <2>2, <2>4, <2>5, SeqEqual
  <2> QED BY <2>6 DEF s, t
<1> QED BY <1>1, <1>2, <1>3, <1>4, <1>5

\* While the control executor serves a call, the main thread has not begun to
\* destroy the data tasklet.
LEMMA CtrlAlone ==
    ASSUME IInv, pc["ctrl"] # "idle"
    PROVE  target["main"] = "ctrl" /\ ex[CtrlE] = "run"
  BY DEF IInv, ProxyInv, CtrlPlace, MainFrees, MainPlace, ActorsTyped, Typed

\* What remains on the stack when XtaskletDestroy or FreeDataTasklet returns.
MainReturned ==
    /\ \/ /\ target["main"] = "ctrl" /\ pc["main"] \in Destroying /\ after'["main"] = <<>>
          /\ \/ pc'["main"] = "over" /\ after["main"] = <<"over">>
             \/ pc'["main"] = "freeRest" /\ after["main"] = <<"freeRest">>
       \/ /\ target["main"] = "data" /\ pc["main"] \in Destroying
          /\ pc'["main"] = "freeDt" /\ after'["main"] = <<"exit">>
          /\ after["main"] = <<"freeDt", "exit">>
       \/ /\ target["main"] = "data" /\ pc["main"] \in Freeing
          /\ pc'["main"] = "exit" /\ after'["main"] = <<>>
          /\ after["main"] = <<"exit">>
    /\ pc'["ctrl"] = pc["ctrl"] /\ after'["ctrl"] = after["ctrl"] /\ target' = target

CtrlReturned ==
    /\ \/ /\ pc["ctrl"] \in Destroying /\ after["ctrl"] = <<"failed">>
          /\ pc'["ctrl"] = "failed" /\ after'["ctrl"] = <<>>
       \/ \E c \in Continuations :
             /\ pc["ctrl"] \in Destroying /\ after["ctrl"] = <<"freeDt", c>>
             /\ pc'["ctrl"] = "freeDt" /\ after'["ctrl"] = <<c>>
       \/ \E c \in Continuations :
             /\ pc["ctrl"] \in Freeing /\ after["ctrl"] = <<c>>
             /\ pc'["ctrl"] = c /\ after'["ctrl"] = <<>>
    /\ pc'["main"] = pc["main"] /\ after'["main"] = after["main"] /\ target' = target

\* That is so for the main thread,
LEMMA MainReturns ==
    ASSUME IInv, Return("main"), pc["main"] \in Destroying \cup Freeing
    PROVE  MainReturned
<1>1. MainPlace /\ pc'["main"] = Head(after["main"]) /\ after'["main"] = Tail(after["main"])
  BY DEF IInv, ProxyInv, ActorsTyped, Typed, Return
<1>2. /\ pc'["ctrl"] = pc["ctrl"] /\ after'["ctrl"] = after["ctrl"] /\ target' = target
      /\ target["main"] \in Tasklets
  BY DEF IInv, ActorsTyped, Typed, Return
<1>3. /\ Head(<<"over">>) = "over" /\ Tail(<<"over">>) = <<>>
      /\ Head(<<"freeRest">>) = "freeRest" /\ Tail(<<"freeRest">>) = <<>>
      /\ Head(<<"exit">>) = "exit" /\ Tail(<<"exit">>) = <<>>
      /\ Head(<<"freeDt", "exit">>) = "freeDt" /\ Tail(<<"freeDt", "exit">>) = <<"exit">>
  BY Stacks
<1> QED BY <1>1, <1>2, <1>3 DEF MainPlace, MainReturned

\* and for the control executor.
LEMMA CtrlReturns ==
    ASSUME IInv, Return("ctrl"), pc["ctrl"] \in Destroying \cup Freeing
    PROVE  CtrlReturned
<1>1. CtrlPlace /\ pc'["ctrl"] = Head(after["ctrl"]) /\ after'["ctrl"] = Tail(after["ctrl"])
  BY DEF IInv, ProxyInv, ActorsTyped, Typed, Return
<1>2. pc'["main"] = pc["main"] /\ after'["main"] = after["main"] /\ target' = target
  BY DEF IInv, ActorsTyped, Typed, Return
<1>3. CASE pc["ctrl"] \in Destroying /\ after["ctrl"] = <<"failed">>
  BY <1>1, <1>2, <1>3, Stacks DEF CtrlReturned
<1>4. ASSUME NEW c \in Continuations,
             \/ pc["ctrl"] \in Freeing /\ after["ctrl"] = <<c>>
             \/ pc["ctrl"] \in Destroying /\ after["ctrl"] = <<"freeDt", c>>
      PROVE  \/ /\ pc["ctrl"] \in Destroying /\ after["ctrl"] = <<"freeDt", c>>
                /\ pc'["ctrl"] = "freeDt" /\ after'["ctrl"] = <<c>>
             \/ /\ pc["ctrl"] \in Freeing /\ after["ctrl"] = <<c>>
                /\ pc'["ctrl"] = c /\ after'["ctrl"] = <<>>
  <2>1. /\ Head(<<c>>) = c /\ Tail(<<c>>) = <<>>
        /\ Head(<<"freeDt", c>>) = "freeDt" /\ Tail(<<"freeDt", c>>) = <<c>>
    BY Stacks
  <2>2. CASE pc["ctrl"] \in Freeing /\ after["ctrl"] = <<c>>
    BY <1>1, <2>1, <2>2
  <2>3. CASE pc["ctrl"] \in Destroying /\ after["ctrl"] = <<"freeDt", c>>
    BY <1>1, <2>1, <2>3
  <2> QED BY <1>4, <2>2, <2>3
<1> QED BY <1>1, <1>2, <1>3, <1>4 DEF CtrlPlace, CtrlReturned

-----------------------------------------------------------------------------
(* Executors and their calls. *)

\* Executors have a tasklet and a position.
LEMMA ExecutorIs ==
    ASSUME NEW e \in Executors
    PROVE  \/ e = CtrlE /\ e[1] = "ctrl"
           \/ e[1] = "data" /\ \E i \in 0 .. NData - 1 : e = <<"data", i>>
  BY DEF Executors

\* The data executors with a call are finitely many.
LEMMA BusyFinite ==
    IsFiniteSet(Busy) /\ Cardinality(Busy) \in Nat
<1>1. IsFiniteSet(0 .. NData - 1) /\ Busy \subseteq 0 .. NData - 1
  BY ProxyAssumption, FS_Interval DEF Busy
<1> QED BY <1>1, FS_Subset, FS_CardinalityType

\* The calls stay counted as long as no data executor changes between having
\* one and having none.
LEMMA BusySame ==
    ASSUME \A i \in 0 .. NData - 1 :
              ex'[<<"data", i>>] \in {"run", "enqueue"} <=>
                 ex[<<"data", i>>] \in {"run", "enqueue"}
    PROVE  Busy' = Busy
  BY DEF Busy

-----------------------------------------------------------------------------
(* Tasklets are created. *)

\* XtaskletCreate makes the queues of the tasklet that its caller has in hand, or fails.
LEMMA XtaskletCreateKeeps ==
    ASSUME IInv, NEW a \in Actors, XtaskletCreate(a)
    PROVE  ProxyInv'
<1> USE DEF IInv, ProxyInv, ActorsTyped, Typed, XtaskletCreate, Goto
<1>1. MainPlace' /\ CtrlPlace' /\ Global' /\ Requests' /\ Counted' /\
      Ending' /\ MainFrees'
  BY DEF MainPlace, CtrlPlace, Global, Requests, Counted, Busy, Ending, Closing,
         MainFrees
<1>2. DataParts'
  BY CtrlAlone DEF DataParts, PartsAt, Whole, Nothing, CtrlPlace
<1>3. CtrlParts'
  BY DEF CtrlParts, MainPlace, CtrlPlace
<1>4. ExecutorsOwned'
  BY ProxyAssumption DEF ExecutorsOwned, Executors, Of, Concurrency, MainPlace,
         CtrlPlace, CtrlParts, DataParts, PartsAt
<1> QED BY <1>1, <1>2, <1>3, <1>4

\* One round of the loop of ThreadPoolInit starts the executor that it counts.
LEMMA StartThreadKeeps ==
    ASSUME IInv, NEW a \in Actors, StartThread(a)
    PROVE  ProxyInv'
<1> USE DEF IInv, ProxyInv, ActorsTyped, Typed, StartThread, Goto
<1>1. MainPlace' /\ CtrlParts' /\ Global'
  BY DEF MainPlace, CtrlParts, Global
<1>2. CtrlPlace'
  BY ExecutorIs DEF MainPlace, CtrlPlace, Executors, ExecutorsOwned, Of
<1>3. DataParts'
  BY CtrlAlone DEF DataParts, PartsAt, Whole, Nothing, CtrlPlace
<1>4. ExecutorsOwned'
  BY ProxyAssumption DEF ExecutorsOwned, Executors, Of, Concurrency, MainPlace,
         CtrlPlace, CtrlParts, DataParts, PartsAt
<1>5. Requests'
  BY DEF Requests, CtrlPlace, Executors
<1>6. Counted'
  <2>1. ASSUME NEW i \in 0 .. NData - 1, ex'[<<"data", i>>] # ex[<<"data", i>>]
        PROVE  ex[<<"data", i>>] = "off" /\ ex'[<<"data", i>>] = "loop"
    <3>1. /\ <<"data", i>> \in Executors /\ <<"data", i>>[1] = "data" /\ <<"data", i>>[2] = i
          /\ ex' = [ex EXCEPT ![<<target[a], started>>] = "loop"]
      BY <2>1 DEF Executors
    <3>2. target[a] = "data" /\ i = started /\ ex'[<<"data", i>>] = "loop"
      BY <2>1, <3>1
    <3> QED BY <3>1, <3>2 DEF ExecutorsOwned, Of
  <2>2. Busy' = Busy
    BY <2>1, BusySame
  <2> QED BY <2>2 DEF Counted
<1>7. Ending'
  BY CtrlAlone DEF Ending, Closing, MainPlace, CtrlPlace, Requests, Global, Executors
<1>8. MainFrees'
  BY DEF MainFrees, MainPlace, CtrlPlace
<1> QED BY <1>1, <1>2, <1>3, <1>4, <1>5, <1>6, <1>7, <1>8

\* ThreadPoolFinalize after a failure returns when no executor runs.
LEMMA JoinStartedKeeps ==
    ASSUME IInv, NEW a \in Actors, JoinStarted(a)
    PROVE  ProxyInv'
<1> USE DEF IInv, ProxyInv, ActorsTyped, Typed, JoinStarted, Goto
<1>1. MainPlace' /\ CtrlPlace' /\ Global' /\ Requests' /\ Counted' /\
      Ending' /\ MainFrees'
  BY DEF MainPlace, CtrlPlace, Global, Requests, Counted, Busy, Ending, Closing,
         MainFrees
<1>2. DataParts'
  BY CtrlAlone DEF DataParts, PartsAt, Whole, Nothing, CtrlPlace
<1>3. CtrlParts'
  BY DEF CtrlParts, MainPlace, CtrlPlace
<1>4. ExecutorsOwned'
  BY DEF ExecutorsOwned, Executors, Of
<1> QED BY <1>1, <1>2, <1>3, <1>4

\* The tasklet gets its priv before anybody is told of it.
LEMMA SetPrivKeeps ==
    ASSUME IInv, NEW a \in Actors, SetPriv(a)
    PROVE  ProxyInv'
<1> USE DEF IInv, ProxyInv, ActorsTyped, Typed, SetPriv, Goto
<1>1. MainPlace' /\ CtrlPlace' /\ CtrlParts' /\ ExecutorsOwned' /\
      Global' /\ Requests' /\ Counted' /\ Ending' /\ MainFrees'
  BY DEF MainPlace, CtrlPlace, CtrlParts, ExecutorsOwned, Global, Requests, Counted,
         Busy, Ending, Closing, MainFrees
<1>2. DataParts'
  BY CtrlAlone DEF DataParts, PartsAt, Whole, Nothing, CtrlPlace, MainPlace
<1> QED BY <1>1, <1>2

\* A creation that failed leaves nothing behind.
LEMMA CreateFailedKeeps ==
    ASSUME IInv, NEW a \in Actors, CreateFailed(a)
    PROVE  ProxyInv'
<1> USE DEF IInv, ProxyInv, ActorsTyped, Typed, CreateFailed, Goto, Failed
<1>1. MainPlace' /\ CtrlPlace' /\ CtrlParts' /\ Counted'
  BY DEF MainPlace, CtrlPlace, CtrlParts, Counted, Busy
<1>2. DataParts'
  BY CtrlAlone DEF DataParts, PartsAt, Whole, Nothing, CtrlPlace, MainPlace, Global,
         Requests, Ending, MainFrees
<1>3. ExecutorsOwned'
  BY ProxyAssumption DEF ExecutorsOwned, Executors, Of, Concurrency, MainPlace,
         CtrlPlace
<1>4. Global'
  BY CtrlAlone DEF Global, MainPlace, CtrlPlace, Requests, Ending, Closing
<1>5. Requests'
  BY CtrlAlone DEF Requests, MainPlace, CtrlPlace, Executors, Ending, Closing, Global
<1>6. Ending'
  BY CtrlAlone DEF Ending, Closing, MainPlace, CtrlPlace, Requests, Global, Executors
<1>7. MainFrees'
  BY CtrlAlone DEF MainFrees, MainPlace, CtrlPlace, CtrlParts, ExecutorsOwned,
         Executors, Global, Requests, Ending, Closing
<1> QED BY <1>1, <1>2, <1>3, <1>4, <1>5, <1>6, <1>7

\* CreatDataTasklet begins with nothing left of the previous data tasklet.
LEMMA NewListKeeps ==
    ASSUME IInv, NewList
    PROVE  ProxyInv'
<1> USE DEF IInv, ProxyInv, ActorsTyped, Typed, NewList, Goto
<1>1. MainPlace' /\ CtrlPlace' /\ CtrlParts' /\ ExecutorsOwned' /\
      Global' /\ Requests' /\ Counted' /\ Ending'
  BY DEF MainPlace, CtrlPlace, CtrlParts, ExecutorsOwned, Global, Requests, Counted,
         Busy, Ending, Closing
<1>2. DataParts'
  BY CtrlAlone DEF DataParts, PartsAt, Whole, Nothing, CtrlPlace
<1>3. MainFrees'
  BY DEF MainFrees, MainPlace, CtrlPlace
<1> QED BY <1>1, <1>2, <1>3

\* The sweeping thread gets a complete tasklet, or the tasklet is destroyed.
LEMMA StartSweeperKeeps ==
    ASSUME IInv, StartSweeper
    PROVE  ProxyInv'
<1> USE DEF IInv, ProxyInv, ActorsTyped, Typed, StartSweeper, Goto, Call
<1>1. MainPlace' /\ CtrlPlace' /\ CtrlParts' /\ ExecutorsOwned' /\
      Global' /\ Requests' /\ Counted' /\ Ending' /\ MainFrees'
  BY Stacks DEF MainPlace, CtrlPlace, CtrlParts, ExecutorsOwned, Global, Requests,
         Counted, Busy, Ending, Closing, MainFrees
<1>2. DataParts'
  BY Stacks, CtrlAlone DEF DataParts, PartsAt, Whole, Nothing, CtrlPlace
<1> QED BY <1>1, <1>2

\* The structure is complete when its tl is set.
LEMMA SetTlKeeps ==
    ASSUME IInv, SetTl
    PROVE  ProxyInv'
<1> USE DEF IInv, ProxyInv, ActorsTyped, Typed, SetTl, Goto
<1>1. MainPlace' /\ CtrlPlace' /\ CtrlParts' /\ ExecutorsOwned' /\
      Global' /\ Requests' /\ Counted' /\ Ending' /\ MainFrees'
  BY DEF MainPlace, CtrlPlace, CtrlParts, ExecutorsOwned, Global, Requests, Counted,
         Busy, Ending, Closing, MainFrees
<1>2. DataParts'
  BY CtrlAlone DEF DataParts, PartsAt
<1> QED BY <1>1, <1>2

-----------------------------------------------------------------------------
(* Tasklets are destroyed. *)

\* The first step of XtaskletDestroy changes nothing of what the threads hold.
LEMMA TerminateKeeps ==
    ASSUME IInv, NEW a \in Actors, Terminate(a)
    PROVE  ProxyInv'
<1> USE DEF IInv, ProxyInv, ActorsTyped, Typed, Terminate, Goto
<1>1. MainPlace' /\ CtrlPlace' /\ CtrlParts' /\ ExecutorsOwned' /\
      Global' /\ Requests' /\ Counted' /\ Ending' /\ MainFrees'
  BY DEF MainPlace, CtrlPlace, CtrlParts, ExecutorsOwned, Global, Requests, Counted,
         Busy, Ending, Closing, MainFrees
<1>2. DataParts'
  BY CtrlAlone DEF DataParts, PartsAt, Whole, Nothing, CtrlPlace
<1> QED BY <1>1, <1>2

\* Nor does the interrupt of the result queue.
LEMMA InterruptResKeeps ==
    ASSUME IInv, NEW a \in Actors, InterruptRes(a)
    PROVE  ProxyInv'
<1> USE DEF IInv, ProxyInv, ActorsTyped, Typed, InterruptRes, Goto
<1>1. MainPlace' /\ CtrlPlace' /\ CtrlParts' /\ ExecutorsOwned' /\
      Global' /\ Requests' /\ Counted' /\ Ending' /\ MainFrees'
  BY DEF MainPlace, CtrlPlace, CtrlParts, ExecutorsOwned, Global, Requests, Counted,
         Busy, Ending, Closing, MainFrees
<1>2. DataParts'
  BY CtrlAlone DEF DataParts, PartsAt, Whole, Nothing, CtrlPlace
<1> QED BY <1>1, <1>2

\* Nor does that of the task queue.
LEMMA InterruptTaskKeeps ==
    ASSUME IInv, NEW a \in Actors, InterruptTask(a)
    PROVE  ProxyInv'
<1> USE DEF IInv, ProxyInv, ActorsTyped, Typed, InterruptTask, Goto
<1>1. MainPlace' /\ CtrlPlace' /\ CtrlParts' /\ ExecutorsOwned' /\
      Global' /\ Requests' /\ Counted' /\ Ending' /\ MainFrees'
  BY DEF MainPlace, CtrlPlace, CtrlParts, ExecutorsOwned, Global, Requests, Counted,
         Busy, Ending, Closing, MainFrees
<1>2. DataParts'
  BY CtrlAlone DEF DataParts, PartsAt, Whole, Nothing, CtrlPlace
<1> QED BY <1>1, <1>2

\* The tasklet is freed when its executors are off; the main thread frees the
\* data tasklet only after the control executor is off.
LEMMA JoinAndFreeKeeps ==
    ASSUME IInv, NEW a \in Actors, JoinAndFree(a)
    PROVE  ProxyInv'
<1> USE DEF IInv, ProxyInv, ActorsTyped, Typed, JoinAndFree
<1>1. Counted'
  <2>1. Busy' = Busy
    BY BusySame
  <2>2. tasks'["data"] \in Nat /\ tasks'["data"] <= tasks["data"] /\ calls' = calls
    OBVIOUS
  <2> QED BY <2>1, <2>2, BusyFinite DEF Counted
<1>2. CASE a = "main"
  <2>1. MainReturned
    BY <1>2, MainReturns
  <2>2. MainPlace'
    BY <1>2, <2>1 DEF MainPlace, MainReturned
  <2>3. CtrlPlace'
    BY <1>2, <2>1 DEF CtrlPlace, MainReturned
  <2>4. DataParts'
    BY <1>2, <2>1
       DEF MainReturned, DataParts, PartsAt, Whole, Nothing, MainPlace, CtrlPlace,
           MainFrees
  <2>5. CtrlParts'
    BY <1>2, <2>1 DEF MainReturned, CtrlParts, MainPlace
  <2>6. ExecutorsOwned'
    BY <1>2, <2>1 DEF MainReturned, ExecutorsOwned, Executors, Of, MainPlace, CtrlPlace
  <2>7. Global'
    BY <1>2, <2>1
       DEF MainReturned, Global, MainPlace, CtrlPlace, Ending, Closing, MainFrees
  <2>8. Requests'
    BY <1>2, <2>1
       DEF MainReturned, Requests, CtrlPlace, Ending, Closing, Executors,
           ExecutorsOwned
  <2>9. Ending'
    BY <1>2, <2>1 DEF MainReturned, Ending, Closing, MainPlace, CtrlPlace
  <2>10. MainFrees'
    BY <1>2, <2>1
       DEF MainReturned, MainFrees, MainPlace, CtrlParts, ExecutorsOwned, Executors
  <2> QED BY <1>1, <2>2, <2>3, <2>4, <2>5, <2>6, <2>7, <2>8, <2>9, <2>10
<1>3. CASE a = "ctrl"
  <2>1. CtrlReturned
    BY <1>3, CtrlReturns
  <2>2. MainPlace'
    BY <1>3, <2>1 DEF MainPlace, CtrlReturned
  <2>3. CtrlPlace'
    BY <1>3, <2>1 DEF CtrlPlace, CtrlReturned
  <2>4. DataParts'
    BY <1>3, <2>1, CtrlAlone
       DEF CtrlReturned, DataParts, PartsAt, Whole, Nothing, MainPlace, CtrlPlace,
           MainFrees
  <2>5. CtrlParts'
    BY <1>3, <2>1, CtrlAlone DEF CtrlReturned, CtrlParts, MainPlace, CtrlPlace
  <2>6. ExecutorsOwned'
    BY <1>3, <2>1 DEF CtrlReturned, ExecutorsOwned, Executors, Of, MainPlace, CtrlPlace
  <2>7. Global'
    <3>1. CASE after["ctrl"] = <<"failed">>
      BY <1>3, <2>1, <3>1, CtrlAlone DEF CtrlReturned, Global, MainPlace
    <3>2. ASSUME NEW c \in Continuations,
                 after["ctrl"] = <<"freeDt", c>>, after'["ctrl"] = <<c>>, pc'["ctrl"] = "freeDt"
          PROVE  Global'
      <4>1. c = "return" => ~gData
        BY <3>2 DEF Global
      <4> QED BY <1>3, <2>1, <3>2, <4>1, CtrlAlone DEF CtrlReturned, Global, MainPlace
    <3> QED BY <1>3, <2>1, <3>1, <3>2 DEF CtrlReturned
  <2>8. Requests'
    BY <1>3, <2>1
       DEF CtrlReturned, Requests, CtrlPlace, Ending, Closing, Executors,
           ExecutorsOwned
  <2>9. Ending'
    BY <1>3, <2>1 DEF CtrlReturned, Ending, Closing, MainPlace, CtrlPlace
  <2>10. MainFrees'
    BY <1>3, <2>1
       DEF CtrlReturned, MainFrees, MainPlace, CtrlParts, ExecutorsOwned, Executors
  <2> QED BY <1>1, <2>2, <2>3, <2>4, <2>5, <2>6, <2>7, <2>8, <2>9, <2>10
<1> QED BY <1>2, <1>3

\* FreeDataTasklet wakes the sweeping thread.
LEMMA FreeDataTaskletKeeps ==
    ASSUME IInv, NEW a \in Actors, FreeDataTasklet(a)
    PROVE  ProxyInv'
<1> USE DEF IInv, ProxyInv, ActorsTyped, Typed, FreeDataTasklet, Goto
<1>1. MainPlace' /\ CtrlPlace' /\ CtrlParts' /\ ExecutorsOwned' /\
      Global' /\ Requests' /\ Counted' /\ Ending' /\ MainFrees'
  BY DEF MainPlace, CtrlPlace, CtrlParts, ExecutorsOwned, Global, Requests, Counted,
         Busy, Ending, Closing, MainFrees
<1>2. DataParts'
  BY CtrlAlone DEF DataParts, PartsAt, Whole, Nothing, CtrlPlace
<1> QED BY <1>1, <1>2

\* The list is destroyed when the sweeping thread is off; XtaskletDestroy comes
\* next, on top of the place to return to.
LEMMA JoinSweeperKeeps ==
    ASSUME IInv, NEW a \in Actors, JoinSweeper(a)
    PROVE  ProxyInv'
<1>1. ActorsTyped /\ Typed /\ ProxyInv
  BY DEF IInv
<1>2. /\ pc[a] = "joinSweeper" /\ sweeper = "off" /\ list' = FALSE
      /\ pc'[a] = "terminate" /\ after'[a] = <<"freeDt">> \o after[a]
      /\ \A o \in Actors : o # a => pc'[o] = pc[o] /\ after'[o] = after[o]
      /\ target' = target
  BY <1>1 DEF JoinSweeper, Call, ActorsTyped
<1>3. UNCHANGED <<xvars, gvars, tvars, tasks, ex, started, sweeper, exitSem, dt, dtTl>>
  BY DEF JoinSweeper
<1>4. Counted'
  BY <1>1, <1>3 DEF ProxyInv, Counted, Busy
<1>5. ExecutorsOwned'
  BY <1>1, <1>2, <1>3 DEF ProxyInv, ExecutorsOwned
<1>6. CASE a = "main"
  <2>1. after["main"] = <<"exit">> /\ target["main"] = "data"
    BY <1>1, <1>2, <1>6 DEF ProxyInv, MainPlace
  <2>2. after'["main"] = <<"freeDt", "exit">> /\ pc'["main"] = "terminate"
    BY <1>2, <1>6, <2>1, Stacks
  <2>3. pc["main"] = "joinSweeper" /\ pc'["ctrl"] = pc["ctrl"] /\ after'["ctrl"] = after["ctrl"]
    BY <1>2, <1>6
  <2>4. MainPlace'
    BY <1>2, <2>1, <2>2 DEF MainPlace
  <2>5. CtrlPlace'
    BY <1>1, <1>2, <1>3, <2>3 DEF ProxyInv, CtrlPlace
  <2>6. DataParts'
    <3>1. PartsAt("joinSweeper", <<"exit">>)
      BY <1>1, <2>1, <2>3 DEF ProxyInv, DataParts
    <3>2. PartsAt("terminate", <<"freeDt", "exit">>)'
      BY <1>2, <1>3, <3>1 DEF PartsAt
    <3> QED BY <1>2, <2>1, <2>2, <3>2 DEF DataParts
  <2>7. CtrlParts' /\ MainFrees'
    BY <1>1, <1>2, <1>3, <2>1, <2>2, <2>3 DEF ProxyInv, CtrlParts, MainFrees
  <2>8. Global'
    BY <1>1, <1>2, <1>3, <2>1, <2>2, <2>3 DEF ProxyInv, Global
  <2>9. Requests'
    BY <1>1, <1>3, <2>3 DEF ProxyInv, Requests
  <2>10. Ending'
    BY <1>1, <1>2, <1>3, <2>1, <2>3 DEF ProxyInv, Ending, Closing
  <2> QED BY <1>4, <1>5, <2>4, <2>5, <2>6, <2>7, <2>8, <2>9, <2>10 DEF ProxyInv
<1>7. CASE a = "ctrl"
  <2>1. PICK c \in Continuations : after["ctrl"] = <<c>>
    BY <1>1, <1>2, <1>7 DEF ProxyInv, CtrlPlace
  <2>2. after'["ctrl"] = <<"freeDt", c>> /\ pc'["ctrl"] = "terminate"
    BY <1>2, <1>7, <2>1, Stacks
  <2>3. pc["ctrl"] = "joinSweeper" /\ pc'["main"] = pc["main"] /\ after'["main"] = after["main"]
    BY <1>2, <1>7
  <2>4. target["main"] = "ctrl" /\ target["ctrl"] = "data" /\ ex[CtrlE] = "run"
    BY <1>1, <2>3, CtrlAlone DEF ProxyInv, CtrlPlace
  <2>5. MainPlace'
    BY <1>1, <1>2, <2>3 DEF ProxyInv, MainPlace
  <2>6. CtrlPlace'
    BY <1>2, <1>3, <2>2, <2>4 DEF CtrlPlace
  <2>7. DataParts'
    <3>1. PartsAt("joinSweeper", <<c>>)
      BY <1>1, <2>1, <2>3, <2>4 DEF ProxyInv, DataParts
    <3>2. PartsAt("terminate", <<"freeDt", c>>)'
      <4>1. <<"freeDt", c>> # <<"failed">>
        OBVIOUS
      <4> QED BY <1>2, <1>3, <3>1, <4>1 DEF PartsAt
    <3> QED BY <1>2, <2>2, <2>4, <3>2 DEF DataParts
  <2>8. CtrlParts' /\ MainFrees'
    BY <1>1, <1>2, <1>3, <2>3 DEF ProxyInv, CtrlParts, MainFrees
  <2>9. Global'
    <3>1. proxy /\ (c = "return" => ~gData)
      BY <1>1, <2>1, <2>3 DEF ProxyInv, Global
    <3>2. after'["ctrl"] # <<"failed">> /\ after'["ctrl"] # <<"return">>
      BY <2>2
    <3>3. after'["ctrl"] = <<"freeDt", "return">> => c = "return"
      BY <2>2
    <3>4. proxy' = proxy /\ gData' = gData /\ UNCHANGED request
      BY <1>3
    <3> QED BY <1>1, <2>2, <2>3, <3>1, <3>2, <3>3, <3>4 DEF ProxyInv, Global
  <2>10. Requests'
    <3>1. c = "post" => request = "unregister"
      BY <1>1, <2>1 DEF ProxyInv, Requests
    <3>2. request \in {"registerData", "unregister"}
      BY <1>1, <2>3 DEF ProxyInv, Requests
    <3>3. after'["ctrl"] # <<"post">> /\ (after'["ctrl"] = <<"freeDt", "post">> => c = "post")
      BY <2>2
    <3>4. UNCHANGED <<tvars, tasks, ex>>
      BY <1>3
    <3> QED BY <1>1, <2>2, <2>3, <3>1, <3>2, <3>3, <3>4 DEF ProxyInv, Requests
  <2>11. Ending'
    BY <1>1, <1>2, <1>3, <2>2, <2>3 DEF ProxyInv, Ending, Closing
  <2> QED BY <1>4, <1>5, <2>5, <2>6, <2>7, <2>8, <2>9, <2>10, <2>11 DEF ProxyInv
<1> QED BY <1>6, <1>7

\* The structure is freed last, and its caller goes on.
LEMMA FreeDtKeeps ==
    ASSUME IInv, NEW a \in Actors, FreeDt(a)
    PROVE  ProxyInv'
<1> USE DEF IInv, ProxyInv, ActorsTyped, Typed, FreeDt
<1>1. Counted'
  BY DEF Counted, Busy
<1>2. CASE a = "main"
  <2>1. MainReturned
    BY <1>2, MainReturns
  <2>2. MainPlace'
    BY <1>2, <2>1 DEF MainPlace, MainReturned
  <2>3. CtrlPlace'
    BY <1>2, <2>1 DEF CtrlPlace, MainReturned
  <2>4. DataParts'
    BY <1>2, <2>1
       DEF MainReturned, DataParts, PartsAt, Whole, Nothing, MainPlace, CtrlPlace,
           MainFrees
  <2>5. CtrlParts'
    BY <1>2, <2>1 DEF MainReturned, CtrlParts, MainPlace
  <2>6. ExecutorsOwned'
    BY <1>2, <2>1 DEF MainReturned, ExecutorsOwned, Executors, Of, MainPlace, CtrlPlace
  <2>7. Global'
    BY <1>2, <2>1
       DEF MainReturned, Global, MainPlace, CtrlPlace, Ending, Closing, MainFrees
  <2>8. Requests'
    BY <1>2, <2>1
       DEF MainReturned, Requests, CtrlPlace, Ending, Closing, Executors,
           ExecutorsOwned
  <2>9. Ending'
    BY <1>2, <2>1 DEF MainReturned, Ending, Closing, MainPlace, CtrlPlace
  <2>10. MainFrees'
    BY <1>2, <2>1
       DEF MainReturned, MainFrees, MainPlace, CtrlParts, ExecutorsOwned, Executors
  <2> QED BY <1>1, <2>2, <2>3, <2>4, <2>5, <2>6, <2>7, <2>8, <2>9, <2>10
<1>3. CASE a = "ctrl"
  <2>1. CtrlReturned
    BY <1>3, CtrlReturns
  <2>2. MainPlace'
    BY <1>3, <2>1 DEF MainPlace, CtrlReturned
  <2>3. CtrlPlace'
    BY <1>3, <2>1 DEF CtrlPlace, CtrlReturned
  <2>4. DataParts'
    BY <1>3, <2>1, CtrlAlone DEF CtrlReturned, DataParts, PartsAt, Whole, Nothing, Global
  <2>5. CtrlParts'
    BY <1>3, <2>1, CtrlAlone DEF CtrlReturned, CtrlParts, MainPlace
  <2>6. ExecutorsOwned'
    BY <1>3, <2>1 DEF CtrlReturned, ExecutorsOwned, Executors, Of, MainPlace, CtrlPlace
  <2>7. Global'
    BY <1>3, <2>1, CtrlAlone
       DEF CtrlReturned, Global, MainPlace, CtrlPlace, Ending, Closing, MainFrees
  <2>8. Requests'
    <3>1. PICK c \in Continuations : /\ after["ctrl"] = <<c>> /\ after'["ctrl"] = <<>>
                                     /\ pc["ctrl"] = "freeDt" /\ pc'["ctrl"] = c
      BY <1>3, <2>1 DEF CtrlReturned
    <3>2. c = "post" => request = "unregister"
      BY <3>1 DEF Requests
    <3> QED BY <1>3, <3>1, <3>2 DEF Requests
  <2>9. Ending'
    BY <1>3, <2>1 DEF CtrlReturned, Ending, Closing, MainPlace, CtrlPlace
  <2>10. MainFrees'
    BY <1>3, <2>1
       DEF CtrlReturned, MainFrees, MainPlace, CtrlParts, ExecutorsOwned, Executors
  <2> QED BY <1>1, <2>2, <2>3, <2>4, <2>5, <2>6, <2>7, <2>8, <2>9, <2>10
<1> QED BY <1>2, <1>3

-----------------------------------------------------------------------------
(* The TEE and the global structure are told. *)

\* A tasklet that the TEE does not accept is freed again.
LEMMA RegisterKeeps ==
    ASSUME IInv, NEW a \in Actors, Register(a)
    PROVE  ProxyInv'
<1>1. ActorsTyped /\ Typed /\ ProxyInv
  BY DEF IInv
<1>2. /\ pc[a] = "register"
      /\ UNCHANGED <<xvars, lvars, gvars, tasks, ex, started, request, calls, ended>>
  BY DEF Register
<1>3. /\ target' = target
      /\ \A o \in Actors : o # a => pc'[o] = pc[o] /\ after'[o] = after[o]
      /\ \/ pc'[a] = "publish" /\ after'[a] = after[a]
         \/ a = "main" /\ pc'[a] = "terminate" /\ after'[a] = <<"over">> \o after[a]
         \/ a = "ctrl" /\ pc'[a] = "freeData" /\ after'[a] = <<"return">> \o after[a]
  BY <1>1 DEF Register, Goto, Call, ActorsTyped
<1>4. Counted' /\ ExecutorsOwned'
  BY <1>1, <1>2, <1>3 DEF ProxyInv, Counted, Busy, ExecutorsOwned
<1>5. CASE a = "main"
  <2>1. pc["main"] = "register" /\ after["main"] = <<>> /\ target["main"] = "ctrl"
    BY <1>1, <1>2, <1>5 DEF ProxyInv, MainPlace
  <2>2. \/ pc'["main"] = "publish" /\ after'["main"] = <<>>
        \/ pc'["main"] = "terminate" /\ after'["main"] = <<"over">>
    BY <1>3, <1>5, <2>1, Stacks
  <2>3. pc'["ctrl"] = pc["ctrl"] /\ after'["ctrl"] = after["ctrl"] /\ target' = target
    BY <1>3, <1>5
  <2>4. MainPlace'
    BY <2>1, <2>2, <2>3 DEF MainPlace
  <2>5. CtrlPlace'
    BY <1>1, <1>2, <2>3 DEF ProxyInv, CtrlPlace
  <2>6. DataParts'
    BY <1>1, <1>2, <2>1, <2>3 DEF ProxyInv, DataParts, PartsAt, Whole, Nothing
  <2>7. CtrlParts' /\ MainFrees'
    BY <1>1, <1>2, <2>1, <2>2, <2>3 DEF ProxyInv, CtrlParts, MainFrees
  <2>8. Global'
    BY <1>1, <1>2, <2>1, <2>2, <2>3 DEF ProxyInv, Global
  <2>9. Requests'
    BY <1>1, <1>2, <2>3 DEF ProxyInv, Requests
  <2>10. Ending'
    <3>1. after'["main"] # <<"freeRest">>
      BY <2>2
    <3> QED BY <1>1, <1>2, <2>1, <2>2, <2>3, <3>1 DEF ProxyInv, Ending, Closing
  <2> QED BY <1>4, <2>4, <2>5, <2>6, <2>7, <2>8, <2>9, <2>10 DEF ProxyInv
<1>6. CASE a = "ctrl"
  <2>1. /\ pc["ctrl"] = "register" /\ after["ctrl"] = <<>>
        /\ target["ctrl"] = "data" /\ target["main"] = "ctrl" /\ ex[CtrlE] = "run"
    BY <1>1, <1>2, <1>6, CtrlAlone DEF ProxyInv, CtrlPlace
  <2>2. \/ pc'["ctrl"] = "publish" /\ after'["ctrl"] = <<>>
        \/ pc'["ctrl"] = "freeData" /\ after'["ctrl"] = <<"return">>
    BY <1>3, <1>6, <2>1, Stacks
  <2>3. pc'["main"] = pc["main"] /\ after'["main"] = after["main"] /\ target' = target
    BY <1>3, <1>6
  <2>4. MainPlace'
    BY <1>1, <2>3 DEF ProxyInv, MainPlace
  <2>5. CtrlPlace'
    BY <1>2, <2>1, <2>2, <2>3 DEF CtrlPlace
  <2>6. DataParts'
    <3>1. PartsAt("register", <<>>)
      BY <1>1, <2>1 DEF ProxyInv, DataParts
    <3>2. PartsAt("publish", <<>>)' /\ PartsAt("freeData", <<"return">>)'
      BY <1>2, <3>1 DEF PartsAt
    <3> QED BY <2>1, <2>2, <2>3, <3>2 DEF DataParts
  <2>7. CtrlParts' /\ MainFrees'
    BY <1>1, <1>2, <2>3 DEF ProxyInv, CtrlParts, MainFrees
  <2>8. Global'
    BY <1>1, <1>2, <2>1, <2>2, <2>3 DEF ProxyInv, Global
  <2>9. Requests'
    <3>1. after'["ctrl"] # <<"post">> /\ after'["ctrl"] # <<"freeDt", "post">>
      BY <2>2
    <3> QED BY <1>1, <1>2, <2>1, <2>2, <3>1 DEF ProxyInv, Requests
  <2>10. Ending'
    BY <1>1, <1>2, <2>1, <2>3 DEF ProxyInv, Ending, Closing
  <2> QED BY <1>4, <2>4, <2>5, <2>6, <2>7, <2>8, <2>9, <2>10 DEF ProxyInv
<1> QED BY <1>5, <1>6

\* The global structure is set when what it points to is complete.
LEMMA PublishKeeps ==
    ASSUME IInv, NEW a \in Actors, Publish(a)
    PROVE  ProxyInv'
<1> USE DEF IInv, ProxyInv, ActorsTyped, Typed, Publish, Goto, Call
<1>1. CtrlPlace' /\ CtrlParts' /\ ExecutorsOwned' /\ Requests' /\
      Counted' /\ Ending' /\ MainFrees'
  BY Stacks DEF CtrlPlace, CtrlParts, ExecutorsOwned, Requests, Counted, Busy, Ending,
         Closing, MainFrees
<1>2. MainPlace'
  BY Stacks DEF MainPlace, CtrlPlace
<1>3. DataParts'
  BY Stacks, CtrlAlone DEF DataParts, PartsAt, Whole, Nothing, CtrlPlace, MainPlace
<1>4. Global'
  BY Stacks DEF Global, MainPlace, CtrlPlace
<1> QED BY <1>1, <1>2, <1>3, <1>4

\* PosixProxyDestroy begins when the last call is served up to its answer.
LEMMA MainWaitKeeps ==
    ASSUME IInv, MainWait
    PROVE  ProxyInv'
<1> USE DEF IInv, ProxyInv, ActorsTyped, Typed, MainWait, Call
<1>1. /\ pc["main"] = "wait" /\ after["main"] = <<>> /\ target["main"] = "ctrl"
      /\ pc'["main"] = "terminate" /\ after'["main"] = <<"freeRest">>
      /\ pc'["ctrl"] = pc["ctrl"] /\ after'["ctrl"] = after["ctrl"] /\ target' = target
  BY Stacks DEF MainPlace
<1>2. MainPlace' /\ CtrlPlace' /\ CtrlParts' /\ MainFrees'
  BY <1>1 DEF MainPlace, CtrlPlace, CtrlParts, MainFrees
<1>3. DataParts'
  BY <1>1 DEF DataParts, PartsAt, Whole, Nothing
<1>4. ExecutorsOwned' /\ Counted'
  BY <1>1 DEF ExecutorsOwned, Counted, Busy
<1>5. Global'
  BY <1>1 DEF Global
<1>6. Requests'
  BY <1>1 DEF Requests, Ending, Closing
<1>7. Ending'
  BY <1>1 DEF Ending, Closing, CtrlPlace, Requests, Global, Executors
<1> QED BY <1>2, <1>3, <1>4, <1>5, <1>6, <1>7

\* The main thread takes over the data tasklet that the structure points to.
LEMMA FreeRestKeeps ==
    ASSUME IInv, FreeRest
    PROVE  ProxyInv'
<1> USE DEF IInv, ProxyInv, ActorsTyped, Typed, FreeRest
<1>1. MainPlace' /\ CtrlPlace' /\ CtrlParts' /\ ExecutorsOwned' /\
      Global' /\ Requests' /\ Counted' /\ Ending'
  BY DEF MainPlace, CtrlPlace, CtrlParts, ExecutorsOwned, Global, Requests, Counted,
         Busy, Ending, Closing
<1>2. DataParts'
  BY CtrlAlone DEF DataParts, PartsAt, Whole, Nothing, CtrlPlace, MainPlace, Global,
         Ending, Closing
<1>3. MainFrees'
  BY CtrlAlone DEF MainFrees, MainPlace, CtrlPlace, CtrlParts, ExecutorsOwned,
         Executors, Global, Requests, Ending, Closing
<1> QED BY <1>1, <1>2, <1>3

\* The global structure is freed when nobody can read it any more.
LEMMA MainExitKeeps ==
    ASSUME IInv, MainExit
    PROVE  ProxyInv'
<1> USE DEF IInv, ProxyInv, ActorsTyped, Typed, MainExit, Goto
<1>1. MainPlace' /\ CtrlPlace' /\ CtrlParts' /\ ExecutorsOwned' /\
      Requests' /\ Counted' /\ MainFrees'
  BY DEF MainPlace, CtrlPlace, CtrlParts, ExecutorsOwned, Requests, Counted, Busy,
         MainFrees
<1>2. DataParts'
  BY CtrlAlone DEF DataParts, PartsAt, Whole, Nothing, CtrlPlace, MainPlace
<1>3. Global'
  BY CtrlAlone DEF Global, MainPlace, CtrlPlace, Requests, Ending, Closing
<1>4. Ending'
  BY DEF Ending, Closing, MainPlace, CtrlPlace
<1> QED BY <1>1, <1>2, <1>3, <1>4

-----------------------------------------------------------------------------
(* Control calls. *)

\* A call about the data tasklet finds no data call in progress; a data tasklet
\* that exists is freed first.
LEMMA CtrlCallHandlerKeeps ==
    ASSUME IInv, CtrlCallHandler
    PROVE  ProxyInv'
<1> USE DEF IInv, ProxyInv, ActorsTyped, Typed, CtrlCallHandler, Goto, Call
<1>1. MainPlace' /\ CtrlPlace' /\ CtrlParts' /\ ExecutorsOwned' /\
      Global' /\ Requests' /\ Counted' /\ Ending' /\ MainFrees'
  BY Stacks DEF MainPlace, CtrlPlace, CtrlParts, ExecutorsOwned, Global, Requests,
         Counted, Busy, Ending, Closing, MainFrees
<1>2. DataParts'
  BY Stacks, CtrlAlone DEF DataParts, PartsAt, Whole, Nothing, CtrlPlace
<1> QED BY <1>1, <1>2

\* The semaphore is posted by the last call, and only once.
LEMMA PostDestroyKeeps ==
    ASSUME IInv, PostDestroy
    PROVE  ProxyInv'
<1> USE DEF IInv, ProxyInv, ActorsTyped, Typed, PostDestroy, Goto
<1>1. MainPlace' /\ CtrlPlace' /\ CtrlParts' /\ ExecutorsOwned' /\
      Global' /\ Requests' /\ Counted'
  BY DEF MainPlace, CtrlPlace, CtrlParts, ExecutorsOwned, Global, Requests, Counted,
         Busy
<1>2. DataParts'
  BY CtrlAlone DEF DataParts, PartsAt, Whole, Nothing, CtrlPlace
<1>3. Ending'
  BY CtrlAlone DEF Ending, Closing, MainPlace, CtrlPlace, Requests, Global, Executors
<1>4. MainFrees'
  BY DEF MainFrees, MainPlace, CtrlPlace
<1> QED BY <1>1, <1>2, <1>3, <1>4

\* The control executor has its answer ready and nothing in hand.
LEMMA CtrlReturnKeeps ==
    ASSUME IInv, CtrlReturn
    PROVE  ProxyInv'
<1> USE DEF IInv, ProxyInv, ActorsTyped, Typed, CtrlReturn, Goto
<1>1. MainPlace' /\ CtrlPlace' /\ CtrlParts' /\ Global' /\ Counted'
  BY DEF MainPlace, CtrlPlace, CtrlParts, Global, Counted, Busy
<1>2. DataParts'
  BY CtrlAlone DEF DataParts, PartsAt, Whole, Nothing, CtrlPlace
<1>3. ExecutorsOwned'
  BY DEF ExecutorsOwned, Executors, Of, MainPlace, CtrlPlace
<1>4. Requests'
  BY DEF Requests, CtrlPlace
<1>5. Ending'
  BY CtrlAlone DEF Ending, Closing, MainPlace, CtrlPlace, Requests, Global, Executors
<1>6. MainFrees'
  BY DEF MainFrees, MainPlace, CtrlPlace
<1> QED BY <1>1, <1>2, <1>3, <1>4, <1>5, <1>6

-----------------------------------------------------------------------------
(* The sweeping thread, the executors and the TEE. *)

\* The sweeping thread goes on while there is a tasklet to sweep for.
LEMMA SweeperWaitKeeps ==
    ASSUME IInv, SweeperWait
    PROVE  ProxyInv'
<1> USE DEF IInv, ProxyInv, ActorsTyped, Typed, SweeperWait
<1>1. MainPlace' /\ CtrlPlace' /\ CtrlParts' /\ ExecutorsOwned' /\
      Global' /\ Requests' /\ Counted' /\ Ending' /\ MainFrees'
  BY DEF MainPlace, CtrlPlace, CtrlParts, ExecutorsOwned, Global, Requests, Counted,
         Busy, Ending, Closing, MainFrees
<1>2. DataParts'
  BY CtrlAlone DEF DataParts, PartsAt, Whole, Nothing, CtrlPlace
<1> QED BY <1>1, <1>2

\* A sweep changes nothing here.
LEMMA SweeperSweepKeeps ==
    ASSUME IInv, SweeperSweep
    PROVE  ProxyInv'
<1> USE DEF IInv, ProxyInv, ActorsTyped, Typed, SweeperSweep
<1>1. MainPlace' /\ CtrlPlace' /\ CtrlParts' /\ ExecutorsOwned' /\
      Global' /\ Requests' /\ Counted' /\ Ending' /\ MainFrees'
  BY DEF MainPlace, CtrlPlace, CtrlParts, ExecutorsOwned, Global, Requests, Counted,
         Busy, Ending, Closing, MainFrees
<1>2. DataParts'
  BY CtrlAlone DEF DataParts, PartsAt, Whole, Nothing, CtrlPlace
<1> QED BY <1>1, <1>2

\* An executor ends when its tasklet is terminated.
LEMMA FetchKeeps ==
    ASSUME IInv, NEW e \in Executors, Fetch(e)
    PROVE  ProxyInv'
<1> USE DEF IInv, ProxyInv, ActorsTyped, Typed, Fetch
<1>1. MainPlace' /\ CtrlParts' /\ ExecutorsOwned' /\ Global' /\ Requests' /\
      Ending'
  BY DEF MainPlace, CtrlParts, ExecutorsOwned, Global, Requests, Ending, Closing
<1>2. CtrlPlace'
  BY DEF MainPlace, CtrlPlace, Executors, ExecutorsOwned
<1>3. DataParts'
  BY CtrlAlone DEF DataParts, PartsAt, Whole, Nothing, CtrlPlace
<1>4. Counted'
  <2>1. Busy' = Busy
    BY BusySame DEF Executors
  <2> QED BY <2>1 DEF Counted
<1>5. MainFrees'
  BY DEF MainFrees, Executors
<1> QED BY <1>1, <1>2, <1>3, <1>4, <1>5

\* An executor takes a call from the queue.
LEMMA DequeueKeeps ==
    ASSUME IInv, NEW e \in Executors, Dequeue(e)
    PROVE  ProxyInv'
<1> USE DEF IInv, ProxyInv, ActorsTyped, Typed, Dequeue
<1>1. MainPlace' /\ CtrlParts' /\ Global'
  BY DEF MainPlace, CtrlParts, Global
<1>2. CtrlPlace'
  BY DEF MainPlace, CtrlPlace, Executors, ExecutorsOwned
<1>3. DataParts'
  BY CtrlAlone DEF DataParts, PartsAt, Whole, Nothing, CtrlPlace
<1>4. ExecutorsOwned'
  BY DEF ExecutorsOwned, Executors, Of
<1>5. Requests'
  BY DEF Requests, CtrlPlace, Executors
<1>6. Counted'
  <2>1. CASE e[1] = "ctrl" \/ ex'[e] = "loop"
    <3>1. Busy' = Busy
      BY <2>1, BusySame DEF Executors
    <3> QED BY <2>1, <3>1, BusyFinite DEF Counted
  <2>2. CASE e[1] = "data" /\ ex'[e] = "run"
    <3>1. PICK i \in 0 .. NData - 1 : e = <<"data", i>>
      BY <2>2, ExecutorIs
    <3>2. Busy' = Busy \cup {i} /\ i \notin Busy
      <4>1. ex[<<"data", i>>] = "dequeue" /\ ex' = [ex EXCEPT ![<<"data", i>>] = "run"]
        BY <2>2, <3>1 DEF Executors
      <4> QED BY <4>1 DEF Busy, Executors
    <3>3. Cardinality(Busy') = Cardinality(Busy) + 1
      BY <3>2, BusyFinite, FS_AddElement
    <3>4. tasks'["data"] = tasks["data"] - 1 /\ tasks["data"] \in Nat /\ calls' = calls
      BY <2>2
    <3> QED BY <3>3, <3>4, BusyFinite DEF Counted
  <2> QED BY <2>1, <2>2, ExecutorIs
<1>7. Ending'
  BY CtrlAlone DEF Ending, Closing, MainPlace, CtrlPlace, Requests, Global, Executors
<1>8. MainFrees'
  BY CtrlAlone DEF MainFrees, MainPlace, CtrlPlace, CtrlParts, ExecutorsOwned,
         Executors, Global, Requests, Ending, Closing
<1> QED BY <1>1, <1>2, <1>3, <1>4, <1>5, <1>6, <1>7, <1>8

\* The handler of a data call returns.
LEMMA DataCallHandlerKeeps ==
    ASSUME IInv, NEW e \in Executors, DataCallHandler(e)
    PROVE  ProxyInv'
<1> USE DEF IInv, ProxyInv, ActorsTyped, Typed, DataCallHandler
<1>1. MainPlace' /\ CtrlPlace' /\ CtrlParts' /\ ExecutorsOwned' /\
      Global' /\ Requests' /\ Ending' /\ MainFrees'
  BY DEF MainPlace, CtrlPlace, CtrlParts, ExecutorsOwned, Global, Requests, Ending,
         Closing, MainFrees
<1>2. DataParts'
  BY CtrlAlone DEF DataParts, PartsAt, Whole, Nothing, CtrlPlace
<1>3. Counted'
  <2>1. Busy' = Busy
    BY BusySame DEF Executors
  <2> QED BY <2>1 DEF Counted
<1> QED BY <1>1, <1>2, <1>3

\* The answer of a call is counted once.
LEMMA EnqueueKeeps ==
    ASSUME IInv, NEW e \in Executors, Enqueue(e)
    PROVE  ProxyInv'
<1> USE DEF IInv, ProxyInv, ActorsTyped, Typed, Enqueue
<1>1. MainPlace' /\ CtrlPlace' /\ CtrlParts' /\ ExecutorsOwned' /\ Global'
  BY DEF MainPlace, CtrlPlace, CtrlParts, ExecutorsOwned, Global
<1>2. DataParts'
  BY CtrlAlone DEF DataParts, PartsAt, Whole, Nothing, CtrlPlace
<1>3. MainFrees'
  BY DEF MainFrees, MainPlace, CtrlPlace
<1>4. CASE e[1] = "ctrl"
  <2>1. /\ e = CtrlE /\ ex'[CtrlE] = "loop" /\ calls' = calls /\ request' \in {"none", request}
        /\ pc["ctrl"] = "idle" /\ after["ctrl"] = <<>> /\ tasks["ctrl"] = 0
    <3>1. /\ e = CtrlE /\ ex[CtrlE] = "enqueue" /\ ex'[CtrlE] = "loop"
          /\ calls' = calls /\ request' \in {"none", request}
      <4>1. e = CtrlE
        BY <1>4, ExecutorIs
      <4>2. ex[e] = "enqueue" /\ ex'[e] = "loop"
        OBVIOUS
      <4>3. calls' = calls /\ request' \in {"none", request}
        BY <1>4
      <4> QED BY <4>1, <4>2, <4>3
    <3>2. pc["ctrl"] = "idle" /\ after["ctrl"] = <<>>
      BY <3>1 DEF CtrlPlace
    <3>3. tasks["ctrl"] = 0
      BY <3>1 DEF Requests
    <3> QED BY <3>1, <3>2, <3>3
  <2>2. Requests'
    BY <2>1 DEF Requests
  <2>3. Busy' = Busy
    BY <1>4, BusySame DEF Executors
  <2>4. Counted'
    BY <2>1, <2>3 DEF Counted
  <2>5. Ending'
    BY <2>1 DEF Ending, Closing
  <2> QED BY <1>1, <1>2, <1>3, <2>2, <2>4, <2>5
<1>5. CASE e[1] = "data"
  <2>1. PICK i \in 0 .. NData - 1 : e = <<"data", i>>
    BY <1>5, ExecutorIs
  <2>2. Busy' = Busy \ {i} /\ i \in Busy
    BY <1>5, <2>1 DEF Busy, Executors
  <2>3. Cardinality(Busy') = Cardinality(Busy) - 1 /\ Cardinality(Busy') \in Nat
    <3>1. IsFiniteSet(Busy \ {i}) /\ Cardinality(Busy \ {i}) = Cardinality(Busy) - 1
      BY <2>2, BusyFinite, FS_RemoveElement
    <3> QED BY <2>2, <3>1, FS_CardinalityType
  <2>4. /\ tasks' = tasks /\ tasks["data"] \in Nat /\ calls' \in {calls, calls - 1}
        /\ request' = request
    BY <1>5
  <2>5. Counted' /\ calls # 0
    BY <2>3, <2>4, BusyFinite DEF Counted
  <2>6. Requests'
    BY <2>1, <2>4, <2>5 DEF Requests
  <2>7. Ending'
    BY <2>1, <2>4, <2>5 DEF Ending, Closing
  <2> QED BY <1>1, <1>2, <1>3, <2>5, <2>6, <2>7
<1> QED BY <1>4, <1>5, ExecutorIs

\* The TEE has one control call at a time, and none after the last.
LEMMA TeeCtrlCallKeeps ==
    ASSUME IInv, NEW r \in {"registerData", "registerCtrl", "unregister"}, TeeCtrlCall(r)
    PROVE  ProxyInv'
<1> USE DEF IInv, ProxyInv, ActorsTyped, Typed, TeeCtrlCall
<1>1. MainPlace' /\ CtrlPlace' /\ CtrlParts' /\ ExecutorsOwned' /\
      Global' /\ Counted' /\ Ending' /\ MainFrees'
  BY DEF MainPlace, CtrlPlace, CtrlParts, ExecutorsOwned, Global, Counted, Busy,
         Ending, Closing, MainFrees
<1>2. DataParts'
  BY CtrlAlone DEF DataParts, PartsAt, Whole, Nothing, CtrlPlace
<1>3. Requests'
  <2>1. request = "none" /\ pc["ctrl"] = "idle" /\ after["ctrl"] = <<>>
    BY DEF Requests, CtrlPlace
  <2>2. /\ tasks["ctrl"] = 0 /\ tasks'["ctrl"] = 1 /\ tasks'["data"] = tasks["data"]
        /\ ex[CtrlE] \notin {"run", "enqueue"}
    BY <2>1 DEF Requests
  <2> QED BY <2>1, <2>2 DEF Requests
<1> QED BY <1>1, <1>2, <1>3

\* The TEE calls a data tasklet while no control call about it is in progress.
LEMMA TeeDataCallKeeps ==
    ASSUME IInv, TeeDataCall
    PROVE  ProxyInv'
<1> USE DEF IInv, ProxyInv, ActorsTyped, Typed, TeeDataCall
<1>1. MainPlace' /\ CtrlPlace' /\ CtrlParts' /\ ExecutorsOwned' /\
      Global' /\ Requests' /\ Ending' /\ MainFrees'
  BY DEF MainPlace, CtrlPlace, CtrlParts, ExecutorsOwned, Global, Requests, Ending,
         Closing, MainFrees
<1>2. DataParts'
  BY CtrlAlone DEF DataParts, PartsAt, Whole, Nothing, CtrlPlace
<1>3. Counted'
  <2>1. Busy' = Busy
    BY BusySame
  <2>2. tasks'["data"] = tasks["data"] + 1 /\ tasks["data"] \in Nat /\ calls' = calls + 1
    OBVIOUS
  <2> QED BY <2>1, <2>2, BusyFinite DEF Counted
<1> QED BY <1>1, <1>2, <1>3

\* The end of the loop of wait changes nothing of the proxy.
LEMMA ReapChildrenKeeps ==
    ASSUME IInv, ReapChildren, UNCHANGED <<xvars, lvars, gvars, tvars, tasks, ex, started>>
    PROVE  ProxyInv'
<1> USE DEF IInv, ProxyInv, ActorsTyped, Typed, ReapChildren, Goto
<1>1. MainPlace' /\ CtrlPlace' /\ CtrlParts' /\ ExecutorsOwned'
  BY DEF MainPlace, CtrlPlace, CtrlParts, ExecutorsOwned
<1>2. DataParts'
  BY DEF DataParts, PartsAt, Whole, Nothing, MainPlace
<1>3. Global' /\ Requests' /\ Counted' /\ MainFrees'
  BY DEF Global, Requests, Counted, Busy, MainFrees
<1>4. Ending'
  BY DEF Ending, Closing, MainPlace
<1> QED BY <1>1, <1>2, <1>3, <1>4

\* While the control executor creates a child it leaves the rest alone.
LEMMA SpawnKeeps ==
    ASSUME IInv, CloneChild \/ WaitChild \/ ReadResult,
           UNCHANGED <<xvars, lvars, gvars, tvars, tasks, ex, started>>
    PROVE  ProxyInv'
<1>1. /\ pc["ctrl"] \in {"spawn", "await", "result"}
      /\ \E loc \in {"await", "result", "return"} : Goto("ctrl", loc)
      /\ pc["ctrl"] = "spawn" => pc'["ctrl"] \in {"await", "return"}
  BY DEF CloneChild, WaitChild, ReadResult, Goto, IInv, ActorsTyped
<1> USE DEF IInv, ProxyInv, ActorsTyped, Typed, Goto
<1>2. MainPlace' /\ CtrlPlace' /\ CtrlParts' /\ ExecutorsOwned'
  BY <1>1 DEF MainPlace, CtrlPlace, CtrlParts, ExecutorsOwned
<1>3. DataParts'
  BY <1>1 DEF DataParts, PartsAt, Whole, Nothing
<1>4. Global' /\ Counted' /\ MainFrees'
  BY <1>1, CtrlAlone DEF Global, Counted, Busy, MainFrees
<1>5. Requests' /\ Ending'
  BY <1>1 DEF Requests, Ending, Closing
<1> QED BY <1>2, <1>3, <1>4, <1>5

\* Nor do the children, or the TEE when it ends one, change anything of the proxy.
LEMMA ElsewhereKeeps ==
    ASSUME IInv, UNCHANGED <<xvars, lvars, gvars, tvars, avars, tasks, ex, started>>
    PROVE  ProxyInv'
<1> USE DEF IInv, ProxyInv
<1>1. MainPlace' /\ CtrlPlace' /\ CtrlParts' /\ ExecutorsOwned'
  BY DEF MainPlace, CtrlPlace, CtrlParts, ExecutorsOwned
<1>2. DataParts' /\ Global' /\ Requests'
  BY DEF DataParts, PartsAt, Whole, Nothing, Global, Requests
<1>3. Counted' /\ Ending' /\ MainFrees'
  BY DEF Counted, Busy, Ending, Closing, MainFrees
<1> QED BY <1>1, <1>2, <1>3
-----------------------------------------------------------------------------
(* The types. *)

\* A jump keeps the types of the locations and stacks,
LEMMA GotoTyped ==
    ASSUME ActorsTyped, NEW a \in Actors, NEW loc \in Locations, Goto(a, loc)
    PROVE  ActorsTyped'
  BY DEF ActorsTyped, Goto

\* so does a call, which puts the return location on the stack,
LEMMA CallTyped ==
    ASSUME ActorsTyped, NEW a \in Actors, NEW loc \in Locations, NEW cont \in Locations,
           Call(a, loc, cont)
    PROVE  ActorsTyped'
<1>1. <<cont>> \in Seq(Locations) /\ after[a] \in Seq(Locations)
  BY DEF ActorsTyped
<1>2. <<cont>> \o after[a] \in Seq(Locations)
  BY <1>1, ConcatProperties
<1> QED BY <1>2 DEF ActorsTyped, Call

\* and a return, if there is something to return to.
LEMMA ReturnTyped ==
    ASSUME ActorsTyped, NEW a \in Actors, after[a] # <<>>, Return(a)
    PROVE  ActorsTyped'
<1>1. after[a] \in Seq(Locations) /\ after[a] # <<>>
  BY DEF ActorsTyped
<1>2. Head(after[a]) \in Locations /\ Tail(after[a]) \in Seq(Locations)
  BY <1>1, HeadTailProperties
<1> QED BY <1>2 DEF ActorsTyped, Return

\* Typed in two halves: the fields of the tasklets and their executors, and the
\* rest.
TaskletsTyped ==
    /\ tl \in [Tasklets -> BOOLEAN] /\ priv \in [Tasklets -> BOOLEAN]
    /\ terminated \in [Tasklets -> BOOLEAN]
    /\ intrRes \in [Tasklets -> BOOLEAN] /\ intrTask \in [Tasklets -> BOOLEAN]
    /\ tasks \in [Tasklets -> Nat]
    /\ ex \in [Executors -> {"off", "loop", "dequeue", "run", "enqueue"}]
    /\ started \in 0 .. NData

RestTyped ==
    /\ child \in BOOLEAN
    /\ sweeper \in {"off", "wait", "sweep"}
    /\ list \in BOOLEAN /\ exitSem \in BOOLEAN /\ dt \in BOOLEAN /\ dtTl \in BOOLEAN
    /\ proxy \in BOOLEAN /\ gData \in BOOLEAN /\ ended \in BOOLEAN
    /\ destroySem \in 0 .. 1
    /\ known \subseteq Tasklets
    /\ request \in {"none", "registerData", "registerCtrl", "unregister"}
    /\ calls \in 0 .. MaxCalls

LEMMA TypedHalves == (Typed <=> TaskletsTyped /\ RestTyped)
  BY DEF Typed, TaskletsTyped, RestTyped

LEMMA TypedHalvesNext == (Typed' <=> TaskletsTyped' /\ RestTyped')
  BY TypedHalves, PTL

\* Each half is kept by the steps that leave its variables alone.
LEMMA TaskletsTypedKept ==
    ASSUME Typed, UNCHANGED <<xvars, tasks, ex, started>>
    PROVE  TaskletsTyped'
  BY DEF Typed, TaskletsTyped

LEMMA RestTypedKept ==
    ASSUME Typed, UNCHANGED <<lvars, gvars, tvars>>
    PROVE  RestTyped'
  BY DEF Typed, RestTyped

\* The steps that both threads take keep all types.
LEMMA ActorStepTyped ==
    ASSUME IInv, NEW a \in Actors, ActorStep(a)
    PROVE  ActorsTyped' /\ Typed'
<1>1. ActorsTyped /\ Typed /\ target[a] \in Tasklets
  BY DEF IInv, ActorsTyped
<1>2. CASE XtaskletCreate(a)
  <2>1. ActorsTyped'
    BY <1>1, <1>2, GotoTyped DEF XtaskletCreate, Locations
  <2>2. started' \in 0 .. NData
    BY <1>1, <1>2, ProxyAssumption DEF XtaskletCreate, Typed
  <2>3. /\ tl' \in [Tasklets -> BOOLEAN] /\ priv' = priv
        /\ terminated' \in [Tasklets -> BOOLEAN]
        /\ intrRes' \in [Tasklets -> BOOLEAN] /\ intrTask' \in [Tasklets -> BOOLEAN]
    <3>1. CASE UNCHANGED xvars
      BY <1>1, <3>1 DEF Typed
    <3>2. CASE /\ tl' = [tl EXCEPT ![target[a]] = TRUE] /\ priv' = priv
               /\ terminated' = [terminated EXCEPT ![target[a]] = FALSE]
               /\ intrRes' = [intrRes EXCEPT ![target[a]] = FALSE]
               /\ intrTask' = [intrTask EXCEPT ![target[a]] = FALSE]
      BY <1>1, <3>2 DEF Typed
    <3> QED BY <1>2, <3>1, <3>2 DEF XtaskletCreate
  <2>4. UNCHANGED <<lvars, gvars, tvars, tasks, ex>>
    BY <1>2 DEF XtaskletCreate
  <2> QED BY <1>1, <2>1, <2>2, <2>3, <2>4 DEF Typed
<1>3. CASE StartThread(a)
  <2>1. ActorsTyped'
    BY <1>1, <1>3, GotoTyped DEF StartThread, Locations
  <2>2. started' \in 0 .. NData
    BY <1>1, <1>3, ProxyAssumption DEF StartThread, Typed, IInv, ProxyInv, ExecutorsOwned,
           Concurrency
  <2>3. ex' \in [Executors -> {"off", "loop", "dequeue", "run", "enqueue"}]
    BY <1>1, <1>3 DEF StartThread, Typed
  <2> QED BY <1>1, <1>3, <2>1, <2>2, <2>3 DEF StartThread, Typed
<1>4. CASE JoinStarted(a)
  <2>1. ActorsTyped'
    BY <1>1, <1>4, GotoTyped DEF JoinStarted, Locations
  <2> QED BY <1>1, <1>4, <2>1 DEF JoinStarted, Typed
<1>5. CASE SetPriv(a)
  <2>1. ActorsTyped'
    BY <1>1, <1>5, GotoTyped DEF SetPriv, Locations
  <2> QED BY <1>1, <1>5, <2>1 DEF SetPriv, Typed
<1>6. CASE Terminate(a)
  <2>1. ActorsTyped'
    BY <1>1, <1>6, GotoTyped DEF Terminate, Locations
  <2> QED BY <1>1, <1>6, <2>1 DEF Terminate, Typed
<1>7. CASE InterruptRes(a)
  <2>1. ActorsTyped'
    BY <1>1, <1>7, GotoTyped DEF InterruptRes, Locations
  <2> QED BY <1>1, <1>7, <2>1 DEF InterruptRes, Typed
<1>8. CASE InterruptTask(a)
  <2>1. ActorsTyped'
    BY <1>1, <1>8, GotoTyped DEF InterruptTask, Locations
  <2> QED BY <1>1, <1>8, <2>1 DEF InterruptTask, Typed
<1>9. CASE JoinAndFree(a)
  <2>1. after[a] # <<>>
    BY <1>9 DEF JoinAndFree, IInv, ProxyInv, MainPlace, CtrlPlace
  <2>2. ActorsTyped'
    BY <1>1, <1>9, <2>1, ReturnTyped DEF JoinAndFree
  <2>3. /\ tl' \in [Tasklets -> BOOLEAN] /\ priv' \in [Tasklets -> BOOLEAN]
        /\ tasks' \in [Tasklets -> Nat] /\ known' \subseteq Tasklets
    BY <1>1, <1>9 DEF JoinAndFree, Typed
  <2>4. UNCHANGED <<lvars, gvars, request, calls, ended, ex, started, terminated,
                    intrRes, intrTask>>
    BY <1>9 DEF JoinAndFree
  <2>5. TaskletsTyped'
    BY <1>1, <2>3, <2>4 DEF Typed, TaskletsTyped
  <2>6. RestTyped'
    BY <1>1, <2>3, <2>4 DEF Typed, RestTyped
  <2> QED BY <2>2, <2>5, <2>6, TypedHalvesNext
<1>10. CASE FreeDataTasklet(a)
  <2>1. ActorsTyped'
    BY <1>1, <1>10, GotoTyped DEF FreeDataTasklet, Locations
  <2> QED BY <1>1, <1>10, <2>1 DEF FreeDataTasklet, Typed
<1>11. CASE JoinSweeper(a)
  <2>1. ActorsTyped'
    BY <1>1, <1>11, CallTyped DEF JoinSweeper, Locations
  <2> QED BY <1>1, <1>11, <2>1 DEF JoinSweeper, Typed
<1>12. CASE FreeDt(a)
  <2>1. after[a] # <<>>
    BY <1>12 DEF FreeDt, IInv, ProxyInv, MainPlace, CtrlPlace
  <2>2. ActorsTyped'
    BY <1>1, <1>12, <2>1, ReturnTyped DEF FreeDt
  <2> QED BY <1>1, <1>12, <2>2 DEF FreeDt, Typed
<1>13. CASE CreateFailed(a)
  <2>1. ActorsTyped'
    BY <1>1, <1>13, GotoTyped DEF CreateFailed, Failed, Locations
  <2>2. UNCHANGED <<xvars, gvars, tvars, tasks, ex, started, sweeper, exitSem, dt, dtTl>>
    BY <1>13 DEF CreateFailed
  <2>3. list' \in BOOLEAN
    BY <1>1, <1>13 DEF CreateFailed, Typed
  <2>4. TaskletsTyped'
    BY <1>1, <2>2, TaskletsTypedKept
  <2>5. RestTyped'
    BY <1>1, <2>2, <2>3 DEF Typed, RestTyped
  <2> QED BY <2>1, <2>4, <2>5, TypedHalvesNext
<1>14. CASE Register(a)
  <2>1. ActorsTyped'
    BY <1>1, <1>14, GotoTyped, CallTyped DEF Register, Locations
  <2>2. known' \subseteq Tasklets
    BY <1>1, <1>14 DEF Register, Typed
  <2> QED BY <1>1, <1>14, <2>1, <2>2 DEF Register, Typed
<1>15. CASE Publish(a)
  <2>1. ActorsTyped'
    BY <1>1, <1>15, GotoTyped, CallTyped DEF Publish, Locations
  <2>2. proxy' \in BOOLEAN /\ gData' \in BOOLEAN
    BY <1>1, <1>15 DEF Publish, Typed
  <2>3. UNCHANGED <<xvars, lvars, tvars, tasks, ex, started, child, destroySem>>
    BY <1>15 DEF Publish
  <2> QED BY <1>1, <2>1, <2>2, <2>3 DEF Typed
<1> QED BY <1>2, <1>3, <1>4, <1>5, <1>6, <1>7, <1>8, <1>9, <1>10, <1>11, <1>12, <1>13,
           <1>14, <1>15 DEF ActorStep

\* So do those of the main thread
LEMMA MainStepTyped ==
    ASSUME IInv, MainWait \/ FreeRest \/ MainExit
    PROVE  ActorsTyped' /\ Typed'
<1>1. ActorsTyped /\ Typed
  BY DEF IInv
<1>2. CASE MainWait
  <2>1. ActorsTyped'
    BY <1>1, <1>2, CallTyped DEF MainWait, Locations
  <2>2. destroySem' \in 0 .. 1 /\ ended' \in BOOLEAN
    <3>1. destroySem' = destroySem \/ (destroySem > 0 /\ destroySem' = destroySem - 1)
      BY <1>2 DEF MainWait
    <3>2. ended' = TRUE \/ ended' = ended
      BY <1>2 DEF MainWait
    <3>3. destroySem \in 0 .. 1 /\ ended \in BOOLEAN
      BY <1>1 DEF Typed
    <3>4. destroySem' \in 0 .. 1
      BY <3>1, <3>3
    <3>5. ended' \in BOOLEAN
      BY <3>2, <3>3
    <3> QED BY <3>4, <3>5
  <2> QED BY <1>1, <1>2, <2>1, <2>2 DEF MainWait, Typed
<1>3. CASE FreeRest
  <2>1. ActorsTyped'
    <3>1. <<"exit">> \in Seq(Locations) /\ "exit" \in Locations /\ "freeData" \in Locations
      BY DEF Locations
    <3> QED BY <1>1, <1>3, <3>1 DEF FreeRest, ActorsTyped
  <2> QED BY <1>1, <1>3, <2>1 DEF FreeRest, Typed
<1>4. CASE MainExit
  <2>1. ActorsTyped'
    BY <1>1, <1>4, GotoTyped DEF MainExit, Locations
  <2>2. UNCHANGED <<xvars, lvars, tvars, tasks, ex, started, child, destroySem>>
    BY <1>4 DEF MainExit
  <2>3. proxy' \in BOOLEAN /\ gData' \in BOOLEAN
    BY <1>4 DEF MainExit
  <2>4. TaskletsTyped'
    BY <1>1, <2>2, TaskletsTypedKept
  <2>5. RestTyped'
    BY <1>1, <2>2, <2>3 DEF Typed, RestTyped
  <2> QED BY <2>1, <2>4, <2>5, TypedHalvesNext
<1> QED BY <1>2, <1>3, <1>4

\* and of the control executor.
LEMMA CtrlStepTyped ==
    ASSUME IInv,
           CtrlCallHandler \/ NewList \/ StartSweeper \/ SetTl \/ PostDestroy \/ CtrlReturn
    PROVE  ActorsTyped' /\ Typed'
<1>1. ActorsTyped /\ Typed
  BY DEF IInv
<1>2. CASE CtrlCallHandler
  <2>1. ActorsTyped'
    BY <1>1, <1>2, GotoTyped, CallTyped DEF CtrlCallHandler, Locations
  <2> QED BY <1>1, <1>2, <2>1 DEF CtrlCallHandler, Typed
<1>3. CASE NewList
  <2>1. ActorsTyped'
    BY <1>1, <1>3, GotoTyped DEF NewList, Locations
  <2>2. UNCHANGED <<xvars, tvars, tasks, ex, started, child, proxy, destroySem,
                    sweeper, exitSem, dt, dtTl>>
    BY <1>3 DEF NewList
  <2>3. list' \in BOOLEAN /\ gData' \in BOOLEAN
    BY <1>1, <1>3 DEF NewList, Typed
  <2>4. TaskletsTyped'
    BY <1>1, <2>2, TaskletsTypedKept
  <2>5. RestTyped'
    BY <1>1, <2>2, <2>3 DEF Typed, RestTyped
  <2> QED BY <2>1, <2>4, <2>5, TypedHalvesNext
<1>4. CASE StartSweeper
  <2>1. ActorsTyped'
    BY <1>1, <1>4, GotoTyped, CallTyped DEF StartSweeper, Locations
  <2>2. UNCHANGED <<xvars, gvars, tvars, tasks, ex, started, list, dtTl>>
    BY <1>4 DEF StartSweeper
  <2>3. dt' \in BOOLEAN /\ exitSem' \in BOOLEAN /\ sweeper' \in {"off", "wait", "sweep"}
    BY <1>1, <1>4 DEF StartSweeper, Typed
  <2>4. TaskletsTyped'
    BY <1>1, <2>2, TaskletsTypedKept
  <2>5. RestTyped'
    BY <1>1, <2>2, <2>3 DEF Typed, RestTyped
  <2> QED BY <2>1, <2>4, <2>5, TypedHalvesNext
<1>5. CASE SetTl
  <2>1. ActorsTyped'
    BY <1>1, <1>5, GotoTyped DEF SetTl, Locations
  <2> QED BY <1>1, <1>5, <2>1 DEF SetTl, Typed
<1>6. CASE PostDestroy
  <2>1. ActorsTyped'
    BY <1>1, <1>6, GotoTyped DEF PostDestroy, Locations
  <2>2. destroySem = 0
    BY <1>1, <1>6 DEF PostDestroy, Typed, IInv, ProxyInv, Ending
  <2>3. destroySem' = 1 /\ destroySem' \in 0 .. 1
    BY <1>6, <2>2 DEF PostDestroy
  <2>4. gData' = FALSE /\ UNCHANGED <<xvars, lvars, tvars, tasks, ex, started, child, proxy>>
    BY <1>6 DEF PostDestroy
  <2>5. TaskletsTyped'
    BY <1>1, <2>4, TaskletsTypedKept
  <2>6. RestTyped'
    BY <1>1, <2>3, <2>4 DEF Typed, RestTyped
  <2> QED BY <2>1, <2>5, <2>6, TypedHalvesNext
<1>7. CASE CtrlReturn
  <2>1. ActorsTyped'
    BY <1>1, <1>7, GotoTyped DEF CtrlReturn, Locations
  <2>2. UNCHANGED <<xvars, lvars, gvars, tvars, tasks, started>>
    BY <1>7 DEF CtrlReturn
  <2>3. ex' \in [Executors -> {"off", "loop", "dequeue", "run", "enqueue"}]
    BY <1>1, <1>7 DEF CtrlReturn, Typed
  <2>4. TaskletsTyped'
    BY <1>1, <2>2, <2>3 DEF Typed, TaskletsTyped
  <2>5. RestTyped'
    BY <1>1, <2>2, RestTypedKept
  <2> QED BY <2>1, <2>4, <2>5, TypedHalvesNext
<1> QED BY <1>2, <1>3, <1>4, <1>5, <1>6, <1>7

\* Executors keep the types, and an answer is counted only while a call is open.
LEMMA ExecutorStepTyped ==
    ASSUME IInv, NEW e \in Executors, Fetch(e) \/ Dequeue(e) \/ DataCallHandler(e) \/ Enqueue(e)
    PROVE  ActorsTyped' /\ Typed'
<1>1. ActorsTyped /\ Typed
  BY DEF IInv
<1>2. ActorsTyped'
  BY <1>1 DEF Fetch, Dequeue, DataCallHandler, Enqueue, ActorsTyped
<1>3. CASE Fetch(e)
  BY <1>1, <1>2, <1>3 DEF Fetch, Typed
<1>4. CASE Dequeue(e)
  <2>1. tasks' \in [Tasklets -> Nat]
    BY <1>1, <1>4 DEF Dequeue, Typed
  <2>2. ex' \in [Executors -> {"off", "loop", "dequeue", "run", "enqueue"}]
    BY <1>1, <1>4 DEF Dequeue, Typed
  <2>3. UNCHANGED <<xvars, lvars, gvars, tvars, started>>
    BY <1>4 DEF Dequeue
  <2> QED BY <1>1, <1>2, <2>1, <2>2, <2>3 DEF Typed
<1>5. CASE DataCallHandler(e)
  BY <1>1, <1>2, <1>5 DEF DataCallHandler, Typed
<1>6. CASE Enqueue(e)
  <2>1. calls' = calls \/ (e[1] = "data" /\ calls' = calls - 1)
    BY <1>6 DEF Enqueue
  <2>2. e[1] = "data" => calls > 0
    <3>1. SUFFICES ASSUME e[1] = "data"
                   PROVE  calls > 0
      OBVIOUS
    <3>2. PICK i \in 0 .. NData - 1 : e = <<"data", i>>
      BY <3>1, ExecutorIs
    <3>3. i \in Busy
      BY <1>6, <3>2 DEF Enqueue, Busy
    <3>4. Cardinality(Busy) # 0
      BY <3>3, BusyFinite, FS_EmptySet
    <3> QED BY <1>1, <3>4, BusyFinite DEF IInv, ProxyInv, Counted, Typed
  <2>3. calls' \in 0 .. MaxCalls
    BY <1>1, <2>1, <2>2, ProxyAssumption DEF Typed
  <2>4. /\ request' \in {"none", request} /\ ex' = [ex EXCEPT ![e] = "loop"]
        /\ UNCHANGED <<xvars, lvars, gvars, tasks, started, known, ended>>
    BY <1>6 DEF Enqueue
  <2> QED BY <1>1, <1>2, <2>3, <2>4 DEF Typed
<1> QED BY <1>3, <1>4, <1>5, <1>6

\* The sweeping thread and the TEE keep them too.
LEMMA SweeperAndTeeTyped ==
    ASSUME IInv,
           \/ SweeperWait \/ SweeperSweep \/ TeeDataCall
           \/ \E r \in {"registerData", "registerCtrl", "unregister"} : TeeCtrlCall(r)
    PROVE  ActorsTyped' /\ Typed'
<1>1. ActorsTyped /\ Typed
  BY DEF IInv
<1>2. ActorsTyped'
  BY <1>1 DEF SweeperWait, SweeperSweep, TeeDataCall, TeeCtrlCall, ActorsTyped
<1>3. CASE SweeperWait \/ SweeperSweep
  <2>1. sweeper' \in {"off", "wait", "sweep"}
    BY <1>3 DEF SweeperWait, SweeperSweep
  <2>2. UNCHANGED <<xvars, gvars, tvars, tasks, ex, started, list, exitSem, dt, dtTl>>
    BY <1>3 DEF SweeperWait, SweeperSweep
  <2> QED BY <1>1, <1>2, <2>1, <2>2 DEF Typed
<1>4. CASE TeeDataCall
  <2>1. calls' \in 0 .. MaxCalls
    BY <1>1, <1>4, ProxyAssumption DEF TeeDataCall, Typed
  <2>2. tasks' \in [Tasklets -> Nat]
    BY <1>1, <1>4 DEF TeeDataCall, Typed
  <2>3. UNCHANGED <<xvars, lvars, gvars, ex, started, known, request, ended>>
    BY <1>4 DEF TeeDataCall
  <2> QED BY <1>1, <1>2, <2>1, <2>2, <2>3 DEF Typed
<1>5. ASSUME NEW r \in {"registerData", "registerCtrl", "unregister"}, TeeCtrlCall(r)
      PROVE  Typed'
  <2>1. tasks' \in [Tasklets -> Nat]
    BY <1>1, <1>5 DEF TeeCtrlCall, Typed
  <2>2. request' = r /\ ended' \in BOOLEAN
    BY <1>5 DEF TeeCtrlCall
  <2>3. UNCHANGED <<xvars, lvars, gvars, ex, started, known, calls>>
    BY <1>5 DEF TeeCtrlCall
  <2> QED BY <1>1, <1>2, <2>1, <2>2, <2>3 DEF Typed
<1> QED BY <1>2, <1>3, <1>4, <1>5

\* What happens to children leaves the proxy's types alone.
LEMMA ElsewhereTyped ==
    ASSUME IInv, UNCHANGED <<xvars, lvars, gvars, tvars, avars, tasks, ex, started>>
    PROVE  ActorsTyped' /\ Typed'
  BY DEF IInv, ActorsTyped, Typed

\* So do the steps of the two threads that are about children.
LEMMA ChildStepTyped ==
    ASSUME IInv, CloneChild \/ WaitChild \/ ReadResult \/ ReapChildren,
           UNCHANGED <<xvars, lvars, gvars, tvars, tasks, ex, started>>
    PROVE  ActorsTyped' /\ Typed'
<1>1. ActorsTyped'
  BY GotoTyped
     DEF CloneChild, WaitChild, ReadResult, ReapChildren, Locations, IInv, ActorsTyped
<1> QED BY <1>1 DEF IInv, Typed

-----------------------------------------------------------------------------
(* Children. *)

\* A step of the proxy that is not about children keeps their types and, for
\* the two threads only leave "await" and "result" by steps of their own, what
\* is known of their answers.
LEMMA AnswersKept ==
    ASSUME KidsTyped, KidAnswers, UNCHANGED kvars,
           pc["ctrl"] \in {"await", "result"} \/ pc'["ctrl"] \in {"await", "result"} =>
              pc'["ctrl"] = pc["ctrl"]
    PROVE  KidsTyped' /\ KidAnswers'
<1>1. KidsTyped'
  BY DEF KidsTyped
<1>2. pc["ctrl"] \in {"await", "result"} <=> pc'["ctrl"] \in {"await", "result"}
  OBVIOUS
<1>3. pc'["ctrl"] = "result" => pc["ctrl"] = "result"
  OBVIOUS
<1> QED BY <1>1, <1>2, <1>3 DEF KidAnswers

\* The control executor gets to a child's answer only by asking for it.
LEMMA AwaitOnly ==
    ASSUME IInv,
           \/ \E a \in Actors : ActorStep(a)
           \/ MainWait \/ FreeRest \/ MainExit
           \/ CtrlCallHandler \/ NewList \/ StartSweeper \/ SetTl \/ PostDestroy \/ CtrlReturn
    PROVE  pc["ctrl"] \in {"await", "result"} \/ pc'["ctrl"] \in {"await", "result"} =>
              pc'["ctrl"] = pc["ctrl"]
<1> USE DEF IInv, ActorsTyped
<1>1. CASE MainWait \/ FreeRest \/ MainExit \/ ActorStep("main")
  BY <1>1
     DEF MainWait, FreeRest, MainExit, ActorStep, XtaskletCreate, StartThread,
         JoinStarted,
       SetPriv, Terminate, InterruptRes, InterruptTask, JoinAndFree, FreeDataTasklet,
       JoinSweeper, FreeDt, CreateFailed, Failed, Register, Publish, Goto, Call, Return
<1>2. CASE CtrlCallHandler \/ NewList \/ StartSweeper \/ SetTl \/ PostDestroy \/ CtrlReturn
  BY <1>2
     DEF CtrlCallHandler, NewList, StartSweeper, SetTl, PostDestroy, CtrlReturn, Goto,
         Call
<1>3. CASE JoinAndFree("ctrl") \/ FreeDt("ctrl")
  <2>1. CtrlReturned
    BY <1>3, CtrlReturns DEF JoinAndFree, FreeDt
  <2> QED BY <2>1 DEF CtrlReturned
<1>4. CASE ActorStep("ctrl") /\ ~(JoinAndFree("ctrl") \/ FreeDt("ctrl"))
  BY <1>4 DEF ActorStep, XtaskletCreate, StartThread, JoinStarted,
       SetPriv, Terminate, InterruptRes, InterruptTask, FreeDataTasklet,
       JoinSweeper, CreateFailed, Failed, Register, Publish, Goto, Call
<1> QED BY <1>1, <1>2, <1>3, <1>4

\* Creating a child and waiting for it: the answer is in time, or given up.
LEMMA CloneChildAnswers ==
    ASSUME IInv, CloneChild
    PROVE  KidsTyped' /\ KidAnswers'
<1> USE DEF IInv, ActorsTyped, KidsTyped, Goto, Kids
<1>1. pc["ctrl"] = "spawn" /\ pc'["ctrl"] \in {"await", "return"}
  BY DEF CloneChild
<1>2. CASE /\ nkids < NKids /\ nkids' = nkids + 1 /\ pc'["ctrl"] = "await"
           /\ \E st \in {"init", "stuck"} : kid' = [kid EXCEPT ![nkids + 1] = st]
           /\ UNCHANGED <<ok, posted, told, late>>
  <2>1. nkids' \in Kids /\ nkids' = nkids + 1 /\ nkids \in Nat
    BY <1>2, ProxyAssumption
  <2>2. KidsTyped'
    BY <1>2, <2>1, ProxyAssumption
  <2>3. /\ nkids' \notin ok /\ nkids' \notin posted /\ nkids' \notin told
        /\ kid[nkids'] = "none"
        /\ kid'[nkids'] \in {"init", "stuck"}
        /\ \A k \in Kids : k # nkids' => kid'[k] = kid[k]
    BY <1>2, <2>1 DEF KidAnswers
  <2>4. KidAnswers'
    BY <1>1, <1>2, <2>1, <2>3 DEF KidAnswers
  <2> QED BY <2>2, <2>4
<1>3. CASE pc'["ctrl"] = "return" /\ UNCHANGED kvars
  BY <1>1, <1>3 DEF KidAnswers
<1> QED BY <1>1, <1>2, <1>3 DEF CloneChild

\* The child has posted the semaphore, or it is given up.
LEMMA WaitChildAnswers ==
    ASSUME IInv, WaitChild
    PROVE  KidsTyped' /\ KidAnswers'
<1> USE DEF IInv, ActorsTyped, KidsTyped, Goto, Kids
<1>1. /\ pc["ctrl"] = "await" /\ pc'["ctrl"] = "result"
      /\ late' = IF nkids \in posted THEN late ELSE late \cup {nkids}
      /\ UNCHANGED <<nkids, kid, ok, posted, told>>
  BY DEF WaitChild
<1>2. nkids \in Kids
  BY <1>1, ProxyAssumption DEF KidAnswers
<1>3. KidsTyped'
  BY <1>1, <1>2
<1>4. KidAnswers'
  BY <1>1, <1>2 DEF KidAnswers
<1> QED BY <1>3, <1>4

\* A child with the result 0 is reported to the TEE; one without it has ended,
\* hangs, or was given up.
LEMMA ReadResultAnswers ==
    ASSUME IInv, ReadResult
    PROVE  KidsTyped' /\ KidAnswers'
<1> USE DEF IInv, ActorsTyped, KidsTyped, Goto, Kids
<1>1. /\ pc["ctrl"] = "result" /\ pc'["ctrl"] = "return"
      /\ told' = IF nkids \in ok THEN told \cup {nkids} ELSE told
      /\ UNCHANGED <<nkids, kid, ok, posted, late>>
  BY DEF ReadResult
<1>2. nkids \in Kids
  BY <1>1, ProxyAssumption DEF KidAnswers
<1>3. KidsTyped'
  BY <1>1, <1>2
<1>4. KidAnswers'
  BY <1>1, <1>2 DEF KidAnswers
<1> QED BY <1>3, <1>4

\* A child's own steps, and its end by the TEE: the result is written before
\* the semaphore is posted, and a child posts it without a result only when it
\* is gone.
LEMMA KidAnswersFollow ==
    ASSUME IInv, \/ \E k \in Kids : KidInit(k) \/ KidReport(k) \/ KidEnd(k)
                 \/ TeeEndsKid,
           UNCHANGED <<pc, nkids, told, late>>
    PROVE  KidsTyped' /\ KidAnswers'
<1> USE DEF IInv, KidsTyped, Kids
<1>1. PICK k \in Kids :
         \/ KidInit(k) \/ KidReport(k) \/ KidEnd(k)
         \/ KidGoes(k, "serving", "ending") /\ UNCHANGED <<ok, posted>>
  BY DEF TeeEndsKid
<1>2. CASE KidInit(k)
  <2>1. kid[k] = "init" /\ kid'[k] \in {"up", "failed"} /\ UNCHANGED <<ok, posted>>
        /\ kid' \in [Kids -> {"none", "stuck", "init", "up", "written", "serving",
                              "failed", "ending", "gone", "reaped"}]
        /\ \A j \in Kids : j # k => kid'[j] = kid[j]
    BY <1>2 DEF KidInit, KidGoes
  <2>2. KidsTyped'
    BY <2>1
  <2> QED BY <2>1, <2>2 DEF KidAnswers
<1>3. CASE KidReport(k)
  <2>1. \/ /\ kid[k] = "up" /\ kid'[k] = "written"
           /\ ok' = ok \cup {k} /\ UNCHANGED posted
        \/ /\ kid[k] = "written" /\ kid'[k] = "serving"
           /\ posted' = posted \cup {k} /\ UNCHANGED ok
    BY <1>3 DEF KidReport, KidGoes
  <2>2. kid' \in [Kids -> {"none", "stuck", "init", "up", "written", "serving",
                              "failed", "ending", "gone", "reaped"}]
        /\ \A j \in Kids : j # k => kid'[j] = kid[j]
    BY <1>3 DEF KidReport, KidGoes
  <2>3. KidsTyped'
    BY <2>1, <2>2
  <2> QED BY <2>1, <2>2, <2>3 DEF KidAnswers
<1>4. CASE KidEnd(k)
  <2>1. \/ kid[k] = "failed" /\ posted' = posted \cup {k}
        \/ kid[k] = "ending" /\ UNCHANGED posted
    BY <1>4 DEF KidEnd, KidGoes
  <2>2. UNCHANGED ok /\ kid'[k] = "gone"
        /\ kid' \in [Kids -> {"none", "stuck", "init", "up", "written", "serving",
                              "failed", "ending", "gone", "reaped"}]
        /\ \A j \in Kids : j # k => kid'[j] = kid[j]
    BY <1>4 DEF KidEnd, KidGoes
  <2>3. KidsTyped'
    BY <2>1, <2>2
  <2> QED BY <2>1, <2>2, <2>3 DEF KidAnswers
<1>5. CASE KidGoes(k, "serving", "ending") /\ UNCHANGED <<ok, posted>>
  <2>1. kid[k] = "serving" /\ kid'[k] = "ending" /\ UNCHANGED <<ok, posted>>
        /\ kid' \in [Kids -> {"none", "stuck", "init", "up", "written", "serving",
                              "failed", "ending", "gone", "reaped"}]
        /\ \A j \in Kids : j # k => kid'[j] = kid[j]
    BY <1>5 DEF KidGoes
  <2>2. KidsTyped'
    BY <2>1
  <2> QED BY <2>1, <2>2 DEF KidAnswers
<1> QED BY <1>1, <1>2, <1>3, <1>4, <1>5

\* The main thread reaps children that are gone, and goes on when all are.
LEMMA ReapChildrenAnswers ==
    ASSUME IInv, ReapChildren
    PROVE  KidsTyped' /\ KidAnswers'
<1> USE DEF IInv, KidsTyped, Kids, ActorsTyped
<1>1. CASE \E k \in Kids : KidGoes(k, "gone", "reaped") /\ UNCHANGED avars
  <2>1. PICK k \in Kids : KidGoes(k, "gone", "reaped") /\ UNCHANGED avars
    BY <1>1
  <2>2. kid[k] = "gone" /\ kid'[k] = "reaped" /\ UNCHANGED <<nkids, ok, posted, told, late, pc>>
        /\ kid' \in [Kids -> {"none", "stuck", "init", "up", "written", "serving",
                              "failed", "ending", "gone", "reaped"}]
        /\ \A j \in Kids : j # k => kid'[j] = kid[j]
    BY <2>1 DEF KidGoes, ReapChildren
  <2>3. KidsTyped'
    BY <2>2
  <2> QED BY <2>2, <2>3 DEF KidAnswers
<1>2. CASE Goto("main", "over") /\ UNCHANGED kid
  <2>1. pc'["ctrl"] = pc["ctrl"] /\ UNCHANGED kvars
    BY <1>2 DEF Goto, ReapChildren
  <2> QED BY <2>1, AnswersKept
<1> QED BY <1>1, <1>2 DEF ReapChildren

\* While the proxy is not set up there is no child, and a proxy that is over
\* has reaped its children or never was set up.
LEMMA ReapedKept ==
    ASSUME IInv, UNCHANGED kvars,
           ~proxy' /\ target'["main"] = "ctrl" => ~proxy /\ target["main"] = "ctrl",
           pc'["main"] = "over" => \/ pc["main"] = "over"
                                   \/ ~proxy /\ target["main"] = "ctrl"
    PROVE  KidsReaped'
<1>1. ~proxy /\ target["main"] = "ctrl" => \A k \in Kids : kid[k] = "none"
  BY DEF IInv, KidsReaped, KidAnswers, Kids
<1> QED BY <1>1 DEF IInv, KidsReaped

\* The steps of the main thread satisfy this: those that end a proxy early
LEMMA MainReaps ==
    ASSUME IInv, ActorStep("main") \/ MainWait \/ FreeRest \/ MainExit, UNCHANGED kvars
    PROVE  KidsReaped'
<1> USE DEF IInv, ActorsTyped
<1>1. CASE MainWait \/ FreeRest \/ MainExit
  <2>1. MainPlace
    BY DEF ProxyInv
  <2> QED BY <1>1, <2>1, ReapedKept DEF MainWait, FreeRest, MainExit, Goto, Call, MainPlace
<1>2. CASE JoinAndFree("main") \/ FreeDt("main")
  <2>1. MainReturned /\ UNCHANGED proxy
    BY <1>2, MainReturns DEF JoinAndFree, FreeDt
  <2>2. pc'["main"] = "over" => ~proxy /\ target["main"] = "ctrl"
    BY <2>1 DEF MainReturned, ProxyInv, Global
  <2> QED BY <2>1, <2>2, ReapedKept DEF MainReturned
<1>3. CASE CreateFailed("main")
  <2>1. pc["main"] = "failed" /\ UNCHANGED <<target, proxy>>
    BY <1>3 DEF CreateFailed, Failed, Goto
  <2>2. ~proxy /\ target["main"] = "ctrl"
    BY <2>1 DEF ProxyInv, Global, MainPlace
  <2> QED BY <2>1, <2>2, ReapedKept
<1>4. CASE ActorStep("main") /\ ~(JoinAndFree("main") \/ FreeDt("main") \/ CreateFailed("main"))
  <2>1. UNCHANGED target /\ pc'["main"] # "over" /\ (proxy' = proxy \/ proxy' = TRUE)
    BY <1>4 DEF ActorStep, XtaskletCreate, StartThread, JoinStarted,
       SetPriv, Terminate, InterruptRes, InterruptTask, FreeDataTasklet,
       JoinSweeper, Register, Publish, Goto, Call
  <2> QED BY <2>1, ReapedKept
<1> QED BY <1>1, <1>2, <1>3, <1>4

\* and those that others take.
LEMMA OthersReap ==
    ASSUME IInv, UNCHANGED kvars,
           \/ ActorStep("ctrl") \/ CtrlCallHandler \/ NewList \/ StartSweeper \/ SetTl
           \/ PostDestroy \/ CtrlReturn \/ SweeperWait \/ SweeperSweep
           \/ \E e \in Executors : Fetch(e) \/ Dequeue(e) \/ DataCallHandler(e) \/ Enqueue(e)
           \/ TeeDataCall
           \/ \E r \in {"registerData", "registerCtrl", "unregister"} : TeeCtrlCall(r)
    PROVE  KidsReaped'
<1> USE DEF IInv, ActorsTyped
<1>1. CASE ActorStep("ctrl")
  <2>1. UNCHANGED <<target, proxy>> /\ pc'["main"] = pc["main"]
    BY <1>1 DEF ActorStep, XtaskletCreate, StartThread, JoinStarted,
       SetPriv, Terminate, InterruptRes, InterruptTask, JoinAndFree, FreeDataTasklet,
       JoinSweeper, FreeDt, CreateFailed, Failed, Register, Publish, Goto, Call, Return
  <2> QED BY <2>1, ReapedKept
<1>2. CASE CtrlCallHandler \/ NewList \/ StartSweeper \/ SetTl \/ PostDestroy \/ CtrlReturn
  <2>1. UNCHANGED <<target, proxy>> /\ pc'["main"] = pc["main"]
    BY <1>2 DEF CtrlCallHandler, NewList, StartSweeper, SetTl, PostDestroy, CtrlReturn,
       Goto, Call
  <2> QED BY <2>1, ReapedKept
<1>3. CASE UNCHANGED <<pc, target, proxy>>
  BY <1>3, ReapedKept
<1> QED BY <1>1, <1>2, <1>3
      DEF SweeperWait, SweeperSweep, Fetch, Dequeue, DataCallHandler, Enqueue, TeeDataCall,
          TeeCtrlCall

\* A child is created, and can take steps, only before the end.
LEMMA ChildrenReaped ==
    ASSUME IInv,
           UNCHANGED <<proxy, target>>,
           \/ CloneChild \/ WaitChild \/ ReadResult \/ ReapChildren
           \/ (\/ \E k \in Kids : KidInit(k) \/ KidReport(k) \/ KidEnd(k)
               \/ TeeEndsKid) /\ UNCHANGED <<nkids, pc>>
    PROVE  KidsReaped'
<1> USE DEF IInv, ActorsTyped, KidsTyped
<1>1. CASE CloneChild
  <2>1. pc["ctrl"] = "spawn" /\ pc'["main"] = pc["main"]
    BY <1>1 DEF CloneChild, Goto
  <2>2. proxy /\ pc["main"] # "over"
    BY <2>1 DEF ProxyInv, Global
  <2> QED BY <2>1, <2>2 DEF KidsReaped
<1>2. CASE WaitChild \/ ReadResult
  BY <1>2 DEF WaitChild, ReadResult, Goto, KidsReaped
<1>3. CASE ReapChildren
  <2>1. pc["main"] = "reap" /\ nkids' = nkids
    BY <1>3 DEF ReapChildren
  <2>2. CASE UNCHANGED avars
    BY <2>1, <2>2 DEF KidsReaped
  <2>3. CASE (\A k \in 1 .. nkids : kid[k] = "reaped") /\ UNCHANGED kid
    <3>1. \A k \in Kids : kid[k] \in {"none", "reaped"}
      BY <2>3 DEF KidAnswers, Kids
    <3> QED BY <2>1, <2>3, <3>1 DEF KidsReaped
  <2> QED BY <1>3, <2>2, <2>3 DEF ReapChildren
<1>4. CASE (\/ \E k \in Kids : KidInit(k) \/ KidReport(k) \/ KidEnd(k)
            \/ TeeEndsKid) /\ UNCHANGED <<nkids, pc>>
  <2>1. PICK k \in Kids : kid[k] \notin {"none", "reaped"}
    BY <1>4 DEF KidInit, KidReport, KidEnd, TeeEndsKid, KidGoes
  <2>2. pc["main"] # "over"
    BY <2>1 DEF KidsReaped
  <2> QED BY <1>4, <2>2 DEF KidsReaped
<1> QED BY <1>1, <1>2, <1>3, <1>4

-----------------------------------------------------------------------------
(* The invariant holds. *)

\* In the beginning there is no tasklet, and the TEE knows of none.
LEMMA InitIInv == Init => IInv
<1> SUFFICES ASSUME Init
             PROVE  IInv
  OBVIOUS
<1>1. ActorsTyped
  BY DEF Init, ActorsTyped, Locations
<1>2. Typed
  <2>1. started \in 0 .. NData /\ calls \in 0 .. MaxCalls /\ destroySem \in 0 .. 1
    BY ProxyAssumption DEF Init
  <2>2. /\ tl \in [Tasklets -> BOOLEAN] /\ priv \in [Tasklets -> BOOLEAN]
        /\ terminated \in [Tasklets -> BOOLEAN]
        /\ intrRes \in [Tasklets -> BOOLEAN] /\ intrTask \in [Tasklets -> BOOLEAN]
        /\ tasks \in [Tasklets -> Nat]
    BY DEF Init
  <2>3. ex \in [Executors -> {"off", "loop", "dequeue", "run", "enqueue"}]
    BY DEF Init
  <2> QED BY <2>1, <2>2, <2>3 DEF Init, Typed
<1>3. KidsTyped /\ KidsReaped /\ KidAnswers
  <2>1. KidsTyped
    BY ProxyAssumption DEF Init, KidsTyped
  <2>2. KidsReaped /\ KidAnswers
    BY ProxyAssumption DEF Init, KidsReaped, KidAnswers, Kids
  <2> QED BY <2>1, <2>2
<1>4. MainPlace /\ CtrlPlace /\ DataParts /\ CtrlParts
  BY DEF Init, MainPlace, CtrlPlace, DataParts, Nothing, CtrlParts
<1>5. ExecutorsOwned /\ Global
  BY DEF Init, ExecutorsOwned, Global
<1>6. CtrlE \in Executors /\ \A i \in 0 .. NData - 1 : <<"data", i>> \in Executors
  BY DEF Executors
<1>7. Requests /\ Ending /\ MainFrees
  BY <1>6 DEF Init, Requests, Ending, Closing, MainFrees
<1>8. Counted
  <2>1. Busy = {}
    BY <1>6 DEF Init, Busy
  <2> QED BY <2>1, FS_EmptySet DEF Init, Counted
<1> QED BY <1>1, <1>2, <1>3, <1>4, <1>5, <1>7, <1>8 DEF IInv, ProxyInv

\* Steps that both threads take, by either of them.
LEMMA ActorStepKeeps ==
    ASSUME IInv, NEW a \in Actors, ActorStep(a)
    PROVE  ProxyInv'
  BY XtaskletCreateKeeps, StartThreadKeeps, JoinStartedKeeps, SetPrivKeeps, TerminateKeeps,
     InterruptResKeeps, InterruptTaskKeeps, JoinAndFreeKeeps, FreeDataTaskletKeeps,
     JoinSweeperKeeps, FreeDtKeeps, CreateFailedKeeps, RegisterKeeps, PublishKeeps
     DEF ActorStep

\* The main thread.
LEMMA MainStepKeeps ==
    ASSUME IInv, MainStep
    PROVE  IInv'
<1>1. CASE (ActorStep("main") \/ MainWait \/ FreeRest \/ MainExit) /\ UNCHANGED kvars
  <2>1. ActorsTyped' /\ Typed'
    BY <1>1, ActorStepTyped, MainStepTyped
  <2>2. ProxyInv'
    BY <1>1, ActorStepKeeps, MainWaitKeeps, FreeRestKeeps, MainExitKeeps
  <2>3. KidsTyped' /\ KidAnswers'
    <3>1. pc["ctrl"] \in {"await", "result"} \/ pc'["ctrl"] \in {"await", "result"} =>
             pc'["ctrl"] = pc["ctrl"]
      BY <1>1, AwaitOnly
    <3> QED BY <1>1, <3>1, AnswersKept DEF IInv
  <2>4. KidsReaped'
    BY <1>1, MainReaps
  <2> QED BY <2>1, <2>2, <2>3, <2>4 DEF IInv
<1>2. CASE ReapChildren /\ UNCHANGED <<xvars, lvars, gvars, tvars, tasks, ex, started>>
  <2>1. UNCHANGED <<proxy, target>>
    BY <1>2 DEF ReapChildren, Goto
  <2> QED BY <1>2, <2>1, ChildStepTyped, ReapChildrenKeeps, ReapChildrenAnswers,
             ChildrenReaped DEF IInv
<1> QED BY <1>1, <1>2 DEF MainStep

\* The control executor.
LEMMA CtrlStepKeeps ==
    ASSUME IInv, CtrlStep
    PROVE  IInv'
<1>1. CASE /\ \/ ActorStep("ctrl") \/ CtrlCallHandler \/ NewList \/ StartSweeper \/ SetTl
              \/ PostDestroy \/ CtrlReturn
           /\ UNCHANGED kvars
  <2>1. ActorsTyped' /\ Typed'
    BY <1>1, ActorStepTyped, CtrlStepTyped
  <2>2. ProxyInv'
    BY <1>1, ActorStepKeeps, CtrlCallHandlerKeeps, NewListKeeps, StartSweeperKeeps,
       SetTlKeeps, PostDestroyKeeps, CtrlReturnKeeps
  <2>3. KidsTyped' /\ KidAnswers'
    <3>1. pc["ctrl"] \in {"await", "result"} \/ pc'["ctrl"] \in {"await", "result"} =>
             pc'["ctrl"] = pc["ctrl"]
      BY <1>1, AwaitOnly
    <3> QED BY <1>1, <3>1, AnswersKept DEF IInv
  <2>4. KidsReaped'
    BY <1>1, OthersReap
  <2> QED BY <2>1, <2>2, <2>3, <2>4 DEF IInv
<1>2. CASE /\ CloneChild \/ WaitChild \/ ReadResult
           /\ UNCHANGED <<xvars, lvars, gvars, tvars, tasks, ex, started>>
  <2>1. UNCHANGED <<proxy, target>>
    BY <1>2 DEF CloneChild, WaitChild, ReadResult, Goto
  <2> QED BY <1>2, <2>1, ChildStepTyped, SpawnKeeps, CloneChildAnswers, WaitChildAnswers,
             ReadResultAnswers, ChildrenReaped DEF IInv
<1> QED BY <1>1, <1>2 DEF CtrlStep

\* The other threads of the proxy, and the TEE's calls.
LEMMA OtherStepKeeps ==
    ASSUME IInv, UNCHANGED kvars,
           \/ SweeperWait \/ SweeperSweep
           \/ \E e \in Executors : Fetch(e) \/ Dequeue(e) \/ DataCallHandler(e) \/ Enqueue(e)
           \/ TeeDataCall
           \/ \E r \in {"registerData", "registerCtrl", "unregister"} : TeeCtrlCall(r)
    PROVE  IInv'
<1>1. ActorsTyped' /\ Typed'
  BY ExecutorStepTyped, SweeperAndTeeTyped
<1>2. ProxyInv'
  BY SweeperWaitKeeps, SweeperSweepKeeps, FetchKeeps, DequeueKeeps, DataCallHandlerKeeps,
     EnqueueKeeps, TeeDataCallKeeps, TeeCtrlCallKeeps
<1>3. KidsTyped' /\ KidAnswers'
  <2>1. UNCHANGED pc
    BY DEF SweeperWait, SweeperSweep, Fetch, Dequeue, DataCallHandler, Enqueue,
           TeeDataCall, TeeCtrlCall
  <2> QED BY <2>1, AnswersKept DEF IInv
<1>4. KidsReaped'
  BY OthersReap
<1> QED BY <1>1, <1>2, <1>3, <1>4 DEF IInv

\* The children.
LEMMA KidStepKeeps ==
    ASSUME IInv,
           \/ \E k \in Kids : KidStep(k)
           \/ TeeEndsKid /\ UNCHANGED <<xvars, lvars, gvars, tvars, avars, tasks, ex, started>>
    PROVE  IInv'
<1>1. UNCHANGED <<xvars, lvars, gvars, tvars, avars, tasks, ex, started>>
  BY DEF KidStep
<1>2. /\ \/ \E k \in Kids : KidInit(k) \/ KidReport(k) \/ KidEnd(k)
         \/ TeeEndsKid
      /\ UNCHANGED <<pc, target, proxy, nkids, told, late>>
  BY DEF KidStep, TeeEndsKid
<1>3. ActorsTyped' /\ Typed'
  BY <1>1, ElsewhereTyped
<1>4. ProxyInv'
  BY <1>1, ElsewhereKeeps
<1>5. KidsTyped' /\ KidAnswers'
  BY <1>2, KidAnswersFollow
<1>6. KidsReaped'
  BY <1>2, ChildrenReaped
<1> QED BY <1>3, <1>4, <1>5, <1>6 DEF IInv

\* Every step keeps the invariant.
LEMMA NextIInv == IInv /\ [Next]_vars => IInv'
<1> SUFFICES ASSUME IInv, [Next]_vars
             PROVE  IInv'
  OBVIOUS
<1>1. CASE MainStep
  BY <1>1, MainStepKeeps
<1>2. CASE CtrlStep
  BY <1>2, CtrlStepKeeps
<1>3. CASE SweeperStep \/ \E e \in Executors : ExecutorStep(e)
  BY <1>3, OtherStepKeeps DEF SweeperStep, ExecutorStep
<1>4. CASE \E k \in Kids : KidStep(k)
  BY <1>4, KidStepKeeps
<1>5. CASE TeeStep
  BY <1>5, OtherStepKeeps, KidStepKeeps DEF TeeStep
<1>6. CASE UNCHANGED vars
  <2>1. ActorsTyped' /\ Typed' /\ ProxyInv'
    BY <1>6, ElsewhereTyped, ElsewhereKeeps DEF vars
  <2>2. KidsTyped' /\ KidAnswers' /\ KidsReaped'
    BY <1>6 DEF vars, IInv, KidsTyped, KidAnswers, KidsReaped
  <2> QED BY <2>1, <2>2 DEF IInv
<1> QED BY <1>1, <1>2, <1>3, <1>4, <1>5, <1>6 DEF Next

\* So it is an invariant of the specification.
THEOREM InvariantHolds == Spec => []IInv
  BY InitIInv, NextIInv, PTL DEF Spec

-----------------------------------------------------------------------------
(* What follows from it. *)

\* Every variable holds a value of its C type: the shared counters stay in
\* their bounds, destroySem is posted at most once.
LEMMA TypesHold == IInv => TypeOK
  BY DEF IInv, ActorsTyped, Typed, KidsTyped, TypeOK

\* Nobody uses a tasklet, its queues or the package list after XtaskletDestroy
\* and FdListDestroy have freed them: no executor, no sweeping thread, and
\* neither of the threads that may destroy the data tasklet, the control
\* executor and the main thread.
THEOREM TaskletsStayAlive == Spec => []TaskletAlive
<1>1. IInv => TaskletAlive
  <2> SUFFICES ASSUME IInv
               PROVE  TaskletAlive
    OBVIOUS
  <2> USE DEF IInv, ProxyInv
  <2>1. TypeOK /\ \A e \in Executors : ex[e] # "off" => tl[e[1]]
    BY TypesHold DEF ExecutorsOwned
  <2>2. \A a \in Actors : pc[a] \in Destroying => tl[target[a]]
    <3>1. pc["main"] \in Destroying => tl[target["main"]]
      BY DEF MainPlace, CtrlParts, DataParts, PartsAt
    <3>2. pc["ctrl"] \in Destroying => tl[target["ctrl"]]
      BY CtrlAlone DEF CtrlPlace, DataParts, PartsAt
    <3> QED BY <3>1, <3>2
  <2>3. ASSUME NEW e \in Of("data"), ex[e] = "run"
        PROVE  list /\ priv["data"]
    <3>1. e \in Executors /\ e[1] = "data"
      BY <2>3 DEF Of
    <3>2. PICK i \in 0 .. NData - 1 : e = <<"data", i>>
      BY <3>1, ExecutorIs
    <3>3. i \in Busy
      BY <2>3, <3>2 DEF Busy
    <3>4. Cardinality(Busy) # 0
      BY <3>3, BusyFinite, FS_EmptySet
    <3>5. calls # 0
      BY <3>4, BusyFinite DEF Counted, Typed
    <3>6. target["main"] = "ctrl"
      BY <3>5 DEF Ending, Closing, ActorsTyped
    <3>7. pc["ctrl"] \in Resting
      BY <3>5 DEF Requests
    <3>8. tl["data"]
      BY <2>1, <2>3, <3>1
    <3> QED BY <3>6, <3>7, <3>8 DEF DataParts, Whole, Nothing
  <2>4. /\ sweeper # "off" => dt
        /\ sweeper = "sweep" => list /\ tl["data"] /\ priv["data"]
    <3>1. CASE target["main"] = "data"
      BY <3>1 DEF DataParts, PartsAt, Typed
    <3>2. CASE target["main"] = "ctrl" /\ pc["ctrl"] \notin Resting
      BY <3>2 DEF DataParts, PartsAt, Typed
    <3>3. CASE target["main"] = "ctrl" /\ pc["ctrl"] \in Resting
      BY <3>3 DEF DataParts, Whole, Nothing, Typed
    <3> QED BY <3>1, <3>2, <3>3 DEF ActorsTyped
  <2> QED BY <2>1, <2>2, <2>3, <2>4 DEF TaskletAlive
<1> QED BY <1>1, InvariantHolds, PTL

\* While its control executor is at rest, the global structure does not point to
\* a data tasklet that is gone; and when the main thread is done, no thread,
\* tasklet, list, structure or child process is left, whatever failed on the
\* way: the end that a failed creation takes, and the long one of
\* PosixProxyDestroy.
THEOREM ProxyLeavesNothing == Spec => []NothingLeft
<1>1. IInv => NothingLeft
  <2> SUFFICES ASSUME IInv
               PROVE  NothingLeft
    OBVIOUS
  <2> USE DEF IInv, ProxyInv
  <2>1. gData /\ pc["ctrl"] = "idle" /\ pc["main"] # "exit" => dt \/ pc["main"] = "freeDt"
    <3>1. SUFFICES ASSUME gData, pc["ctrl"] = "idle", pc["main"] # "exit"
                   PROVE  dt
      OBVIOUS
    <3>2. CASE target["main"] = "ctrl"
      BY <3>1, <3>2 DEF DataParts, Whole
    <3>3. CASE target["main"] = "data"
      BY <3>1, <3>3 DEF DataParts, PartsAt, MainPlace, Global
    <3> QED BY <3>2, <3>3 DEF ActorsTyped
  <2>2. ASSUME pc["main"] = "over"
        PROVE  /\ ~proxy /\ ~dt /\ ~list /\ sweeper = "off"
               /\ \A x \in Tasklets : ~tl[x]
               /\ \A e \in Executors : ex[e] = "off"
               /\ \A k \in Kids : kid[k] \in {"none", "reaped"}
    <3>1. ~proxy /\ ~gData /\ \A k \in Kids : kid[k] \in {"none", "reaped"}
      BY <2>2 DEF Global, KidsReaped
    <3>2. ~tl["ctrl"]
      BY <2>2 DEF CtrlParts
    <3>3. CtrlE \in Executors /\ CtrlE[1] = "ctrl"
      BY DEF Executors
    <3>4. ex[CtrlE] = "off"
      BY <3>2, <3>3 DEF ExecutorsOwned
    <3>5. pc["ctrl"] = "idle"
      BY <3>4 DEF CtrlPlace
    <3>6. ~dt /\ ~list /\ sweeper = "off" /\ ~tl["data"]
      <4>1. CASE target["main"] = "ctrl"
        BY <3>1, <3>5, <4>1 DEF DataParts, Nothing
      <4>2. CASE target["main"] = "data"
        BY <2>2, <4>2 DEF DataParts, PartsAt
      <4> QED BY <4>1, <4>2 DEF ActorsTyped
    <3>7. \A e \in Executors : ex[e] = "off"
      BY <3>2, <3>6 DEF ExecutorsOwned, Executors
    <3> QED BY <3>1, <3>2, <3>6, <3>7
  <2> QED BY <2>1, <2>2 DEF NothingLeft
<1> QED BY <1>1, InvariantHolds, PTL

\* The TEE is given the pid of a child only if the child has set up its proxy,
\* which is what the shared result says that the child writes before it posts
\* the semaphore; and it is told of every proxy that is set up, unless the
\* parent's three seconds were over.
THEOREM ChildrenAnswered == Spec => []ChildAnswer
<1>1. IInv => ChildAnswer
  BY DEF IInv, KidAnswers, ChildAnswer
<1> QED BY <1>1, InvariantHolds, PTL
==============================================================================
