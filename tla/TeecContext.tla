---------------------------- MODULE TeecContext ----------------------------
(***************************************************************************)
(* The client library libteec (libteec_vendor/tee_client_api.c): TEE       *)
(* contexts, their reference-counted heap objects (TEEC_ContextHidl), the  *)
(* global context list, the sessions listed in a context, and the calls    *)
(* that several threads of one client application make on them.            *)
(*                                                                         *)
(* One step of the model is one critical section, one ioctl or one write   *)
(* to a structure that the client shares with the library.  Locking a      *)
(* pthread mutex succeeds.                                                 *)
(***************************************************************************)
EXTENDS Integers, FiniteSets

CONSTANTS
    Threads,        \* threads of the client application
    Contexts,       \* TEEC_Context structures of the client
    Handles,        \* heap cells for TEEC_ContextHidl
    Sessions,       \* TEEC_Session structures of the client
    Fds,            \* descriptor numbers the kernel can hand out
    Sids,           \* session ids the TEE can hand out
    GarbageIds,     \* session_id values of a TEEC_Session never written to
    Nil

ASSUME ContextAssumption ==
    /\ IsFiniteSet(Threads)
    /\ Fds \subseteq Nat
    /\ Sids \subseteq Nat \ {0}
    /\ GarbageIds \subseteq Nat
    /\ Nil \notin Contexts \cup Handles \cup Sessions

NoFd == -1

VARIABLES
    ctxFd,      \* context->fd of the client's structure
    list,       \* g_teecContextList
    live,       \* the allocated TEEC_ContextHidl cells
    fd,         \* contextHidl->fd
    cnt,        \* contextHidl->ops_cnt
    slist,      \* contextHidl->session_list
    sctx,       \* session->context
    sid,        \* session->session_id
    openFds,    \* kernel: open descriptors of the client's process
    tee,        \* TEE: the descriptor a session id was opened through
    opened,     \* history: sessions the client has opened and not ended
    pc, op,     \* thread: where it is, and in which API call
    tctx, tses, \* thread: the context and session the call is about
    th, tsid,   \* thread: the handle and session id held in local variables
    free        \* may the client's calls overlap the end of what they are about?

cvars == <<ctxFd, list, live, fd, cnt>>
svars == <<slist, sctx, sid, tee, opened>>
tvars == <<pc, op, tctx, tses, th, tsid>>
vars  == <<cvars, svars, openFds, tvars, free>>

Ops == {"none", "init", "finalize", "open", "close", "invoke", "cancel"}

\* Where a thread stands while it owns one reference to the handle th.
HoldPcs == {"insert", "publish", "put", "openIoctl", "openAdd", "closeRemove",
            "closeIoctl", "closeClear", "invokeEncode", "invokeIoctl"}

Pcs == HoldPcs \cup {"idle", "get", "drain", "clearFd", "cancelIoctl", "fault"}

Init ==
    /\ ctxFd = [c \in Contexts |-> NoFd]
    /\ list = {} /\ live = {}
    /\ fd = [h \in Handles |-> NoFd]
    /\ cnt = [h \in Handles |-> 0]
    /\ slist = [h \in Handles |-> {}]
    /\ sctx = [s \in Sessions |-> Nil]
    /\ sid \in [Sessions -> GarbageIds]
    /\ openFds = {}
    /\ tee = [i \in Sids |-> NoFd]
    /\ opened = {}
    /\ pc = [t \in Threads |-> "idle"]
    /\ op = [t \in Threads |-> "none"]
    /\ tctx = [t \in Threads |-> Nil]
    /\ tses = [t \in Threads |-> Nil]
    /\ th = [t \in Threads |-> Nil]
    /\ tsid = [t \in Threads |-> 0]
    /\ free \in BOOLEAN

-----------------------------------------------------------------------------
(***************************************************************************)
(* What the client may do.  A context is used only after                   *)
(* TEEC_InitializeContext returned and finalized once; a session is opened *)
(* and closed by one thread at a time and is not opened while still open.  *)
(* Both kinds of client are in the model: one that is free lets its calls  *)
(* overlap, and one that is not makes no call on a context that overlaps   *)
(* its finalization and none on a session that overlaps its closing.       *)
(***************************************************************************)
BusyOn(t, c) == pc[t] # "idle" /\ tctx[t] = c

BusyWith(t, s) == pc[t] # "idle" /\ tses[t] = s

MayFinalize(c) ==
    /\ ctxFd[c] # NoFd
    /\ \A t \in Threads :
          BusyOn(t, c) => free /\ op[t] \notin {"init", "finalize"}

MayUse(c) ==
    \A t \in Threads :
       BusyOn(t, c) => /\ op[t] # "init"
                       /\ op[t] = "finalize" => free

MayOpen(s) ==
    /\ \A t \in Threads : ~BusyWith(t, s)
    /\ \A h \in Handles : s \notin slist[h]

MayUseSession(s) ==
    /\ sctx[s] # Nil
    /\ MayUse(sctx[s])
    /\ \A t \in Threads :
          BusyWith(t, s) => /\ op[t] # "open"
                            /\ op[t] = "close" => free

MayClose(s) ==
    /\ sctx[s] # Nil
    /\ MayUse(sctx[s])
    /\ \A t \in Threads :
          BusyWith(t, s) => free /\ op[t] \notin {"open", "close"}

-----------------------------------------------------------------------------
(* Thread-local bookkeeping of a call. *)

\* A fault of one thread ends the process: no further call begins.
Running == \A t \in Threads : pc[t] # "fault"

Call(t, o, c, s, loc) ==
    /\ pc[t] = "idle" /\ Running
    /\ pc' = [pc EXCEPT ![t] = loc]
    /\ op' = [op EXCEPT ![t] = o]
    /\ tctx' = [tctx EXCEPT ![t] = c]
    /\ tses' = [tses EXCEPT ![t] = s]

Goto(t, loc) == pc' = [pc EXCEPT ![t] = loc]

SameCall == UNCHANGED <<op, tctx, tses>>

\* What follows PutBnContext in each API function; TEEC_RequestCancellation
\* gives up when TEEC_CheckOperation rejected the operation.
AfterPut(t) ==
    CASE op[t] = "finalize" -> {"clearFd"}
      [] op[t] = "cancel"   -> {"cancelIoctl", "idle"}
      [] OTHER              -> {"idle"}

\* The API function returns to the client.
Leave(t) ==
    /\ pc' = [pc EXCEPT ![t] = "idle"]
    /\ op' = [op EXCEPT ![t] = "none"]
    /\ tctx' = [tctx EXCEPT ![t] = Nil]
    /\ tses' = [tses EXCEPT ![t] = Nil]
    /\ th' = [th EXCEPT ![t] = Nil]
    /\ tsid' = [tsid EXCEPT ![t] = 0]

Return(t) ==
    \/ "idle" \in AfterPut(t) /\ Leave(t)
    \/ /\ \E loc \in AfterPut(t) \ {"idle"} : Goto(t, loc)
       /\ th' = [th EXCEPT ![t] = Nil]
       /\ SameCall
       /\ UNCHANGED tsid

-----------------------------------------------------------------------------
(* The reference-counted context object. *)

\* Mutant: the increment is lost.
AtomIncLost(h) == UNCHANGED cnt

AtomInc(h) == cnt' = [cnt EXCEPT ![h] = @ + 1]

\* Mutant: compares the count before the decrement with the wrong value.
DecToOne(h) == cnt[h] <= 2

\* AtomDecAndCompareWithZero: does the decrement reach 0?
DecToZero(h) == cnt[h] = 1

\* The listed objects whose descriptor is that of the client's structure.
FindBnContext(c) == {h \in list : fd[h] = ctxFd[c]}

\* The critical section of every API call but finalization: look the context
\* up and take a reference.  The call fails when there is none, except that
\* TEEC_RequestCancellation goes on if its operation has no memory reference.
GetBnContext(t) ==
    /\ pc[t] = "get"
    /\ \/ \E h \in FindBnContext(tctx[t]) :
             /\ AtomInc(h)
             /\ th' = [th EXCEPT ![t] = h]
             /\ Goto(t, CASE op[t] = "open"   -> "openIoctl"
                          [] op[t] = "close"  -> "closeRemove"
                          [] op[t] = "invoke" -> "invokeEncode"
                          [] op[t] = "cancel" -> "put")
             /\ SameCall
             /\ UNCHANGED tsid
       \/ /\ FindBnContext(tctx[t]) = {}
          /\ Return(t)
          /\ UNCHANGED cnt
    /\ UNCHANGED <<ctxFd, list, live, fd, svars, openFds>>

\* Mutant: the count is not tested, so that nobody destroys the object.
PutBnContextOnly(t) ==
    /\ pc[t] = "put"
    /\ cnt' = [cnt EXCEPT ![th[t]] = @ - 1]
    /\ Return(t)
    /\ UNCHANGED <<ctxFd, list, live, fd, svars, openFds>>

\* Give the reference back; whoever drops the last one destroys the object.
PutBnContext(t) ==
    /\ pc[t] = "put"
    /\ cnt' = [cnt EXCEPT ![th[t]] = @ - 1]
    /\ IF DecToZero(th[t])
       THEN Goto(t, "drain") /\ SameCall /\ UNCHANGED <<th, tsid>>
       ELSE Return(t)
    /\ UNCHANGED <<ctxFd, list, live, fd, svars, openFds>>

-----------------------------------------------------------------------------
(* TEEC_InitializeContext *)

\* Allocate the object and get a descriptor from teecd.  (When teecd cannot
\* be reached the object is freed again and nothing has changed.)
InitializeContext(t, c) ==
    /\ ctxFd[c] = NoFd
    /\ \A u \in Threads : ~BusyOn(u, c)
    /\ Call(t, "init", c, Nil, "insert")
    /\ \E h \in Handles \ live, f \in Fds \ openFds :
          /\ live' = live \cup {h}
          /\ openFds' = openFds \cup {f}
          /\ fd' = [fd EXCEPT ![h] = f]
          /\ cnt' = [cnt EXCEPT ![h] = 1]
          /\ slist' = [slist EXCEPT ![h] = {}]
          /\ th' = [th EXCEPT ![t] = h]
    /\ UNCHANGED <<ctxFd, list, sctx, sid, tee, opened, tsid>>

InitializeInsert(t) ==
    /\ pc[t] = "insert"
    /\ list' = list \cup {th[t]}
    /\ AtomInc(th[t])
    /\ Goto(t, "publish")
    /\ SameCall
    /\ UNCHANGED <<ctxFd, live, fd, svars, openFds, th, tsid>>

InitializePublish(t) ==
    /\ pc[t] = "publish"
    /\ ctxFd' = [ctxFd EXCEPT ![tctx[t]] = fd[th[t]]]
    /\ Goto(t, "put")
    /\ SameCall
    /\ UNCHANGED <<list, live, fd, cnt, svars, openFds, th, tsid>>

-----------------------------------------------------------------------------
(* TEEC_FinalizeContext *)

\* Mutant: the object is found but stays in the list.
FinalizeKeepListed(t, c) ==
    /\ MayFinalize(c)
    /\ opened' = opened \ {s \in Sessions : sctx[s] = c}
    /\ \E h \in FindBnContext(c) : th' = [th EXCEPT ![t] = h]
    /\ Call(t, "finalize", c, Nil, "put")
    /\ UNCHANGED <<cvars, slist, sctx, sid, tee, openFds, tsid>>

\* FindAndRemoveBnContext: the list's reference passes to this thread.
FinalizeContext(t, c) ==
    /\ MayFinalize(c)
    /\ opened' = opened \ {s \in Sessions : sctx[s] = c}
    /\ \/ \E h \in FindBnContext(c) :
             /\ list' = list \ {h}
             /\ th' = [th EXCEPT ![t] = h]
             /\ Call(t, "finalize", c, Nil, "put")
       \/ /\ FindBnContext(c) = {}
          /\ Call(t, "finalize", c, Nil, "clearFd")
          /\ UNCHANGED <<list, th>>
    /\ UNCHANGED <<ctxFd, live, fd, cnt, slist, sctx, sid, tee, openFds, tsid>>

\* Mutant: context->fd keeps the number of the closed descriptor.
FinalizeKeepFd(t) ==
    /\ pc[t] = "clearFd"
    /\ Leave(t)
    /\ UNCHANGED <<cvars, svars, openFds>>

FinalizeClearFd(t) ==
    /\ pc[t] = "clearFd"
    /\ ctxFd' = [ctxFd EXCEPT ![tctx[t]] = NoFd]
    /\ Leave(t)
    /\ UNCHANGED <<list, live, fd, cnt, svars, openFds>>

\* The effect of the close ioctl on descriptor f in the TEE.
TeeClose(i, f) ==
    tee' = IF i \in Sids /\ tee[i] = f THEN [tee EXCEPT ![i] = NoFd] ELSE tee

\* TEEC_FinalizeContextHidl, the session loop: TEEC_CloseSessionHidl on every
\* session still listed, which also resets the client's structure.
FinalizeCloseSession(t, s) ==
    /\ pc[t] = "drain"
    /\ s \in slist[th[t]]
    /\ slist' = [slist EXCEPT ![th[t]] = @ \ {s}]
    /\ TeeClose(sid[s], fd[th[t]])
    /\ sid' = [sid EXCEPT ![s] = 0]
    /\ sctx' = [sctx EXCEPT ![s] = Nil]
    /\ opened' = opened \ {s}
    /\ SameCall
    /\ UNCHANGED <<cvars, openFds, pc, th, tsid>>

\* Mutant: the descriptor stays open.
FinalizeFreeNoClose(t) ==
    /\ pc[t] = "drain"
    /\ slist[th[t]] = {}
    /\ live' = live \ {th[t]}
    /\ fd' = [fd EXCEPT ![th[t]] = NoFd]
    /\ Return(t)
    /\ UNCHANGED <<ctxFd, list, cnt, svars, openFds>>

\* Mutant: the listed sessions are not closed first.
FinalizeFreeEarly(t) ==
    /\ pc[t] = "drain"
    /\ openFds' = openFds \ {fd[th[t]]}
    /\ live' = live \ {th[t]}
    /\ fd' = [fd EXCEPT ![th[t]] = NoFd]
    /\ Return(t)
    /\ UNCHANGED <<ctxFd, list, cnt, svars>>

\* ... and its end: close(fd) and free(context).
FinalizeFree(t) ==
    /\ pc[t] = "drain"
    /\ slist[th[t]] = {}
    /\ openFds' = openFds \ {fd[th[t]]}
    /\ live' = live \ {th[t]}
    /\ fd' = [fd EXCEPT ![th[t]] = NoFd]
    /\ Return(t)
    /\ UNCHANGED <<ctxFd, list, cnt, svars>>

-----------------------------------------------------------------------------
(* TEEC_OpenSession *)

\* session->context is set first, before anything can fail.
OpenSession(t, c, s) ==
    /\ ctxFd[c] # NoFd
    /\ MayUse(c)
    /\ MayOpen(s)
    /\ Call(t, "open", c, s, "get")
    /\ sctx' = [sctx EXCEPT ![s] = c]
    /\ UNCHANGED <<cvars, slist, sid, tee, opened, openFds, th, tsid>>

\* TEEC_OpenSessionHidl up to and including the open ioctl of
\* TEEC_DoOpenSession: an invalid operation, an unreadable TA image, the
\* driver or the TEE may refuse; the TEE picks an id it does not use.
OpenIoctl(t) ==
    /\ pc[t] = "openIoctl"
    /\ \/ \E i \in Sids :
             /\ tee[i] = NoFd
             /\ tee' = [tee EXCEPT ![i] = fd[th[t]]]
             /\ tsid' = [tsid EXCEPT ![t] = i]
             /\ Goto(t, "openAdd")
       \/ Goto(t, "put") /\ UNCHANGED <<tee, tsid>>
    /\ SameCall
    /\ UNCHANGED <<cvars, slist, sctx, sid, opened, openFds, th>>

AddSessionList(t) ==
    /\ pc[t] = "openAdd"
    /\ sid' = [sid EXCEPT ![tses[t]] = tsid[t]]
    /\ slist' = [slist EXCEPT ![th[t]] = @ \cup {tses[t]}]
    /\ opened' = opened \cup {tses[t]}
    /\ tsid' = [tsid EXCEPT ![t] = 0]
    /\ Goto(t, "put")
    /\ SameCall
    /\ UNCHANGED <<cvars, sctx, tee, openFds, th>>

-----------------------------------------------------------------------------
(* TEEC_CloseSession *)

CloseSession(t, s) ==
    /\ MayClose(s)
    /\ Call(t, "close", sctx[s], s, "get")
    /\ opened' = opened \ {s}
    /\ UNCHANGED <<cvars, slist, sctx, sid, tee, openFds, th, tsid>>

\* Mutant: any session of the context matches.
FindAnySession(s, h) == slist[h]

\* The listed sessions with the same session_id as s.
FindBnSession(s, h) == {r \in slist[h] : sid[r] = sid[s]}

\* Mutant: the session is found but stays in the list.
FindSessionOnly(t) ==
    /\ pc[t] = "closeRemove"
    /\ Goto(t, IF FindBnSession(tses[t], th[t]) # {} THEN "closeIoctl" ELSE "put")
    /\ SameCall
    /\ UNCHANGED <<cvars, svars, openFds, th, tsid>>

FindAndRemoveSession(t) ==
    /\ pc[t] = "closeRemove"
    /\ \/ \E r \in FindBnSession(tses[t], th[t]) :
             /\ slist' = [slist EXCEPT ![th[t]] = @ \ {r}]
             /\ Goto(t, "closeIoctl")
       \/ /\ FindBnSession(tses[t], th[t]) = {}
          /\ Goto(t, "put")
          /\ UNCHANGED slist
    /\ SameCall
    /\ UNCHANGED <<cvars, sctx, sid, tee, opened, openFds, th, tsid>>

\* TEEC_CloseSessionHidl: the ioctl, then the client's structure.
CloseIoctl(t) ==
    /\ pc[t] = "closeIoctl"
    /\ TeeClose(sid[tses[t]], fd[th[t]])
    /\ Goto(t, "closeClear")
    /\ SameCall
    /\ UNCHANGED <<cvars, slist, sctx, sid, opened, openFds, th, tsid>>

CloseClear(t) ==
    /\ pc[t] = "closeClear"
    /\ sid' = [sid EXCEPT ![tses[t]] = 0]
    /\ sctx' = [sctx EXCEPT ![tses[t]] = Nil]
    /\ Goto(t, "put")
    /\ SameCall
    /\ UNCHANGED <<cvars, slist, tee, opened, openFds, th, tsid>>

-----------------------------------------------------------------------------
(* TEEC_InvokeCommand *)

InvokeCommand(t, s) ==
    /\ MayUseSession(s)
    /\ Call(t, "invoke", sctx[s], s, "get")
    /\ UNCHANGED <<cvars, svars, openFds, th, tsid>>

\* TEEC_CheckOperation, CheckRegisterShm and TEEC_Encode, which reads
\* session->session_id.
InvokeEncode(t) ==
    /\ pc[t] = "invokeEncode"
    /\ \/ /\ tsid' = [tsid EXCEPT ![t] = sid[tses[t]]]
          /\ Goto(t, "invokeIoctl")
       \/ Goto(t, "put") /\ UNCHANGED tsid
    /\ SameCall
    /\ UNCHANGED <<cvars, svars, openFds, th>>

\* ProcessInvokeCommand; after a success session->context is written back.
InvokeIoctl(t) ==
    /\ pc[t] = "invokeIoctl"
    /\ \/ /\ tsid[t] \in Sids /\ tee[tsid[t]] = fd[th[t]]
          /\ sctx' = [sctx EXCEPT ![tses[t]] = tctx[t]]
       \/ UNCHANGED sctx
    /\ tsid' = [tsid EXCEPT ![t] = 0]
    /\ Goto(t, "put")
    /\ SameCall
    /\ UNCHANGED <<cvars, slist, sid, tee, opened, openFds, th>>

-----------------------------------------------------------------------------
(* TEEC_RequestCancellation *)

RequestCancellation(t, s) ==
    /\ MayUseSession(s)
    /\ Call(t, "cancel", sctx[s], s, "get")
    /\ UNCHANGED <<cvars, svars, openFds, th, tsid>>

\* The ioctl goes to session->context->fd, read again without a reference.
CancelIoctl(t) ==
    /\ pc[t] = "cancelIoctl"
    /\ IF sctx[tses[t]] = Nil
       THEN Goto(t, "fault") /\ SameCall /\ UNCHANGED <<th, tsid>>
       ELSE Leave(t)
    /\ UNCHANGED <<cvars, svars, openFds>>

-----------------------------------------------------------------------------
Start(t) ==
    /\ \/ \E c \in Contexts :
             \/ InitializeContext(t, c)
             \/ FinalizeContext(t, c)
             \/ \E s \in Sessions : OpenSession(t, c, s)
       \/ \E s \in Sessions :
             \/ CloseSession(t, s)
             \/ InvokeCommand(t, s)
             \/ RequestCancellation(t, s)
    /\ UNCHANGED free

Step(t) ==
    /\ \/ GetBnContext(t) \/ PutBnContext(t)
       \/ InitializeInsert(t) \/ InitializePublish(t)
       \/ FinalizeClearFd(t) \/ FinalizeFree(t)
       \/ \E s \in Sessions : FinalizeCloseSession(t, s)
       \/ OpenIoctl(t) \/ AddSessionList(t)
       \/ FindAndRemoveSession(t) \/ CloseIoctl(t) \/ CloseClear(t)
       \/ InvokeEncode(t) \/ InvokeIoctl(t)
       \/ CancelIoctl(t)
    /\ UNCHANGED free

Next == \E t \in Threads : Start(t) \/ Step(t)

Spec == Init /\ [][Next]_vars

\* Every call in progress goes on: the driver answers every ioctl.
FairSpec == Spec /\ \A t \in Threads : WF_vars(Step(t))

-----------------------------------------------------------------------------
(* Properties *)

\* Every variable of the code holds a value of its C type.
TypeOK ==
    /\ ctxFd \in [Contexts -> Fds \cup {NoFd}]
    /\ list \subseteq Handles /\ live \subseteq Handles
    /\ fd \in [Handles -> Fds \cup {NoFd}]
    /\ cnt \in [Handles -> Nat]
    /\ slist \in [Handles -> SUBSET Sessions]
    /\ sctx \in [Sessions -> Contexts \cup {Nil}]
    /\ sid \in [Sessions -> Nat]
    /\ openFds \subseteq Fds
    /\ tee \in [Sids -> Fds \cup {NoFd}]
    /\ opened \subseteq Sessions
    /\ pc \in [Threads -> Pcs]
    /\ op \in [Threads -> Ops]
    /\ tctx \in [Threads -> Contexts \cup {Nil}]
    /\ tses \in [Threads -> Sessions \cup {Nil}]
    /\ th \in [Threads -> Handles \cup {Nil}]
    /\ tsid \in [Threads -> Nat]

\* The threads that own a reference to h.
Holders(h) == {t \in Threads : th[t] = h /\ pc[t] \in HoldPcs}

ListRef(h) == IF h \in list THEN 1 ELSE 0

\* One reference for the list and one for every thread that holds one.
CountExact == \A h \in live : cnt[h] = ListRef(h) + Cardinality(Holders(h))

\* ops_cnt of an allocated context object is one for the list ("pair with
\* ops_cnt++ when add to list") plus one for every thread between its
\* GetBnContext and its PutBnContext: no reference is lost or dropped twice,
\* however the calls of the threads interleave, and the unsigned counter never
\* falls below 0 (TypeOK).
RefCount == TypeOK /\ CountExact

\* The list and the local variables of the threads never point to a freed
\* context object, and the thread that destroys one has it for itself.
NoUseAfterFree ==
    /\ list \subseteq live
    /\ \A t \in Threads : th[t] # Nil => th[t] \in live
    /\ \A t \in Threads : pc[t] = "drain" =>
          /\ th[t] \notin list
          /\ \A u \in Threads \ {t} : th[u] # th[t]

\* Every open descriptor belongs to exactly one allocated context object:
\* none is leaked, none is closed twice, and FindBnContext, which compares
\* descriptors, has at most one match.
FdOwnership ==
    /\ \A h \in live : fd[h] \in openFds
    /\ \A g, h \in live : fd[g] = fd[h] => g = h
    /\ \A f \in openFds : \E h \in live : fd[h] = f

\* s stands for the TEE session i: it is listed in the context the session
\* was opened through, or a thread is about to list it or to close it.
Answers(s, i) ==
    \/ sid[s] = i /\ \E h \in live : s \in slist[h] /\ fd[h] = tee[i]
    \/ \E t \in Threads :
          /\ tses[t] = s
          /\ th[t] # Nil /\ fd[th[t]] = tee[i]
          /\ \/ pc[t] = "openAdd" /\ tsid[t] = i
             \/ pc[t] = "closeIoctl" /\ sid[s] = i

\* Every session that is open in the TEE is accounted for by exactly one
\* session structure of the client: a failed, overlapping or interrupted
\* call never leaves a TEE session behind that nobody will close.
SessionAccounted ==
    \A i \in Sids : tee[i] # NoFd =>
       /\ \E s \in Sessions : Answers(s, i)
       /\ \A r, s \in Sessions : Answers(r, i) /\ Answers(s, i) => r = s

\* What a client that does not overlap calls with the end of a context or
\* session sees: a session it opened and did not end is listed and open in
\* the TEE, and one it ended is not listed in any context still listed.  A
\* listed session can be found again through its session->context, which is
\* how TEEC_CloseSession and TEEC_InvokeCommand look for it.
ViewsAgree == ~free =>
    /\ \A s \in Sessions : (\A t \in Threads : ~BusyWith(t, s)) =>
          /\ s \in opened => /\ sid[s] \in Sids
                             /\ \E h \in list : s \in slist[h] /\ fd[h] = tee[sid[s]]
          /\ s \notin opened => \A h \in list : s \notin slist[h]
    /\ \A h \in list : \A s \in slist[h] : sctx[s] # Nil /\ ctxFd[sctx[s]] = fd[h]

\* For the same client, TEEC_RequestCancellation, which has already given its
\* reference back when it issues the ioctl, finds session->context and either
\* a descriptor of a listed context or none.
CancelOnOwnFd == ~free =>
    \A t \in Threads : pc[t] = "cancelIoctl" =>
       LET c == sctx[tses[t]] IN
       c # Nil /\ (ctxFd[c] = NoFd \/ FindBnContext(c) # {})

\* A context object taken off the list is freed, its descriptor and all its
\* TEE sessions closed, once the calls in progress end: the last of them does
\* it, whichever it is.
ContextReclaimed ==
    \A h \in Handles :
       (h \in live \ list) ~> (h \notin live \/ h \in list)
============================================================================
