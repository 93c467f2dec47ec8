------------------------- MODULE TeecContextProofs -------------------------
(***************************************************************************)
(* Proofs about TeecContext, for any number of threads, contexts, handles, *)
(* sessions and descriptors, whether or not the client overlaps calls with *)
(* the end of a context.                                                   *)
(***************************************************************************)
EXTENDS TeecContext, FiniteSetTheorems, TLAPS

-----------------------------------------------------------------------------
(* The inductive invariant. *)

\* Where a thread has a handle in its local variable.
HandlePcs == HoldPcs \cup {"drain"}

\* A thread has an allocated object in its hands where its code uses one.
Pointers ==
    \A t \in Threads :
       /\ pc[t] \in HandlePcs => th[t] \in live
       /\ pc[t] \notin HandlePcs => th[t] = Nil

\* A thread that has just allocated an object, or destroys one, has it for
\* itself: the object is neither listed nor in another thread's hands.
Exclusive ==
    \A t \in Threads : pc[t] \in {"insert", "drain"} =>
       /\ th[t] \notin list
       /\ \A u \in Threads \ {t} : th[u] # th[t]

\* Who owns which reference.
Own == Pointers /\ Exclusive /\ list \subseteq live /\ CountExact

\* The call in progress is one that has the arguments its code reads.
Locals ==
    \A t \in Threads :
       /\ pc[t] = "get" => op[t] \in {"open", "close", "invoke", "cancel"}
       /\ pc[t] \in {"get", "openIoctl", "openAdd", "invokeEncode"} => tses[t] \in Sessions

IInv == TypeOK /\ Own /\ Locals

-----------------------------------------------------------------------------
(* How the set of the threads with a reference changes. *)

\* The threads that own a reference are finitely many.
LEMMA HoldersFinite ==
    ASSUME NEW h
    PROVE  /\ IsFiniteSet(Holders(h))
           /\ Cardinality(Holders(h)) \in Nat
  BY ContextAssumption, FS_Subset, FS_CardinalityType DEF Holders

\* A thread that takes a reference to h adds one to its owners.
LEMMA HoldersAdd ==
    ASSUME NEW h, NEW t \in Threads, t \notin Holders(h),
           Holders(h)' = Holders(h) \cup {t}
    PROVE  Cardinality(Holders(h)') = Cardinality(Holders(h)) + 1
  BY HoldersFinite, FS_AddElement

\* A thread that gives its reference back takes one from its owners.
LEMMA HoldersRemove ==
    ASSUME NEW h, NEW t \in Threads, t \in Holders(h),
           Holders(h)' = Holders(h) \ {t}
    PROVE  Cardinality(Holders(h)') = Cardinality(Holders(h)) - 1
  BY HoldersFinite, FS_RemoveElement

\* Without owners the count is 0, and with one it is positive.
LEMMA HoldersZero ==
    ASSUME NEW h
    PROVE  /\ Holders(h) = {} => Cardinality(Holders(h)) = 0
           /\ Cardinality(Holders(h)) = 0 => Holders(h) = {}
  BY HoldersFinite, FS_EmptySet

\* The owner is the only one if the count is 1.
LEMMA HoldersOne ==
    ASSUME NEW h, NEW t \in Holders(h)
    PROVE  /\ Cardinality(Holders(h)) >= 1
           /\ Cardinality(Holders(h)) = 1 => Holders(h) = {t}
<1>1. Cardinality(Holders(h)) # 0
  BY HoldersZero
<1>2. Cardinality(Holders(h)) >= 1
  BY <1>1, HoldersFinite
<1>3. ASSUME Cardinality(Holders(h)) = 1 PROVE Holders(h) = {t}
  <2>1. /\ IsFiniteSet(Holders(h) \ {t})
        /\ Cardinality(Holders(h) \ {t}) = 0
    BY <1>3, HoldersFinite, FS_RemoveElement
  <2>2. Holders(h) \ {t} = {}
    BY <2>1, FS_EmptySet
  <2> QED BY <2>2
<1> QED BY <1>2, <1>3

-----------------------------------------------------------------------------
(* The steps of one thread, by what they do to the references. *)

\* Every other thread stays where it is.
Others(t) == \A u \in Threads \ {t} : pc'[u] = pc[u] /\ th'[u] = th[u]

\* A step that neither takes a reference nor gives one back.
LEMMA OwnKeep ==
    ASSUME Own, NEW t \in Threads, Others(t), UNCHANGED <<list, live, cnt>>,
           th'[t] = th[t],
           pc[t] \in HoldPcs <=> pc'[t] \in HoldPcs,
           pc[t] \in HandlePcs <=> pc'[t] \in HandlePcs,
           pc'[t] \in {"insert", "drain"} => pc'[t] = pc[t]
    PROVE  Own'
<1>1. \A u \in Threads : th'[u] = th[u] /\ (pc[u] \in HoldPcs <=> pc'[u] \in HoldPcs)
  BY DEF Others
<1>2. ASSUME NEW h PROVE Holders(h)' = Holders(h)
  BY <1>1 DEF Holders
<1>3. CountExact'
  BY <1>2 DEF Own, CountExact, ListRef
<1>4. Pointers'
  BY DEF Own, Pointers, Others, HandlePcs
<1>5. Exclusive'
  BY <1>1 DEF Own, Exclusive, Others
<1> QED BY <1>3, <1>4, <1>5 DEF Own

\* GetBnContext finds a listed object: the thread owns one more reference.
LEMMA OwnGet ==
    ASSUME TypeOK, Own, NEW t \in Threads, Others(t), UNCHANGED <<list, live>>,
           NEW h \in list, cnt' = [cnt EXCEPT ![h] = @ + 1],
           pc[t] \notin HandlePcs, pc'[t] \in HoldPcs \ {"insert"}, th'[t] = h
    PROVE  Own'
<1>1. pc'[t] \notin {"insert", "drain"}
  BY DEF HoldPcs
<1>2. /\ th[t] = Nil
      /\ h \in Handles /\ h \in live /\ h # Nil
  BY ContextAssumption DEF Own, Pointers, TypeOK
<1>3. Pointers'
  BY <1>2 DEF Own, Pointers, Others, HandlePcs
<1>4. Exclusive'
  BY <1>1 DEF Own, Exclusive, Others
<1>5. CountExact'
  <2> SUFFICES ASSUME NEW g \in live
               PROVE  cnt'[g] = ListRef(g) + Cardinality(Holders(g)')
    BY DEF CountExact, ListRef
  <2>1. cnt[g] = ListRef(g) + Cardinality(Holders(g))
    BY DEF Own, CountExact
  <2>2. CASE g = h
    <3>1. t \notin Holders(g) /\ Holders(g)' = Holders(g) \cup {t}
      BY <2>2, <1>2 DEF Holders, Others
    <3>2. Cardinality(Holders(g)') = Cardinality(Holders(g)) + 1
      BY <3>1, HoldersAdd
    <3> QED BY <2>1, <2>2, <3>2, <1>2, HoldersFinite DEF TypeOK, ListRef
  <2>3. CASE g # h
    <3>1. Holders(g)' = Holders(g)
      BY <2>3, <1>2 DEF Holders, Others, HandlePcs
    <3>2. cnt'[g] = cnt[g]
      BY <2>3 DEF TypeOK
    <3> QED BY <3>1, <3>2, <2>1
  <2> QED BY <2>2, <2>3
<1> QED BY <1>3, <1>4, <1>5 DEF Own

\* PutBnContext: the reference is given back, and the last one leaves the
\* object to its owner alone.
LEMMA OwnPut ==
    ASSUME TypeOK, Own, NEW t \in Threads, Others(t), UNCHANGED <<list, live>>,
           pc[t] = "put", cnt' = [cnt EXCEPT ![th[t]] = @ - 1],
           cnt[th[t]] = 1 => pc'[t] = "drain" /\ th'[t] = th[t],
           cnt[th[t]] # 1 => pc'[t] \notin HandlePcs /\ th'[t] = Nil
    PROVE  Own' /\ cnt[th[t]] >= 1
<1> DEFINE h == th[t]
<1>1. h \in live /\ h \in Handles /\ h # Nil
  BY ContextAssumption DEF Own, Pointers, TypeOK, HandlePcs, HoldPcs
<1>2. t \in Holders(h)
  BY DEF Holders, HoldPcs
<1>3. cnt[h] = ListRef(h) + Cardinality(Holders(h))
  BY <1>1 DEF Own, CountExact
<1>4. cnt[h] >= 1
  BY <1>2, <1>3, HoldersOne, HoldersFinite DEF ListRef
<1>5. ASSUME cnt[h] = 1
      PROVE  h \notin list /\ \A u \in Threads \ {t} : th[u] # h
  <2>1. Cardinality(Holders(h)) = 1 /\ h \notin list
    BY <1>5, <1>2, <1>3, HoldersOne, HoldersFinite DEF ListRef
  <2>2. Holders(h) = {t}
    BY <1>2, <2>1, HoldersOne
  <2>3. ASSUME NEW u \in Threads \ {t}, th[u] = h PROVE FALSE
    <3>1. pc[u] \notin HoldPcs
      BY <2>2, <2>3 DEF Holders
    <3>2. pc[u] = "drain"
      BY <3>1, <2>3, <1>1 DEF Own, Pointers, HandlePcs
    <3> QED BY <3>2, <2>3 DEF Own, Exclusive
  <2> QED BY <2>1, <2>3
<1>6. Pointers'
  BY <1>1 DEF Own, Pointers, Others, HandlePcs
<1>7. Exclusive'
  <2> SUFFICES ASSUME NEW u \in Threads, pc'[u] \in {"insert", "drain"}
               PROVE  th'[u] \notin list /\ \A v \in Threads \ {u} : th'[v] # th'[u]
    BY DEF Exclusive
  <2>1. CASE u = t
    <3>1. cnt[h] = 1 /\ th'[t] = h
      BY <2>1 DEF HandlePcs, HoldPcs
    <3> QED BY <3>1, <2>1, <1>5 DEF Others
  <2>2. CASE u # t
    <3>1. /\ pc[u] \in {"insert", "drain"} /\ th'[u] = th[u]
          /\ th[u] \in live
      BY <2>2 DEF Others, Own, Pointers, HandlePcs, HoldPcs
    <3>2. th[u] # Nil /\ th'[t] \in {th[t], Nil}
      BY <3>1, ContextAssumption DEF TypeOK
    <3> QED BY <3>1, <3>2, <2>2 DEF Own, Exclusive, Others
  <2> QED BY <2>1, <2>2
<1>8. CountExact'
  <2> SUFFICES ASSUME NEW g \in live
               PROVE  cnt'[g] = ListRef(g) + Cardinality(Holders(g)')
    BY DEF CountExact, ListRef
  <2>0. pc'[t] \notin HoldPcs
    BY DEF HandlePcs, HoldPcs
  <2>1. cnt[g] = ListRef(g) + Cardinality(Holders(g))
    BY DEF Own, CountExact
  <2>2. CASE g = h
    <3>1. Holders(g)' = Holders(g) \ {t}
      BY <2>0, <2>2 DEF Holders, Others
    <3>2. Cardinality(Holders(g)') = Cardinality(Holders(g)) - 1
      BY <3>1, <1>2, <2>2, HoldersRemove
    <3>3. cnt'[g] = cnt[g] - 1
      BY <1>1, <2>2 DEF TypeOK
    <3> QED BY <2>1, <3>2, <3>3, HoldersFinite DEF ListRef
  <2>3. CASE g # h
    <3>1. Holders(g)' = Holders(g)
      BY <2>0, <2>3 DEF Holders, Others
    <3>2. cnt'[g] = cnt[g]
      BY <2>3 DEF TypeOK
    <3> QED BY <3>1, <3>2, <2>1
  <2> QED BY <2>2, <2>3
<1> QED BY <1>4, <1>6, <1>7, <1>8 DEF Own

\* TEEC_InitializeContext allocates an object: its maker has it for itself.
LEMMA OwnNew ==
    ASSUME TypeOK, Own, NEW t \in Threads, Others(t), UNCHANGED list,
           NEW h \in Handles \ live, live' = live \cup {h},
           cnt' = [cnt EXCEPT ![h] = 1],
           pc[t] \notin HandlePcs, pc'[t] = "insert", th'[t] = h
    PROVE  Own'
<1>1. h # Nil /\ h \notin list /\ \A u \in Threads : th[u] # h
  BY ContextAssumption DEF Own, Pointers
<1>2. Pointers'
  BY DEF Own, Pointers, Others, HandlePcs, HoldPcs
<1>3. Exclusive'
  BY <1>1 DEF Own, Exclusive, Others
<1>4. CountExact'
  <2> SUFFICES ASSUME NEW g \in live'
               PROVE  cnt'[g] = ListRef(g) + Cardinality(Holders(g)')
    BY DEF CountExact, ListRef
  <2>1. CASE g = h
    <3>1. Holders(g) = {} /\ Holders(g)' = Holders(g) \cup {t}
      BY <1>1, <2>1 DEF Holders, Others, HoldPcs
    <3>2. Cardinality(Holders(g)') = 1
      BY <3>1, HoldersAdd, HoldersZero
    <3> QED BY <3>2, <2>1, <1>1 DEF ListRef, TypeOK
  <2>2. CASE g # h
    <3>1. Holders(g)' = Holders(g)
      BY <2>2 DEF Holders, Others, HandlePcs
    <3>2. cnt'[g] = cnt[g] /\ g \in live
      BY <2>2 DEF TypeOK
    <3> QED BY <3>1, <3>2 DEF Own, CountExact
  <2> QED BY <2>1, <2>2
<1> QED BY <1>2, <1>3, <1>4 DEF Own

\* TEEC_InitializeContext lists its object: one more reference, the list's.
LEMMA OwnInsert ==
    ASSUME TypeOK, Own, NEW t \in Threads, Others(t), UNCHANGED live,
           pc[t] = "insert", pc'[t] = "publish", th'[t] = th[t],
           list' = list \cup {th[t]}, cnt' = [cnt EXCEPT ![th[t]] = @ + 1]
    PROVE  Own'
<1> DEFINE h == th[t]
<1>1. /\ h \in live /\ h \in Handles /\ h \notin list
      /\ \A u \in Threads \ {t} : th[u] # h
  BY DEF Own, Pointers, Exclusive, TypeOK, HandlePcs, HoldPcs
<1>2. Pointers'
  BY DEF Own, Pointers, Others, HandlePcs, HoldPcs
<1>3. Exclusive'
  BY <1>1 DEF Own, Exclusive, Others
<1>4. CountExact'
  <2> SUFFICES ASSUME NEW g \in live
               PROVE  cnt'[g] = ListRef(g)' + Cardinality(Holders(g)')
    BY DEF CountExact
  <2>1. cnt[g] = ListRef(g) + Cardinality(Holders(g))
    BY DEF Own, CountExact
  <2>2. Holders(g)' = Holders(g)
    BY DEF Holders, Others, HoldPcs
  <2>3. CASE g = h
    BY <1>1, <2>1, <2>2, <2>3, HoldersFinite DEF ListRef, TypeOK
  <2>4. CASE g # h
    BY <2>1, <2>2, <2>4 DEF ListRef, TypeOK
  <2> QED BY <2>3, <2>4
<1> QED BY <1>1, <1>2, <1>3, <1>4 DEF Own

\* TEEC_FinalizeContext takes an object off the list: the list's reference
\* becomes the thread's.
LEMMA OwnUnlist ==
    ASSUME TypeOK, Own, NEW t \in Threads, Others(t), UNCHANGED <<live, cnt>>,
           NEW h \in list, list' = list \ {h},
           pc[t] \notin HandlePcs, pc'[t] = "put", th'[t] = h
    PROVE  Own'
<1>1. th[t] = Nil /\ h \in live /\ h \in Handles /\ h # Nil
  BY ContextAssumption DEF Own, Pointers, TypeOK
<1>2. Pointers'
  BY <1>1 DEF Own, Pointers, Others, HandlePcs, HoldPcs
<1>3. Exclusive'
  BY DEF Own, Exclusive, Others
<1>4. CountExact'
  <2> SUFFICES ASSUME NEW g \in live
               PROVE  cnt[g] = ListRef(g)' + Cardinality(Holders(g)')
    BY DEF CountExact
  <2>1. cnt[g] = ListRef(g) + Cardinality(Holders(g))
    BY DEF Own, CountExact
  <2>2. CASE g = h
    <3>1. t \notin Holders(g) /\ Holders(g)' = Holders(g) \cup {t}
      BY <1>1, <2>2 DEF Holders, Others, HoldPcs
    <3>2. Cardinality(Holders(g)') = Cardinality(Holders(g)) + 1
      BY <3>1, HoldersAdd
    <3> QED BY <2>1, <2>2, <3>2, HoldersFinite DEF ListRef
  <2>3. CASE g # h
    <3>1. Holders(g)' = Holders(g)
      BY <1>1, <2>3 DEF Holders, Others, HandlePcs
    <3> QED BY <2>1, <2>3, <3>1 DEF ListRef
  <2> QED BY <2>2, <2>3
<1> QED BY <1>2, <1>3, <1>4 DEF Own

\* TEEC_FinalizeContextHidl frees the object that it has for itself.
LEMMA OwnFree ==
    ASSUME TypeOK, Own, NEW t \in Threads, Others(t), UNCHANGED <<list, cnt>>,
           pc[t] = "drain", live' = live \ {th[t]},
           pc'[t] \notin HandlePcs, th'[t] = Nil
    PROVE  Own'
<1> DEFINE h == th[t]
<1>1. h \notin list /\ \A u \in Threads \ {t} : th[u] # h
  BY DEF Own, Exclusive
<1>2. Pointers'
  BY <1>1 DEF Own, Pointers, Others
<1>3. Exclusive'
  <2> SUFFICES ASSUME NEW u \in Threads, pc'[u] \in {"insert", "drain"}
               PROVE  th'[u] \notin list /\ \A v \in Threads \ {u} : th'[v] # th'[u]
    BY DEF Exclusive
  <2>1. /\ u # t /\ pc[u] \in {"insert", "drain"} /\ th'[u] = th[u]
        /\ th[u] \in live
    BY DEF Others, Own, Pointers, HandlePcs, HoldPcs
  <2>2. th[u] # Nil
    BY <2>1, ContextAssumption DEF TypeOK
  <2> QED BY <2>1, <2>2 DEF Own, Exclusive, Others
<1>4. CountExact'
  <2> SUFFICES ASSUME NEW g \in live, g # h
               PROVE  cnt[g] = ListRef(g) + Cardinality(Holders(g)')
    BY DEF CountExact, ListRef
  <2>1. Holders(g)' = Holders(g)
    BY DEF Holders, Others, HandlePcs
  <2> QED BY <2>1 DEF Own, CountExact
<1> QED BY <1>1, <1>2, <1>3, <1>4 DEF Own

-----------------------------------------------------------------------------
(* The local variables. *)

\* Leave ends a call: the thread is idle and has no handle.
LEMMA LeaveLocals ==
    ASSUME TypeOK, NEW t \in Threads, Leave(t)
    PROVE  /\ Others(t) /\ pc'[t] = "idle" /\ th'[t] = Nil
           /\ pc' \in [Threads -> Pcs] /\ op' \in [Threads -> Ops]
           /\ tctx' \in [Threads -> Contexts \cup {Nil}]
           /\ tses' \in [Threads -> Sessions \cup {Nil}]
           /\ th' \in [Threads -> Handles \cup {Nil}]
           /\ tsid' \in [Threads -> Nat]
           /\ Locals => Locals'
<1>1. /\ pc' \in [Threads -> Pcs] /\ op' \in [Threads -> Ops]
      /\ tctx' \in [Threads -> Contexts \cup {Nil}]
      /\ tses' \in [Threads -> Sessions \cup {Nil}]
      /\ th' \in [Threads -> Handles \cup {Nil}]
      /\ tsid' \in [Threads -> Nat]
  BY DEF TypeOK, Leave, Pcs, Ops
<1>2. Others(t) /\ pc'[t] = "idle" /\ th'[t] = Nil
  BY DEF TypeOK, Leave, Others
<1>3. Locals => Locals'
  BY DEF TypeOK, Leave, Locals
<1> QED BY <1>1, <1>2, <1>3

\* Return is what follows PutBnContext, or a failed GetBnContext.
LEMMA ReturnLocals ==
    ASSUME TypeOK, NEW t \in Threads, Return(t)
    PROVE  /\ Others(t) /\ pc'[t] \notin HandlePcs /\ th'[t] = Nil
           /\ pc' \in [Threads -> Pcs] /\ op' \in [Threads -> Ops]
           /\ tctx' \in [Threads -> Contexts \cup {Nil}]
           /\ tses' \in [Threads -> Sessions \cup {Nil}]
           /\ th' \in [Threads -> Handles \cup {Nil}]
           /\ tsid' \in [Threads -> Nat]
           /\ Locals => Locals'
<1>1. CASE Leave(t)
  <2>1. pc'[t] \notin HandlePcs
    BY <1>1, LeaveLocals DEF HandlePcs, HoldPcs
  <2> QED BY <1>1, <2>1, LeaveLocals
<1>2. CASE /\ \E loc \in AfterPut(t) \ {"idle"} : Goto(t, loc)
           /\ th' = [th EXCEPT ![t] = Nil]
           /\ SameCall /\ UNCHANGED tsid
  <2>1. PICK loc \in {"clearFd", "cancelIoctl"} : Goto(t, loc)
    BY <1>2 DEF AfterPut
  <2>2. Others(t) /\ pc'[t] = loc /\ th'[t] = Nil
    BY <1>2, <2>1 DEF TypeOK, Goto, Others
  <2>3. /\ pc' \in [Threads -> Pcs]
        /\ th' \in [Threads -> Handles \cup {Nil}]
    BY <1>2, <2>1 DEF TypeOK, Goto, Pcs
  <2>4. Locals => Locals'
    BY <1>2, <2>1 DEF TypeOK, Goto, SameCall, Locals
  <2> QED BY <1>2, <2>2, <2>3, <2>4 DEF TypeOK, SameCall, HandlePcs, HoldPcs
<1> QED BY <1>1, <1>2 DEF Return

\* Call begins a call of an idle thread.
LEMMA CallLocals ==
    ASSUME TypeOK, NEW t \in Threads, NEW o \in Ops, NEW c \in Contexts,
           NEW s \in Sessions \cup {Nil}, NEW loc \in Pcs, Call(t, o, c, s, loc)
    PROVE  /\ pc[t] = "idle" /\ pc'[t] = loc
           /\ \A u \in Threads \ {t} : pc'[u] = pc[u]
           /\ pc' \in [Threads -> Pcs] /\ op' \in [Threads -> Ops]
           /\ tctx' \in [Threads -> Contexts \cup {Nil}]
           /\ tses' \in [Threads -> Sessions \cup {Nil}]
           /\ Locals /\ loc \notin {"get", "openIoctl", "openAdd", "invokeEncode"} => Locals'
           /\ Locals /\ s \in Sessions /\ o \in {"open", "close", "invoke", "cancel"} => Locals'
<1>1. /\ pc' \in [Threads -> Pcs] /\ op' \in [Threads -> Ops]
      /\ tctx' \in [Threads -> Contexts \cup {Nil}]
      /\ tses' \in [Threads -> Sessions \cup {Nil}]
  BY DEF TypeOK, Call
<1>2. /\ pc[t] = "idle" /\ pc'[t] = loc
      /\ \A u \in Threads \ {t} : pc'[u] = pc[u]
  BY DEF TypeOK, Call
<1>3. Locals /\ loc \notin {"get", "openIoctl", "openAdd", "invokeEncode"} => Locals'
  BY DEF TypeOK, Call, Locals
<1>4. Locals /\ s \in Sessions /\ o \in {"open", "close", "invoke", "cancel"} => Locals'
  BY DEF TypeOK, Call, Locals
<1> QED BY <1>1, <1>2, <1>3, <1>4

-----------------------------------------------------------------------------
(* Every action preserves the invariant. *)

\* The initial state: nothing is allocated and every thread is idle.
LEMMA InitIInv == ASSUME Init PROVE IInv
<1>1. TypeOK
  BY ContextAssumption DEF Init, TypeOK, Pcs, Ops, NoFd
<1>2. Pointers /\ Exclusive
  BY DEF Init, Pointers, Exclusive, HandlePcs, HoldPcs
<1>3. CountExact /\ list \subseteq live
  BY DEF Init, CountExact
<1>4. Locals
  BY DEF Init, Locals
<1> QED BY <1>1, <1>2, <1>3, <1>4 DEF IInv, Own

\* The calls on a session begin without a handle.
LEMMA CallGetIInv ==
    ASSUME IInv, NEW t \in Threads, NEW c \in Contexts, NEW s \in Sessions,
           NEW o \in {"open", "close", "invoke", "cancel"},
           Call(t, o, c, s, "get"), UNCHANGED <<cvars, slist, sid, tee, openFds, th, tsid>>,
           sctx' \in [Sessions -> Contexts \cup {Nil}], opened' \subseteq Sessions
    PROVE  IInv'
<1>1. /\ pc[t] = "idle" /\ pc'[t] = "get"
      /\ \A u \in Threads \ {t} : pc'[u] = pc[u]
      /\ pc' \in [Threads -> Pcs] /\ op' \in [Threads -> Ops]
      /\ tctx' \in [Threads -> Contexts \cup {Nil}]
      /\ tses' \in [Threads -> Sessions \cup {Nil}]
      /\ Locals'
  BY CallLocals DEF IInv, Ops, Pcs
<1>2. TypeOK'
  BY <1>1 DEF IInv, TypeOK, cvars
<1>3. Own'
  BY <1>1, OwnKeep DEF IInv, Others, cvars, HandlePcs, HoldPcs
<1> QED BY <1>1, <1>2, <1>3 DEF IInv

\* A step between GetBnContext and PutBnContext keeps the reference.
LEMMA HoldIInv ==
    ASSUME IInv, NEW t \in Threads, pc[t] \in HoldPcs,
           NEW loc \in HoldPcs \ {"insert", "openIoctl", "invokeEncode"},
           Goto(t, loc), SameCall,
           loc = "openAdd" => pc[t] = "openIoctl",
           UNCHANGED <<list, live, fd, cnt, openFds, th>>,
           ctxFd' \in [Contexts -> Fds \cup {NoFd}],
           slist' \in [Handles -> SUBSET Sessions],
           sctx' \in [Sessions -> Contexts \cup {Nil}],
           sid' \in [Sessions -> Nat],
           tee' \in [Sids -> Fds \cup {NoFd}],
           opened' \subseteq Sessions,
           tsid' \in [Threads -> Nat]
    PROVE  IInv'
<1>1. /\ pc' \in [Threads -> Pcs] /\ pc'[t] = loc
      /\ \A u \in Threads \ {t} : pc'[u] = pc[u]
  BY DEF IInv, TypeOK, Goto, Pcs
<1>2. TypeOK'
  BY <1>1 DEF IInv, TypeOK, SameCall
<1>3. Own'
  BY <1>1, OwnKeep DEF IInv, Others, HandlePcs, HoldPcs
<1>4. Locals'
  BY <1>1 DEF IInv, Locals, SameCall, HoldPcs
<1> QED BY <1>2, <1>3, <1>4 DEF IInv

\* The effect of the close ioctl has the type of tee.
LEMMA TeeCloseType ==
    ASSUME TypeOK, NEW i, NEW f, TeeClose(i, f)
    PROVE  tee' \in [Sids -> Fds \cup {NoFd}]
  BY DEF TypeOK, TeeClose

\* The steps of TEEC_InitializeContext, TEEC_OpenSession, TEEC_CloseSession
\* and TEEC_InvokeCommand with a reference in hand.
LEMMA HoldSteps ==
    ASSUME IInv, NEW t \in Threads,
           \/ InitializePublish(t) \/ OpenIoctl(t) \/ AddSessionList(t)
           \/ FindAndRemoveSession(t) \/ CloseIoctl(t) \/ CloseClear(t)
           \/ InvokeEncode(t) \/ InvokeIoctl(t)
    PROVE  IInv'
<1> USE DEF IInv, cvars, svars
<1>0. /\ pc[t] \in HandlePcs => th[t] \in Handles
      /\ pc[t] \in {"openAdd", "invokeEncode"} => tses[t] \in Sessions
  BY DEF Own, Pointers, TypeOK, Locals
<1>1. CASE InitializePublish(t)
  <2>1. ctxFd' \in [Contexts -> Fds \cup {NoFd}]
    BY <1>0, <1>1 DEF InitializePublish, TypeOK, HandlePcs, HoldPcs
  <2> QED BY <1>1, <2>1, HoldIInv DEF InitializePublish, TypeOK, HoldPcs
<1>2. CASE OpenIoctl(t)
  <2>1. CASE Goto(t, "put") /\ UNCHANGED <<tee, tsid>>
    BY <1>2, <2>1, HoldIInv DEF OpenIoctl, TypeOK, HoldPcs
  <2>2. CASE \E i \in Sids : /\ tee' = [tee EXCEPT ![i] = fd[th[t]]]
                            /\ tsid' = [tsid EXCEPT ![t] = i]
                            /\ Goto(t, "openAdd")
    <3>1. /\ tee' \in [Sids -> Fds \cup {NoFd}]
          /\ tsid' \in [Threads -> Nat] /\ Goto(t, "openAdd")
      BY <1>0, <1>2, <2>2, ContextAssumption DEF OpenIoctl, TypeOK, HandlePcs, HoldPcs
    <3> QED BY <1>2, <3>1, HoldIInv DEF OpenIoctl, TypeOK, HoldPcs
  <2> QED BY <1>2, <2>1, <2>2 DEF OpenIoctl
<1>3. CASE AddSessionList(t)
  <2>1. /\ sid' \in [Sessions -> Nat]
        /\ slist' \in [Handles -> SUBSET Sessions]
        /\ opened' \subseteq Sessions
        /\ tsid' \in [Threads -> Nat]
    BY <1>0, <1>3 DEF AddSessionList, TypeOK
  <2> QED BY <1>3, <2>1, HoldIInv DEF AddSessionList, TypeOK, HoldPcs
<1>4. CASE FindAndRemoveSession(t)
  <2>1. slist' \in [Handles -> SUBSET Sessions]
    BY <1>4 DEF FindAndRemoveSession, TypeOK
  <2>2. \E loc \in {"closeIoctl", "put"} : Goto(t, loc)
    BY <1>4 DEF FindAndRemoveSession
  <2> QED BY <1>4, <2>1, <2>2, HoldIInv DEF FindAndRemoveSession, TypeOK, HoldPcs
<1>5. CASE CloseIoctl(t)
  BY <1>5, TeeCloseType, HoldIInv DEF CloseIoctl, TypeOK, HoldPcs
<1>6. CASE CloseClear(t)
  <2>1. /\ sid' \in [Sessions -> Nat]
        /\ sctx' \in [Sessions -> Contexts \cup {Nil}]
    BY <1>6 DEF CloseClear, TypeOK
  <2> QED BY <1>6, <2>1, HoldIInv DEF CloseClear, TypeOK, HoldPcs
<1>7. CASE InvokeEncode(t)
  <2>1. tsid' \in [Threads -> Nat]
    BY <1>0, <1>7 DEF InvokeEncode, TypeOK
  <2>2. \E loc \in {"invokeIoctl", "put"} : Goto(t, loc)
    BY <1>7 DEF InvokeEncode
  <2> QED BY <1>7, <2>1, <2>2, HoldIInv DEF InvokeEncode, TypeOK, HoldPcs
<1>8. CASE InvokeIoctl(t)
  <2>1. /\ sctx' \in [Sessions -> Contexts \cup {Nil}]
        /\ tsid' \in [Threads -> Nat]
    BY <1>8 DEF InvokeIoctl, TypeOK
  <2> QED BY <1>8, <2>1, HoldIInv DEF InvokeIoctl, TypeOK, HoldPcs
<1> QED BY <1>1, <1>2, <1>3, <1>4, <1>5, <1>6, <1>7, <1>8

\* GetBnContext: the thread has a reference, or the call ends.
LEMMA GetIInv ==
    ASSUME IInv, NEW t \in Threads, GetBnContext(t)
    PROVE  IInv'
<1> USE DEF IInv, svars
<1>0. pc[t] = "get" /\ UNCHANGED <<ctxFd, list, live, fd, svars, openFds>>
  BY DEF GetBnContext
<1>1. CASE \E h \in FindBnContext(tctx[t]) :
               /\ AtomInc(h) /\ th' = [th EXCEPT ![t] = h]
               /\ Goto(t, CASE op[t] = "open"   -> "openIoctl"
                            [] op[t] = "close"  -> "closeRemove"
                            [] op[t] = "invoke" -> "invokeEncode"
                            [] op[t] = "cancel" -> "put")
               /\ SameCall /\ UNCHANGED tsid
  <2>1. PICK h \in list :
            /\ cnt' = [cnt EXCEPT ![h] = @ + 1]
            /\ th' = [th EXCEPT ![t] = h]
            /\ \E loc \in {"openIoctl", "closeRemove", "invokeEncode", "put"} : Goto(t, loc)
            /\ SameCall /\ UNCHANGED tsid
    <3>1. op[t] \in {"open", "close", "invoke", "cancel"}
      BY <1>0 DEF Locals
    <3> QED BY <1>1, <3>1 DEF FindBnContext, AtomInc
  <2>2. PICK loc \in {"openIoctl", "closeRemove", "invokeEncode", "put"} : Goto(t, loc)
    BY <2>1
  <2>3. /\ pc' \in [Threads -> Pcs] /\ pc'[t] = loc /\ th'[t] = h /\ Others(t)
        /\ th' \in [Threads -> Handles \cup {Nil}]
    BY <2>1, <2>2 DEF TypeOK, Goto, Pcs, HoldPcs, Others
  <2>4. TypeOK'
    BY <1>0, <2>1, <2>3 DEF TypeOK, SameCall
  <2>5. Own'
    BY <1>0, <2>1, <2>3, OwnGet DEF HandlePcs, HoldPcs
  <2>6. Locals'
    BY <1>0, <2>1, <2>3 DEF Locals, SameCall, Others
  <2> QED BY <2>4, <2>5, <2>6
<1>2. CASE Return(t) /\ UNCHANGED cnt
  <2>1. TypeOK' /\ Locals'
    BY <1>0, <1>2, ReturnLocals DEF TypeOK
  <2>2. th[t] = Nil
    BY <1>0 DEF Own, Pointers, HandlePcs, HoldPcs
  <2>3. Own'
    BY <1>0, <1>2, <2>2, ReturnLocals, OwnKeep DEF HandlePcs, HoldPcs
  <2> QED BY <2>1, <2>3
<1> QED BY <1>1, <1>2 DEF GetBnContext

\* PutBnContext: the reference is given back, and the last one destroys.
LEMMA PutIInv ==
    ASSUME IInv, NEW t \in Threads, PutBnContext(t)
    PROVE  IInv'
<1> USE DEF IInv, svars
<1>0. /\ pc[t] = "put" /\ UNCHANGED <<ctxFd, list, live, fd, svars, openFds>>
      /\ cnt' = [cnt EXCEPT ![th[t]] = @ - 1]
  BY DEF PutBnContext
<1>a. th[t] \in Handles
  BY <1>0 DEF Own, Pointers, TypeOK, HandlePcs, HoldPcs
<1>1. CASE cnt[th[t]] = 1
  <2>1. Goto(t, "drain") /\ SameCall /\ UNCHANGED <<th, tsid>>
    BY <1>1 DEF PutBnContext, DecToZero
  <2>2. pc' \in [Threads -> Pcs] /\ pc'[t] = "drain" /\ Others(t)
    BY <2>1 DEF TypeOK, Goto, Pcs, Others
  <2>3. Own' /\ cnt[th[t]] >= 1
    BY <1>0, <1>1, <2>1, <2>2, OwnPut
  <2>4. cnt' \in [Handles -> Nat]
    BY <1>0, <1>a, <1>1 DEF TypeOK
  <2>5. TypeOK'
    BY <1>0, <2>1, <2>2, <2>4 DEF TypeOK, SameCall
  <2>6. Locals'
    BY <2>1, <2>2 DEF Locals, SameCall, Others
  <2> QED BY <2>3, <2>5, <2>6
<1>2. CASE cnt[th[t]] # 1
  <2>1. Return(t)
    BY <1>2 DEF PutBnContext, DecToZero
  <2>2. Own' /\ cnt[th[t]] >= 1
    BY <1>0, <1>2, <2>1, ReturnLocals, OwnPut
  <2>3. cnt' \in [Handles -> Nat]
    BY <1>0, <1>a, <2>2 DEF TypeOK
  <2>4. TypeOK' /\ Locals'
    BY <1>0, <2>1, <2>3, ReturnLocals DEF TypeOK
  <2> QED BY <2>2, <2>4
<1> QED BY <1>1, <1>2

\* TEEC_InitializeContext allocates an object and a descriptor.
LEMMA InitializeContextIInv ==
    ASSUME IInv, NEW t \in Threads, NEW c \in Contexts, InitializeContext(t, c)
    PROVE  IInv'
<1> USE DEF IInv
<1>1. PICK h \in Handles \ live, f \in Fds \ openFds :
          /\ live' = live \cup {h} /\ openFds' = openFds \cup {f}
          /\ fd' = [fd EXCEPT ![h] = f] /\ cnt' = [cnt EXCEPT ![h] = 1]
          /\ slist' = [slist EXCEPT ![h] = {}] /\ th' = [th EXCEPT ![t] = h]
  BY DEF InitializeContext
<1>2. UNCHANGED <<ctxFd, list, sctx, sid, tee, opened, tsid>>
  BY DEF InitializeContext
<1>3. /\ pc[t] = "idle" /\ pc'[t] = "insert"
      /\ \A u \in Threads \ {t} : pc'[u] = pc[u]
      /\ pc' \in [Threads -> Pcs] /\ op' \in [Threads -> Ops]
      /\ tctx' \in [Threads -> Contexts \cup {Nil}]
      /\ tses' \in [Threads -> Sessions \cup {Nil}]
      /\ Locals'
  BY CallLocals DEF InitializeContext, Ops, Pcs, HoldPcs
<1>4. th'[t] = h /\ Others(t)
  BY <1>1, <1>3 DEF Others, TypeOK
<1>5. TypeOK'
  BY <1>1, <1>2, <1>3 DEF TypeOK
<1>6. Own'
  BY <1>1, <1>2, <1>3, <1>4, OwnNew DEF HandlePcs, HoldPcs
<1> QED BY <1>3, <1>5, <1>6

\* ... and lists the object.
LEMMA InitializeInsertIInv ==
    ASSUME IInv, NEW t \in Threads, InitializeInsert(t)
    PROVE  IInv'
<1> USE DEF IInv, svars
<1>1. /\ pc[t] = "insert" /\ Goto(t, "publish") /\ SameCall
      /\ list' = list \cup {th[t]} /\ cnt' = [cnt EXCEPT ![th[t]] = @ + 1]
      /\ UNCHANGED <<ctxFd, live, fd, svars, openFds, th, tsid>>
  BY DEF InitializeInsert, AtomInc
<1>2. th[t] \in Handles
  BY <1>1 DEF Own, Pointers, TypeOK, HandlePcs, HoldPcs
<1>3. pc' \in [Threads -> Pcs] /\ pc'[t] = "publish" /\ Others(t)
  BY <1>1 DEF TypeOK, Goto, Pcs, HoldPcs, Others
<1>4. TypeOK'
  BY <1>1, <1>2, <1>3 DEF TypeOK, SameCall
<1>5. Own'
  BY <1>1, <1>3, OwnInsert
<1>6. Locals'
  BY <1>1, <1>3 DEF Locals, SameCall, Others
<1> QED BY <1>4, <1>5, <1>6

\* TEEC_FinalizeContext takes the object off the list.
LEMMA FinalizeContextIInv ==
    ASSUME IInv, NEW t \in Threads, NEW c \in Contexts, FinalizeContext(t, c)
    PROVE  IInv'
<1> USE DEF IInv
<1>1. /\ opened' \subseteq Sessions
      /\ UNCHANGED <<ctxFd, live, fd, cnt, slist, sctx, sid, tee, openFds, tsid>>
  BY DEF FinalizeContext, TypeOK
<1>2. CASE \E h \in FindBnContext(c) :
               /\ list' = list \ {h} /\ th' = [th EXCEPT ![t] = h]
               /\ Call(t, "finalize", c, Nil, "put")
  <2>1. PICK h \in list :
            /\ list' = list \ {h} /\ th' = [th EXCEPT ![t] = h]
            /\ Call(t, "finalize", c, Nil, "put")
    BY <1>2 DEF FindBnContext
  <2>2. /\ pc[t] = "idle" /\ pc'[t] = "put"
        /\ \A u \in Threads \ {t} : pc'[u] = pc[u]
        /\ pc' \in [Threads -> Pcs] /\ op' \in [Threads -> Ops]
        /\ tctx' \in [Threads -> Contexts \cup {Nil}]
        /\ tses' \in [Threads -> Sessions \cup {Nil}]
        /\ Locals'
    BY <2>1, CallLocals DEF Ops, Pcs, HoldPcs
  <2>3. th'[t] = h /\ Others(t)
    BY <2>1, <2>2 DEF Others, TypeOK
  <2>4. TypeOK'
    BY <1>1, <2>1, <2>2 DEF TypeOK
  <2>5. Own'
    BY <1>1, <2>1, <2>2, <2>3, OwnUnlist DEF HandlePcs, HoldPcs
  <2> QED BY <2>2, <2>4, <2>5
<1>3. CASE Call(t, "finalize", c, Nil, "clearFd") /\ UNCHANGED <<list, th>>
  <2>1. /\ pc[t] = "idle" /\ pc'[t] = "clearFd"
        /\ \A u \in Threads \ {t} : pc'[u] = pc[u]
        /\ pc' \in [Threads -> Pcs] /\ op' \in [Threads -> Ops]
        /\ tctx' \in [Threads -> Contexts \cup {Nil}]
        /\ tses' \in [Threads -> Sessions \cup {Nil}]
        /\ Locals'
    BY <1>3, CallLocals DEF Ops, Pcs
  <2>2. TypeOK'
    BY <1>1, <1>3, <2>1 DEF TypeOK
  <2>3. Own'
    BY <1>1, <1>3, <2>1, OwnKeep DEF Others, HandlePcs, HoldPcs
  <2> QED BY <2>1, <2>2, <2>3
<1> QED BY <1>2, <1>3 DEF FinalizeContext

\* TEEC_FinalizeContextHidl closes a session that is still listed.
LEMMA FinalizeCloseSessionIInv ==
    ASSUME IInv, NEW t \in Threads, NEW s \in Sessions, FinalizeCloseSession(t, s)
    PROVE  IInv'
<1> USE DEF IInv, cvars
<1>1. UNCHANGED <<cvars, openFds, pc, th, tsid, op, tctx, tses>>
  BY DEF FinalizeCloseSession, SameCall
<1>2. TypeOK'
  <2>1. tee' \in [Sids -> Fds \cup {NoFd}]
    BY TeeCloseType DEF FinalizeCloseSession
  <2>2. /\ slist' \in [Handles -> SUBSET Sessions]
        /\ sid' \in [Sessions -> Nat]
        /\ sctx' \in [Sessions -> Contexts \cup {Nil}]
        /\ opened' \subseteq Sessions
    BY DEF FinalizeCloseSession, TypeOK
  <2> QED BY <1>1, <2>1, <2>2 DEF TypeOK
<1>3. Own'
  BY <1>1, OwnKeep DEF Others
<1>4. Locals'
  BY <1>1 DEF Locals
<1> QED BY <1>2, <1>3, <1>4

\* ... and frees the object.
LEMMA FinalizeFreeIInv ==
    ASSUME IInv, NEW t \in Threads, FinalizeFree(t)
    PROVE  IInv'
<1> USE DEF IInv, svars
<1>1. /\ pc[t] = "drain" /\ live' = live \ {th[t]} /\ Return(t)
      /\ openFds' \subseteq openFds
      /\ fd' = [fd EXCEPT ![th[t]] = NoFd]
      /\ UNCHANGED <<ctxFd, list, cnt, svars>>
  BY DEF FinalizeFree
<1>2. TypeOK' /\ Locals'
  BY <1>1, ReturnLocals DEF TypeOK
<1>3. Own'
  BY <1>1, ReturnLocals, OwnFree
<1> QED BY <1>2, <1>3

\* The steps of a thread that has no reference.
LEMMA QuietSteps ==
    ASSUME IInv, NEW t \in Threads, FinalizeClearFd(t) \/ CancelIoctl(t)
    PROVE  IInv'
<1> USE DEF IInv, svars, cvars
<1>0. pc[t] \in {"clearFd", "cancelIoctl"} /\ th[t] = Nil
  BY DEF FinalizeClearFd, CancelIoctl, Own, Pointers, HandlePcs, HoldPcs
<1>1. UNCHANGED <<list, live, fd, cnt, svars, openFds>>
  BY DEF FinalizeClearFd, CancelIoctl
<1>2. ctxFd' \in [Contexts -> Fds \cup {NoFd}]
  BY DEF FinalizeClearFd, CancelIoctl, TypeOK
<1>3. CASE Leave(t)
  <2>1. TypeOK' /\ Locals'
    BY <1>1, <1>2, <1>3, LeaveLocals DEF TypeOK
  <2>2. Own'
    BY <1>0, <1>1, <1>3, LeaveLocals, OwnKeep DEF HandlePcs, HoldPcs
  <2> QED BY <2>1, <2>2
<1>4. CASE Goto(t, "fault") /\ SameCall /\ UNCHANGED <<th, tsid>>
  <2>1. pc' \in [Threads -> Pcs] /\ pc'[t] = "fault" /\ Others(t)
    BY <1>4 DEF TypeOK, Goto, Pcs, Others
  <2>2. TypeOK'
    BY <1>1, <1>2, <1>4, <2>1 DEF TypeOK, SameCall
  <2>3. Own'
    BY <1>0, <1>1, <1>4, <2>1, OwnKeep DEF HandlePcs, HoldPcs
  <2>4. Locals'
    BY <1>4, <2>1 DEF Locals, SameCall, Others
  <2> QED BY <2>2, <2>3, <2>4
<1> QED BY <1>3, <1>4 DEF FinalizeClearFd, CancelIoctl

\* The calls that begin on a session.
LEMMA SessionCalls ==
    ASSUME IInv, NEW t \in Threads, NEW s \in Sessions,
           \/ \E c \in Contexts : OpenSession(t, c, s)
           \/ CloseSession(t, s) \/ InvokeCommand(t, s) \/ RequestCancellation(t, s)
    PROVE  IInv'
<1> USE DEF IInv, cvars, svars
<1>1. CASE \E c \in Contexts : OpenSession(t, c, s)
  <2>1. PICK c \in Contexts : OpenSession(t, c, s)
    BY <1>1
  <2>2. sctx' \in [Sessions -> Contexts \cup {Nil}]
    BY <2>1 DEF OpenSession, TypeOK
  <2> QED BY <2>1, <2>2, CallGetIInv DEF OpenSession, TypeOK
<1>2. CASE CloseSession(t, s)
  <2>1. sctx[s] \in Contexts
    BY <1>2 DEF CloseSession, MayClose, TypeOK
  <2> QED BY <1>2, <2>1, CallGetIInv DEF CloseSession, TypeOK
<1>3. CASE InvokeCommand(t, s)
  <2>1. sctx[s] \in Contexts
    BY <1>3 DEF InvokeCommand, MayUseSession, TypeOK
  <2> QED BY <1>3, <2>1, CallGetIInv DEF InvokeCommand, TypeOK
<1>4. CASE RequestCancellation(t, s)
  <2>1. sctx[s] \in Contexts
    BY <1>4 DEF RequestCancellation, MayUseSession, TypeOK
  <2> QED BY <1>4, <2>1, CallGetIInv DEF RequestCancellation, TypeOK
<1> QED BY <1>1, <1>2, <1>3, <1>4

\* IInv is inductive.
LEMMA NextIInv == ASSUME IInv, [Next]_vars PROVE IInv'
<1>1. CASE UNCHANGED vars
  <2>1. UNCHANGED <<cvars, svars, openFds, tvars, free>>
    BY <1>1 DEF vars
  <2>2. TypeOK' /\ Locals'
    BY <2>1 DEF IInv, TypeOK, Locals, cvars, svars, tvars
  <2>3. Pointers' /\ Exclusive' /\ (list \subseteq live)'
    BY <2>1 DEF IInv, Own, Pointers, Exclusive, cvars, tvars
  <2>4. CountExact'
    BY <2>1 DEF IInv, Own, CountExact, Holders, ListRef, cvars, tvars
  <2> QED BY <2>2, <2>3, <2>4 DEF IInv, Own
<1>2. CASE Next
  <2>1. PICK t \in Threads : Start(t) \/ Step(t)
    BY <1>2 DEF Next
  <2>2. CASE Start(t)
    BY <2>2, InitializeContextIInv, FinalizeContextIInv, SessionCalls DEF Start
  <2>3. CASE Step(t)
    BY <2>3, GetIInv, PutIInv, InitializeInsertIInv, HoldSteps, QuietSteps,
       FinalizeFreeIInv, FinalizeCloseSessionIInv DEF Step
  <2> QED BY <2>1, <2>2, <2>3
<1> QED BY <1>1, <1>2

\* The inductive invariant holds in every reachable state.
THEOREM InvariantHolds == Spec => []IInv
  BY InitIInv, NextIInv, PTL DEF Spec

-----------------------------------------------------------------------------
(* The properties. *)

\* Type correctness: among the rest, ops_cnt is never decremented below 0,
\* where the unsigned counter of the code would wrap around.
THEOREM TypeCorrect == Spec => []TypeOK
<1>1. IInv => TypeOK
  BY DEF IInv
<1> QED BY <1>1, InvariantHolds, PTL

\* The reference count is exact: ops_cnt counts the list and the threads
\* between GetBnContext and PutBnContext, for any number of threads.
THEOREM RefCountExact == Spec => []RefCount
<1>1. IInv => RefCount
  BY DEF IInv, Own, RefCount
<1> QED BY <1>1, InvariantHolds, PTL

\* No context object is used after free(context), and none is destroyed
\* while the list or another thread still has it.
THEOREM MemorySafe == Spec => []NoUseAfterFree
<1>1. IInv => NoUseAfterFree
  BY DEF IInv, Own, Pointers, Exclusive, NoUseAfterFree
<1> QED BY <1>1, InvariantHolds, PTL

-----------------------------------------------------------------------------
(* Descriptors. *)

\* FdOwnership is inductive given IInv: only the allocation and the freeing of
\* an object touch descriptors, and each opens or closes the object's own.
LEMMA NextFdOwnership ==
    ASSUME IInv, FdOwnership, [Next]_vars
    PROVE  FdOwnership'
<1>1. CASE UNCHANGED <<live, fd, openFds>>
  BY <1>1 DEF FdOwnership
<1>2. ASSUME NEW t \in Threads, NEW c \in Contexts, InitializeContext(t, c)
      PROVE  FdOwnership'
  <2>1. PICK h \in Handles \ live, f \in Fds \ openFds :
            /\ live' = live \cup {h} /\ openFds' = openFds \cup {f}
            /\ fd' = [fd EXCEPT ![h] = f]
    BY <1>2 DEF InitializeContext
  <2>2. /\ fd'[h] = f
        /\ \A g \in live : fd'[g] = fd[g] /\ fd[g] \in openFds
    BY <2>1 DEF IInv, TypeOK, FdOwnership
  <2> QED BY <2>1, <2>2 DEF FdOwnership
<1>3. ASSUME NEW t \in Threads, FinalizeFree(t)
      PROVE  FdOwnership'
  <2> DEFINE h == th[t]
  <2>1. /\ live' = live \ {h} /\ openFds' = openFds \ {fd[h]}
        /\ fd' = [fd EXCEPT ![h] = NoFd] /\ pc[t] = "drain"
    BY <1>3 DEF FinalizeFree
  <2>2. h \in live /\ live \subseteq Handles
    BY <2>1 DEF IInv, Own, Pointers, TypeOK, HandlePcs
  <2>3. \A g \in live' : fd'[g] = fd[g]
    BY <2>1, <2>2 DEF IInv, TypeOK
  <2> QED BY <2>1, <2>2, <2>3 DEF FdOwnership
<1>4. CASE Next
  <2>1. PICK t \in Threads : Start(t) \/ Step(t)
    BY <1>4 DEF Next
  <2>2. CASE Start(t)
    <3>1. \/ UNCHANGED <<live, fd, openFds>>
          \/ \E c \in Contexts : InitializeContext(t, c)
      BY <2>2 DEF Start, FinalizeContext, OpenSession, CloseSession,
                  InvokeCommand, RequestCancellation, cvars
    <3> QED BY <3>1, <1>1, <1>2
  <2>3. CASE Step(t)
    <3>1. UNCHANGED <<live, fd, openFds>> \/ FinalizeFree(t)
      BY <2>3 DEF Step, GetBnContext, PutBnContext, InitializeInsert,
                  InitializePublish, FinalizeClearFd, FinalizeCloseSession,
                  OpenIoctl, AddSessionList, FindAndRemoveSession, CloseIoctl,
                  CloseClear, InvokeEncode, InvokeIoctl, CancelIoctl, cvars
    <3> QED BY <3>1, <1>1, <1>3
  <2> QED BY <2>1, <2>2, <2>3
<1> QED BY <1>1, <1>4 DEF vars, cvars

\* Every open descriptor belongs to exactly one allocated context object: the
\* library neither leaks a descriptor nor closes one twice.
THEOREM DescriptorsOwned == Spec => []FdOwnership
<1>1. Init => FdOwnership
  BY DEF Init, FdOwnership
<1> QED BY <1>1, InvariantHolds, NextFdOwnership, PTL DEF Spec

-----------------------------------------------------------------------------
(***************************************************************************)
(* Sessions.  Which session structure of the client stands for an open     *)
(* session of the TEE, given IInv and FdOwnership: the structure that is   *)
(* listed with that session's id, or the one of the thread that has just   *)
(* opened the session or is about to close it.                             *)
(***************************************************************************)

Listed(s) == \E h \in Handles : s \in slist[h]

Claims(t, i) ==
    \/ pc[t] = "openAdd" /\ tsid[t] = i
    \/ pc[t] = "closeIoctl" /\ sid[tses[t]] = i

Stands(s, i) ==
    \/ Listed(s) /\ sid[s] = i
    \/ \E t \in Threads : tses[t] = s /\ Claims(t, i)

\* A thread that opens a session is the only one with that session, and a
\* session is closed by one thread at a time.
Calls ==
    \A t \in Threads :
       /\ pc[t] = "idle" => op[t] = "none" /\ tses[t] = Nil
       /\ pc[t] \in {"openIoctl", "openAdd"} => op[t] = "open"
       /\ pc[t] \in {"closeRemove", "closeIoctl", "closeClear"} =>
             op[t] = "close" /\ tses[t] \in Sessions
       /\ op[t] = "open" =>
             tses[t] \in Sessions /\ \A u \in Threads \ {t} : tses[u] # tses[t]
       /\ op[t] = "close" =>
             \A u \in Threads \ {t} : op[u] = "close" => tses[u] # tses[t]

\* The session of such a thread is not listed.
Unlisted ==
    \A t \in Threads :
       /\ op[t] = "open" /\ pc[t] \in {"get", "openIoctl", "openAdd"} => ~Listed(tses[t])
       /\ pc[t] \in {"closeIoctl", "closeClear"} => ~Listed(tses[t])

\* A listed session is open in the TEE through the descriptor of the context
\* object that lists it; so is the session in a thread's hands.
Through ==
    /\ \A h \in Handles : \A s \in slist[h] :
          h \in live /\ sid[s] \in Sids /\ tee[sid[s]] = fd[h]
    /\ \A t \in Threads :
          /\ pc[t] = "openAdd" => tsid[t] \in Sids /\ tee[tsid[t]] = fd[th[t]]
          /\ pc[t] = "closeIoctl" =>
                sid[tses[t]] \in Sids /\ tee[sid[tses[t]]] = fd[th[t]]

\* One structure stands for each open session of the TEE.
OneEach ==
    \A i \in Sids :
       /\ \A r, s \in Sessions : Stands(r, i) /\ Stands(s, i) => r = s
       /\ tee[i] # NoFd => \E s \in Sessions : Stands(s, i)

SInv == Calls /\ Unlisted /\ Through /\ OneEach

\* A step of t leaves the other threads and their calls alone.
Rest(t) ==
    \A u \in Threads \ {t} :
       /\ pc'[u] = pc[u] /\ op'[u] = op[u] /\ tctx'[u] = tctx[u]
       /\ tses'[u] = tses[u] /\ th'[u] = th[u] /\ tsid'[u] = tsid[u]

LEMMA ReturnRest ==
    ASSUME TypeOK, NEW t \in Threads, Return(t)
    PROVE  /\ Rest(t) /\ th'[t] = Nil
           /\ \/ pc'[t] = "idle" /\ op'[t] = "none" /\ tctx'[t] = Nil /\ tses'[t] = Nil
              \/ /\ op'[t] = op[t] /\ tctx'[t] = tctx[t] /\ tses'[t] = tses[t]
                 /\ pc'[t] \in AfterPut(t) \ {"idle"}
<1>1. CASE Leave(t)
  BY <1>1 DEF Leave, TypeOK, Rest
<1>2. CASE /\ \E loc \in AfterPut(t) \ {"idle"} : Goto(t, loc)
           /\ th' = [th EXCEPT ![t] = Nil]
           /\ SameCall /\ UNCHANGED tsid
  <2>1. PICK loc \in AfterPut(t) \ {"idle"} : Goto(t, loc)
    BY <1>2
  <2> QED BY <1>2, <2>1 DEF Goto, SameCall, TypeOK, Rest
<1> QED BY <1>1, <1>2 DEF Return

\* No structure stands for a session that is not open.
LEMMA StandsOpen ==
    ASSUME IInv, FdOwnership, SInv, NEW s, NEW i, Stands(s, i)
    PROVE  i \in Sids /\ tee[i] # NoFd
<1>1. \A h \in live : fd[h] \in Nat
  BY ContextAssumption DEF IInv, TypeOK, FdOwnership
<1>2. CASE Listed(s) /\ sid[s] = i
  BY <1>1, <1>2 DEF SInv, Through, Listed, NoFd
<1>3. CASE \E t \in Threads : tses[t] = s /\ Claims(t, i)
  <2>1. PICK t \in Threads : tses[t] = s /\ Claims(t, i)
    BY <1>3
  <2>2. th[t] \in live
    BY <2>1 DEF Claims, IInv, Own, Pointers, HandlePcs, HoldPcs
  <2> QED BY <1>1, <2>1, <2>2 DEF SInv, Through, Claims, NoFd
<1> QED BY <1>2, <1>3 DEF Stands

\* A session is listed in one context at most.
LEMMA OneHome ==
    ASSUME FdOwnership, SInv, NEW g \in Handles, NEW h \in Handles,
           NEW s \in slist[g], s \in slist[h]
    PROVE  g = h
  BY DEF SInv, Through, FdOwnership

\* A thread that claims a session has a session of the client, which is not
\* listed and claimed by no other thread.
LEMMA ClaimSole ==
    ASSUME SInv, NEW t \in Threads, NEW i, Claims(t, i)
    PROVE  /\ tses[t] \in Sessions /\ ~Listed(tses[t])
           /\ \A u \in Threads \ {t} : \A j : Claims(u, j) => tses[u] # tses[t]
<1>1. tses[t] \in Sessions /\ ~Listed(tses[t]) /\ op[t] \in {"open", "close"}
  BY DEF SInv, Calls, Unlisted, Claims
<1>2. ASSUME NEW u \in Threads \ {t}, NEW j, Claims(u, j)
      PROVE  tses[u] # tses[t]
  <2>1. op[u] \in {"open", "close"}
    BY <1>2 DEF SInv, Calls, Claims
  <2> QED BY <2>1, <1>1, <1>2 DEF SInv, Calls
<1> QED BY <1>1, <1>2

\* A step that neither lists, unlists, opens nor closes a session, and that
\* leaves every context object with sessions where it was.
LEMMA SInvKeep ==
    ASSUME IInv, FdOwnership, SInv, NEW t \in Threads, Rest(t),
           UNCHANGED <<slist, sid, tee>>,
           \A h \in live : \/ h \in live' /\ fd'[h] = fd[h]
                           \/ slist[h] = {} /\ \A u \in Threads \ {t} : th[u] # h,
           pc[t] \notin {"openAdd", "closeIoctl"},
           pc'[t] \notin {"openAdd", "closeIoctl", "closeClear"},
           op'[t] = "open" /\ pc'[t] \in {"get", "openIoctl"} => ~Listed(tses'[t]),
           Calls'
    PROVE  SInv'
<1>1. ASSUME NEW u \in Threads, NEW i
      PROVE  /\ Claims(u, i)' <=> Claims(u, i)
             /\ Claims(u, i) => tses'[u] = tses[u]
  BY <1>1 DEF Claims, Rest
<1>2. ASSUME NEW s, NEW i PROVE Stands(s, i)' <=> Stands(s, i)
  BY <1>1 DEF Stands, Listed
<1>3. OneEach'
  BY <1>2 DEF SInv, OneEach
<1>4. Unlisted'
  BY DEF SInv, Unlisted, Rest, Listed
<1>5. Through'
  <2>1. ASSUME NEW h \in Handles, NEW s \in slist[h]
        PROVE  h \in live' /\ sid[s] \in Sids /\ tee[sid[s]] = fd'[h]
    BY <2>1 DEF SInv, Through
  <2>2. ASSUME NEW u \in Threads, pc'[u] \in {"openAdd", "closeIoctl"}
        PROVE  /\ pc[u] = pc'[u] /\ tsid'[u] = tsid[u] /\ tses'[u] = tses[u]
               /\ fd'[th'[u]] = fd[th[u]]
    <3>1. u # t /\ th'[u] = th[u] /\ pc'[u] = pc[u]
      BY <2>2 DEF Rest
    <3>2. th[u] \in live
      BY <2>2, <3>1 DEF IInv, Own, Pointers, HandlePcs, HoldPcs
    <3> QED BY <3>1, <3>2 DEF Rest
  <2> QED BY <2>1, <2>2 DEF SInv, Through
<1> QED BY <1>3, <1>4, <1>5 DEF SInv

\* What a call that goes on, ends or begins does to the roles of the threads.
LEMMA CallsGoOn ==
    ASSUME Calls, NEW t \in Threads, Rest(t), op'[t] = op[t], tses'[t] = tses[t],
           pc'[t] # "idle",
           pc'[t] \in {"openIoctl", "openAdd"} => op[t] = "open",
           pc'[t] \in {"closeRemove", "closeIoctl", "closeClear"} =>
              op[t] = "close" /\ tses[t] \in Sessions
    PROVE  Calls'
  BY DEF Calls, Rest

LEMMA CallsEnd ==
    ASSUME Calls, NEW t \in Threads, Rest(t),
           pc'[t] = "idle", op'[t] = "none", tses'[t] = Nil
    PROVE  Calls'
  BY ContextAssumption DEF Calls, Rest

LEMMA CallsBegin ==
    ASSUME Calls, NEW t \in Threads, Rest(t),
           pc'[t] \in {"get", "insert", "put", "clearFd"},
           op'[t] = "open" => /\ tses'[t] \in Sessions
                              /\ \A u \in Threads \ {t} : tses[u] # tses'[t],
           \A u \in Threads \ {t} : op[u] = "open" => tses[u] # tses'[t],
           op'[t] = "close" =>
              \A u \in Threads \ {t} : op[u] = "close" => tses[u] # tses'[t]
    PROVE  Calls'
  BY DEF Calls, Rest

\* A call begins.
LEMMA StartSInv ==
    ASSUME IInv, IInv', FdOwnership, SInv, NEW t \in Threads, Start(t)
    PROVE  SInv'
<1> USE DEF cvars, svars
<1>0. ASSUME NEW u \in Threads, NEW s \in Sessions, tses[u] = s
      PROVE  BusyWith(u, s)
  BY <1>0, ContextAssumption DEF BusyWith, SInv, Calls
<1>1. ASSUME NEW o, NEW c, NEW s, NEW loc \in {"get", "insert", "put", "clearFd"},
             Call(t, o, c, s, loc)
      PROVE  /\ pc'[t] = loc /\ op'[t] = o /\ tctx'[t] = c /\ tses'[t] = s /\ pc[t] = "idle"
             /\ \A u \in Threads \ {t} : /\ pc'[u] = pc[u] /\ op'[u] = op[u]
                                         /\ tctx'[u] = tctx[u] /\ tses'[u] = tses[u]
  BY <1>1 DEF Call, IInv, TypeOK
<1>2. ASSUME NEW o \in Ops, NEW c, NEW s, NEW loc \in {"get", "insert", "put", "clearFd"},
             Call(t, o, c, s, loc), tsid' = tsid, UNCHANGED <<slist, sid, tee>>,
             \A u \in Threads \ {t} : th'[u] = th[u],
             \A h \in live : h \in live' /\ fd'[h] = fd[h],
             o = "open" => /\ s \in Sessions /\ ~Listed(s)
                           /\ \A u \in Threads : tses[u] # s,
             \A u \in Threads : op[u] = "open" => tses[u] # s,
             o = "close" => \A u \in Threads : op[u] = "close" => tses[u] # s
      PROVE  SInv'
  <2>1. Rest(t)
    BY <1>1, <1>2 DEF Rest
  <2>2. Calls'
    BY <1>1, <1>2, <2>1, CallsBegin DEF SInv
  <2> QED BY <1>1, <1>2, <2>1, <2>2, SInvKeep
<1>a. \A u \in Threads : op[u] = "open" => tses[u] # Nil
  BY ContextAssumption DEF SInv, Calls
<1>3. ASSUME NEW c \in Contexts, InitializeContext(t, c) PROVE SInv'
  <2>1. PICK h \in Handles \ live, f \in Fds :
            /\ live' = live \cup {h} /\ fd' = [fd EXCEPT ![h] = f]
            /\ slist' = [slist EXCEPT ![h] = {}]
            /\ th' = [th EXCEPT ![t] = h]
    BY <1>3 DEF InitializeContext
  <2>2. slist[h] = {}
    BY <2>1 DEF SInv, Through
  <2>3. slist' = slist
    BY <2>1, <2>2 DEF IInv, TypeOK
  <2>4. UNCHANGED <<sid, tee, tsid>> /\ Call(t, "init", c, Nil, "insert")
    BY <1>3 DEF InitializeContext
  <2>5. /\ \A u \in Threads \ {t} : th'[u] = th[u]
        /\ \A g \in live : g \in live' /\ fd'[g] = fd[g]
    BY <2>1 DEF IInv, TypeOK
  <2> QED BY <1>2, <1>a, <2>3, <2>4, <2>5 DEF Ops
<1>4. ASSUME NEW c \in Contexts, FinalizeContext(t, c) PROVE SInv'
  <2>1. UNCHANGED <<sid, slist, tee, tsid, live, fd>>
    BY <1>4 DEF FinalizeContext
  <2>2. \A u \in Threads \ {t} : th'[u] = th[u]
    BY <1>4 DEF FinalizeContext, IInv, TypeOK
  <2>3. Call(t, "finalize", c, Nil, "put") \/ Call(t, "finalize", c, Nil, "clearFd")
    BY <1>4 DEF FinalizeContext
  <2> QED BY <1>2, <1>a, <2>1, <2>2, <2>3 DEF Ops
<1>5. ASSUME NEW c \in Contexts, NEW s \in Sessions, OpenSession(t, c, s) PROVE SInv'
  <2>1. /\ UNCHANGED <<sid, slist, tee, tsid, live, fd, th>>
        /\ Call(t, "open", c, s, "get")
        /\ ~Listed(s)
        /\ \A u \in Threads : ~BusyWith(u, s)
    BY <1>5 DEF OpenSession, MayOpen, Listed
  <2> QED BY <1>0, <1>2, <2>1 DEF Ops
<1>6. ASSUME NEW s \in Sessions,
             CloseSession(t, s) \/ InvokeCommand(t, s) \/ RequestCancellation(t, s)
      PROVE  SInv'
  <2>1. UNCHANGED <<sid, slist, tee, tsid, live, fd, th>>
    BY <1>6 DEF CloseSession, InvokeCommand, RequestCancellation
  <2>2. \A u \in Threads : op[u] = "open" => tses[u] # s
    BY <1>0, <1>6 DEF CloseSession, InvokeCommand, RequestCancellation,
                      MayClose, MayUseSession
  <2>3. CASE CloseSession(t, s)
    <3>1. \A u \in Threads : op[u] = "close" => tses[u] # s
      BY <1>0, <2>3 DEF CloseSession, MayClose
    <3> QED BY <1>2, <2>1, <2>2, <2>3, <3>1 DEF CloseSession, Ops
  <2>4. CASE InvokeCommand(t, s) \/ RequestCancellation(t, s)
    BY <1>2, <2>1, <2>2, <2>4 DEF InvokeCommand, RequestCancellation, Ops
  <2> QED BY <1>6, <2>3, <2>4
<1> QED BY <1>3, <1>4, <1>5, <1>6 DEF Start

\* The steps of a call that leave the sessions alone.
LEMMA QuietSInv ==
    ASSUME IInv, FdOwnership, SInv, NEW t \in Threads,
           \/ GetBnContext(t) \/ PutBnContext(t) \/ InitializeInsert(t)
           \/ InitializePublish(t) \/ FinalizeClearFd(t) \/ FinalizeFree(t)
           \/ InvokeEncode(t) \/ InvokeIoctl(t) \/ CancelIoctl(t)
    PROVE  SInv'
<1> USE DEF cvars, svars
<1>1. ASSUME NEW loc, Goto(t, loc), SameCall, UNCHANGED <<slist, sid, tee>>,
             \A u \in Threads \ {t} : th'[u] = th[u] /\ tsid'[u] = tsid[u],
             UNCHANGED <<live, fd>>,
             loc \in {"publish", "put", "drain", "openIoctl", "closeRemove",
                      "invokeEncode", "invokeIoctl", "fault"},
             pc[t] \notin {"openAdd", "closeIoctl"},
             loc = "openIoctl" => op[t] = "open" /\ pc[t] = "get",
             loc = "closeRemove" => op[t] = "close" /\ tses[t] \in Sessions
      PROVE  SInv'
  <2>1. /\ Rest(t) /\ pc'[t] = loc
        /\ op'[t] = op[t] /\ tses'[t] = tses[t]
    BY <1>1 DEF Rest, Goto, SameCall, IInv, TypeOK
  <2>2. Calls'
    BY <1>1, <2>1, CallsGoOn DEF SInv
  <2>3. op'[t] = "open" /\ pc'[t] \in {"get", "openIoctl"} => ~Listed(tses'[t])
    BY <1>1, <2>1 DEF SInv, Unlisted
  <2> QED BY <1>1, <2>1, <2>2, <2>3, SInvKeep
<1>2. ASSUME Rest(t), UNCHANGED <<slist, sid, tee>>,
             \A h \in live : \/ h \in live' /\ fd'[h] = fd[h]
                             \/ slist[h] = {} /\ \A u \in Threads \ {t} : th[u] # h,
             pc[t] \notin {"openAdd", "closeIoctl"},
             \/ pc'[t] = "idle" /\ op'[t] = "none" /\ tses'[t] = Nil
             \/ /\ op'[t] = op[t] /\ tses'[t] = tses[t]
                /\ pc'[t] \in AfterPut(t) \ {"idle"}
      PROVE  SInv'
  <2>1. pc'[t] \in {"idle", "clearFd", "cancelIoctl"}
    BY <1>2 DEF AfterPut
  <2>2. Calls'
    BY <1>2, <2>1, CallsGoOn, CallsEnd DEF SInv
  <2> QED BY <1>2, <2>1, <2>2, SInvKeep
<1>3. ASSUME Leave(t)
      PROVE  Rest(t) /\ pc'[t] = "idle" /\ op'[t] = "none" /\ tses'[t] = Nil
  BY <1>3 DEF Leave, Rest, IInv, TypeOK
<1>4. CASE GetBnContext(t)
  <2>1. pc[t] = "get" /\ UNCHANGED <<live, fd, slist, sid, tee>>
    BY <1>4 DEF GetBnContext
  <2>2. CASE Return(t)
    BY <2>1, <2>2, <1>2, ReturnRest DEF IInv
  <2>3. CASE \E h \in FindBnContext(tctx[t]) :
                 /\ AtomInc(h) /\ th' = [th EXCEPT ![t] = h]
                 /\ Goto(t, CASE op[t] = "open"   -> "openIoctl"
                              [] op[t] = "close"  -> "closeRemove"
                              [] op[t] = "invoke" -> "invokeEncode"
                              [] op[t] = "cancel" -> "put")
                 /\ SameCall /\ UNCHANGED tsid
    <3>1. /\ op[t] \in {"open", "close", "invoke", "cancel"} /\ tses[t] \in Sessions
          /\ SameCall
          /\ \A u \in Threads \ {t} : th'[u] = th[u] /\ tsid'[u] = tsid[u]
      BY <2>1, <2>3 DEF IInv, Locals, TypeOK
    <3>2. CASE op[t] = "open"
      <4>1. Goto(t, "openIoctl")
        BY <2>3, <3>2 DEF Goto
      <4> QED BY <1>1, <2>1, <3>1, <3>2, <4>1
    <3>3. CASE op[t] = "close"
      <4>1. Goto(t, "closeRemove")
        BY <2>3, <3>3 DEF Goto
      <4> QED BY <1>1, <2>1, <3>1, <3>3, <4>1
    <3>4. CASE op[t] = "invoke"
      <4>1. Goto(t, "invokeEncode")
        BY <2>3, <3>4 DEF Goto
      <4> QED BY <1>1, <2>1, <3>1, <4>1
    <3>5. CASE op[t] = "cancel"
      <4>1. Goto(t, "put")
        BY <2>3, <3>5 DEF Goto
      <4> QED BY <1>1, <2>1, <3>1, <4>1
    <3> QED BY <3>1, <3>2, <3>3, <3>4, <3>5
  <2> QED BY <1>4, <2>2, <2>3 DEF GetBnContext
<1>5. CASE PutBnContext(t)
  <2>1. pc[t] = "put" /\ UNCHANGED <<live, fd, slist, sid, tee>>
    BY <1>5 DEF PutBnContext
  <2>2. CASE Return(t)
    BY <2>1, <2>2, <1>2, ReturnRest DEF IInv
  <2>3. CASE Goto(t, "drain") /\ SameCall /\ UNCHANGED <<th, tsid>>
    BY <2>1, <2>3, <1>1
  <2> QED BY <1>5, <2>2, <2>3 DEF PutBnContext
<1>6. CASE InitializeInsert(t)
  BY <1>6, <1>1 DEF InitializeInsert
<1>7. CASE InitializePublish(t)
  BY <1>7, <1>1 DEF InitializePublish
<1>8. CASE FinalizeClearFd(t)
  BY <1>8, <1>2, <1>3 DEF FinalizeClearFd
<1>9. CASE FinalizeFree(t)
  <2>1. /\ pc[t] = "drain" /\ slist[th[t]] = {} /\ live' = live \ {th[t]}
        /\ fd' = [fd EXCEPT ![th[t]] = NoFd] /\ UNCHANGED <<slist, sid, tee>>
    BY <1>9 DEF FinalizeFree
  <2>2. \A h \in live : \/ h \in live' /\ fd'[h] = fd[h]
                        \/ slist[h] = {} /\ \A u \in Threads \ {t} : th[u] # h
    BY <2>1 DEF IInv, TypeOK, Own, Exclusive
  <2> QED BY <1>9, <2>1, <2>2, <1>2, ReturnRest DEF FinalizeFree, IInv
<1>10. CASE InvokeEncode(t)
  <2>1. \A u \in Threads \ {t} : tsid'[u] = tsid[u]
    BY <1>10 DEF InvokeEncode, IInv, TypeOK
  <2> QED BY <1>10, <1>1, <2>1 DEF InvokeEncode
<1>11. CASE InvokeIoctl(t)
  <2>1. \A u \in Threads \ {t} : tsid'[u] = tsid[u]
    BY <1>11 DEF InvokeIoctl, IInv, TypeOK
  <2> QED BY <1>11, <1>1, <2>1 DEF InvokeIoctl
<1>12. CASE CancelIoctl(t)
  <2>1. pc[t] = "cancelIoctl" /\ UNCHANGED <<live, fd, slist, sid, tee>>
    BY <1>12 DEF CancelIoctl
  <2>2. CASE Leave(t)
    BY <2>1, <2>2, <1>2, <1>3
  <2>3. CASE Goto(t, "fault") /\ SameCall /\ UNCHANGED <<th, tsid>>
    BY <2>1, <2>3, <1>1
  <2> QED BY <1>12, <2>2, <2>3 DEF CancelIoctl
<1> QED BY <1>4, <1>5, <1>6, <1>7, <1>8, <1>9, <1>10, <1>11, <1>12

\* The step of one thread with its call unchanged.
LEMMA GotoRest ==
    ASSUME IInv, NEW t \in Threads, NEW loc, Goto(t, loc), SameCall, UNCHANGED th
    PROVE  /\ pc'[t] = loc /\ op'[t] = op[t] /\ tses'[t] = tses[t]
           /\ \A u \in Threads : tses'[u] = tses[u] /\ op'[u] = op[u] /\ th'[u] = th[u]
           /\ \A u \in Threads \ {t} : pc'[u] = pc[u]
           /\ (\A u \in Threads \ {t} : tsid'[u] = tsid[u]) => Rest(t)
  BY DEF Goto, SameCall, Rest, IInv, TypeOK

\* The open ioctl: the thread's structure now stands for the new session.
LEMMA OpenIoctlSInv ==
    ASSUME IInv, FdOwnership, SInv, NEW t \in Threads, OpenIoctl(t)
    PROVE  SInv'
<1> USE DEF cvars, svars
<1>0. /\ pc[t] = "openIoctl" /\ op[t] = "open" /\ tses[t] \in Sessions
      /\ ~Listed(tses[t]) /\ \A u \in Threads \ {t} : tses[u] # tses[t]
      /\ SameCall
      /\ UNCHANGED <<live, fd, slist, sid, th>>
  BY DEF OpenIoctl, SInv, Calls, Unlisted
<1>1. CASE Goto(t, "put") /\ UNCHANGED <<tee, tsid>>
  <2>1. Rest(t) /\ pc'[t] = "put" /\ op'[t] = op[t] /\ tses'[t] = tses[t]
    BY <1>0, <1>1, GotoRest
  <2>2. Calls'
    BY <2>1, CallsGoOn DEF SInv
  <2> QED BY <1>0, <1>1, <2>1, <2>2, SInvKeep
<1>2. CASE \E i \in Sids : /\ tee[i] = NoFd
                          /\ tee' = [tee EXCEPT ![i] = fd[th[t]]]
                          /\ tsid' = [tsid EXCEPT ![t] = i]
                          /\ Goto(t, "openAdd")
  <2>1. PICK i \in Sids : /\ tee[i] = NoFd
                          /\ tee' = [tee EXCEPT ![i] = fd[th[t]]]
                          /\ tsid' = [tsid EXCEPT ![t] = i]
                          /\ Goto(t, "openAdd")
    BY <1>2
  <2>2. /\ tsid'[t] = i /\ tee'[i] = fd[th[t]]
        /\ \A j \in Sids \ {i} : tee'[j] = tee[j]
        /\ \A u \in Threads \ {t} : tsid'[u] = tsid[u]
    BY <2>1 DEF IInv, TypeOK
  <2>3. /\ Rest(t) /\ pc'[t] = "openAdd" /\ op'[t] = "open"
        /\ \A u \in Threads : tses'[u] = tses[u] /\ op'[u] = op[u] /\ th'[u] = th[u]
    BY <1>0, <2>1, <2>2, GotoRest
  <2>4. Calls'
    BY <1>0, <2>3, CallsGoOn DEF SInv
  <2>5. \A u \in Threads : \A j : /\ u # t => (Claims(u, j)' <=> Claims(u, j))
                                  /\ ~Claims(t, j)
                                  /\ Claims(t, j)' <=> j = i
    BY <1>0, <2>2, <2>3 DEF Claims, Rest
  <2>6. ASSUME NEW s, NEW j
        PROVE  Stands(s, j)' <=> Stands(s, j) \/ (s = tses[t] /\ j = i)
    BY <1>0, <2>3, <2>5 DEF Stands, Listed
  <2>7. \A s, j : Stands(s, j) => j # i
    BY <2>1, StandsOpen
  <2>8. OneEach'
    BY <1>0, <2>2, <2>6, <2>7 DEF SInv, OneEach
  <2>9. Unlisted'
    BY <1>0, <2>3 DEF SInv, Unlisted, Listed, Rest
  <2>10. Through'
    <3>1. ASSUME NEW h \in Handles, NEW s \in slist[h]
          PROVE  h \in live /\ sid[s] \in Sids /\ tee'[sid[s]] = fd[h]
      <4>1. Stands(s, sid[s])
        BY <3>1 DEF Stands, Listed
      <4> QED BY <3>1, <4>1, <2>2, <2>7 DEF SInv, Through
    <3>2. ASSUME NEW u \in Threads, u # t, NEW j, Claims(u, j)
          PROVE  j \in Sids /\ tee'[j] = fd[th[u]]
      <4>1. Stands(tses[u], j)
        BY <3>2 DEF Stands
      <4> QED BY <3>2, <4>1, <2>2, <2>7 DEF SInv, Through, Claims
    <3> QED BY <1>0, <2>2, <2>3, <3>1, <3>2 DEF Through, Claims, Rest
  <2> QED BY <2>4, <2>8, <2>9, <2>10 DEF SInv
<1> QED BY <1>1, <1>2 DEF OpenIoctl

\* AddSessionList: the list takes the session over from the thread.
LEMMA AddSessionListSInv ==
    ASSUME IInv, FdOwnership, SInv, NEW t \in Threads, AddSessionList(t)
    PROVE  SInv'
<1> DEFINE s == tses[t]
           i == tsid[t]
           h == th[t]
<1> USE DEF cvars, svars
<1>0. /\ pc[t] = "openAdd" /\ op[t] = "open" /\ s \in Sessions
      /\ ~Listed(s) /\ \A u \in Threads \ {t} : tses[u] # s
      /\ i \in Sids /\ tee[i] = fd[h] /\ h \in live /\ h \in Handles
  BY DEF AddSessionList, SInv, Calls, Unlisted, Through,
         IInv, TypeOK, Own, Pointers, HandlePcs, HoldPcs
<1>1. /\ UNCHANGED <<live, fd, tee, th>> /\ SameCall /\ Goto(t, "put")
      /\ sid'[s] = i /\ \A r \in Sessions \ {s} : sid'[r] = sid[r]
      /\ slist'[h] = slist[h] \cup {s}
      /\ \A g \in Handles \ {h} : slist'[g] = slist[g]
      /\ \A u \in Threads \ {t} : tsid'[u] = tsid[u]
  BY <1>0 DEF AddSessionList, IInv, TypeOK
<1>2. /\ Rest(t) /\ pc'[t] = "put" /\ op'[t] = op[t]
      /\ \A u \in Threads : tses'[u] = tses[u] /\ op'[u] = op[u] /\ th'[u] = th[u]
  BY <1>1, GotoRest
<1>3. Calls'
  BY <1>2, CallsGoOn DEF SInv
<1>4. \A r : Listed(r)' <=> (Listed(r) \/ r = s)
  BY <1>0, <1>1 DEF Listed
<1>5. ASSUME NEW u \in Threads \ {t}, NEW j
      PROVE  Claims(u, j)' <=> Claims(u, j)
  BY <1>0, <1>1, <1>2 DEF Claims, Rest, SInv, Calls
<1>6. \A j : ~Claims(t, j)' /\ (Claims(t, j) <=> j = i)
  BY <1>0, <1>2 DEF Claims
<1>7. ASSUME NEW r \in Sessions, NEW j PROVE Stands(r, j)' <=> Stands(r, j)
  <2>1. CASE r = s
    BY <1>0, <1>1, <1>2, <1>4, <1>6, <2>1 DEF Stands
  <2>2. CASE r # s
    BY <1>1, <1>2, <1>4, <1>5, <1>6, <2>2 DEF Stands
  <2> QED BY <2>1, <2>2
<1>8. OneEach'
  BY <1>1, <1>7 DEF SInv, OneEach
<1>9. Unlisted'
  BY <1>0, <1>2, <1>4 DEF SInv, Unlisted, Rest, Calls
<1>10. Through'
  <2>1. ASSUME NEW g \in Handles, NEW r \in slist'[g]
        PROVE  g \in live /\ sid'[r] \in Sids /\ tee[sid'[r]] = fd[g]
    <3>1. CASE r = s
      <4>1. g = h
        BY <1>0, <1>1, <2>1, <3>1 DEF Listed
      <4> QED BY <1>0, <1>1, <3>1, <4>1
    <3>2. CASE r # s
      <4>1. r \in slist[g] /\ r \in Sessions
        BY <1>0, <1>1, <2>1, <3>2 DEF IInv, TypeOK
      <4> QED BY <1>1, <3>2, <4>1 DEF SInv, Through
    <3> QED BY <3>1, <3>2
  <2>2. ASSUME NEW u \in Threads, NEW j, u # t, Claims(u, j)
        PROVE  j \in Sids /\ tee[j] = fd[th[u]]
    BY <2>2 DEF SInv, Through, Claims
  <2>3. ASSUME NEW u \in Threads, NEW j, Claims(u, j)'
        PROVE  j \in Sids /\ tee[j] = fd[th[u]]
    BY <1>5, <1>6, <2>2, <2>3
  <2> QED BY <1>1, <1>2, <2>1, <2>3 DEF Through, Claims
<1> QED BY <1>3, <1>8, <1>9, <1>10 DEF SInv

\* The thread that closes a session is the only one that may claim it.
LEMMA CloserSole ==
    ASSUME SInv, NEW t \in Threads, op[t] = "close"
    PROVE  \A u \in Threads \ {t} : \A j : Claims(u, j) => tses[u] # tses[t]
  BY DEF SInv, Calls, Claims

\* FindAndRemoveSession: the thread takes the session over from the list, or
\* another structure that has the same session id.
LEMMA FindAndRemoveSInv ==
    ASSUME IInv, FdOwnership, SInv, NEW t \in Threads, FindAndRemoveSession(t)
    PROVE  SInv'
<1> DEFINE s == tses[t]
           i == sid[s]
           h == th[t]
<1> USE DEF cvars, svars
<1>0. /\ pc[t] = "closeRemove" /\ op[t] = "close" /\ s \in Sessions
      /\ h \in live /\ h \in Handles
      /\ UNCHANGED <<live, fd, tee, sid, th, tsid>> /\ SameCall
  BY DEF FindAndRemoveSession, SInv, Calls, IInv, TypeOK, Own, Pointers,
         HandlePcs, HoldPcs
<1>1. CASE Goto(t, "put") /\ UNCHANGED slist
  <2>1. Rest(t) /\ pc'[t] = "put" /\ op'[t] = op[t] /\ tses'[t] = tses[t]
    BY <1>0, <1>1, GotoRest
  <2>2. Calls'
    BY <2>1, CallsGoOn DEF SInv
  <2> QED BY <1>0, <1>1, <2>1, <2>2, SInvKeep
<1>2. CASE \E r \in FindBnSession(s, h) : /\ slist' = [slist EXCEPT ![h] = @ \ {r}]
                                         /\ Goto(t, "closeIoctl")
  <2>1. PICK r \in slist[h] : /\ sid[r] = i
                              /\ slist' = [slist EXCEPT ![h] = @ \ {r}]
                              /\ Goto(t, "closeIoctl")
    BY <1>2 DEF FindBnSession
  <2>2. /\ r \in Sessions /\ Listed(r) /\ Stands(r, i)
        /\ i \in Sids /\ tee[i] = fd[h]
    BY <1>0, <2>1 DEF IInv, TypeOK, Stands, Listed, SInv, Through
  <2>3. /\ Rest(t) /\ pc'[t] = "closeIoctl" /\ op'[t] = op[t]
        /\ \A u \in Threads : tses'[u] = tses[u] /\ op'[u] = op[u] /\ th'[u] = th[u]
    BY <1>0, <2>1, GotoRest
  <2>4. Calls'
    BY <1>0, <2>3, CallsGoOn DEF SInv
  <2>5. \A q : Listed(q)' <=> (Listed(q) /\ q # r)
    <3>1. \A g \in Handles : r \in slist[g] => g = h
      BY <1>0, <2>1, OneHome
    <3>2. /\ slist'[h] = slist[h] \ {r}
          /\ \A g \in Handles \ {h} : slist'[g] = slist[g]
      BY <1>0, <2>1 DEF IInv, TypeOK
    <3>3. \A g \in Handles : \A q : q \in slist'[g] <=> (q \in slist[g] /\ q # r)
      BY <3>1, <3>2
    <3> QED BY <3>3 DEF Listed
  <2>6. Listed(s) => s = r
    <3>1. Listed(s) => Stands(s, i)
      BY DEF Stands
    <3> QED BY <1>0, <2>2, <3>1 DEF SInv, OneEach
  <2>7. \A u \in Threads \ {t} : \A j : /\ Claims(u, j)' <=> Claims(u, j)
                                        /\ Claims(u, j) => tses[u] # s /\ tses[u] # r
    <3>1. \A u \in Threads \ {t} : \A j : Claims(u, j)' <=> Claims(u, j)
      BY <1>0, <2>3 DEF Claims, Rest
    <3>2. \A u \in Threads \ {t} : \A j : Claims(u, j) => tses[u] # s
      BY <1>0, CloserSole
    <3>3. \A u \in Threads : \A j : Claims(u, j) => tses[u] # r
      BY <2>2, ClaimSole
    <3> QED BY <3>1, <3>2, <3>3
  <2>8. \A j : ~Claims(t, j) /\ (Claims(t, j)' <=> j = i)
    BY <1>0, <2>3 DEF Claims
  <2>9. ASSUME NEW q \in Sessions, NEW j
        PROVE  Stands(q, j)' <=> \/ q = s /\ j = i
                                 \/ q # s /\ q # r /\ Stands(q, j)
    <3>1. CASE q = s
      BY <1>0, <2>3, <2>5, <2>6, <2>7, <2>8, <3>1 DEF Stands
    <3>2. CASE q # s /\ q = r
      BY <1>0, <2>3, <2>5, <2>7, <2>8, <3>2 DEF Stands
    <3>3. CASE q # s /\ q # r
      BY <1>0, <2>3, <2>5, <2>7, <2>8, <3>3 DEF Stands
    <3> QED BY <3>1, <3>2, <3>3
  <2>10. OneEach'
    <3> SUFFICES ASSUME NEW j \in Sids
                 PROVE  /\ \A p, q \in Sessions : Stands(p, j)' /\ Stands(q, j)' => p = q
                        /\ tee[j] # NoFd => \E q \in Sessions : Stands(q, j)'
      BY <1>0 DEF OneEach
    <3>1. CASE j = i
      BY <1>0, <2>2, <2>9, <3>1 DEF SInv, OneEach
    <3>2. CASE j # i
      <4>1. ~Stands(r, j)
        BY <2>1, <2>2, <2>7, <2>8, <3>2 DEF Stands
      <4>2. ~Stands(s, j)
        <5>1. CASE s = r
          BY <4>1, <5>1
        <5>2. CASE s # r
          BY <2>6, <2>7, <2>8, <5>2 DEF Stands
        <5> QED BY <5>1, <5>2
      <4> QED BY <2>9, <3>2, <4>1, <4>2 DEF SInv, OneEach
    <3> QED BY <3>1, <3>2
  <2>11. Unlisted'
    BY <1>0, <2>3, <2>5, <2>6 DEF SInv, Unlisted, Rest
  <2>12. Through'
    <3>1. \A g \in Handles : slist'[g] \subseteq slist[g]
      BY <1>0, <2>1 DEF IInv, TypeOK
    <3> QED BY <1>0, <2>2, <2>3, <3>1 DEF SInv, Through, Rest
  <2> QED BY <2>4, <2>10, <2>11, <2>12 DEF SInv
<1> QED BY <1>1, <1>2 DEF FindAndRemoveSession

\* The end of a TEE session: its structure, and no other, ceases to stand.
LEMMA CloseSInv ==
    ASSUME IInv, FdOwnership, SInv, NEW t \in Threads, Rest(t),
           NEW s \in Sessions, NEW i \in Sids, Stands(s, i),
           UNCHANGED <<live, fd, th, tses, op>>, TeeClose(i, tee[i]),
           \A r \in Sessions \ {s} : sid'[r] = sid[r],
           \A g \in Handles : slist'[g] = slist[g] \ {s},
           pc'[t] \notin {"openAdd", "closeIoctl"},
           pc[t] \in {"openAdd", "closeIoctl"} => tses[t] = s,
           \A u \in Threads \ {t} : \A j : Claims(u, j) => tses[u] # s,
           Calls', Unlisted'
    PROVE  SInv'
<1>1. tee'[i] = NoFd /\ \A j \in Sids \ {i} : tee'[j] = tee[j]
  BY DEF TeeClose, IInv, TypeOK
<1>2. \A q : Listed(q)' <=> (Listed(q) /\ q # s)
  BY DEF Listed
<1>3. ASSUME NEW u \in Threads \ {t}, NEW j
      PROVE  /\ Claims(u, j) => tses[u] \in Sessions /\ sid'[tses[u]] = sid[tses[u]]
             /\ Claims(u, j)' <=> Claims(u, j)
  <2>1. Claims(u, j) => tses[u] \in Sessions /\ sid'[tses[u]] = sid[tses[u]]
    BY ClaimSole
  <2>2. /\ pc[u] = "closeIoctl" => Claims(u, sid[tses[u]])
        /\ pc[u] = "closeIoctl" => tses[u] \in Sessions
    BY DEF Claims, SInv, Calls
  <2>3. pc[u] = "closeIoctl" => sid'[tses[u]] = sid[tses[u]]
    BY <2>2
  <2> QED BY <2>1, <2>3 DEF Claims, Rest
<1>4. \A j : /\ ~Claims(t, j)'
             /\ Claims(t, j) => tses[t] = s
  BY DEF Claims
<1>5. ASSUME NEW q \in Sessions, NEW j
      PROVE  Stands(q, j)' <=> (q # s /\ Stands(q, j))
  <2>1. CASE q = s
    BY <1>2, <1>3, <1>4, <2>1 DEF Stands
  <2>2. CASE q # s
    BY <1>2, <1>3, <1>4, <2>2 DEF Stands
  <2> QED BY <2>1, <2>2
<1>6. \A q \in Sessions : q # s => ~Stands(q, i)
  BY DEF SInv, OneEach
<1>7. OneEach'
  <2> SUFFICES ASSUME NEW j \in Sids
               PROVE  /\ \A p, q \in Sessions : Stands(p, j)' /\ Stands(q, j)' => p = q
                      /\ tee'[j] # NoFd => \E q \in Sessions : Stands(q, j)'
    BY DEF OneEach
  <2>1. ASSUME j # i PROVE ~Stands(s, j)
    <3>1. CASE Listed(s)
      <4>1. \A u \in Threads : \A k : Claims(u, k) => tses[u] # s
        BY <3>1, ClaimSole
      <4> QED BY <2>1, <4>1 DEF Stands
    <3>2. CASE ~Listed(s)
      <4>1. Claims(t, i)
        BY <3>2 DEF Stands
      <4> QED BY <2>1, <3>2, <4>1 DEF Stands, Claims
    <3> QED BY <3>1, <3>2
  <2> QED BY <1>1, <1>5, <1>6, <2>1 DEF SInv, OneEach
<1>8. Through'
  <2>1. ASSUME NEW g \in Handles, NEW r \in slist'[g]
        PROVE  g \in live /\ sid'[r] \in Sids /\ tee'[sid'[r]] = fd[g]
    <3>1. r \in slist[g] /\ r # s /\ r \in Sessions
      BY <2>1 DEF IInv, TypeOK
    <3>2. Stands(r, sid[r])
      BY <3>1 DEF Stands, Listed
    <3> QED BY <3>1, <3>2, <1>1, <1>6 DEF SInv, Through
  <2>2. ASSUME NEW u \in Threads, NEW j, Claims(u, j)'
        PROVE  j \in Sids /\ tee'[j] = fd[th[u]]
    <3>1. u # t /\ Claims(u, j)
      BY <1>3, <1>4, <2>2
    <3>2. tses[u] \in Sessions /\ tses[u] # s /\ Stands(tses[u], j)
      BY <3>1, <1>3 DEF Stands
    <3>3. j # i /\ j \in Sids /\ tee[j] = fd[th[u]]
      BY <3>1, <3>2, <1>6 DEF SInv, Through, Claims
    <3> QED BY <3>3, <1>1
  <2> QED BY <2>1, <2>2 DEF Through, Claims
<1> QED BY <1>7, <1>8 DEF SInv

\* CloseIoctl of TEEC_CloseSession ends the session the thread took over.
LEMMA CloseIoctlSInv ==
    ASSUME IInv, FdOwnership, SInv, NEW t \in Threads, CloseIoctl(t)
    PROVE  SInv'
<1> DEFINE s == tses[t]
           i == sid[s]
<1> USE DEF cvars, svars
<1>0. /\ pc[t] = "closeIoctl" /\ op[t] = "close" /\ s \in Sessions /\ ~Listed(s)
      /\ i \in Sids /\ tee[i] = fd[th[t]] /\ TeeClose(i, fd[th[t]])
      /\ UNCHANGED <<live, fd, slist, sid, th, tsid>>
      /\ SameCall /\ Goto(t, "closeClear")
  BY DEF CloseIoctl, SInv, Calls, Unlisted, Through
<1>1. /\ Rest(t) /\ pc'[t] = "closeClear"
      /\ op'[t] = op[t] /\ tses'[t] = tses[t]
  BY <1>0, GotoRest
<1>2. Calls'
  BY <1>0, <1>1, CallsGoOn DEF SInv
<1>3. Unlisted'
  BY <1>0, <1>1 DEF SInv, Unlisted, Listed, Rest
<1>4. Stands(s, i)
  BY <1>0 DEF Stands, Claims
<1>5. \A u \in Threads \ {t} : \A j : Claims(u, j) => tses[u] # s
  BY <1>0, CloserSole
<1>6. \A g \in Handles : slist'[g] = slist[g] \ {s}
  BY <1>0 DEF Listed
<1>7. TeeClose(i, tee[i])
  BY <1>0
<1>8. UNCHANGED <<live, fd, th, tses, op>>
  BY <1>0 DEF SameCall
<1>9. pc'[t] \notin {"openAdd", "closeIoctl"}
  BY <1>1
<1>10. \A r \in Sessions \ {s} : sid'[r] = sid[r]
  BY <1>0
<1> HIDE DEF i
<1> QED BY <1>0, <1>1, <1>2, <1>3, <1>4, <1>5, <1>6, <1>7, <1>8, <1>9, <1>10, CloseSInv

\* ... and the client's structure is cleared.
LEMMA CloseClearSInv ==
    ASSUME IInv, FdOwnership, SInv, NEW t \in Threads, CloseClear(t)
    PROVE  SInv'
<1> DEFINE s == tses[t]
<1> USE DEF cvars, svars
<1>0. /\ pc[t] = "closeClear" /\ op[t] = "close" /\ s \in Sessions /\ ~Listed(s)
      /\ UNCHANGED <<live, fd, slist, tee, th, tsid>>
      /\ SameCall /\ Goto(t, "put")
      /\ \A r \in Sessions \ {s} : sid'[r] = sid[r]
  BY DEF CloseClear, SInv, Calls, Unlisted, IInv, TypeOK
<1>1. /\ Rest(t) /\ pc'[t] = "put" /\ op'[t] = op[t]
      /\ \A u \in Threads : tses'[u] = tses[u] /\ op'[u] = op[u] /\ th'[u] = th[u]
  BY <1>0, GotoRest
<1>2. Calls'
  BY <1>0, <1>1, CallsGoOn DEF SInv
<1>3. Unlisted'
  BY <1>0, <1>1 DEF SInv, Unlisted, Listed, Rest
<1>4. ASSUME NEW u \in Threads, NEW j
      PROVE  Claims(u, j)' <=> Claims(u, j)
  <2>1. pc[u] = "closeIoctl" => u # t /\ Claims(u, sid[tses[u]]) /\ tses[u] \in Sessions
    BY <1>0 DEF Claims, SInv, Calls
  <2>2. pc[u] = "closeIoctl" => sid'[tses[u]] = sid[tses[u]]
    BY <1>0, <2>1, CloserSole
  <2>3. pc[u] = pc'[u] \/ u = t
    BY <1>1 DEF Rest
  <2> QED BY <1>0, <1>1, <2>2, <2>3 DEF Claims
<1>5. ASSUME NEW q \in Sessions, NEW j PROVE Stands(q, j)' <=> Stands(q, j)
  BY <1>0, <1>1, <1>4 DEF Stands, Listed
<1>6. OneEach'
  BY <1>0, <1>5 DEF SInv, OneEach
<1>7. Through'
  <2>1. ASSUME NEW g \in Handles, NEW r \in slist'[g]
        PROVE  g \in live /\ sid'[r] \in Sids /\ tee[sid'[r]] = fd[g]
    <3>1. r \in slist[g] /\ r \in Sessions /\ r # s
      BY <1>0, <2>1 DEF IInv, TypeOK, Listed
    <3> QED BY <1>0, <3>1 DEF SInv, Through
  <2>2. ASSUME NEW u \in Threads, NEW j, Claims(u, j)'
        PROVE  j \in Sids /\ tee[j] = fd[th[u]]
    <3>1. Claims(u, j)
      BY <1>4, <2>2
    <3> QED BY <3>1 DEF SInv, Through, Claims
  <2> QED BY <1>0, <1>1, <2>1, <2>2 DEF Through, Claims
<1> QED BY <1>2, <1>3, <1>6, <1>7 DEF SInv

\* TEEC_FinalizeContextHidl ends a session that it finds listed.
LEMMA FinalizeCloseSInv ==
    ASSUME IInv, FdOwnership, SInv, NEW t \in Threads, NEW s \in Sessions,
           FinalizeCloseSession(t, s)
    PROVE  SInv'
<1> DEFINE i == sid[s]
           h == th[t]
<1> USE DEF cvars, svars
<1>0. /\ pc[t] = "drain" /\ s \in slist[h] /\ h \in Handles
      /\ i \in Sids /\ tee[i] = fd[h] /\ TeeClose(i, fd[h])
      /\ UNCHANGED <<live, fd, th, tsid, pc, op, tctx, tses>>
      /\ \A r \in Sessions \ {s} : sid'[r] = sid[r]
      /\ slist' = [slist EXCEPT ![h] = @ \ {s}]
  BY DEF FinalizeCloseSession, SameCall, SInv, Through, IInv, TypeOK,
         Own, Pointers, HandlePcs
<1>1. Rest(t)
  BY <1>0 DEF Rest
<1>2. Calls'
  BY <1>0 DEF SInv, Calls
<1>3. \A g \in Handles : slist'[g] = slist[g] \ {s}
  <2>1. \A g \in Handles : s \in slist[g] => g = h
    BY <1>0, OneHome
  <2>2. \A g \in Handles \ {h} : slist'[g] = slist[g]
    BY <1>0 DEF IInv, TypeOK
  <2>3. slist'[h] = slist[h] \ {s}
    BY <1>0 DEF IInv, TypeOK
  <2> QED BY <2>1, <2>2, <2>3
<1>4. Unlisted'
  BY <1>0, <1>3 DEF SInv, Unlisted, Listed
<1>5. Stands(s, i) /\ Listed(s)
  BY <1>0 DEF Stands, Listed
<1>6. \A u \in Threads \ {t} : \A j : Claims(u, j) => tses[u] # s
  BY <1>5, ClaimSole
<1>7. TeeClose(i, tee[i])
  BY <1>0
<1> HIDE DEF i
<1> QED BY <1>0, <1>1, <1>2, <1>3, <1>4, <1>5, <1>6, <1>7, CloseSInv

\* SInv is inductive given IInv and FdOwnership.
LEMMA NextSInv ==
    ASSUME IInv, IInv', FdOwnership, SInv, [Next]_vars
    PROVE  SInv'
<1>1. CASE UNCHANGED vars
  <2>1. UNCHANGED <<slist, sid, tee, live, fd, pc, op, tctx, tses, th, tsid>>
    BY <1>1 DEF vars, cvars, svars, tvars
  <2>2. Calls' /\ Unlisted' /\ Through'
    BY <2>1 DEF SInv, Calls, Unlisted, Through, Listed
  <2>3. \A s, i : Stands(s, i)' <=> Stands(s, i)
    BY <2>1 DEF Stands, Listed, Claims
  <2>4. OneEach'
    BY <2>1, <2>3 DEF SInv, OneEach
  <2> QED BY <2>2, <2>4 DEF SInv
<1>2. CASE Next
  <2>1. PICK t \in Threads : Start(t) \/ Step(t)
    BY <1>2 DEF Next
  <2> QED BY <2>1, StartSInv, QuietSInv, OpenIoctlSInv, AddSessionListSInv,
             FindAndRemoveSInv, CloseIoctlSInv, CloseClearSInv, FinalizeCloseSInv
          DEF Step
<1> QED BY <1>1, <1>2

\* The sessions' invariant holds.
LEMMA SessionInvariant == Spec => []SInv
<1>1. Init => SInv
  <2>1. Init => Calls /\ Unlisted /\ Through
    BY DEF Init, Calls, Unlisted, Through
  <2>2. Init => OneEach
    BY DEF Init, OneEach, Stands, Listed, Claims
  <2> QED BY <2>1, <2>2 DEF SInv
<1> QED BY <1>1, InvariantHolds, DescriptorsOwned, NextSInv, PTL DEF Spec

\* Every session that is open in the TEE is accounted for by exactly one
\* session structure of the client, which is listed in the context the session
\* was opened through or in the hands of a thread that will list or close it.
THEOREM SessionsAccounted == Spec => []SessionAccounted
<1>1. ASSUME IInv, FdOwnership, SInv PROVE SessionAccounted
  <2>1. ASSUME NEW s, NEW i \in Sids PROVE Stands(s, i) <=> Answers(s, i)
    <3>1. Listed(s) /\ sid[s] = i => Answers(s, i)
      BY <1>1 DEF Answers, SInv, Through, Listed
    <3>2. ASSUME NEW t \in Threads, tses[t] = s, Claims(t, i) PROVE Answers(s, i)
      <4>1. th[t] \in live /\ th[t] # Nil
        BY <1>1, <3>2, ContextAssumption
           DEF Claims, IInv, TypeOK, Own, Pointers, HandlePcs, HoldPcs
      <4>2. fd[th[t]] = tee[i]
        BY <1>1, <3>2 DEF SInv, Through, Claims
      <4> QED BY <3>2, <4>1, <4>2 DEF Answers, Claims
    <3>3. Answers(s, i) => Stands(s, i)
      BY <1>1 DEF Stands, Answers, Listed, Claims, IInv, TypeOK
    <3> QED BY <3>1, <3>2, <3>3 DEF Stands
  <2> QED BY <1>1, <2>1 DEF SInv, OneEach, SessionAccounted
<1> QED BY <1>1, InvariantHolds, DescriptorsOwned, SessionInvariant, PTL

-----------------------------------------------------------------------------
(***************************************************************************)
(* A client that does not overlap calls with the end of a context or of a  *)
(* session: what its structures say is what the library's objects say.     *)
(* QInv is inductive for such a client, given the invariants above.        *)
(***************************************************************************)

\* A context whose finalization is in progress.
Final(c) == \E t \in Threads : op[t] = "finalize" /\ tctx[t] = c

\* What a thread is doing, with which context and session; a context that
\* is initialized or finalized and a session that is opened or closed is
\* nobody else's business.
Roles ==
    \A t \in Threads :
       /\ pc[t] = "idle" <=> op[t] = "none"
       /\ op[t] = "none" <=> tctx[t] = Nil
       /\ tses[t] = Nil <=> op[t] \in {"none", "init", "finalize"}
       /\ op[t] \in {"init", "finalize"} => \A u \in Threads \ {t} : tctx[u] # tctx[t]
       /\ op[t] \in {"open", "close"} => \A u \in Threads \ {t} : tses[u] # tses[t]
       /\ pc[t] \in {"insert", "publish"} => op[t] = "init"
       /\ pc[t] \in {"drain", "clearFd"} => op[t] = "finalize"
       /\ pc[t] \in {"invokeEncode", "invokeIoctl"} => op[t] = "invoke"
       /\ pc[t] \in {"cancelIoctl", "fault"} => op[t] = "cancel"

\* session->context is that of the call until the call clears it.
SesCalls ==
    \A t \in Threads :
       /\ op[t] \in {"open", "invoke", "cancel"} => sctx[tses[t]] = tctx[t]
       /\ op[t] = "close" /\ pc[t] # "put" => sctx[tses[t]] = tctx[t]

\* The object of a thread: new and unknown to every context but those that
\* are about to lose their descriptor; listed with the descriptor of the
\* thread's context; or unlisted by the thread, with that context's sessions.
InUse ==
    \A t \in Threads :
       /\ pc[t] \in {"insert", "publish"} =>
             /\ ctxFd[tctx[t]] = NoFd /\ slist[th[t]] = {}
             /\ \A d \in Contexts : ctxFd[d] = fd[th[t]] => Final(d)
             /\ \A u \in Threads \ {t} :
                   pc[u] \in {"insert", "publish"} => th[u] # th[t]
       /\ pc[t] = "publish" => th[t] \in list
       /\ pc[t] \in HoldPcs \ {"insert", "publish"} /\ op[t] # "finalize" =>
             th[t] \in list /\ fd[th[t]] = ctxFd[tctx[t]]
       /\ pc[t] \in {"put", "drain"} /\ op[t] = "finalize" =>
             th[t] \notin list /\ \A s \in slist[th[t]] : sctx[s] = tctx[t]

\* A context in use has a listed object, and has it for itself.
OneContext ==
    \A c \in Contexts : ctxFd[c] # NoFd /\ ~Final(c) =>
       /\ \E h \in list : fd[h] = ctxFd[c]
       /\ \A d \in Contexts : ctxFd[d] = ctxFd[c] /\ ~Final(d) => d = c

\* A listed session leads to the object that lists it, and was opened and not
\* ended, or is about to be found by the thread that closes it.
SesOf ==
    \A h \in list : \A s \in slist[h] :
       /\ sctx[s] # Nil /\ ctxFd[sctx[s]] = fd[h] /\ ~Final(sctx[s])
       /\ \/ s \in opened
          \/ \E t \in Threads : /\ op[t] = "close" /\ tses[t] = s
                                /\ pc[t] \in {"get", "closeRemove"}

QInv == Roles /\ SesCalls /\ InUse /\ OneContext /\ SesOf

\* Start(t) and Step(t) are steps of t.
LEMMA StepRest ==
    ASSUME IInv, NEW t \in Threads, Start(t) \/ Step(t)
    PROVE  Rest(t)
<1> USE DEF IInv, TypeOK, Rest, Call, Goto, SameCall, Leave, cvars, svars
<1>1. CASE Start(t)
  BY <1>1 DEF Start, InitializeContext, FinalizeContext, OpenSession, CloseSession,
              InvokeCommand, RequestCancellation
<1>2. ASSUME Return(t) PROVE Rest(t)
  BY <1>2, ReturnRest
<1>3. CASE GetBnContext(t)
  <2>1. CASE Return(t)
    BY <2>1, <1>2
  <2>2. CASE \E h \in FindBnContext(tctx[t]) :
                 /\ AtomInc(h) /\ th' = [th EXCEPT ![t] = h]
                 /\ Goto(t, CASE op[t] = "open"   -> "openIoctl"
                              [] op[t] = "close"  -> "closeRemove"
                              [] op[t] = "invoke" -> "invokeEncode"
                              [] op[t] = "cancel" -> "put")
                 /\ SameCall /\ UNCHANGED tsid
    BY <2>2
  <2> QED BY <1>3, <2>1, <2>2 DEF GetBnContext
<1>4. CASE PutBnContext(t)
  BY <1>2, <1>4 DEF PutBnContext
<1>5. CASE FinalizeFree(t)
  BY <1>2, <1>5 DEF FinalizeFree
<1>6. CASE InitializeInsert(t) \/ InitializePublish(t) \/ FinalizeClearFd(t)
  BY <1>6 DEF InitializeInsert, InitializePublish, FinalizeClearFd
<1>7. CASE \E s \in Sessions : FinalizeCloseSession(t, s)
  BY <1>7 DEF FinalizeCloseSession
<1>8. CASE OpenIoctl(t)
  BY <1>8 DEF OpenIoctl
<1>9. CASE AddSessionList(t) \/ FindAndRemoveSession(t) \/ CloseIoctl(t)
  BY <1>9 DEF AddSessionList, FindAndRemoveSession, CloseIoctl
<1>10. CASE CloseClear(t) \/ InvokeEncode(t) \/ InvokeIoctl(t) \/ CancelIoctl(t)
  BY <1>10 DEF CloseClear, InvokeEncode, InvokeIoctl, CancelIoctl
<1> QED BY <1>1, <1>3, <1>4, <1>5, <1>6, <1>7, <1>8, <1>9, <1>10 DEF Step

\* What a call that goes on, ends or begins does to the roles.
LEMMA RolesGoOn ==
    ASSUME Roles, NEW t \in Threads, Rest(t),
           op'[t] = op[t], tctx'[t] = tctx[t], tses'[t] = tses[t],
           pc[t] # "idle", pc'[t] # "idle",
           pc'[t] \in {"insert", "publish"} => op[t] = "init",
           pc'[t] \in {"drain", "clearFd"} => op[t] = "finalize",
           pc'[t] \in {"invokeEncode", "invokeIoctl"} => op[t] = "invoke",
           pc'[t] \in {"cancelIoctl", "fault"} => op[t] = "cancel"
    PROVE  Roles'
  BY DEF Roles, Rest

LEMMA RolesEnd ==
    ASSUME Roles, NEW t \in Threads, Rest(t),
           pc'[t] = "idle", op'[t] = "none", tctx'[t] = Nil, tses'[t] = Nil
    PROVE  Roles'
  BY DEF Roles, Rest

LEMMA RolesBegin ==
    ASSUME Roles, NEW t \in Threads, Rest(t),
           NEW o \in Ops \ {"none"}, NEW c \in Contexts, NEW s \in Sessions \cup {Nil},
           pc'[t] \in {"get", "insert", "put", "clearFd"},
           op'[t] = o, tctx'[t] = c, tses'[t] = s,
           s = Nil <=> o \in {"init", "finalize"},
           pc'[t] = "insert" => o = "init",
           pc'[t] = "clearFd" => o = "finalize",
           \A u \in Threads \ {t} : /\ op[u] \in {"init", "finalize"} => tctx[u] # c
                                    /\ op[u] \in {"open", "close"} => tses[u] # s
                                    /\ o \in {"init", "finalize"} => tctx[u] # c
                                    /\ o \in {"open", "close"} => tses[u] # s
    PROVE  Roles'
<1>1. c # Nil
  BY ContextAssumption
<1> QED BY <1>1 DEF Roles, Rest, Ops

\* A step in the middle or at the end of a call that leaves the list, the
\* client's structures and what the lists name alone.
LEMMA QKeep ==
    ASSUME IInv, FdOwnership, SInv, QInv, NEW t \in Threads, Rest(t), Roles',
           UNCHANGED <<ctxFd, list, slist, sctx, opened>>,
           \A h \in live : fd'[h] = fd[h] \/ (h \notin list /\ \A u \in Threads \ {t} : th[u] # h),
           \/ op'[t] = op[t] /\ tctx'[t] = tctx[t] /\ tses'[t] = tses[t]
           \/ op[t] # "finalize" /\ op'[t] = "none",
           pc'[t] \notin {"insert", "publish"},
           pc'[t] \in HoldPcs /\ op'[t] # "finalize" =>
              th'[t] \in list /\ fd[th'[t]] = ctxFd[tctx'[t]],
           pc'[t] \in {"put", "drain"} /\ op'[t] = "finalize" =>
              pc[t] \in {"put", "drain"} /\ th'[t] = th[t],
           op'[t] = "close" /\ pc'[t] # "put" => pc[t] # "put",
           op[t] = "close" /\ pc[t] \in {"get", "closeRemove"} =>
              \/ op'[t] = "close" /\ pc'[t] \in {"get", "closeRemove"}
              \/ \A h \in list : tses[t] \notin slist[h]
    PROVE  QInv'
<1>1. \A c : Final(c)' <=> Final(c)
  BY DEF Final, Rest
<1>2. \A h \in list : fd'[h] = fd[h]
  BY DEF IInv, Own
<1>3. SesCalls'
  BY DEF QInv, SesCalls, Rest
<1>4. InUse'
  <2>1. ASSUME NEW u \in Threads, u # t, pc[u] \in {"insert", "publish"}
        PROVE  fd'[th[u]] = fd[th[u]]
    BY <2>1 DEF IInv, Own, Pointers, HandlePcs, HoldPcs
  <2> SUFFICES ASSUME NEW u \in Threads
      PROVE  /\ pc'[u] \in {"insert", "publish"} =>
                   /\ ctxFd'[tctx'[u]] = NoFd /\ slist'[th'[u]] = {}
                   /\ \A d \in Contexts : ctxFd'[d] = fd'[th'[u]] => Final(d)
                   /\ \A v \in Threads \ {u} :
                         pc'[v] \in {"insert", "publish"} => th'[v] # th'[u]
             /\ pc'[u] = "publish" => th'[u] \in list'
             /\ pc'[u] \in HoldPcs \ {"insert", "publish"} /\ op'[u] # "finalize" =>
                   th'[u] \in list' /\ fd'[th'[u]] = ctxFd'[tctx'[u]]
             /\ pc'[u] \in {"put", "drain"} /\ op'[u] = "finalize" =>
                   th'[u] \notin list' /\ \A s \in slist'[th'[u]] : sctx'[s] = tctx'[u]
    BY <1>1 DEF InUse
  <2>2. CASE u = t
    BY <1>2, <2>2 DEF QInv, InUse
  <2>3. CASE u # t
    BY <1>2, <2>1, <2>3 DEF QInv, InUse, Rest
  <2> QED BY <2>2, <2>3
<1>5. OneContext'
  BY <1>1, <1>2 DEF QInv, OneContext
<1>6. SesOf'
  <2> SUFFICES ASSUME NEW h \in list, NEW s \in slist[h]
      PROVE  /\ sctx[s] # Nil /\ ctxFd[sctx[s]] = fd'[h] /\ ~Final(sctx[s])
             /\ \/ s \in opened
                \/ \E u \in Threads : /\ op'[u] = "close" /\ tses'[u] = s
                                      /\ pc'[u] \in {"get", "closeRemove"}
    BY <1>1 DEF SesOf
  <2>1. sctx[s] # Nil /\ ctxFd[sctx[s]] = fd'[h] /\ ~Final(sctx[s])
    BY <1>2 DEF QInv, SesOf
  <2>2. CASE s \in opened
    BY <2>1, <2>2
  <2>3. ASSUME NEW u \in Threads, op[u] = "close", tses[u] = s,
               pc[u] \in {"get", "closeRemove"}
        PROVE  op'[u] = "close" /\ tses'[u] = s /\ pc'[u] \in {"get", "closeRemove"}
    <3>1. CASE u = t
      BY <2>3, <3>1
    <3>2. CASE u # t
      BY <2>3, <3>2 DEF Rest
    <3> QED BY <3>1, <3>2
  <2> QED BY <2>1, <2>2, <2>3 DEF QInv, SesOf
<1> QED BY <1>3, <1>4, <1>5, <1>6 DEF QInv

\* The object of a call is found while its context is in use.
LEMMA FoundInUse ==
    ASSUME IInv, QInv, NEW t \in Threads, op[t] \in {"open", "close", "invoke", "cancel"},
           NEW h \in list, NEW s \in slist[h], tses[t] = s, sctx[s] = tctx[t]
    PROVE  h \in FindBnContext(tctx[t])
  BY DEF QInv, SesOf, FindBnContext

\* The steps of a call that leave everything shared alone.
LEMMA QuietQInv ==
    ASSUME IInv, FdOwnership, SInv, QInv, NEW t \in Threads, UNCHANGED free,
           \/ GetBnContext(t) \/ PutBnContext(t) \/ FinalizeFree(t)
           \/ OpenIoctl(t) \/ CloseIoctl(t)
           \/ InvokeEncode(t) \/ InvokeIoctl(t) \/ CancelIoctl(t)
    PROVE  QInv'
<1> USE DEF cvars, svars
<1>0. Rest(t)
  BY StepRest DEF Step
<1>a. /\ pc[t] = "get" => op[t] \in {"open", "close", "invoke", "cancel"}
      /\ pc[t] \in {"openIoctl", "openAdd"} => op[t] = "open"
      /\ pc[t] \in {"closeRemove", "closeIoctl", "closeClear"} => op[t] = "close"
  BY DEF IInv, Locals, SInv, Calls
<1>1. ASSUME UNCHANGED <<ctxFd, list, slist, sctx, opened>>,
             \A h \in live : fd'[h] = fd[h] \/ (h \notin list /\ \A u \in Threads \ {t} : th[u] # h),
             pc[t] \in {"get", "put", "drain"}, th'[t] = Nil,
             \/ pc'[t] = "idle" /\ op'[t] = "none" /\ tctx'[t] = Nil /\ tses'[t] = Nil
             \/ /\ op'[t] = op[t] /\ tctx'[t] = tctx[t] /\ tses'[t] = tses[t]
                /\ pc'[t] \in AfterPut(t) \ {"idle"},
             op[t] = "finalize" => pc'[t] # "idle",
             pc[t] = "get" => FindBnContext(tctx[t]) = {}
      PROVE  QInv'
  <2>1. \/ pc'[t] = "idle"
        \/ pc'[t] = "clearFd" /\ op[t] = "finalize"
        \/ pc'[t] = "cancelIoctl" /\ op[t] = "cancel"
    BY <1>1 DEF AfterPut
  <2>2. Roles'
    BY <1>0, <1>1, <2>1, RolesGoOn, RolesEnd DEF QInv
  <2>3. op[t] = "close" /\ pc[t] \in {"get", "closeRemove"} =>
           \A h \in list : tses[t] \notin slist[h]
    BY <1>1, FoundInUse DEF QInv, SesCalls
  <2> QED BY <1>0, <1>1, <2>1, <2>2, <2>3, QKeep DEF HoldPcs
<1>2. ASSUME NEW loc, Goto(t, loc), SameCall, UNCHANGED <<ctxFd, list, slist, sctx, opened, fd, th>>,
             pc[t] \in HoldPcs \ {"insert", "publish", "closeRemove", "put"},
             loc \in {"put", "openAdd", "closeClear", "invokeIoctl"},
             op[t] # "finalize",
             loc = "invokeIoctl" => op[t] = "invoke"
      PROVE  QInv'
  <2>1. /\ pc'[t] = loc /\ op'[t] = op[t] /\ tctx'[t] = tctx[t] /\ tses'[t] = tses[t]
    BY <1>2 DEF Goto, SameCall, IInv, TypeOK
  <2>2. Roles'
    BY <1>0, <1>2, <2>1, RolesGoOn DEF QInv, HoldPcs
  <2>3. th[t] \in list /\ fd[th[t]] = ctxFd[tctx[t]]
    BY <1>2 DEF QInv, InUse
  <2> QED BY <1>0, <1>2, <2>1, <2>2, <2>3, QKeep DEF HoldPcs
<1>3. op[t] = "finalize" => "idle" \notin AfterPut(t)
  BY DEF AfterPut
<1>4. ASSUME Return(t)
      PROVE  /\ th'[t] = Nil
             /\ \/ pc'[t] = "idle" /\ op'[t] = "none" /\ tctx'[t] = Nil /\ tses'[t] = Nil
                \/ /\ op'[t] = op[t] /\ tctx'[t] = tctx[t] /\ tses'[t] = tses[t]
                   /\ pc'[t] \in AfterPut(t) \ {"idle"}
             /\ op[t] = "finalize" => pc'[t] # "idle"
  <2>1. op[t] = "finalize" => \E loc \in AfterPut(t) \ {"idle"} : pc' = [pc EXCEPT ![t] = loc]
    BY <1>3, <1>4 DEF Return, Goto
  <2>2. op[t] = "finalize" => pc'[t] # "idle"
    BY <2>1 DEF IInv, TypeOK
  <2> QED BY <1>4, <2>2, ReturnRest DEF IInv
<1>5. CASE GetBnContext(t)
  <2>1. pc[t] = "get" /\ UNCHANGED <<ctxFd, list, slist, sctx, opened, fd>>
    BY <1>5 DEF GetBnContext
  <2>2. CASE Return(t) /\ FindBnContext(tctx[t]) = {}
    BY <2>1, <2>2, <1>1, <1>4
  <2>3. CASE \E h \in FindBnContext(tctx[t]) :
                 /\ AtomInc(h) /\ th' = [th EXCEPT ![t] = h]
                 /\ Goto(t, CASE op[t] = "open"   -> "openIoctl"
                              [] op[t] = "close"  -> "closeRemove"
                              [] op[t] = "invoke" -> "invokeEncode"
                              [] op[t] = "cancel" -> "put")
                 /\ SameCall /\ UNCHANGED tsid
    <3>1. PICK h \in list : /\ fd[h] = ctxFd[tctx[t]]
                            /\ th' = [th EXCEPT ![t] = h]
      BY <2>3 DEF FindBnContext
    <3>2. /\ op[t] \in {"open", "close", "invoke", "cancel"}
          /\ op'[t] = op[t] /\ tctx'[t] = tctx[t] /\ tses'[t] = tses[t]
          /\ th'[t] = h
      BY <1>a, <2>1, <2>3, <3>1 DEF SameCall, IInv, TypeOK
    <3>3. \/ op[t] = "open" /\ pc'[t] = "openIoctl"
          \/ op[t] = "close" /\ pc'[t] = "closeRemove"
          \/ op[t] = "invoke" /\ pc'[t] = "invokeEncode"
          \/ op[t] = "cancel" /\ pc'[t] = "put"
      BY <2>3, <3>2 DEF Goto, IInv, TypeOK
    <3>4. Roles'
      BY <1>0, <2>1, <3>2, <3>3, RolesGoOn DEF QInv
    <3> QED BY <1>0, <2>1, <3>1, <3>2, <3>3, <3>4, QKeep
  <2> QED BY <1>5, <2>2, <2>3 DEF GetBnContext
<1>6. CASE PutBnContext(t)
  <2>1. /\ pc[t] = "put" /\ UNCHANGED <<ctxFd, list, slist, sctx, opened, fd>>
        /\ cnt' = [cnt EXCEPT ![th[t]] = @ - 1]
    BY <1>6 DEF PutBnContext
  <2>2. CASE Return(t)
    BY <2>1, <2>2, <1>1, <1>4
  <2>3. CASE cnt[th[t]] = 1 /\ Goto(t, "drain") /\ SameCall /\ UNCHANGED <<th, tsid>>
    <3>1. /\ pc'[t] = "drain" /\ op'[t] = op[t] /\ tctx'[t] = tctx[t]
          /\ tses'[t] = tses[t] /\ th'[t] = th[t]
      BY <2>3 DEF Goto, SameCall, IInv, TypeOK
    <3>2. th[t] \notin list
      <4>1. th[t] \in live /\ t \in Holders(th[t])
        BY <2>1 DEF IInv, Own, Pointers, HandlePcs, HoldPcs, Holders
      <4>2. cnt[th[t]] = ListRef(th[t]) + Cardinality(Holders(th[t]))
        BY <4>1 DEF IInv, Own, CountExact
      <4>3. Cardinality(Holders(th[t])) >= 1 /\ Cardinality(Holders(th[t])) \in Nat
        BY <4>1, HoldersOne, HoldersFinite
      <4> QED BY <2>3, <4>2, <4>3 DEF ListRef
    <3>3. op[t] = "finalize"
      BY <2>1, <3>2 DEF QInv, InUse, HoldPcs
    <3>4. Roles'
      BY <1>0, <2>1, <3>1, <3>3, RolesGoOn DEF QInv
    <3> QED BY <1>0, <2>1, <3>1, <3>3, <3>4, QKeep
  <2> QED BY <1>6, <2>2, <2>3 DEF PutBnContext, DecToZero
<1>7. CASE FinalizeFree(t)
  <2>1. /\ pc[t] = "drain" /\ Return(t) /\ fd' = [fd EXCEPT ![th[t]] = NoFd]
        /\ UNCHANGED <<ctxFd, list, slist, sctx, opened>>
    BY <1>7 DEF FinalizeFree
  <2>2. \A h \in live : fd'[h] = fd[h] \/ (h \notin list /\ \A u \in Threads \ {t} : th[u] # h)
    BY <2>1 DEF IInv, TypeOK, Own, Exclusive
  <2> QED BY <2>1, <2>2, <1>1, <1>4
<1>8. CASE OpenIoctl(t)
  BY <1>8, <1>2, <1>a DEF OpenIoctl, HoldPcs
<1>9. CASE CloseIoctl(t)
  BY <1>9, <1>2, <1>a DEF CloseIoctl, HoldPcs
<1>10. CASE InvokeEncode(t)
  <2>1. op[t] = "invoke"
    BY <1>10 DEF InvokeEncode, QInv, Roles
  <2> QED BY <1>10, <2>1, <1>2 DEF InvokeEncode, HoldPcs
<1>11. CASE InvokeIoctl(t)
  <2>1. op[t] = "invoke" /\ sctx[tses[t]] = tctx[t]
    BY <1>11 DEF InvokeIoctl, QInv, Roles, SesCalls
  <2>2. sctx' = sctx
    BY <1>11, <2>1 DEF InvokeIoctl, IInv, TypeOK
  <2> QED BY <1>11, <2>1, <2>2, <1>2 DEF InvokeIoctl, HoldPcs
<1>12. CASE CancelIoctl(t)
  <2>1. /\ pc[t] = "cancelIoctl" /\ op[t] = "cancel" /\ tctx[t] # Nil
        /\ sctx[tses[t]] = tctx[t]
        /\ UNCHANGED <<ctxFd, list, slist, sctx, opened, fd>>
    BY <1>12 DEF CancelIoctl, QInv, Roles, SesCalls
  <2>2. Leave(t)
    BY <1>12, <2>1 DEF CancelIoctl
  <2>3. pc'[t] = "idle" /\ op'[t] = "none" /\ tctx'[t] = Nil /\ tses'[t] = Nil
    BY <2>2 DEF Leave, IInv, TypeOK
  <2>4. Roles'
    BY <1>0, <2>3, RolesEnd DEF QInv
  <2> QED BY <1>0, <2>1, <2>3, <2>4, QKeep DEF HoldPcs
<1> QED BY <1>5, <1>6, <1>7, <1>8, <1>9, <1>10, <1>11, <1>12

\* What the client's threads are busy with, in terms of the roles.
LEMMA BusyRoles ==
    ASSUME QInv, NEW u \in Threads
    PROVE  /\ \A c \in Contexts : tctx[u] = c => BusyOn(u, c)
           /\ \A s \in Sessions : tses[u] = s => BusyWith(u, s)
  BY ContextAssumption DEF QInv, Roles, BusyOn, BusyWith

\* A call begins, seen from the roles.
LEMMA CallRoles ==
    ASSUME IInv, NEW t \in Threads, NEW o, NEW c, NEW s, NEW loc, Call(t, o, c, s, loc)
    PROVE  /\ pc[t] = "idle" /\ pc'[t] = loc
           /\ op'[t] = o /\ tctx'[t] = c /\ tses'[t] = s
  BY DEF Call, IInv, TypeOK

\* A call on a session begins.
LEMMA UseQInv ==
    ASSUME IInv, SInv, QInv, ~free, NEW t \in Threads, Rest(t),
           NEW o \in {"open", "close", "invoke", "cancel"},
           NEW c \in Contexts, NEW s \in Sessions, Call(t, o, c, s, "get"),
           UNCHANGED <<ctxFd, list, fd, slist, th>>,
           MayUse(c),
           sctx'[s] = c, \A r \in Sessions \ {s} : sctx'[r] = sctx[r],
           sctx' = sctx \/ (~Listed(s) /\ o = "open"),
           opened' = opened \/ (o = "close" /\ opened' = opened \ {s}),
           \A u \in Threads : BusyWith(u, s) =>
              op[u] \notin {"open", "close"} /\ o \notin {"open", "close"}
    PROVE  QInv'
<1>0. /\ pc[t] = "idle" /\ pc'[t] = "get"
      /\ op'[t] = o /\ tctx'[t] = c /\ tses'[t] = s
      /\ op[t] = "none"
  BY CallRoles DEF QInv, Roles
<1>1. \A u \in Threads : tctx[u] = c => op[u] \notin {"init", "finalize"}
  BY BusyRoles DEF MayUse
<1>2. \A u \in Threads : tses[u] = s =>
         op[u] \notin {"open", "close"} /\ o \notin {"open", "close"}
  BY BusyRoles
<1>3. Roles'
  <2>1. s # Nil
    BY ContextAssumption
  <2> QED BY <1>0, <1>1, <1>2, <2>1, RolesBegin DEF QInv, Ops
<1>4. \A d : Final(d)' <=> Final(d)
  BY <1>0 DEF Final, Rest
<1>5. SesCalls'
  <2> SUFFICES ASSUME NEW u \in Threads
      PROVE  /\ op'[u] \in {"open", "invoke", "cancel"} => sctx'[tses'[u]] = tctx'[u]
             /\ op'[u] = "close" /\ pc'[u] # "put" => sctx'[tses'[u]] = tctx'[u]
    BY DEF SesCalls
  <2>1. CASE u = t
    BY <1>0, <2>1
  <2>2. CASE u # t /\ sctx' = sctx
    BY <2>2 DEF QInv, SesCalls, Rest
  <2>3. CASE u # t /\ o = "open"
    <3>1. op[u] \in {"open", "close", "invoke", "cancel"} =>
             tses[u] \in Sessions /\ tses[u] # s
      BY <1>2, <2>3 DEF QInv, Roles, IInv, TypeOK
    <3> QED BY <2>3, <3>1 DEF QInv, SesCalls, Rest
  <2> QED BY <2>1, <2>2, <2>3
<1>6. \A h \in Handles : \A r \in slist[h] : sctx'[r] = sctx[r]
  BY DEF Listed, IInv, TypeOK
<1>7. InUse'
  <2>1. \A u \in Threads : pc[u] \in {"put", "drain"} => th[u] \in Handles
    BY DEF IInv, TypeOK, Own, Pointers, HandlePcs, HoldPcs
  <2> QED BY <1>0, <1>4, <1>6, <2>1 DEF QInv, InUse, Rest, HoldPcs
<1>8. OneContext'
  BY <1>4 DEF QInv, OneContext
<1>9. SesOf'
  <2> SUFFICES ASSUME NEW h \in list, NEW r \in slist[h]
      PROVE  /\ sctx'[r] # Nil /\ ctxFd[sctx'[r]] = fd[h] /\ ~Final(sctx'[r])
             /\ \/ r \in opened'
                \/ \E u \in Threads : /\ op'[u] = "close" /\ tses'[u] = r
                                      /\ pc'[u] \in {"get", "closeRemove"}
    BY <1>4 DEF SesOf
  <2>1. sctx'[r] # Nil /\ ctxFd[sctx'[r]] = fd[h] /\ ~Final(sctx'[r])
    BY <1>6 DEF QInv, SesOf, IInv, TypeOK
  <2>2. CASE r = s /\ o = "close"
    BY <1>0, <2>1, <2>2
  <2>3. CASE r \in opened /\ ~(r = s /\ o = "close")
    BY <2>1, <2>3
  <2>4. ASSUME NEW u \in Threads, op[u] = "close", tses[u] = r,
               pc[u] \in {"get", "closeRemove"}
        PROVE  op'[u] = "close" /\ tses'[u] = r /\ pc'[u] \in {"get", "closeRemove"}
    BY <1>0, <2>4 DEF Rest
  <2> QED BY <2>1, <2>2, <2>3, <2>4 DEF QInv, SesOf
<1> QED BY <1>3, <1>5, <1>7, <1>8, <1>9 DEF QInv

\* TEEC_FinalizeContext: the object is found, and its sessions are the context's.
LEMMA FinalizeQInv ==
    ASSUME IInv, FdOwnership, SInv, QInv, ~free, NEW t \in Threads, Rest(t),
           NEW c \in Contexts, FinalizeContext(t, c)
    PROVE  QInv'
<1>1. ctxFd[c] # NoFd /\ \A u \in Threads : tctx[u] # c
  BY BusyRoles DEF FinalizeContext, MayFinalize
<1>2. ~Final(c)
  BY <1>1 DEF Final
<1>3. /\ \E h \in list : fd[h] = ctxFd[c]
      /\ \A d \in Contexts : ctxFd[d] = ctxFd[c] /\ ~Final(d) => d = c
  BY <1>1, <1>2 DEF QInv, OneContext
<1>4. PICK h \in list : /\ fd[h] = ctxFd[c] /\ list' = list \ {h}
                        /\ th' = [th EXCEPT ![t] = h]
                        /\ Call(t, "finalize", c, Nil, "put")
  BY <1>3 DEF FinalizeContext, FindBnContext
<1>5. /\ pc[t] = "idle" /\ pc'[t] = "put" /\ th'[t] = h
      /\ op'[t] = "finalize" /\ tctx'[t] = c /\ tses'[t] = Nil
      /\ op[t] = "none"
  BY <1>4, CallRoles DEF QInv, Roles, IInv, TypeOK
<1>6. /\ UNCHANGED <<ctxFd, fd, slist, sctx>>
      /\ opened' = opened \ {s \in Sessions : sctx[s] = c}
  BY DEF FinalizeContext
<1>7. Roles'
  <2>1. \A u \in Threads \ {t} : op[u] \in {"open", "close"} => tses[u] # Nil
    BY DEF QInv, Roles
  <2> QED BY <1>1, <1>5, <2>1, RolesBegin DEF QInv, Ops
<1>8. \A d : Final(d)' <=> (Final(d) \/ d = c)
  BY <1>5 DEF Final, Rest
<1>9. SesCalls'
  BY <1>5, <1>6 DEF QInv, SesCalls, Rest
<1>10. \A d \in Contexts : ctxFd[d] = fd[h] => d = c \/ Final(d)
  BY <1>3, <1>4
<1>11. \A s \in slist[h] : sctx[s] = c
  BY <1>4, <1>10 DEF QInv, SesOf, IInv, TypeOK
<1>12. InUse'
  <2> SUFFICES ASSUME NEW u \in Threads
      PROVE  /\ pc'[u] \in {"insert", "publish"} =>
                   /\ ctxFd'[tctx'[u]] = NoFd /\ slist'[th'[u]] = {}
                   /\ \A d \in Contexts : ctxFd'[d] = fd'[th'[u]] => Final(d)'
                   /\ \A v \in Threads \ {u} :
                         pc'[v] \in {"insert", "publish"} => th'[v] # th'[u]
             /\ pc'[u] = "publish" => th'[u] \in list'
             /\ pc'[u] \in HoldPcs \ {"insert", "publish"} /\ op'[u] # "finalize" =>
                   th'[u] \in list' /\ fd'[th'[u]] = ctxFd'[tctx'[u]]
             /\ pc'[u] \in {"put", "drain"} /\ op'[u] = "finalize" =>
                   th'[u] \notin list' /\ \A s \in slist'[th'[u]] : sctx'[s] = tctx'[u]
    BY DEF InUse
  <2>1. CASE u = t
    BY <1>4, <1>5, <1>6, <1>11, <2>1
  <2>2. CASE u # t
    <3>1. pc[u] \in HoldPcs \ {"insert", "publish"} /\ op[u] # "finalize" => th[u] # h
      <4>1. SUFFICES ASSUME pc[u] \in HoldPcs \ {"insert", "publish"}, op[u] # "finalize",
                            th[u] = h
                     PROVE  FALSE
        OBVIOUS
      <4>2. ctxFd[tctx[u]] = fd[h] /\ tctx[u] # Nil /\ tctx[u] \in Contexts
        BY <4>1 DEF QInv, InUse, Roles, HoldPcs, IInv, TypeOK
      <4>3. Final(tctx[u])
        BY <1>1, <1>10, <4>2
      <4> QED BY <4>1, <4>3 DEF Final, QInv, Roles
    <3>2. pc[u] = "publish" => th[u] # h
      BY <1>2, <1>4 DEF QInv, InUse
    <3> QED BY <1>4, <1>5, <1>6, <1>8, <2>2, <3>1, <3>2 DEF QInv, InUse, Rest
  <2> QED BY <2>1, <2>2
<1>13. OneContext'
  BY <1>4, <1>6, <1>8, <1>10 DEF QInv, OneContext
<1>14. SesOf'
  <2> SUFFICES ASSUME NEW g \in list, g # h, NEW r \in slist[g]
      PROVE  /\ sctx[r] # Nil /\ ctxFd[sctx[r]] = fd[g] /\ ~Final(sctx[r])'
             /\ \/ r \in opened'
                \/ \E u \in Threads : /\ op'[u] = "close" /\ tses'[u] = r
                                      /\ pc'[u] \in {"get", "closeRemove"}
    BY <1>4, <1>6 DEF SesOf
  <2>1. sctx[r] # Nil /\ ctxFd[sctx[r]] = fd[g] /\ ~Final(sctx[r])
    BY DEF QInv, SesOf
  <2>2. sctx[r] # c
    BY <1>4, <2>1 DEF FdOwnership, IInv, Own
  <2>3. ASSUME NEW u \in Threads, op[u] = "close", tses[u] = r,
               pc[u] \in {"get", "closeRemove"}
        PROVE  op'[u] = "close" /\ tses'[u] = r /\ pc'[u] \in {"get", "closeRemove"}
    BY <1>5, <2>3 DEF Rest
  <2> QED BY <1>6, <1>8, <2>1, <2>2, <2>3 DEF QInv, SesOf
<1> QED BY <1>7, <1>9, <1>12, <1>13, <1>14 DEF QInv

\* TEEC_InitializeContext: nobody knows the new object's descriptor.
LEMMA InitializeQInv ==
    ASSUME IInv, FdOwnership, SInv, QInv, NEW t \in Threads, Rest(t),
           NEW c \in Contexts, InitializeContext(t, c)
    PROVE  QInv'
<1>1. PICK h \in Handles \ live, f \in Fds \ openFds :
          /\ fd' = [fd EXCEPT ![h] = f]
          /\ slist' = [slist EXCEPT ![h] = {}]
          /\ th' = [th EXCEPT ![t] = h]
  BY DEF InitializeContext
<1>2. /\ UNCHANGED <<ctxFd, list, sctx, opened>>
      /\ ctxFd[c] = NoFd /\ \A u \in Threads : tctx[u] # c
      /\ Call(t, "init", c, Nil, "insert")
  BY BusyRoles DEF InitializeContext
<1>3. /\ pc[t] = "idle" /\ pc'[t] = "insert" /\ op[t] = "none"
      /\ op'[t] = "init" /\ tctx'[t] = c /\ tses'[t] = Nil
  BY <1>2, CallRoles DEF QInv, Roles
<1>4. Roles'
  <2>1. \A u \in Threads \ {t} : op[u] \in {"open", "close"} => tses[u] # Nil
    BY DEF QInv, Roles
  <2> QED BY <1>2, <1>3, <2>1, RolesBegin DEF QInv, Ops
<1>5. /\ slist' = slist /\ slist[h] = {} /\ h \notin list
      /\ fd'[h] = f /\ th'[t] = h
      /\ \A g \in live : fd'[g] = fd[g] /\ g # h
  BY <1>1 DEF IInv, TypeOK, Own, SInv, Through
<1>6. \A d : Final(d)' <=> Final(d)
  BY <1>3 DEF Final, Rest
<1>7. \A d \in Contexts : ctxFd[d] = f => Final(d)
  <2>1. f # NoFd
    BY <1>1, ContextAssumption DEF NoFd
  <2> QED BY <1>1, <2>1 DEF QInv, OneContext, FdOwnership, IInv, Own
<1>8. SesCalls'
  BY <1>2, <1>3 DEF QInv, SesCalls, Rest
<1>9. InUse'
  <2>1. \A u \in Threads \ {t} : pc[u] \in HandlePcs => th[u] \in live
    BY DEF IInv, Own, Pointers
  <2>2. ASSUME NEW u \in Threads \ {t}, pc[u] \in HandlePcs
        PROVE  th'[u] = th[u] /\ th[u] # h /\ fd'[th[u]] = fd[th[u]]
    BY <1>5, <2>1, <2>2 DEF Rest
  <2> SUFFICES ASSUME NEW u \in Threads
      PROVE  /\ pc'[u] \in {"insert", "publish"} =>
                   /\ ctxFd'[tctx'[u]] = NoFd /\ slist'[th'[u]] = {}
                   /\ \A d \in Contexts : ctxFd'[d] = fd'[th'[u]] => Final(d)'
                   /\ \A v \in Threads \ {u} :
                         pc'[v] \in {"insert", "publish"} => th'[v] # th'[u]
             /\ pc'[u] = "publish" => th'[u] \in list'
             /\ pc'[u] \in HoldPcs \ {"insert", "publish"} /\ op'[u] # "finalize" =>
                   th'[u] \in list' /\ fd'[th'[u]] = ctxFd'[tctx'[u]]
             /\ pc'[u] \in {"put", "drain"} /\ op'[u] = "finalize" =>
                   th'[u] \notin list' /\ \A s \in slist'[th'[u]] : sctx'[s] = tctx'[u]
    BY DEF InUse
  <2>3. CASE u = t
    BY <1>2, <1>3, <1>5, <1>6, <1>7, <2>2, <2>3 DEF Rest, HandlePcs, HoldPcs
  <2>4. CASE u # t
    <3>1. pc'[u] = pc[u] /\ op'[u] = op[u] /\ tctx'[u] = tctx[u] /\ th'[u] = th[u]
      BY <2>4 DEF Rest
    <3>2. CASE pc[u] \in {"insert", "publish"}
      BY <1>2, <1>5, <1>6, <2>2, <2>4, <3>1, <3>2
         DEF QInv, InUse, Rest, HandlePcs, HoldPcs
    <3>3. CASE pc[u] \notin {"insert", "publish"}
      BY <1>2, <1>5, <2>2, <2>4, <3>1, <3>3 DEF QInv, InUse, HandlePcs
    <3> QED BY <3>2, <3>3
  <2> QED BY <2>3, <2>4
<1>10. OneContext' /\ SesOf'
  <2>1. \A g \in list : fd'[g] = fd[g]
    BY <1>5 DEF IInv, Own
  <2>2. OneContext'
    BY <1>2, <1>6, <2>1 DEF QInv, OneContext
  <2>3. ASSUME NEW u \in Threads, op[u] = "close"
        PROVE  op'[u] = op[u] /\ tses'[u] = tses[u] /\ pc'[u] = pc[u]
    BY <1>3, <2>3 DEF Rest
  <2>4. SesOf'
    BY <1>2, <1>5, <1>6, <2>1, <2>3 DEF QInv, SesOf
  <2> QED BY <2>2, <2>4
<1> QED BY <1>4, <1>8, <1>9, <1>10 DEF QInv

\* ... its object is listed
LEMMA InsertQInv ==
    ASSUME IInv, FdOwnership, SInv, QInv, NEW t \in Threads, Rest(t),
           InitializeInsert(t)
    PROVE  QInv'
<1> DEFINE h == th[t]
<1> USE DEF svars
<1>1. /\ pc[t] = "insert" /\ op[t] = "init" /\ pc'[t] = "publish"
      /\ op'[t] = op[t] /\ tctx'[t] = tctx[t] /\ tses'[t] = tses[t]
      /\ list' = list \cup {h} /\ UNCHANGED <<ctxFd, fd, slist, sctx, opened, th>>
  BY DEF InitializeInsert, Goto, SameCall, IInv, TypeOK, QInv, Roles
<1>2. /\ h \notin list /\ \A u \in Threads \ {t} : th[u] # h
      /\ slist[h] = {}
  BY <1>1 DEF IInv, Own, Exclusive, QInv, InUse
<1>3. Roles'
  BY <1>1, RolesGoOn DEF QInv
<1>4. \A d : Final(d)' <=> Final(d)
  BY <1>1 DEF Final, Rest
<1>5. SesCalls'
  BY <1>1 DEF QInv, SesCalls, Rest
<1>6. InUse'
  BY <1>1, <1>2, <1>4 DEF QInv, InUse, Rest
<1>7. OneContext'
  BY <1>1, <1>4 DEF QInv, OneContext
<1>8. SesOf'
  <2>1. ASSUME NEW u \in Threads, op[u] = "close"
        PROVE  op'[u] = op[u] /\ tses'[u] = tses[u] /\ pc'[u] = pc[u]
    BY <1>1, <2>1 DEF Rest
  <2> QED BY <1>1, <1>2, <1>4, <2>1 DEF QInv, SesOf
<1> QED BY <1>3, <1>5, <1>6, <1>7, <1>8 DEF QInv

\* ... and the client's structure names it.
LEMMA PublishQInv ==
    ASSUME IInv, FdOwnership, SInv, QInv, NEW t \in Threads, Rest(t),
           InitializePublish(t)
    PROVE  QInv'
<1> DEFINE h == th[t]
           c == tctx[t]
<1> USE DEF svars
<1>1. /\ pc[t] = "publish" /\ op[t] = "init" /\ pc'[t] = "put"
      /\ op'[t] = op[t] /\ tctx'[t] = tctx[t] /\ tses'[t] = tses[t]
      /\ c \in Contexts /\ ctxFd'[c] = fd[h]
      /\ \A d \in Contexts \ {c} : ctxFd'[d] = ctxFd[d]
      /\ UNCHANGED <<list, fd, slist, sctx, opened, th>>
  BY DEF InitializePublish, Goto, SameCall, IInv, TypeOK, QInv, Roles
<1>2. /\ h \in list /\ h \in live /\ fd[h] # NoFd /\ ctxFd[c] = NoFd
      /\ \A d \in Contexts : ctxFd[d] = fd[h] => Final(d)
      /\ \A u \in Threads \ {t} : tctx[u] # c
      /\ \A g \in live : fd[g] # NoFd
  BY <1>1, ContextAssumption
     DEF QInv, InUse, Roles, IInv, Own, TypeOK, FdOwnership, NoFd
<1>3. Roles'
  BY <1>1, RolesGoOn DEF QInv
<1>4. \A d : Final(d)' <=> Final(d)
  BY <1>1 DEF Final, Rest
<1>5. SesCalls'
  BY <1>1 DEF QInv, SesCalls, Rest
<1>6. InUse'
  <2> SUFFICES ASSUME NEW u \in Threads
      PROVE  /\ pc'[u] \in {"insert", "publish"} =>
                   /\ ctxFd'[tctx'[u]] = NoFd /\ slist'[th'[u]] = {}
                   /\ \A d \in Contexts : ctxFd'[d] = fd'[th'[u]] => Final(d)'
                   /\ \A v \in Threads \ {u} :
                         pc'[v] \in {"insert", "publish"} => th'[v] # th'[u]
             /\ pc'[u] = "publish" => th'[u] \in list'
             /\ pc'[u] \in HoldPcs \ {"insert", "publish"} /\ op'[u] # "finalize" =>
                   th'[u] \in list' /\ fd'[th'[u]] = ctxFd'[tctx'[u]]
             /\ pc'[u] \in {"put", "drain"} /\ op'[u] = "finalize" =>
                   th'[u] \notin list' /\ \A s \in slist'[th'[u]] : sctx'[s] = tctx'[u]
    BY DEF InUse
  <2>1. CASE u = t
    BY <1>1, <1>2, <2>1
  <2>2. CASE u # t
    <3>1. /\ pc'[u] = pc[u] /\ op'[u] = op[u] /\ tctx'[u] = tctx[u] /\ th'[u] = th[u]
          /\ tctx[u] # c
      BY <1>2, <2>2 DEF Rest
    <3>2. CASE pc[u] \in {"insert", "publish"}
      <4>1. th[u] \in live /\ th[u] # h /\ tctx[u] \in Contexts
        BY <1>1, <2>2, <3>2 DEF QInv, InUse, Roles, IInv, TypeOK, Own, Pointers,
                                HandlePcs, HoldPcs
      <4>2. fd[th[u]] # fd[h]
        BY <1>2, <4>1 DEF FdOwnership
      <4>3. ctxFd'[tctx[u]] = NoFd /\ slist[th[u]] = {}
        BY <1>1, <3>1, <3>2, <4>1 DEF QInv, InUse
      <4>4. \A d \in Contexts : ctxFd'[d] = fd[th[u]] => Final(d)
        BY <1>1, <3>2, <4>2 DEF QInv, InUse
      <4>5. \A v \in Threads \ {u} :
               pc'[v] \in {"insert", "publish"} => th[v] # th[u]
        BY <1>1, <3>2 DEF QInv, InUse, Rest
      <4>6. pc[u] = "publish" => th[u] \in list
        BY DEF QInv, InUse
      <4> QED BY <1>1, <1>4, <3>1, <3>2, <4>3, <4>4, <4>5, <4>6
    <3>3. CASE pc[u] \notin {"insert", "publish"}
      <4>1. pc[u] \in HoldPcs => tctx[u] \in Contexts
        BY DEF QInv, Roles, IInv, TypeOK, HoldPcs
      <4> QED BY <1>1, <3>1, <3>3, <4>1 DEF QInv, InUse
    <3> QED BY <3>2, <3>3
  <2> QED BY <2>1, <2>2
<1>7. OneContext'
  BY <1>1, <1>2, <1>4 DEF QInv, OneContext
<1>8. SesOf'
  <2>1. ASSUME NEW u \in Threads, op[u] = "close"
        PROVE  op'[u] = op[u] /\ tses'[u] = tses[u] /\ pc'[u] = pc[u]
    BY <1>1, <2>1 DEF Rest
  <2>2. ASSUME NEW g \in list, NEW s \in slist[g]
        PROVE  sctx[s] \in Contexts /\ sctx[s] # c
    BY <1>2, <2>2 DEF QInv, SesOf, IInv, TypeOK, Own
  <2> QED BY <1>1, <1>4, <2>1, <2>2 DEF QInv, SesOf
<1> QED BY <1>3, <1>5, <1>6, <1>7, <1>8 DEF QInv

\* TEEC_FinalizeContext ends: the client's structure names no descriptor.
LEMMA ClearFdQInv ==
    ASSUME IInv, FdOwnership, SInv, QInv, NEW t \in Threads, Rest(t),
           FinalizeClearFd(t)
    PROVE  QInv'
<1> DEFINE c == tctx[t]
<1> USE DEF svars
<1>1. /\ pc[t] = "clearFd" /\ op[t] = "finalize" /\ c \in Contexts
      /\ pc'[t] = "idle" /\ op'[t] = "none" /\ tctx'[t] = Nil /\ tses'[t] = Nil
      /\ ctxFd'[c] = NoFd /\ \A d \in Contexts \ {c} : ctxFd'[d] = ctxFd[d]
      /\ UNCHANGED <<list, fd, slist, sctx, opened>>
  BY DEF FinalizeClearFd, Leave, IInv, TypeOK, QInv, Roles
<1>2. /\ Final(c) /\ \A u \in Threads \ {t} : tctx[u] # c
      /\ \A g \in live : fd[g] # NoFd
  BY <1>1, ContextAssumption DEF Final, QInv, Roles, FdOwnership, NoFd, IInv, TypeOK
<1>3. Roles'
  BY <1>1, RolesEnd DEF QInv
<1>4. \A d \in Contexts : Final(d)' <=> (Final(d) /\ d # c)
  BY <1>1, <1>2 DEF Final, Rest
<1>5. SesCalls'
  BY <1>1 DEF QInv, SesCalls, Rest
<1>6. \A u \in Threads \ {t} : pc[u] \in HandlePcs => th[u] \in live /\ tctx[u] \in Contexts
  BY DEF IInv, TypeOK, Own, Pointers, QInv, Roles, HandlePcs, HoldPcs
<1>7. InUse'
  <2> SUFFICES ASSUME NEW u \in Threads
      PROVE  /\ pc'[u] \in {"insert", "publish"} =>
                   /\ ctxFd'[tctx'[u]] = NoFd /\ slist'[th'[u]] = {}
                   /\ \A d \in Contexts : ctxFd'[d] = fd'[th'[u]] => Final(d)'
                   /\ \A v \in Threads \ {u} :
                         pc'[v] \in {"insert", "publish"} => th'[v] # th'[u]
             /\ pc'[u] = "publish" => th'[u] \in list'
             /\ pc'[u] \in HoldPcs \ {"insert", "publish"} /\ op'[u] # "finalize" =>
                   th'[u] \in list' /\ fd'[th'[u]] = ctxFd'[tctx'[u]]
             /\ pc'[u] \in {"put", "drain"} /\ op'[u] = "finalize" =>
                   th'[u] \notin list' /\ \A s \in slist'[th'[u]] : sctx'[s] = tctx'[u]
    BY DEF InUse
  <2>1. CASE u = t
    BY <1>1, <2>1 DEF HoldPcs
  <2>2. CASE u # t
    <3>1. /\ pc'[u] = pc[u] /\ op'[u] = op[u] /\ tctx'[u] = tctx[u] /\ th'[u] = th[u]
          /\ tctx[u] # c
      BY <1>2, <2>2 DEF Rest
    <3>2. CASE pc[u] \in {"insert", "publish"}
      <4>1. th[u] \in live /\ tctx[u] \in Contexts
        BY <1>6, <2>2, <3>2 DEF HandlePcs, HoldPcs
      <4>2. ctxFd'[tctx[u]] = NoFd /\ slist[th[u]] = {}
        BY <1>1, <3>1, <3>2, <4>1 DEF QInv, InUse
      <4>3. \A d \in Contexts : ctxFd'[d] = fd[th[u]] => Final(d)'
        BY <1>1, <1>2, <1>4, <3>2, <4>1 DEF QInv, InUse
      <4>4. \A v \in Threads \ {u} :
               pc'[v] \in {"insert", "publish"} => v # t /\ th'[v] # th[u]
        BY <1>1, <3>2 DEF QInv, InUse, Rest
      <4>5. pc[u] = "publish" => th[u] \in list
        BY DEF QInv, InUse
      <4> QED BY <1>1, <3>1, <3>2, <4>2, <4>3, <4>4, <4>5
    <3>3. CASE pc[u] \notin {"insert", "publish"}
      BY <1>1, <1>6, <2>2, <3>1, <3>3 DEF QInv, InUse, HandlePcs
    <3> QED BY <3>2, <3>3
  <2> QED BY <2>1, <2>2
<1>8. OneContext'
  BY <1>1, <1>4 DEF QInv, OneContext
<1>9. SesOf'
  <2>1. ASSUME NEW u \in Threads, op[u] = "close"
        PROVE  op'[u] = op[u] /\ tses'[u] = tses[u] /\ pc'[u] = pc[u]
    BY <1>1, <2>1 DEF Rest
  <2>2. ASSUME NEW g \in list, NEW s \in slist[g]
        PROVE  sctx[s] \in Contexts /\ sctx[s] # c
    BY <1>2, <2>2 DEF QInv, SesOf, IInv, TypeOK
  <2> QED BY <1>1, <1>4, <2>1, <2>2 DEF QInv, SesOf
<1> QED BY <1>3, <1>5, <1>7, <1>8, <1>9 DEF QInv

\* TEEC_FinalizeContextHidl ends a session of the finalized context.
LEMMA DrainQInv ==
    ASSUME IInv, FdOwnership, SInv, QInv, NEW t \in Threads, Rest(t),
           NEW s \in Sessions, FinalizeCloseSession(t, s)
    PROVE  QInv'
<1> DEFINE h == th[t]
<1> USE DEF svars, cvars
<1>1. /\ pc[t] = "drain" /\ op[t] = "finalize" /\ s \in slist[h] /\ h \in Handles
      /\ slist' = [slist EXCEPT ![h] = @ \ {s}]
      /\ \A r \in Sessions \ {s} : sctx'[r] = sctx[r]
      /\ opened' = opened \ {s}
      /\ UNCHANGED <<ctxFd, list, fd, pc, op, tctx, tses, th>>
  BY DEF FinalizeCloseSession, SameCall, IInv, TypeOK, QInv, Roles, Own, Pointers, HandlePcs
<1>2. \A g \in Handles : slist'[g] = slist[g] \ {s}
  <2>1. \A g \in Handles : s \in slist[g] => g = h
    BY <1>1, OneHome
  <2>2. \A g \in Handles \ {h} : slist'[g] = slist[g]
    BY <1>1 DEF IInv, TypeOK
  <2>3. slist'[h] = slist[h] \ {s}
    BY <1>1 DEF IInv, TypeOK
  <2> QED BY <2>1, <2>2, <2>3
<1>3. h \notin list /\ sctx[s] = tctx[t] /\ \A u \in Threads \ {t} : tctx[u] # tctx[t]
  BY <1>1 DEF QInv, InUse, Roles
<1>4. Roles' /\ \A d : Final(d)' <=> Final(d)
  BY <1>1 DEF QInv, Roles, Final
<1>5. SesCalls'
  <2> SUFFICES ASSUME NEW u \in Threads,
                      \/ op[u] \in {"open", "invoke", "cancel"}
                      \/ op[u] = "close" /\ pc[u] # "put"
               PROVE  sctx'[tses[u]] = tctx[u]
    BY <1>1 DEF SesCalls
  <2>1. sctx[tses[u]] = tctx[u] /\ tses[u] \in Sessions /\ u # t
    BY <1>1 DEF QInv, SesCalls, Roles, IInv, TypeOK
  <2>2. tses[u] # s
    BY <1>3, <2>1
  <2> QED BY <1>1, <2>1, <2>2
<1>6. \A g \in Handles : \A r \in slist'[g] : r \in slist[g] /\ r # s /\ sctx'[r] = sctx[r]
  BY <1>1, <1>2 DEF IInv, TypeOK
<1>7. InUse'
  <2>1. \A u \in Threads : pc[u] \in HandlePcs => th[u] \in Handles
    BY DEF IInv, TypeOK, Own, Pointers
  <2> QED BY <1>1, <1>2, <1>4, <1>6, <2>1 DEF QInv, InUse, HandlePcs, HoldPcs
<1>8. OneContext'
  BY <1>1, <1>4 DEF QInv, OneContext
<1>9. SesOf'
  <2>1. list \subseteq Handles
    BY DEF IInv, TypeOK
  <2> QED BY <1>1, <1>4, <1>6, <2>1 DEF QInv, SesOf
<1> QED BY <1>4, <1>5, <1>7, <1>8, <1>9 DEF QInv

\* AddSessionList lists the session with its own context.
LEMMA AddQInv ==
    ASSUME IInv, FdOwnership, SInv, QInv, NEW t \in Threads, Rest(t),
           AddSessionList(t)
    PROVE  QInv'
<1> DEFINE s == tses[t]
           h == th[t]
           c == tctx[t]
<1> USE DEF svars, cvars
<1>1. /\ pc[t] = "openAdd" /\ op[t] = "open" /\ s \in Sessions /\ ~Listed(s)
      /\ pc'[t] = "put" /\ op'[t] = op[t] /\ tctx'[t] = tctx[t] /\ tses'[t] = tses[t]
      /\ h \in list /\ h \in Handles /\ fd[h] = ctxFd[c] /\ c \in Contexts
      /\ sctx[s] = c /\ c # Nil
      /\ UNCHANGED <<ctxFd, list, fd, sctx, th>>
      /\ opened' = opened \cup {s}
  BY ContextAssumption
     DEF AddSessionList, Goto, SameCall, IInv, TypeOK, SInv, Calls, Unlisted,
         QInv, InUse, SesCalls, Roles, HoldPcs
<1>2. /\ slist'[h] = slist[h] \cup {s}
      /\ \A g \in Handles \ {h} : slist'[g] = slist[g]
  BY <1>1 DEF AddSessionList, IInv, TypeOK
<1>3. ~Final(c)
  BY <1>1 DEF Final, QInv, Roles
<1>4. Roles'
  BY <1>1, RolesGoOn DEF QInv
<1>5. \A d : Final(d)' <=> Final(d)
  BY <1>1 DEF Final, Rest
<1>6. SesCalls'
  BY <1>1 DEF QInv, SesCalls, Rest
<1>7. InUse'
  <2>1. ASSUME NEW u \in Threads,
               \/ pc[u] \in {"insert", "publish"}
               \/ pc[u] \in {"put", "drain"} /\ op[u] = "finalize"
        PROVE  slist'[th[u]] = slist[th[u]]
    <3>1. th[u] \in Handles
      BY <2>1 DEF IInv, TypeOK, Own, Pointers, HandlePcs, HoldPcs
    <3>2. th[u] # h
      <4>1. CASE pc[u] = "insert"
        BY <1>1, <4>1 DEF IInv, Own, Exclusive
      <4>2. CASE pc[u] = "publish"
        BY <1>1, <1>3, <4>2 DEF QInv, InUse
      <4>3. CASE pc[u] \in {"put", "drain"} /\ op[u] = "finalize"
        BY <1>1, <4>3 DEF QInv, InUse
      <4> QED BY <2>1, <4>1, <4>2, <4>3
    <3> QED BY <1>2, <3>1, <3>2
  <2>2. \A u \in Threads : u # t => /\ pc'[u] = pc[u] /\ op'[u] = op[u]
                                    /\ tctx'[u] = tctx[u] /\ th'[u] = th[u]
    BY DEF Rest
  <2> QED BY <1>1, <1>5, <2>1, <2>2 DEF QInv, InUse
<1>8. OneContext'
  BY <1>1, <1>5 DEF QInv, OneContext
<1>9. SesOf'
  <2>1. ASSUME NEW u \in Threads, op[u] = "close"
        PROVE  op'[u] = op[u] /\ tses'[u] = tses[u] /\ pc'[u] = pc[u]
    BY <1>1, <2>1 DEF Rest
  <2>2. \A g \in list : \A r \in slist'[g] : r \in slist[g] \/ (r = s /\ g = h)
    BY <1>2 DEF IInv, TypeOK
  <2> QED BY <1>1, <1>3, <1>5, <2>1, <2>2 DEF QInv, SesOf
<1> QED BY <1>4, <1>6, <1>7, <1>8, <1>9 DEF QInv

\* After FindAndRemoveSession the session to close is in no listed object: it
\* was in that of its context, and one with its id was taken off there.
LEMMA RemovedSession ==
    ASSUME IInv, FdOwnership, SInv, QInv, NEW t \in Threads, FindAndRemoveSession(t),
           NEW g \in list, NEW s \in slist'[g], tses[t] = s
    PROVE  FALSE
<1> DEFINE h == th[t]
<1>1. /\ pc[t] = "closeRemove" /\ op[t] = "close" /\ s \in Sessions
      /\ h \in list /\ h \in live /\ h \in Handles /\ fd[h] = ctxFd[tctx[t]]
      /\ sctx[s] = tctx[t]
  BY DEF FindAndRemoveSession, SInv, Calls, QInv, InUse, SesCalls, HoldPcs, IInv, TypeOK, Own
<1>2. /\ g \in Handles /\ g \in live /\ s \in slist[g]
  BY DEF FindAndRemoveSession, IInv, TypeOK, Own
<1>3. g = h
  <2>1. g \in FindBnContext(tctx[t])
    BY <1>1, <1>2, FoundInUse
  <2> QED BY <1>1, <1>2, <2>1 DEF FindBnContext, FdOwnership
<1>4. s \in FindBnSession(s, h)
  BY <1>2, <1>3 DEF FindBnSession
<1>5. PICK r \in FindBnSession(s, h) : slist' = [slist EXCEPT ![h] = @ \ {r}]
  BY <1>4 DEF FindAndRemoveSession
<1>6. r # s
  BY <1>1, <1>3, <1>5 DEF IInv, TypeOK
<1>7. r \in Sessions /\ Stands(r, sid[s]) /\ Stands(s, sid[s])
  BY <1>1, <1>2, <1>5 DEF FindBnSession, IInv, TypeOK, Stands, Listed
<1> QED BY <1>1, <1>6, <1>7, StandsOpen DEF SInv, OneEach

\* FindAndRemoveSession.
LEMMA RemoveQInv ==
    ASSUME IInv, FdOwnership, SInv, QInv, NEW t \in Threads, Rest(t),
           FindAndRemoveSession(t)
    PROVE  QInv'
<1> USE DEF svars, cvars
<1>1. /\ pc[t] = "closeRemove" /\ op[t] = "close"
      /\ pc'[t] \in {"closeIoctl", "put"}
      /\ op'[t] = op[t] /\ tctx'[t] = tctx[t] /\ tses'[t] = tses[t]
      /\ th[t] \in list /\ fd[th[t]] = ctxFd[tctx[t]]
      /\ UNCHANGED <<ctxFd, list, fd, sctx, th, opened>>
      /\ \A g \in Handles : slist'[g] \subseteq slist[g]
  BY DEF FindAndRemoveSession, Goto, SameCall, IInv, TypeOK, SInv, Calls,
         QInv, InUse, HoldPcs
<1>2. Roles'
  BY <1>1, RolesGoOn DEF QInv
<1>3. \A d : Final(d)' <=> Final(d)
  BY <1>1 DEF Final, Rest
<1>4. SesCalls'
  BY <1>1 DEF QInv, SesCalls, Rest
<1>5. InUse'
  <2>1. \A u \in Threads : pc[u] \in HandlePcs => th[u] \in Handles
    BY DEF IInv, TypeOK, Own, Pointers
  <2>2. \A u \in Threads : u # t => /\ pc'[u] = pc[u] /\ op'[u] = op[u]
                                    /\ tctx'[u] = tctx[u] /\ th'[u] = th[u]
    BY DEF Rest
  <2> SUFFICES ASSUME NEW u \in Threads
      PROVE  /\ pc'[u] \in {"insert", "publish"} =>
                   /\ ctxFd'[tctx'[u]] = NoFd /\ slist'[th'[u]] = {}
                   /\ \A d \in Contexts : ctxFd'[d] = fd'[th'[u]] => Final(d)'
                   /\ \A v \in Threads \ {u} :
                         pc'[v] \in {"insert", "publish"} => th'[v] # th'[u]
             /\ pc'[u] = "publish" => th'[u] \in list'
             /\ pc'[u] \in HoldPcs \ {"insert", "publish"} /\ op'[u] # "finalize" =>
                   th'[u] \in list' /\ fd'[th'[u]] = ctxFd'[tctx'[u]]
             /\ pc'[u] \in {"put", "drain"} /\ op'[u] = "finalize" =>
                   th'[u] \notin list' /\ \A s \in slist'[th'[u]] : sctx'[s] = tctx'[u]
    BY DEF InUse
  <2>3. CASE u = t
    BY <1>1, <2>3
  <2>4. CASE u # t
    <3>1. pc[u] \in HandlePcs => slist'[th[u]] \subseteq slist[th[u]]
      BY <1>1, <2>1
    <3>2. \A v \in Threads \ {u} :
             pc'[v] \in {"insert", "publish"} => pc[v] = pc'[v] /\ th'[v] = th[v]
      BY <1>1, <2>2
    <3> QED BY <1>1, <1>3, <2>2, <2>4, <3>1, <3>2 DEF QInv, InUse, HandlePcs, HoldPcs
  <2> QED BY <2>3, <2>4
<1>6. OneContext'
  BY <1>1, <1>3 DEF QInv, OneContext
<1>7. SesOf'
  <2> SUFFICES ASSUME NEW g \in list, NEW r \in slist'[g]
      PROVE  /\ sctx[r] # Nil /\ ctxFd[sctx[r]] = fd[g] /\ ~Final(sctx[r])
             /\ \/ r \in opened
                \/ \E u \in Threads : /\ op'[u] = "close" /\ tses'[u] = r
                                      /\ pc'[u] \in {"get", "closeRemove"}
    BY <1>1, <1>3 DEF SesOf
  <2>1. r \in slist[g] /\ r # tses[t]
    BY <1>1, RemovedSession DEF IInv, TypeOK
  <2>2. ASSUME NEW u \in Threads, op[u] = "close", tses[u] = r,
               pc[u] \in {"get", "closeRemove"}
        PROVE  op'[u] = "close" /\ tses'[u] = r /\ pc'[u] \in {"get", "closeRemove"}
    BY <2>1, <2>2 DEF Rest
  <2> QED BY <2>1, <2>2 DEF QInv, SesOf
<1> QED BY <1>2, <1>4, <1>5, <1>6, <1>7 DEF QInv

\* TEEC_CloseSession clears the client's structure.
LEMMA ClearQInv ==
    ASSUME IInv, FdOwnership, SInv, QInv, NEW t \in Threads, Rest(t),
           CloseClear(t)
    PROVE  QInv'
<1> DEFINE s == tses[t]
<1> USE DEF svars, cvars
<1>1. /\ pc[t] = "closeClear" /\ op[t] = "close" /\ s \in Sessions /\ ~Listed(s)
      /\ pc'[t] = "put"
      /\ op'[t] = op[t] /\ tctx'[t] = tctx[t] /\ tses'[t] = tses[t]
      /\ th[t] \in list /\ fd[th[t]] = ctxFd[tctx[t]]
      /\ \A r \in Sessions \ {s} : sctx'[r] = sctx[r]
      /\ UNCHANGED <<ctxFd, list, fd, slist, th, opened>>
      /\ \A u \in Threads \ {t} : tses[u] # s
  BY DEF CloseClear, Goto, SameCall, IInv, TypeOK, SInv, Calls, Unlisted,
         QInv, InUse, Roles, HoldPcs
<1>2. Roles'
  BY <1>1, RolesGoOn DEF QInv
<1>3. \A d : Final(d)' <=> Final(d)
  BY <1>1 DEF Final, Rest
<1>4. SesCalls'
  <2>1. \A u \in Threads : op[u] \in {"open", "close", "invoke", "cancel"} => tses[u] \in Sessions
    BY DEF QInv, Roles, IInv, TypeOK
  <2> QED BY <1>1, <2>1 DEF QInv, SesCalls, Rest
<1>5. \A g \in Handles : \A r \in slist[g] : sctx'[r] = sctx[r] /\ r # s
  BY <1>1 DEF IInv, TypeOK, Listed
<1>6. InUse'
  <2>1. \A u \in Threads : pc[u] \in HandlePcs => th[u] \in Handles
    BY DEF IInv, TypeOK, Own, Pointers
  <2>2. \A u \in Threads : u # t => /\ pc'[u] = pc[u] /\ op'[u] = op[u]
                                    /\ tctx'[u] = tctx[u] /\ th'[u] = th[u]
    BY DEF Rest
  <2> QED BY <1>1, <1>3, <1>5, <2>1, <2>2 DEF QInv, InUse, HandlePcs, HoldPcs
<1>7. OneContext'
  BY <1>1, <1>3 DEF QInv, OneContext
<1>8. SesOf'
  <2>1. ASSUME NEW u \in Threads, op[u] = "close", tses[u] # s
        PROVE  op'[u] = op[u] /\ tses'[u] = tses[u] /\ pc'[u] = pc[u]
    BY <1>1, <2>1 DEF Rest
  <2> QED BY <1>1, <1>3, <1>5, <2>1 DEF QInv, SesOf, IInv, TypeOK
<1> QED BY <1>2, <1>4, <1>6, <1>7, <1>8 DEF QInv

\* QInv is inductive for a client that does not overlap calls with an end.
LEMMA NextQInv ==
    ASSUME IInv, FdOwnership, SInv, ~free => QInv, [Next]_vars
    PROVE  (~free => QInv)'
<1>1. CASE UNCHANGED vars
  <2>1. UNCHANGED <<cvars, svars, tvars, openFds, free>>
    BY <1>1 DEF vars
  <2>2. QInv' <=> QInv
    BY <2>1 DEF QInv, Roles, SesCalls, InUse, OneContext, SesOf, Final,
                cvars, svars, tvars
  <2> QED BY <2>1, <2>2
<1>2. CASE Next /\ ~free
  <2>1. PICK t \in Threads : Start(t) \/ Step(t)
    BY <1>2 DEF Next
  <2>2. Rest(t) /\ QInv
    BY <1>2, <2>1, StepRest
  <2>3. CASE Step(t)
    <3>1. UNCHANGED free
      BY <2>3 DEF Step
    <3> QED BY <2>2, <2>3, <3>1, QuietQInv, InsertQInv, PublishQInv, ClearFdQInv,
               DrainQInv, AddQInv, RemoveQInv, ClearQInv DEF Step
  <2>4. ASSUME NEW c \in Contexts, NEW s \in Sessions, OpenSession(t, c, s)
        PROVE  QInv'
    <3>1. /\ Call(t, "open", c, s, "get") /\ MayUse(c)
          /\ ~Listed(s) /\ \A u \in Threads : ~BusyWith(u, s)
          /\ sctx' = [sctx EXCEPT ![s] = c]
          /\ UNCHANGED <<ctxFd, list, fd, slist, th, opened>>
      BY <2>4 DEF OpenSession, MayOpen, Listed, cvars
    <3>2. sctx'[s] = c /\ \A r \in Sessions \ {s} : sctx'[r] = sctx[r]
      BY <3>1 DEF IInv, TypeOK
    <3> QED BY <1>2, <2>2, <3>1, <3>2, UseQInv
  <2>5. ASSUME NEW s \in Sessions, CloseSession(t, s)
        PROVE  QInv'
    <3>1. /\ Call(t, "close", sctx[s], s, "get") /\ MayUse(sctx[s])
          /\ \A u \in Threads : ~BusyWith(u, s)
          /\ sctx[s] \in Contexts
          /\ opened' = opened \ {s}
          /\ UNCHANGED <<ctxFd, list, fd, slist, th, sctx>>
      BY <1>2, <2>5 DEF CloseSession, MayClose, cvars, IInv, TypeOK
    <3> QED BY <1>2, <2>2, <3>1, UseQInv
  <2>6. ASSUME NEW s \in Sessions, InvokeCommand(t, s) \/ RequestCancellation(t, s)
        PROVE  QInv'
    <3>1. /\ \E o \in {"invoke", "cancel"} : Call(t, o, sctx[s], s, "get")
          /\ MayUse(sctx[s])
          /\ \A u \in Threads : BusyWith(u, s) => op[u] \notin {"open", "close"}
          /\ sctx[s] \in Contexts
          /\ UNCHANGED <<ctxFd, list, fd, slist, th, sctx, opened>>
      BY <1>2, <2>6 DEF InvokeCommand, RequestCancellation, MayUseSession,
                        cvars, svars, IInv, TypeOK
    <3>2. PICK o \in {"invoke", "cancel"} : Call(t, o, sctx[s], s, "get")
      BY <3>1
    <3> QED BY <1>2, <2>2, <3>1, <3>2, UseQInv
  <2>7. CASE Start(t)
    BY <1>2, <2>2, <2>4, <2>5, <2>6, <2>7, InitializeQInv, FinalizeQInv DEF Start
  <2> QED BY <2>1, <2>3, <2>7
<1>3. CASE Next /\ free
  BY <1>3 DEF Next, Start, Step
<1> QED BY <1>1, <1>2, <1>3

\* QInv holds for such a client.
LEMMA QuietHolds == Spec => [](~free => QInv)
<1>1. Init => QInv
  BY DEF Init, QInv, Roles, SesCalls, InUse, OneContext, SesOf, HoldPcs
<1> QED BY <1>1, InvariantHolds, DescriptorsOwned, SessionInvariant, NextQInv, PTL DEF Spec

\* TEEC_RequestCancellation, which issues its ioctl without a reference, finds
\* session->context, and there no descriptor or that of a listed context.
THEOREM CancelSafe == Spec => []CancelOnOwnFd
<1>1. ASSUME ~free => QInv, IInv PROVE CancelOnOwnFd
  <2> SUFFICES ASSUME QInv, NEW t \in Threads, pc[t] = "cancelIoctl"
               PROVE  /\ sctx[tses[t]] # Nil
                      /\ \/ ctxFd[sctx[tses[t]]] = NoFd
                         \/ FindBnContext(sctx[tses[t]]) # {}
    BY <1>1 DEF CancelOnOwnFd
  <2>1. /\ op[t] = "cancel" /\ sctx[tses[t]] = tctx[t]
        /\ tctx[t] # Nil /\ tctx[t] \in Contexts
    BY <1>1 DEF QInv, Roles, SesCalls, IInv, TypeOK
  <2>2. ~Final(tctx[t])
    BY <2>1 DEF Final, QInv, Roles
  <2> QED BY <2>1, <2>2 DEF QInv, OneContext, FindBnContext
<1> QED BY <1>1, QuietHolds, InvariantHolds, PTL

-----------------------------------------------------------------------------
(***************************************************************************)
(* The sessions of such a client stay listed until it ends them.  A client *)
(* whose structures start with an id that the TEE hands out could end      *)
(* another of its sessions by closing one that it never opened; the        *)
(* results of this section are about one that does not.                    *)
(***************************************************************************)

\* A structure with an id of the TEE is listed or being closed.
Found ==
    \A s \in Sessions : sid[s] \in Sids =>
       \/ Listed(s)
       \/ \E t \in Threads : tses[t] = s /\ pc[t] \in {"closeIoctl", "closeClear"}

\* A session that the client has opened and not ended is in a listed object,
\* and one that it is closing has been ended.
Kept ==
    /\ \A s \in opened : \E h \in list : s \in slist[h]
    /\ \A t \in Threads : op[t] = "close" => tses[t] \notin opened

\* FindAndRemoveSession finds the session that it is asked for.
LEMMA FindsOwn ==
    ASSUME IInv, FdOwnership, SInv, Found, NEW t \in Threads, pc[t] = "closeRemove",
           NEW r \in FindBnSession(tses[t], th[t])
    PROVE  r = tses[t]
<1> DEFINE s == tses[t]
<1>1. /\ op[t] = "close" /\ s \in Sessions /\ th[t] \in Handles
      /\ r \in Sessions /\ sid[r] = sid[s] /\ sid[r] \in Sids
      /\ Listed(r)
  BY DEF SInv, Calls, Through, Listed, FindBnSession, IInv, TypeOK,
         Own, Pointers, HandlePcs, HoldPcs
<1>2. Listed(s)
  BY <1>1 DEF Found, SInv, Calls
<1>3. Stands(r, sid[s]) /\ Stands(s, sid[s])
  BY <1>1, <1>2 DEF Stands
<1> QED BY <1>1, <1>3 DEF SInv, OneEach

\* Found is inductive.
LEMMA NextFound ==
    ASSUME IInv, FdOwnership, SInv, Found, [Next]_vars
    PROVE  Found'
<1> USE DEF cvars, svars
<1>1. ASSUME NEW t \in Threads, Rest(t), sid' = sid, slist' = slist,
             pc[t] \in {"closeIoctl", "closeClear"} =>
                pc'[t] \in {"closeIoctl", "closeClear"} /\ tses'[t] = tses[t]
      PROVE  Found'
  BY <1>1 DEF Found, Listed, Rest
<1>2. CASE UNCHANGED vars
  BY <1>2 DEF vars, tvars, Found, Listed
<1>3. CASE Next
  <2>1. PICK t \in Threads : Start(t) \/ Step(t)
    BY <1>3 DEF Next
  <2>2. Rest(t)
    BY <2>1, StepRest
  <2>3. CASE Start(t)
    <3>1. pc[t] = "idle" /\ sid' = sid
      BY <2>3 DEF Start, InitializeContext, FinalizeContext, OpenSession, CloseSession,
                  InvokeCommand, RequestCancellation, Call
    <3>2. ASSUME NEW c \in Contexts, InitializeContext(t, c) PROVE slist' = slist
      <4>1. PICK h \in Handles \ live : slist' = [slist EXCEPT ![h] = {}]
        BY <3>2 DEF InitializeContext
      <4>2. slist[h] = {}
        BY <4>1 DEF SInv, Through
      <4> QED BY <4>1, <4>2 DEF IInv, TypeOK
    <3>3. slist' = slist
      BY <2>3, <3>2 DEF Start, FinalizeContext, OpenSession, CloseSession,
                        InvokeCommand, RequestCancellation
    <3> QED BY <1>1, <2>2, <3>1, <3>3
  <2>4. CASE \/ GetBnContext(t) \/ PutBnContext(t) \/ InitializeInsert(t)
             \/ InitializePublish(t) \/ FinalizeClearFd(t) \/ FinalizeFree(t)
             \/ OpenIoctl(t) \/ InvokeEncode(t) \/ InvokeIoctl(t) \/ CancelIoctl(t)
    <3>1. pc[t] \notin {"closeIoctl", "closeClear"} /\ sid' = sid /\ slist' = slist
      BY <2>4 DEF GetBnContext, PutBnContext, InitializeInsert, InitializePublish,
                  FinalizeClearFd, FinalizeFree, OpenIoctl, InvokeEncode, InvokeIoctl,
                  CancelIoctl
    <3> QED BY <1>1, <2>2, <3>1
  <2>5. CASE CloseIoctl(t)
    <3>1. /\ pc'[t] = "closeClear" /\ tses'[t] = tses[t]
          /\ sid' = sid /\ slist' = slist
      BY <2>5 DEF CloseIoctl, Goto, SameCall, IInv, TypeOK
    <3> QED BY <1>1, <2>2, <3>1
  <2>6. CASE CloseClear(t)
    <3>1. /\ pc[t] = "closeClear" /\ tses[t] \in Sessions /\ sid'[tses[t]] = 0
          /\ \A r \in Sessions \ {tses[t]} : sid'[r] = sid[r]
          /\ slist' = slist
      BY <2>6 DEF CloseClear, SInv, Calls, IInv, TypeOK
    <3> QED BY <2>2, <3>1, ContextAssumption DEF Found, Listed, Rest
  <2>7. CASE AddSessionList(t)
    <3> DEFINE s == tses[t]
    <3>1. /\ pc[t] = "openAdd" /\ s \in Sessions /\ th[t] \in Handles
          /\ \A r \in Sessions \ {s} : sid'[r] = sid[r]
          /\ slist' = [slist EXCEPT ![th[t]] = @ \cup {s}]
      BY <2>7 DEF AddSessionList, SInv, Calls, IInv, TypeOK, Own, Pointers,
                  HandlePcs, HoldPcs
    <3>2. \A r : Listed(r) \/ r = s => Listed(r)'
      BY <3>1 DEF Listed, IInv, TypeOK
    <3> QED BY <2>2, <3>1, <3>2 DEF Found, Rest
  <2>8. CASE FindAndRemoveSession(t)
    <3>1. pc[t] = "closeRemove" /\ sid' = sid /\ tses'[t] = tses[t]
      BY <2>8 DEF FindAndRemoveSession, SameCall
    <3>2. CASE slist' = slist
      BY <1>1, <2>2, <3>1, <3>2
    <3>3. CASE \E r \in FindBnSession(tses[t], th[t]) :
                   /\ slist' = [slist EXCEPT ![th[t]] = @ \ {r}]
                   /\ Goto(t, "closeIoctl")
      <4>1. /\ slist' = [slist EXCEPT ![th[t]] = @ \ {tses[t]}]
            /\ pc'[t] = "closeIoctl"
        BY <3>1, <3>3, FindsOwn DEF Goto, IInv, TypeOK
      <4>2. \A q : q # tses[t] /\ Listed(q) => Listed(q)'
        BY <4>1 DEF Listed, IInv, TypeOK
      <4> QED BY <2>2, <3>1, <4>1, <4>2 DEF Found, Rest
    <3> QED BY <2>8, <3>2, <3>3 DEF FindAndRemoveSession
  <2>9. ASSUME NEW s \in Sessions, FinalizeCloseSession(t, s) PROVE Found'
    <3>1. /\ slist' = [slist EXCEPT ![th[t]] = @ \ {s}]
          /\ sid'[s] = 0 /\ \A r \in Sessions \ {s} : sid'[r] = sid[r]
          /\ UNCHANGED <<pc, tses>>
      BY <2>9 DEF FinalizeCloseSession, SameCall, IInv, TypeOK
    <3>2. \A q : q # s /\ Listed(q) => Listed(q)'
      BY <3>1 DEF Listed, IInv, TypeOK
    <3> QED BY <3>1, <3>2, ContextAssumption DEF Found
  <2> QED BY <2>1, <2>3, <2>4, <2>5, <2>6, <2>7, <2>8, <2>9 DEF Step
<1> QED BY <1>2, <1>3

\* Kept is inductive for a client that does not overlap calls with an end.
LEMMA NextKept ==
    ASSUME IInv, FdOwnership, SInv, Found, ~free => QInv, ~free => Kept, [Next]_vars
    PROVE  (~free => Kept)'
<1> USE DEF cvars, svars
<1>1. ASSUME Kept, NEW t \in Threads, Rest(t), slist' = slist, list \subseteq list',
             opened' \subseteq opened,
             op'[t] = "close" => op[t] = "close" /\ tses'[t] = tses[t]
      PROVE  Kept'
  <2>1. \A u \in Threads : op'[u] = "close" => op[u] = "close" /\ tses'[u] = tses[u]
    BY <1>1 DEF Rest
  <2> QED BY <1>1, <2>1 DEF Kept
<1>2. CASE UNCHANGED vars
  BY <1>2 DEF vars, tvars, Kept
<1>3. CASE Next /\ free
  BY <1>3 DEF Next, Start, Step
<1>4. CASE Next /\ ~free
  <2>1. PICK t \in Threads : Start(t) \/ Step(t)
    BY <1>4 DEF Next
  <2>2. Rest(t) /\ QInv /\ Kept
    BY <1>4, <2>1, StepRest
  <2>3. ASSUME NEW c \in Contexts, InitializeContext(t, c) PROVE Kept'
    <3>1. PICK h \in Handles \ live : slist' = [slist EXCEPT ![h] = {}]
      BY <2>3 DEF InitializeContext
    <3>2. slist[h] = {} /\ slist' = slist
      BY <3>1 DEF SInv, Through, IInv, TypeOK
    <3>3. op'[t] = "init" /\ UNCHANGED <<list, opened>>
      BY <2>3 DEF InitializeContext, Call, IInv, TypeOK
    <3> QED BY <1>1, <2>2, <3>2, <3>3
  <2>4. ASSUME NEW c \in Contexts, FinalizeContext(t, c) PROVE Kept'
    <3>1. /\ op'[t] = "finalize" /\ slist' = slist
          /\ opened' = opened \ {s \in Sessions : sctx[s] = c}
      BY <2>4 DEF FinalizeContext, Call, IInv, TypeOK
    <3>2. ctxFd[c] # NoFd /\ ~Final(c)
      BY <1>4, <2>2, <2>4, BusyRoles DEF FinalizeContext, MayFinalize, Final
    <3>3. ASSUME NEW h \in list, fd[h] = ctxFd[c], NEW s \in slist[h]
          PROVE  sctx[s] = c
      BY <2>2, <3>2, <3>3 DEF QInv, SesOf, OneContext, IInv, TypeOK
    <3>4. ASSUME NEW h \in list, h \notin list' PROVE fd[h] = ctxFd[c]
      BY <2>4, <3>4 DEF FinalizeContext, FindBnContext
    <3>5. \A s \in opened' : \E h \in list' : s \in slist[h]
      BY <2>2, <3>1, <3>3, <3>4 DEF Kept, IInv, TypeOK
    <3>6. \A u \in Threads : op'[u] = "close" => op[u] = "close" /\ tses'[u] = tses[u]
      BY <2>2, <3>1 DEF Rest
    <3> QED BY <2>2, <3>1, <3>5, <3>6 DEF Kept
  <2>5. ASSUME NEW s \in Sessions, CloseSession(t, s) PROVE Kept'
    <3>1. /\ op'[t] = "close" /\ tses'[t] = s /\ UNCHANGED <<slist, list>>
          /\ opened' = opened \ {s}
      BY <2>5 DEF CloseSession, Call, IInv, TypeOK
    <3>2. \A u \in Threads : op'[u] = "close" =>
             u = t \/ (op[u] = "close" /\ tses'[u] = tses[u])
      BY <2>2 DEF Rest
    <3> QED BY <2>2, <3>1, <3>2 DEF Kept
  <2>6. CASE Start(t)
    <3>1. ASSUME NEW s \in Sessions,
                 \/ \E c \in Contexts : OpenSession(t, c, s)
                 \/ InvokeCommand(t, s) \/ RequestCancellation(t, s)
          PROVE  Kept'
      <4>1. op'[t] # "close" /\ UNCHANGED <<slist, list, opened>>
        BY <3>1 DEF OpenSession, InvokeCommand, RequestCancellation, Call, IInv, TypeOK
      <4> QED BY <1>1, <2>2, <4>1
    <3> QED BY <2>3, <2>4, <2>5, <2>6, <3>1 DEF Start
  <2>7. ASSUME Leave(t) \/ SameCall
        PROVE  op'[t] = "close" => op[t] = "close" /\ tses'[t] = tses[t]
    BY <2>7 DEF Leave, SameCall, IInv, TypeOK
  <2>8. Return(t) => Leave(t) \/ SameCall
    BY DEF Return
  <2>9. CASE \/ GetBnContext(t) \/ PutBnContext(t) \/ InitializeInsert(t)
             \/ InitializePublish(t) \/ FinalizeClearFd(t) \/ FinalizeFree(t)
             \/ OpenIoctl(t) \/ CloseIoctl(t) \/ CloseClear(t)
             \/ InvokeEncode(t) \/ InvokeIoctl(t) \/ CancelIoctl(t)
    <3>1. /\ slist' = slist /\ list \subseteq list' /\ opened' = opened
          /\ Leave(t) \/ SameCall
      BY <2>8, <2>9 DEF GetBnContext, PutBnContext, InitializeInsert,
                        InitializePublish, FinalizeClearFd, FinalizeFree,
                        OpenIoctl, CloseIoctl, CloseClear,
                        InvokeEncode, InvokeIoctl, CancelIoctl
    <3> QED BY <1>1, <2>2, <2>7, <3>1
  <2>10. CASE AddSessionList(t)
    <3> DEFINE s == tses[t]
    <3>1. /\ pc[t] = "openAdd" /\ op[t] = "open" /\ s \in Sessions
          /\ th[t] \in list /\ th[t] \in Handles
          /\ \A u \in Threads \ {t} : tses[u] # s
          /\ slist' = [slist EXCEPT ![th[t]] = @ \cup {s}]
          /\ opened' = opened \cup {s} /\ list' = list
          /\ UNCHANGED <<op, tses>>
      BY <2>2, <2>10 DEF AddSessionList, SameCall, SInv, Calls, QInv, InUse, HoldPcs,
                         IInv, TypeOK
    <3>2. \A h \in list : slist[h] \subseteq slist'[h]
      BY <3>1 DEF IInv, TypeOK
    <3>3. s \in slist'[th[t]]
      BY <3>1 DEF IInv, TypeOK
    <3> QED BY <2>2, <3>1, <3>2, <3>3 DEF Kept
  <2>11. CASE FindAndRemoveSession(t)
    <3>1. /\ pc[t] = "closeRemove" /\ op[t] = "close"
          /\ UNCHANGED <<op, tses, list, opened>>
      BY <2>11 DEF FindAndRemoveSession, SameCall, SInv, Calls
    <3>2. tses[t] \notin opened
      BY <2>2, <3>1 DEF Kept
    <3>3. \/ slist' = slist
          \/ slist' = [slist EXCEPT ![th[t]] = @ \ {tses[t]}]
      BY <2>11, <3>1, FindsOwn DEF FindAndRemoveSession
    <3>4. \A h \in list, s \in opened : s \in slist[h] => s \in slist'[h]
      BY <3>2, <3>3 DEF IInv, TypeOK
    <3> QED BY <2>2, <3>1, <3>4 DEF Kept
  <2>12. ASSUME NEW s \in Sessions, FinalizeCloseSession(t, s) PROVE Kept'
    <3>1. /\ slist' = [slist EXCEPT ![th[t]] = @ \ {s}]
          /\ opened' = opened \ {s}
          /\ UNCHANGED <<op, tses, list>>
      BY <2>12 DEF FinalizeCloseSession, SameCall
    <3>2. \A h \in list, r \in opened' : r \in slist[h] => r \in slist'[h]
      BY <3>1 DEF IInv, TypeOK
    <3> QED BY <2>2, <3>1, <3>2 DEF Kept
  <2> QED BY <2>1, <2>6, <2>9, <2>10, <2>11, <2>12 DEF Step
<1> QED BY <1>2, <1>3, <1>4

\* For such a client the three views of a session agree: what it has opened
\* and not ended, what the listed context objects list, and what is open in
\* the TEE; and a listed session is found through its session->context.
THEOREM ViewsHold ==
    ASSUME GarbageIds \cap Sids = {}
    PROVE  Spec => []ViewsAgree
<1>1. Init => Found /\ Kept
  BY DEF Init, Found, Kept
<1>2. ASSUME IInv, SInv, ~free => QInv, ~free => Kept
      PROVE  ViewsAgree
  <2> SUFFICES ASSUME QInv, Kept
      PROVE  /\ \A s \in Sessions : (\A t \in Threads : ~BusyWith(t, s)) =>
                   /\ s \in opened =>
                         /\ sid[s] \in Sids
                         /\ \E h \in list : s \in slist[h] /\ fd[h] = tee[sid[s]]
                   /\ s \notin opened => \A h \in list : s \notin slist[h]
             /\ \A h \in list : \A s \in slist[h] :
                   sctx[s] # Nil /\ ctxFd[sctx[s]] = fd[h]
    BY <1>2 DEF ViewsAgree
  <2>1. ASSUME NEW s \in opened
        PROVE  /\ sid[s] \in Sids
               /\ \E h \in list : s \in slist[h] /\ fd[h] = tee[sid[s]]
    BY <1>2, <2>1 DEF Kept, SInv, Through, IInv, TypeOK
  <2>2. ASSUME NEW h \in list, NEW s \in slist[h], s \notin opened
        PROVE  \E t \in Threads : BusyWith(t, s)
    BY <2>2 DEF QInv, SesOf, BusyWith
  <2>3. \A h \in list : \A s \in slist[h] : sctx[s] # Nil /\ ctxFd[sctx[s]] = fd[h]
    BY DEF QInv, SesOf
  <2> QED BY <2>1, <2>2, <2>3
<1> QED BY <1>1, <1>2, InvariantHolds, DescriptorsOwned, SessionInvariant, QuietHolds,
           NextFound, NextKept, PTL DEF Spec
==============================================================================
