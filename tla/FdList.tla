------------------------------- MODULE FdList -------------------------------
(***************************************************************************)
(* The packages of the posix proxy (posix_proxy/src/fd_list.c) and the     *)
(* handlers that use them (posix_network.c, posix_other.c).  Data that     *)
(* does not fit into one call between the worlds is collected in a         *)
(* reference-counted package, named by a descriptor and an index: to send, *)
(* the TEE fills a package block by block and then has it sent; to         *)
(* receive, it has a package read and then fetches it block by block.  A   *)
(* sweeping thread takes references from the packages that have become too *)
(* old, also from those that a handler is using.                           *)
(***************************************************************************)
EXTENDS Integers, FiniteSets

CONSTANTS
    Handlers,       \* executor threads of the data tasklet
    Keys,           \* pairs of descriptor and teeIndex
    Cells,          \* heap cells for struct PkgTmpBuf, each with its buffer
    Nil

ASSUME FdListAssumption ==
    /\ IsFiniteSet(Handlers)
    /\ Nil \notin Keys \cup Cells

VARIABLES
    proxy,      \* "up"; "down", without a list; "ended", by a use of freed memory
    pkgs,       \* fdList->list; the allocated packages
    key, ref,   \* their fd and teeIndex, and refCnt
    old,        \* the packages past GetPkgTimeOutByLen
    swept,      \* history: references that the sweep took from the package
    pc, call,   \* handler: where it is, and which call it serves
    hkey, hpkg, \* handler: the key it was given, the package it uses
    torn        \* history: a package's memory was freed in use, or twice

list == <<proxy, pkgs, key, ref, old, swept>>
vars == <<list, pc, call, hkey, hpkg, torn>>

\* PkgSendWork past offset 0; PkgRecvWork; NetSendtoWork and NetSendmsgWork;
\* NetRecvfromWork; NetRecvmsgWork.
Calls == {"pkgSend", "pkgRecv", "send", "recvfrom", "recvmsg"}

Init ==
    /\ proxy = "up"
    /\ pkgs = {} /\ old = {}
    /\ key = [p \in Cells |-> Nil]
    /\ ref = [p \in Cells |-> 0]
    /\ swept = [p \in Cells |-> 0]
    /\ pc = [t \in Handlers |-> "idle"]
    /\ call = [t \in Handlers |-> "none"]
    /\ hkey = [t \in Handlers |-> Nil]
    /\ hpkg = [t \in Handlers |-> Nil]
    /\ torn = FALSE

-----------------------------------------------------------------------------
Running == proxy = "up"

\* Where a handler uses the memory of its package: it copies or sends the data,
\* is about to release the package, or reads into its buffer.
Relies(t) == pc[t] \in {"use", "release", "again", "read"}

\* The memory of a package is not there for a handler that uses it, or the
\* buffer was freed beside the package, which frees it too.
Torn ==
    \E t \in Handlers :
       \/ Relies(t) /\ hpkg[t] \notin pkgs
       \/ pc[t] = "freed"

\* Every step ends with this history, by way of Begin, Goto or Idle.
Tear == torn' = (torn \/ Torn')

\* The TEE waits for the answer to a call on a package before the next one,
\* except that blocks after the first may be transferred side by side.
MayCall(t, c, k) ==
    /\ Running
    /\ pc[t] = "idle"
    /\ \A u \in Handlers :
          hkey[u] = k => {c, call[u]} \subseteq {"pkgSend", "pkgRecv"}

Begin(t, c, k, p, loc) ==
    /\ pc' = [pc EXCEPT ![t] = loc]
    /\ call' = [call EXCEPT ![t] = c]
    /\ hkey' = [hkey EXCEPT ![t] = k]
    /\ hpkg' = [hpkg EXCEPT ![t] = p]
    /\ Tear

Goto(t, loc) ==
    /\ pc' = [pc EXCEPT ![t] = loc]
    /\ UNCHANGED <<call, hkey, hpkg>>
    /\ Tear

Return(t) == Begin(t, "none", Nil, Nil, "idle")

Idle == UNCHANGED <<pc, call, hkey, hpkg>> /\ Tear

-----------------------------------------------------------------------------
(* fd_list.c; each of these is a critical section of fdListLock. *)

\* Mutant: finds nothing.
SearchNothing(k) == {}

FdListSearchPkg(k) == {p \in pkgs : key[p] = k}

FdListPutPkg(p, k) ==
    /\ FdListSearchPkg(k) = {}
    /\ p \notin pkgs
    /\ pkgs' = pkgs \cup {p}
    /\ key' = [key EXCEPT ![p] = k]
    /\ ref' = [ref EXCEPT ![p] = 1]
    /\ swept' = [swept EXCEPT ![p] = 0]
    /\ UNCHANGED <<proxy, old>>

\* Mutant: the package is returned without a reference.
GetPkgNoRef(p, k) == p \in FdListSearchPkg(k) /\ UNCHANGED list

FdListGetPkg(p, k) ==
    /\ p \in FdListSearchPkg(k)
    /\ ref' = [ref EXCEPT ![p] = @ + 1]
    /\ UNCHANGED <<proxy, pkgs, key, old, swept>>

\* DerefPkg on each of a set of packages: the last reference unlinks and
\* frees the package and its buffer.
DerefPkgs(ps) ==
    LET gone == {p \in ps : ref[p] = 1} IN
    /\ ref' = [p \in Cells |-> IF p \in ps THEN ref[p] - 1 ELSE ref[p]]
    /\ pkgs' = pkgs \ gone
    /\ old' = old \ gone
    /\ key' = [p \in Cells |-> IF p \in gone THEN Nil ELSE key[p]]

SweptFrom(ps) == swept' = [p \in Cells |-> IF p \in ps THEN swept[p] + 1 ELSE swept[p]]

\* Mutant: the last reference is never dropped.
SweepHeld ==
    LET late == {p \in pkgs \cap old : ref[p] > 1} IN
    Running /\ DerefPkgs(late) /\ SweptFrom(late) /\ UNCHANGED proxy /\ Idle

\* FdListDelTimeoutPkg, every ten seconds: a reference of each package past its
\* limit, whoever it belongs to.
FdListDelTimeoutPkg ==
    LET late == pkgs \cap old IN
    Running /\ DerefPkgs(late) /\ SweptFrom(late) /\ UNCHANGED proxy /\ Idle

\* A package passes its limit, whether or not a handler uses it.
Age(p) ==
    /\ Running
    /\ p \in pkgs \ old
    /\ old' = old \cup {p}
    /\ UNCHANGED <<proxy, pkgs, key, ref, swept>>
    /\ Idle

\* FdListDestroy, when the TEE has no call in progress.
FdListDestroy ==
    /\ Running
    /\ \A t \in Handlers : pc[t] = "idle"
    /\ DerefPkgs(pkgs)
    /\ proxy' = "down"
    /\ UNCHANGED swept /\ Idle

\* FdListInit, when the data tasklet is registered again.
FdListInit ==
    /\ proxy = "down" /\ proxy' = "up"
    /\ UNCHANGED <<pkgs, key, ref, old, swept>>
    /\ Idle

\* Undefined behaviour: once memory was freed in use or twice the proxy may die
\* at any time, or go on.
Fault ==
    /\ Running /\ torn
    /\ proxy' = "ended"
    /\ UNCHANGED <<pkgs, key, ref, old, swept>>
    /\ Idle

-----------------------------------------------------------------------------
(* The handlers. *)

\* PkgSendWork with offset 0, InsertFirstPkg.
InsertFirstPkg(t, k) ==
    /\ MayCall(t, "first", k)
    /\ \E p \in Cells : FdListPutPkg(p, k)
    /\ Idle

\* The calls that begin by looking a package up.  Without one they fail.
GetPkg(t, c, k) ==
    /\ c \in {"pkgSend", "pkgRecv", "send"}
    /\ MayCall(t, c, k)
    /\ \E p \in Cells : FdListGetPkg(p, k) /\ Begin(t, c, k, p, "use")

\* They check the length and copy, or send, the data; whatever comes of it,
\* the references are given back.
UsePkg(t) ==
    /\ pc[t] = "use"
    /\ UNCHANGED list
    /\ Goto(t, "release")

\* Mutant: the package is released once, not twice, after sending.
ReleaseOnce(t) ==
    /\ pc[t] \in {"release", "again"}
    /\ DerefPkgs({hpkg[t]} \cap pkgs) /\ UNCHANGED <<proxy, swept>>
    /\ Return(t)

\* FdListReleasePkg by pointer; after sending, twice, "to ensure pkg memory
\* release".  In a cell that is no package any more no count is found.
FdListReleasePkg(t) ==
    /\ pc[t] \in {"release", "again"}
    /\ DerefPkgs({hpkg[t]} \cap pkgs) /\ UNCHANGED <<proxy, swept>>
    /\ IF pc[t] = "release" /\ call[t] = "send" THEN Goto(t, "again") ELSE Return(t)

\* NetRecvfromWork and NetRecvmsgWork put the package before they read.
PutPkg(t, c, k) ==
    /\ c \in {"recvfrom", "recvmsg"}
    /\ MayCall(t, c, k)
    /\ \E p \in Cells : FdListPutPkg(p, k) /\ Begin(t, c, k, p, "read")

\* Data has been read, or there is none or an error.  NetRecvmsgWork goes on
\* with the header, after a release too unless recvmsg failed.
ReadDone(t) ==
    /\ pc[t] = "read"
    /\ UNCHANGED list
    /\ \/ IF call[t] = "recvmsg" THEN Goto(t, "serialize") ELSE Return(t)
       \/ Goto(t, "releaseEnd")
       \/ call[t] = "recvmsg" /\ Goto(t, "releaseEmpty")

\* FdListReleasePkgByIndex after a read.
ReleaseRead(t) ==
    /\ pc[t] \in {"releaseEnd", "releaseEmpty"}
    /\ DerefPkgs(FdListSearchPkg(hkey[t])) /\ UNCHANGED <<proxy, swept>>
    /\ IF pc[t] = "releaseEmpty" THEN Goto(t, "serialize") ELSE Return(t)

\* SerializeMsgBuf writes the header of the message.  When it fails
\* NetRecvmsgWork frees the buffer, which belongs to the package.
SerializeMsgBuf(t) ==
    /\ pc[t] = "serialize"
    /\ UNCHANGED list
    /\ Return(t) \/ Goto(t, "freed")

FailRecvmsg(t) ==
    /\ pc[t] = "freed"
    /\ UNCHANGED list
    /\ Return(t)

\* PkgTerminateWork
PkgTerminate(t, k) ==
    /\ MayCall(t, "terminate", k)
    /\ DerefPkgs(FdListSearchPkg(k))
    /\ UNCHANGED <<proxy, swept>> /\ Idle

Step(t) ==
    /\ Running
    /\ \/ UsePkg(t) \/ FdListReleasePkg(t)
       \/ ReadDone(t) \/ ReleaseRead(t) \/ SerializeMsgBuf(t) \/ FailRecvmsg(t)

Next ==
    \/ \E t \in Handlers :
          \/ Step(t)
          \/ \E k \in Keys :
                \/ InsertFirstPkg(t, k) \/ PkgTerminate(t, k)
                \/ \E c \in Calls : GetPkg(t, c, k) \/ PutPkg(t, c, k)
    \/ \E p \in Cells : Age(p)
    \/ FdListDelTimeoutPkg \/ FdListDestroy \/ FdListInit \/ Fault

Spec == Init /\ [][Next]_vars

\* The sweep runs again and again, and time passes for every package.  Nothing
\* is asked of the handlers: one may block for ever.
FairSpec ==
    /\ Spec
    /\ WF_vars(FdListDelTimeoutPkg)
    /\ \A p \in Cells : WF_vars(Age(p))

-----------------------------------------------------------------------------
(* Properties *)

\* Every variable holds a value of its C type; refCnt is unsigned.
TypeOK ==
    /\ proxy \in {"up", "down", "ended"}
    /\ pkgs \subseteq Cells /\ old \subseteq pkgs
    /\ key \in [Cells -> Keys \cup {Nil}]
    /\ ref \in [Cells -> Nat] /\ swept \in [Cells -> Nat]
    /\ pc \in [Handlers -> {"idle", "use", "release", "again", "read",
                            "releaseEnd", "releaseEmpty", "serialize", "freed"}]
    /\ call \in [Handlers -> Calls \cup {"none"}]
    /\ hkey \in [Handlers -> Keys \cup {Nil}]
    /\ hpkg \in [Handlers -> Cells \cup {Nil}]
    /\ torn \in BOOLEAN

\* The handlers that own a reference of their own to p.
PkgHolders(p) == {t \in Handlers : hpkg[t] = p /\ pc[t] \in {"use", "release"}}

\* The types hold; until memory is freed in use, no reference is lost and none
\* dropped twice: what is left in refCnt and what the sweep took are one for the
\* list and one for every handler between FdListGetPkg and FdListReleasePkg; and
\* no two packages have the same descriptor and index, so that blocks of one
\* transfer never go into the package of another.
PkgRefCount ==
    /\ TypeOK
    /\ ~torn => \A p \in pkgs : ref[p] + swept[p] = 1 + Cardinality(PkgHolders(p))
    /\ \A p, q \in pkgs : key[p] = key[q] => p = q

\* What the references are worth against the sweep: a package is freed under a
\* handler that uses it only when the sweep has come by more often than there are
\* handlers with a reference.  A handler with a reference of its own survives the
\* first sweep after the limit; one that reads, or releases for the second time,
\* does not.  No handler frees a package under another.
SweptEnough ==
    \A t \in Handlers : Relies(t) /\ hpkg[t] \notin pkgs =>
       swept[hpkg[t]] > Cardinality(PkgHolders(hpkg[t]))

RefProtects == [][~torn => SweptEnough']_vars

\* A handler that reads from or writes to a package's buffer, or is about to
\* release the package, finds it allocated: the memory goes "as soon as the
\* write is completed", a buffer read into "will be freed when clearing pkg", and
\* not before.  The sweep breaks this.
BufferUsable == \A t \in Handlers : Relies(t) => hpkg[t] \in pkgs

\* When a handler has sent a package, or its read failed, and it answers, there
\* is no package of that descriptor and index, whatever the sweep took meanwhile:
\* the index can be used again, and nothing waits for the sweep.
AnsweredIsGone ==
    [][\A t \in Handlers :
          /\ call[t] = "send" \/ pc[t] = "releaseEnd"
          /\ pc'[t] = "idle"
          /\ ~torn
          => \A p \in pkgs' : key'[p] # hkey[t]]_vars

\* Every package is freed in the end, also when the TEE forgets to fetch, send
\* or terminate it, when handlers get it again and again, and when a handler
\* never returns: the sweep takes one reference after the other.
PkgReclaimed == \A p \in Cells : p \in pkgs ~> p \notin pkgs \/ proxy = "ended"
=============================================================================
