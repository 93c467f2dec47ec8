---------------------------- MODULE FdListProofs ----------------------------
(***************************************************************************)
(* Proofs about FdList, for any number of handlers, packages and keys.     *)
(* The sweep may take references at any time, also those of handlers, and  *)
(* the memory of a package may go while it is used (the run                *)
(* MCFdListExpiry shows how); the theorems say what holds until then and   *)
(* what it takes for that to happen.                                       *)
(***************************************************************************)
EXTENDS FdList, FiniteSetTheorems, TLAPS

-----------------------------------------------------------------------------
(* The inductive invariant. *)

Locs == {"idle", "use", "release", "again", "read",
         "releaseEnd", "releaseEmpty", "serialize", "freed"}

\* The calls that may share a package.
Shared == {"pkgSend", "pkgRecv"}

\* What the handler does fits the call it serves.
Serves ==
    \A t \in Handlers :
       /\ pc[t] = "idle" => call[t] = "none" /\ hkey[t] = Nil
       /\ pc[t] # "idle" => hkey[t] \in Keys
       /\ pc[t] \in {"use", "release"} => call[t] \in Shared \cup {"send"}
       /\ pc[t] = "again" => call[t] = "send"
       /\ pc[t] \in {"read", "releaseEnd", "releaseEmpty", "serialize", "freed"} =>
             call[t] \in {"recvfrom", "recvmsg"}

\* Only transfers of blocks meet on one package.
Alone ==
    \A t, u \in Handlers : t # u /\ hkey[t] # Nil /\ hkey[u] = hkey[t] =>
       call[t] \in Shared /\ call[u] \in Shared

KeysUnique == \A p, q \in pkgs : key[p] = key[q] => p = q

\* Packages in the list are of a key.
Keyed == \A p \in pkgs : key[p] \in Keys

\* A package without references is not in the list.
Referenced == \A p \in pkgs : ref[p] >= 1

\* What holds whatever has become of the memory.
Core == TypeOK /\ Serves /\ Alone /\ KeysUnique /\ Keyed /\ Referenced

\* Until memory is freed in use: the package in a handler's hands is in the list,
\* and is the one its call is about.
InHand ==
    ~torn => \A t \in Handlers :
                /\ pc[t] # "freed"
                /\ Relies(t) => hpkg[t] \in pkgs /\ key[hpkg[t]] = hkey[t]

\* No reference of p is lost, and none dropped twice.
Balanced(p) == ref[p] + swept[p] = 1 + Cardinality(PkgHolders(p))

RefExact == ~torn => \A p \in pkgs : Balanced(p)

IInv == Core /\ InHand /\ RefExact

-----------------------------------------------------------------------------
(* Handlers that hold a package, and handlers that share one. *)

\* The holders of a package are finitely many.
LEMMA HoldersFinite ==
    ASSUME NEW p
    PROVE  /\ IsFiniteSet(PkgHolders(p))
           /\ Cardinality(PkgHolders(p)) \in Nat
  BY FdListAssumption, FS_Subset, FS_CardinalityType DEF PkgHolders

\* A package that nobody holds has the list's reference and no other.
LEMMA NotHeld ==
    ASSUME IInv, ~torn, NEW p \in pkgs, PkgHolders(p) = {}
    PROVE  ref[p] = 1
<1>1. Cardinality(PkgHolders(p)) = 0
  BY FS_EmptySet
<1>2. Balanced(p)
  BY DEF IInv, RefExact
<1>3. p \in Cells /\ ref[p] >= 1 /\ ref[p] \in Nat /\ swept[p] \in Nat
  BY DEF IInv, Core, TypeOK, Referenced
<1> QED BY <1>1, <1>2, <1>3 DEF Balanced

\* The package of a call that shares with nobody is in nobody else's hands.
LEMMA OnlyHand ==
    ASSUME IInv, ~torn, NEW t \in Handlers, pc[t] # "idle", call[t] \notin Shared,
           NEW p \in pkgs, key[p] = hkey[t],
           NEW u \in Handlers \ {t}, Relies(u)
    PROVE  hpkg[u] # p
<1>1. hkey[t] \in Keys /\ hkey[t] # Nil
  BY FdListAssumption DEF IInv, Core, Serves
<1>2. hpkg[u] = p => hkey[u] = hkey[t]
  BY DEF IInv, InHand
<1> QED BY <1>1, <1>2 DEF IInv, Core, Alone

-----------------------------------------------------------------------------
(* What every step does. *)

\* The references to p are accounted for after the step, or p is gone and
\* nobody uses it.
Settled(p) ==
    \/ Balanced(p)'
    \/ p \notin pkgs' /\ \A t \in Handlers : Relies(t)' => hpkg'[t] # p

\* A handler that uses a package after the step used it before, or has it from the
\* list.
Hands ==
    \A t \in Handlers : Relies(t)' =>
       \/ Relies(t) /\ hpkg'[t] = hpkg[t] /\ hkey'[t] = hkey[t]
       \/ hpkg'[t] \in pkgs' /\ key'[hpkg'[t]] = hkey'[t]

GoodStep ==
    /\ Core'
    /\ \A p \in pkgs \cap pkgs' : key'[p] = key[p]
    /\ \A p \in pkgs \ pkgs' : ref'[p] = 0
    /\ Hands
    /\ ~torn => \A p \in pkgs \cup pkgs' : Settled(p)
    /\ torn' = (torn \/ Torn')

\* Such a step keeps the invariant, and frees no package under a handler unless
\* the sweep has come by often enough.
LEMMA GoodStepKeeps ==
    ASSUME IInv, GoodStep
    PROVE  IInv' /\ (~torn => SweptEnough')
<1>1. ASSUME ~torn, NEW t \in Handlers, Relies(t)'
      PROVE  /\ hpkg'[t] \in pkgs \cup pkgs'
             /\ hpkg'[t] \in pkgs' => key'[hpkg'[t]] = hkey'[t]
  BY <1>1 DEF GoodStep, Hands, IInv, InHand
<1>2. InHand'
  <2>1. ASSUME ~torn', NEW t \in Handlers
        PROVE  /\ pc'[t] # "freed"
               /\ Relies(t)' => hpkg'[t] \in pkgs' /\ key'[hpkg'[t]] = hkey'[t]
    <3>1. ~torn /\ ~Torn'
      BY <2>1 DEF GoodStep
    <3>2. pc'[t] # "freed" /\ (Relies(t)' => hpkg'[t] \in pkgs')
      BY <3>1 DEF Torn
    <3> QED BY <1>1, <3>1, <3>2
  <2> QED BY <2>1 DEF InHand
<1>3. RefExact'
  <2>1. ASSUME ~torn', NEW p \in pkgs' PROVE Balanced(p)'
    BY <2>1 DEF GoodStep, Settled
  <2> QED BY <2>1 DEF RefExact
<1>4. ASSUME ~torn PROVE SweptEnough'
  <2> SUFFICES ASSUME NEW t \in Handlers, NEW q, q = hpkg'[t],
                      Relies(t)', q \notin pkgs'
               PROVE  swept'[q] > Cardinality(PkgHolders(q)')
    BY DEF SweptEnough
  <2>1. q \in pkgs \ pkgs'
    BY <1>1, <1>4
  <2>2. ref'[q] = 0 /\ Balanced(q)'
    BY <1>4, <2>1 DEF GoodStep, Settled
  <2>3. q \in Cells /\ swept'[q] \in Nat
    BY <2>1 DEF GoodStep, Core, TypeOK, IInv
  <2>4. Cardinality(PkgHolders(q)') \in Nat
    <3>1. PkgHolders(q)' \subseteq Handlers
      BY DEF PkgHolders
    <3> QED BY <3>1, FdListAssumption, FS_Subset, FS_CardinalityType
  <2> QED BY <2>2, <2>3, <2>4 DEF Balanced
<1> QED BY <1>2, <1>3, <1>4 DEF IInv, GoodStep

\* What dropping a reference to each of some packages does to the list.
LEMMA DerefFacts ==
    ASSUME Core, NEW ps \in SUBSET pkgs, DerefPkgs(ps)
    PROVE  /\ pkgs' \subseteq pkgs /\ old' \subseteq pkgs'
           /\ ref' \in [Cells -> Nat] /\ key' \in [Cells -> Keys \cup {Nil}]
           /\ \A p \in pkgs' : key'[p] = key[p]
           /\ \A p \in pkgs : ref'[p] = IF p \in ps THEN ref[p] - 1 ELSE ref[p]
           /\ \A p \in pkgs \ pkgs' : ref'[p] = 0
           /\ \A p \in ps : ref[p] = 1 => p \notin pkgs'
           /\ KeysUnique' /\ Keyed' /\ Referenced'
<1> DEFINE gone == {p \in ps : ref[p] = 1}
<1>1. /\ ref' = [p \in Cells |-> IF p \in ps THEN ref[p] - 1 ELSE ref[p]]
      /\ pkgs' = pkgs \ gone /\ old' = old \ gone
      /\ key' = [p \in Cells |-> IF p \in gone THEN Nil ELSE key[p]]
  BY DEF DerefPkgs
<1>2. /\ pkgs \subseteq Cells /\ old \subseteq pkgs
      /\ ref \in [Cells -> Nat] /\ key \in [Cells -> Keys \cup {Nil}]
      /\ \A p \in pkgs : ref[p] >= 1
  BY DEF Core, TypeOK, Referenced
<1>3. pkgs' \subseteq pkgs /\ old' \subseteq pkgs'
  BY <1>1, <1>2
<1>4. \A p \in pkgs : ref'[p] = IF p \in ps THEN ref[p] - 1 ELSE ref[p]
  BY <1>1, <1>2
<1>5. ref' \in [Cells -> Nat]
  BY <1>1, <1>2
<1>6. key' \in [Cells -> Keys \cup {Nil}] /\ \A p \in pkgs' : key'[p] = key[p]
  BY <1>1, <1>2
<1>7. /\ \A p \in pkgs \ pkgs' : ref'[p] = 0
      /\ \A p \in ps : ref[p] = 1 => p \notin pkgs'
  BY <1>1, <1>4
<1>8. Referenced'
  <2> SUFFICES ASSUME NEW p \in pkgs' PROVE ref'[p] >= 1
    BY DEF Referenced
  <2>1. p \in pkgs /\ p \notin gone /\ ref[p] \in Nat /\ ref[p] >= 1
    BY <1>1, <1>2
  <2> QED BY <1>4, <2>1
<1>9. KeysUnique' /\ Keyed'
  BY <1>3, <1>6 DEF Core, KeysUnique, Keyed
<1> QED BY <1>3, <1>4, <1>5, <1>6, <1>7, <1>8, <1>9

\* Packages that nobody holds are gone once the list's reference is dropped.
LEMMA DropUnheld ==
    ASSUME IInv, ~torn, NEW ps \in SUBSET pkgs,
           \A p \in ps : PkgHolders(p) = {}, DerefPkgs(ps)
    PROVE  pkgs' = pkgs \ ps
<1>1. \A p \in ps : ref[p] = 1
  BY NotHeld
<1> QED BY <1>1 DEF DerefPkgs

-----------------------------------------------------------------------------
(* Steps that leave the handlers where they are. *)

\* The handlers' part of the invariant.
LEMMA IdleFacts ==
    ASSUME Core, Idle
    PROVE  /\ Serves' /\ Alone' /\ UNCHANGED <<pc, call, hkey, hpkg>>
           /\ torn' = (torn \/ Torn') /\ torn' \in BOOLEAN
           /\ \A p : PkgHolders(p)' = PkgHolders(p)
           /\ \A t \in Handlers : Relies(t)' <=> Relies(t)
           /\ Hands
<1>1. UNCHANGED <<pc, call, hkey, hpkg>> /\ torn' = (torn \/ Torn')
  BY DEF Idle, Tear
<1>2. torn' \in BOOLEAN
  BY <1>1 DEF Core, TypeOK
<1>3. Serves' /\ Alone'
  BY <1>1 DEF Core, Serves, Alone
<1>4. \A p : PkgHolders(p)' = PkgHolders(p)
  BY <1>1 DEF PkgHolders
<1>5. \A t \in Handlers : Relies(t)' <=> Relies(t)
  BY <1>1 DEF Relies
<1>6. Hands
  BY <1>1, <1>5 DEF Hands
<1> QED BY <1>1, <1>2, <1>3, <1>4, <1>5, <1>6

\* FdListDelTimeoutPkg: what a package loses in references it gains in swept.
LEMMA SweepGood ==
    ASSUME IInv, FdListDelTimeoutPkg
    PROVE  GoodStep
<1> DEFINE late == pkgs \cap old
<1>1. /\ DerefPkgs(late) /\ Idle /\ UNCHANGED proxy /\ late \in SUBSET pkgs
      /\ swept' = [p \in Cells |-> IF p \in late THEN swept[p] + 1 ELSE swept[p]]
  BY DEF FdListDelTimeoutPkg, SweptFrom
<1>2. Core
  BY DEF IInv
<1> HIDE DEF late
<1>3. /\ swept' \in [Cells -> Nat]
      /\ \A p \in pkgs : swept'[p] = IF p \in late THEN swept[p] + 1 ELSE swept[p]
  BY <1>1, <1>2 DEF Core, TypeOK
<1>4. TypeOK'
  BY <1>1, <1>2, <1>3, DerefFacts, IdleFacts DEF Core, TypeOK
<1>5. ASSUME ~torn, NEW p \in pkgs \cup pkgs' PROVE Balanced(p)'
  <2>1. p \in pkgs /\ p \in Cells
    BY <1>1, <1>2, DerefFacts DEF Core, TypeOK
  <2>2. ref'[p] + swept'[p] = ref[p] + swept[p]
    <3>1. /\ ref[p] \in Nat /\ swept[p] \in Nat
          /\ ref'[p] = IF p \in late THEN ref[p] - 1 ELSE ref[p]
      BY <1>1, <1>2, <2>1, DerefFacts DEF Core, TypeOK
    <3> QED BY <1>3, <2>1, <3>1
  <2>3. PkgHolders(p)' = PkgHolders(p)
    BY <1>1, <1>2, IdleFacts
  <2>4. Balanced(p)
    BY <1>5, <2>1 DEF IInv, RefExact
  <2> QED BY <2>2, <2>3, <2>4 DEF Balanced
<1>6. Core'
  BY <1>1, <1>2, <1>4, DerefFacts, IdleFacts DEF Core
<1> QED BY <1>1, <1>2, <1>5, <1>6, DerefFacts, IdleFacts DEF GoodStep, Settled

\* Packages that no handler uses are dropped: PkgTerminateWork, FdListDestroy.
LEMMA DropGood ==
    ASSUME IInv, NEW ps \in SUBSET pkgs, DerefPkgs(ps), Idle, UNCHANGED swept,
           proxy' \in {"up", "down"},
           ~torn => \A p \in ps : \A t \in Handlers : Relies(t) => hpkg[t] # p
    PROVE  GoodStep
<1>1. Core
  BY DEF IInv
<1>2. TypeOK'
  BY <1>1, DerefFacts, IdleFacts DEF Core, TypeOK
<1>3. Core'
  BY <1>1, <1>2, DerefFacts, IdleFacts DEF Core
<1>4. ASSUME ~torn, NEW p \in pkgs \cup pkgs' PROVE Settled(p)
  <2>1. p \in pkgs
    BY <1>1, DerefFacts
  <2>2. CASE p \in ps
    <3>1. \A q \in ps : PkgHolders(q) = {}
      BY <1>4 DEF PkgHolders, Relies
    <3>2. p \notin pkgs'
      BY <1>4, <2>2, <3>1, DropUnheld
    <3>3. \A t \in Handlers : Relies(t)' => hpkg'[t] # p
      BY <1>1, <1>4, <2>2, IdleFacts
    <3> QED BY <3>2, <3>3 DEF Settled
  <2>3. CASE p \notin ps
    <3>1. ref'[p] = ref[p] /\ PkgHolders(p)' = PkgHolders(p) /\ swept'[p] = swept[p]
      BY <1>1, <2>1, <2>3, DerefFacts, IdleFacts
    <3>2. Balanced(p)
      BY <1>4, <2>1 DEF IInv, RefExact
    <3> QED BY <3>1, <3>2 DEF Settled, Balanced
  <2> QED BY <2>2, <2>3
<1> QED BY <1>1, <1>3, <1>4, DerefFacts, IdleFacts DEF GoodStep

\* PkgTerminateWork: no other call is on the key.
LEMMA PkgTerminateGood ==
    ASSUME IInv, NEW t \in Handlers, NEW k \in Keys, PkgTerminate(t, k)
    PROVE  GoodStep
<1>1. \A u \in Handlers : hkey[u] # k
  BY DEF PkgTerminate, MayCall
<1>2. /\ DerefPkgs(FdListSearchPkg(k)) /\ Idle /\ UNCHANGED swept
      /\ proxy' \in {"up", "down"} /\ FdListSearchPkg(k) \in SUBSET pkgs
  BY DEF PkgTerminate, MayCall, Running, FdListSearchPkg
<1>3. ~torn => \A p \in FdListSearchPkg(k) :
                  \A u \in Handlers : Relies(u) => hpkg[u] # p
  BY <1>1 DEF IInv, InHand, FdListSearchPkg
<1> QED BY <1>2, <1>3, DropGood

\* The list is destroyed when no call is in progress.
LEMMA DestroyGood ==
    ASSUME IInv, FdListDestroy
    PROVE  GoodStep
<1>1. /\ DerefPkgs(pkgs) /\ Idle /\ UNCHANGED swept
      /\ proxy' \in {"up", "down"} /\ pkgs \in SUBSET pkgs
  BY DEF FdListDestroy
<1>2. \A p \in pkgs : \A u \in Handlers : Relies(u) => hpkg[u] # p
  BY DEF FdListDestroy, Relies
<1> QED BY <1>1, <1>2, DropGood

\* A package passes its limit, a new, empty list, the end of the proxy.
LEMMA StillGood ==
    ASSUME IInv, Idle, UNCHANGED <<pkgs, key, ref, swept>>,
           old' \subseteq pkgs, proxy' \in {"up", "down", "ended"}
    PROVE  GoodStep
<1>1. Core
  BY DEF IInv
<1>2. TypeOK'
  BY <1>1, IdleFacts DEF Core, TypeOK
<1>3. Core'
  BY <1>1, <1>2, IdleFacts DEF Core, KeysUnique, Keyed, Referenced
<1>4. ASSUME ~torn, NEW p \in pkgs \cup pkgs' PROVE Balanced(p)'
  BY <1>1, <1>4, IdleFacts DEF IInv, RefExact, Balanced
<1> QED BY <1>1, <1>3, <1>4, IdleFacts DEF GoodStep, Settled

\* A new package under a key that has none.
LEMMA PutFacts ==
    ASSUME Core, NEW k \in Keys, NEW p \in Cells, FdListPutPkg(p, k)
    PROVE  /\ p \notin pkgs /\ pkgs' = pkgs \cup {p} /\ UNCHANGED <<proxy, old>>
           /\ ref' \in [Cells -> Nat] /\ swept' \in [Cells -> Nat]
           /\ key' \in [Cells -> Keys \cup {Nil}]
           /\ ref'[p] = 1 /\ swept'[p] = 0 /\ key'[p] = k
           /\ \A q \in pkgs : ref'[q] = ref[q] /\ swept'[q] = swept[q] /\ key'[q] = key[q]
           /\ KeysUnique' /\ Keyed' /\ Referenced'
<1>1. /\ p \notin pkgs /\ pkgs' = pkgs \cup {p} /\ UNCHANGED <<proxy, old>>
      /\ key' = [key EXCEPT ![p] = k] /\ ref' = [ref EXCEPT ![p] = 1]
      /\ swept' = [swept EXCEPT ![p] = 0]
      /\ \A q \in pkgs : key[q] # k
  BY DEF FdListPutPkg, FdListSearchPkg
<1>2. /\ ref' \in [Cells -> Nat] /\ swept' \in [Cells -> Nat]
      /\ key' \in [Cells -> Keys \cup {Nil}]
      /\ ref'[p] = 1 /\ swept'[p] = 0 /\ key'[p] = k
      /\ \A q \in pkgs : ref'[q] = ref[q] /\ swept'[q] = swept[q] /\ key'[q] = key[q]
  BY <1>1 DEF Core, TypeOK
<1>3. KeysUnique' /\ Keyed' /\ Referenced'
  BY <1>1, <1>2 DEF Core, KeysUnique, Keyed, Referenced
<1> QED BY <1>1, <1>2, <1>3

\* A package that is put has no holders.
LEMMA PutSettles ==
    ASSUME IInv, ~torn, NEW k \in Keys, NEW p \in Cells, FdListPutPkg(p, k),
           \A q \in pkgs' : PkgHolders(q)' = PkgHolders(q),
           NEW q \in pkgs \cup pkgs'
    PROVE  Balanced(q)'
<1>0. Core
  BY DEF IInv
<1>1. q \in pkgs' /\ PkgHolders(q)' = PkgHolders(q)
  BY <1>0, PutFacts
<1>2. CASE q = p
  <2>1. PkgHolders(p) = {}
    BY <1>0, PutFacts DEF IInv, InHand, PkgHolders, Relies
  <2>2. Cardinality(PkgHolders(q)') = 0
    BY <1>1, <1>2, <2>1, FS_EmptySet
  <2> QED BY <1>0, <1>2, <2>2, PutFacts DEF Balanced
<1>3. CASE q # p
  <2>1. q \in pkgs /\ ref'[q] = ref[q] /\ swept'[q] = swept[q]
    BY <1>0, <1>1, <1>3, PutFacts
  <2> QED BY <1>1, <2>1 DEF IInv, RefExact, Balanced
<1> QED BY <1>2, <1>3

\* PkgSendWork with offset 0: the TEE has no other call on the key.
LEMMA InsertFirstPkgGood ==
    ASSUME IInv, NEW t \in Handlers, NEW k \in Keys, InsertFirstPkg(t, k)
    PROVE  GoodStep
<1>1. PICK p \in Cells : FdListPutPkg(p, k)
  BY DEF InsertFirstPkg
<1>2. Core /\ Idle
  BY DEF InsertFirstPkg, IInv
<1>3. TypeOK'
  BY <1>1, <1>2, PutFacts, IdleFacts DEF Core, TypeOK
<1>4. Core'
  BY <1>1, <1>2, <1>3, PutFacts, IdleFacts DEF Core
<1>5. ASSUME ~torn, NEW q \in pkgs \cup pkgs' PROVE Balanced(q)'
  BY <1>1, <1>2, <1>5, IdleFacts, PutSettles
<1> QED BY <1>1, <1>2, <1>4, <1>5, PutFacts, IdleFacts DEF GoodStep, Settled

-----------------------------------------------------------------------------
(* Steps of a handler. *)

\* Every other handler stays where it is.
Others(t) ==
    \A u \in Handlers \ {t} :
       pc'[u] = pc[u] /\ call'[u] = call[u] /\ hkey'[u] = hkey[u] /\ hpkg'[u] = hpkg[u]

LocalsOK ==
    /\ pc \in [Handlers -> Locs]
    /\ call \in [Handlers -> Calls \cup {"none"}]
    /\ hkey \in [Handlers -> Keys \cup {Nil}]
    /\ hpkg \in [Handlers -> Cells \cup {Nil}]
    /\ torn \in BOOLEAN

\* What Begin does to the local variables of the handlers.
LEMMA BeginLocals ==
    ASSUME TypeOK, NEW t \in Handlers, NEW c \in Calls \cup {"none"},
           NEW k \in Keys \cup {Nil}, NEW p \in Cells \cup {Nil}, NEW loc \in Locs,
           Begin(t, c, k, p, loc)
    PROVE  /\ Others(t) /\ LocalsOK' /\ torn' = (torn \/ Torn')
           /\ pc'[t] = loc /\ call'[t] = c /\ hkey'[t] = k /\ hpkg'[t] = p
<1>1. torn' = (torn \/ Torn') /\ torn' \in BOOLEAN
  BY DEF Begin, Tear, TypeOK
<1>2. /\ Others(t)
      /\ pc'[t] = loc /\ call'[t] = c /\ hkey'[t] = k /\ hpkg'[t] = p
  BY DEF TypeOK, Begin, Others
<1>3. /\ pc' \in [Handlers -> Locs]
      /\ call' \in [Handlers -> Calls \cup {"none"}]
      /\ hkey' \in [Handlers -> Keys \cup {Nil}]
      /\ hpkg' \in [Handlers -> Cells \cup {Nil}]
  BY DEF TypeOK, Begin, Locs
<1> QED BY <1>1, <1>2, <1>3 DEF LocalsOK

\* What Goto does.
LEMMA GotoLocals ==
    ASSUME TypeOK, NEW t \in Handlers, NEW loc \in Locs, Goto(t, loc)
    PROVE  /\ Others(t) /\ LocalsOK' /\ torn' = (torn \/ Torn')
           /\ pc'[t] = loc /\ UNCHANGED <<call, hkey, hpkg>>
<1>1. torn' = (torn \/ Torn') /\ torn' \in BOOLEAN
  BY DEF Goto, Tear, TypeOK
<1>2. Others(t) /\ pc'[t] = loc /\ UNCHANGED <<call, hkey, hpkg>>
  BY DEF TypeOK, Goto, Others
<1>3. pc' \in [Handlers -> Locs]
  BY DEF TypeOK, Goto, Locs
<1> QED BY <1>1, <1>2, <1>3 DEF LocalsOK, TypeOK

\* NetRecvfromWork and NetRecvmsgWork put a package, and nobody else is on its
\* key.
LEMMA PutPkgGood ==
    ASSUME IInv, NEW t \in Handlers, NEW c \in Calls, NEW k \in Keys, PutPkg(t, c, k)
    PROVE  GoodStep
<1>0. Core /\ TypeOK
  BY DEF IInv, Core
<1>1. PICK p \in Cells : FdListPutPkg(p, k) /\ Begin(t, c, k, p, "read")
  BY DEF PutPkg
<1>2. /\ c \in {"recvfrom", "recvmsg"} /\ pc[t] = "idle"
      /\ \A u \in Handlers : hkey[u] # k
  BY DEF PutPkg, MayCall
<1>3. /\ Others(t) /\ LocalsOK' /\ torn' = (torn \/ Torn')
      /\ pc'[t] = "read" /\ call'[t] = c /\ hkey'[t] = k /\ hpkg'[t] = p
  BY <1>0, <1>1, BeginLocals DEF Locs
<1>4. TypeOK'
  BY <1>0, <1>1, <1>3, PutFacts DEF TypeOK, LocalsOK, Locs
<1>5. Serves'
  BY <1>0, <1>2, <1>3 DEF Core, Serves, Others
<1>6. Alone'
  BY <1>0, <1>2, <1>3 DEF Core, Alone, Others
<1>7. Hands
  BY <1>0, <1>1, <1>3, PutFacts DEF Hands, Others, Relies
<1>8. \A q \in pkgs' : PkgHolders(q)' = PkgHolders(q)
  BY <1>2, <1>3 DEF PkgHolders, Others
<1>9. ASSUME ~torn, NEW q \in pkgs \cup pkgs' PROVE Balanced(q)'
  BY <1>1, <1>8, <1>9, PutSettles
<1>10. Core'
  BY <1>0, <1>1, <1>4, <1>5, <1>6, PutFacts DEF Core
<1> QED BY <1>0, <1>1, <1>3, <1>7, <1>9, <1>10, PutFacts DEF GoodStep, Settled

\* FdListGetPkg: one more holder, and one more reference.
LEMMA GetPkgGood ==
    ASSUME IInv, NEW t \in Handlers, NEW c \in Calls, NEW k \in Keys, GetPkg(t, c, k)
    PROVE  GoodStep
<1>0. Core /\ TypeOK
  BY DEF IInv, Core
<1>1. PICK p \in pkgs :
          /\ key[p] = k /\ ref' = [ref EXCEPT ![p] = @ + 1]
          /\ UNCHANGED <<proxy, pkgs, key, old, swept>>
          /\ Begin(t, c, k, p, "use")
  BY DEF GetPkg, FdListGetPkg, FdListSearchPkg
<1>2. /\ c \in Shared \cup {"send"} /\ pc[t] = "idle"
      /\ \A u \in Handlers : hkey[u] = k => c \in Shared /\ call[u] \in Shared
  BY DEF GetPkg, MayCall, Shared
<1>3. /\ Others(t) /\ LocalsOK' /\ torn' = (torn \/ Torn') /\ p \in Cells
      /\ pc'[t] = "use" /\ call'[t] = c /\ hkey'[t] = k /\ hpkg'[t] = p
  <2>1. p \in Cells /\ "use" \in Locs
    BY <1>0 DEF TypeOK, Locs
  <2> QED BY <1>0, <1>1, <2>1, BeginLocals
<1>4. /\ ref' \in [Cells -> Nat] /\ ref'[p] = ref[p] + 1
      /\ \A q \in pkgs \ {p} : ref'[q] = ref[q]
  BY <1>0, <1>1, <1>3 DEF TypeOK
<1>5. TypeOK'
  BY <1>0, <1>1, <1>3, <1>4 DEF TypeOK, LocalsOK, Locs
<1>6. Serves'
  BY <1>0, <1>2, <1>3 DEF Core, Serves, Others
<1>7. Alone'
  BY <1>0, <1>2, <1>3 DEF Core, Alone, Others
<1>8. KeysUnique' /\ Keyed' /\ Referenced'
  <2>1. KeysUnique' /\ Keyed'
    BY <1>0, <1>1 DEF Core, KeysUnique, Keyed
  <2>2. ASSUME NEW q \in pkgs' PROVE ref'[q] >= 1
    <3>1. q \in pkgs /\ ref[q] \in Nat /\ ref[q] >= 1
      BY <1>0, <1>1, <2>2 DEF Core, TypeOK, Referenced
    <3> QED BY <1>4, <3>1
  <2> QED BY <2>1, <2>2 DEF Referenced
<1>9. Hands
  BY <1>1, <1>3 DEF Hands, Others, Relies
<1>10. ASSUME ~torn, NEW q \in pkgs \cup pkgs' PROVE Balanced(q)'
  <2>1. q \in pkgs /\ Balanced(q) /\ swept'[q] = swept[q]
    BY <1>1, <1>10 DEF IInv, RefExact
  <2>2. t \notin PkgHolders(q)
    BY <1>2 DEF PkgHolders
  <2>3. CASE q = p
    <3>1. PkgHolders(q)' = PkgHolders(q) \cup {t}
      BY <1>2, <1>3, <2>3 DEF PkgHolders, Others
    <3>2. Cardinality(PkgHolders(q)') = Cardinality(PkgHolders(q)) + 1
      BY <2>2, <3>1, HoldersFinite, FS_AddElement
    <3>3. ref[q] \in Nat /\ swept[q] \in Nat /\ Cardinality(PkgHolders(q)) \in Nat
      BY <1>0, <2>1, HoldersFinite DEF TypeOK
    <3> QED BY <1>4, <2>1, <2>3, <3>2, <3>3 DEF Balanced
  <2>4. CASE q # p
    <3>1. PkgHolders(q)' = PkgHolders(q)
      BY <1>2, <1>3, <2>4 DEF PkgHolders, Others
    <3> QED BY <1>4, <2>1, <2>4, <3>1 DEF Balanced
  <2> QED BY <2>3, <2>4
<1>11. Core'
  BY <1>5, <1>6, <1>7, <1>8 DEF Core
<1> QED BY <1>1, <1>3, <1>9, <1>10, <1>11 DEF GoodStep, Settled

\* The handler goes on with its call, or returns.
GoesOn(t) ==
    /\ Others(t) /\ LocalsOK' /\ torn' = (torn \/ Torn') /\ pc[t] # "idle"
    /\ \/ UNCHANGED <<call, hkey, hpkg>> /\ pc'[t] # "idle"
       \/ pc'[t] = "idle" /\ call'[t] = "none" /\ hkey'[t] = Nil

\* A handler that goes on without taking a package.
LEMMA GoesOnFacts ==
    ASSUME Core, NEW t \in Handlers, GoesOn(t), UNCHANGED proxy,
           Relies(t)' => Relies(t),
           pc'[t] \in {"use", "release"} => pc[t] = "use",
           pc'[t] = "again" => call[t] = "send",
           pc'[t] \in {"read", "releaseEnd", "releaseEmpty", "serialize", "freed"} =>
              pc[t] \in {"read", "releaseEnd", "releaseEmpty", "serialize"}
    PROVE  Serves' /\ Alone' /\ Hands
<1>1. Serves'
  BY DEF GoesOn, Core, Serves, Others
<1>2. Alone'
  BY DEF GoesOn, Core, Alone, Others
<1>3. Hands
  BY DEF GoesOn, Hands, Others, Relies
<1> QED BY <1>1, <1>2, <1>3

\* A step of a handler that leaves the list alone, and neither takes a reference
\* nor gives one back.
LEMMA MoveGood ==
    ASSUME IInv, NEW t \in Handlers, UNCHANGED list, GoesOn(t),
           Relies(t)' => Relies(t),
           pc[t] \in {"use", "release"} <=> pc'[t] \in {"use", "release"},
           pc'[t] = "use" => pc[t] = "use", pc'[t] = "release" => pc[t] = "use",
           pc'[t] # "again",
           pc'[t] \in {"read", "releaseEnd", "releaseEmpty", "serialize", "freed"} =>
              pc[t] \in {"read", "releaseEnd", "releaseEmpty", "serialize"}
    PROVE  GoodStep
<1>0. Core /\ TypeOK /\ UNCHANGED <<proxy, pkgs, key, ref, old, swept>>
  BY DEF IInv, Core, list
<1>1. TypeOK'
  BY <1>0 DEF GoesOn, TypeOK, LocalsOK, Locs
<1>2. Serves' /\ Alone' /\ Hands
  BY <1>0, GoesOnFacts
<1>3. Core'
  BY <1>0, <1>1, <1>2 DEF Core, KeysUnique, Keyed, Referenced
<1>4. \A p : PkgHolders(p)' = PkgHolders(p)
  BY DEF GoesOn, PkgHolders, Others
<1>5. ASSUME ~torn, NEW p \in pkgs \cup pkgs' PROVE Balanced(p)'
  BY <1>0, <1>4, <1>5 DEF IInv, RefExact, Balanced
<1> QED BY <1>0, <1>2, <1>3, <1>5 DEF GoodStep, Settled, GoesOn

\* Goto and Return are ways of going on.
LEMMA GotoGoesOn ==
    ASSUME TypeOK, NEW t \in Handlers, pc[t] # "idle",
           NEW loc \in Locs \ {"idle"}, Goto(t, loc)
    PROVE  GoesOn(t) /\ pc'[t] = loc
  BY GotoLocals DEF GoesOn

LEMMA ReturnGoesOn ==
    ASSUME TypeOK, NEW t \in Handlers, pc[t] # "idle", Return(t)
    PROVE  GoesOn(t) /\ pc'[t] = "idle"
<1>1. Begin(t, "none", Nil, Nil, "idle") /\ "idle" \in Locs
  BY DEF Return, Locs
<1> QED BY <1>1, BeginLocals DEF GoesOn

\* The steps between looking a package up and releasing it, and those after the
\* release of a package that was read.
LEMMA MoveSteps ==
    ASSUME IInv, NEW t \in Handlers,
           UsePkg(t) \/ ReadDone(t) \/ SerializeMsgBuf(t) \/ FailRecvmsg(t)
    PROVE  GoodStep
<1>0. UNCHANGED list /\ TypeOK /\ pc[t] # "idle"
  BY DEF UsePkg, ReadDone, SerializeMsgBuf, FailRecvmsg, IInv, Core
<1>1. ASSUME NEW loc \in {"release", "releaseEnd", "releaseEmpty", "serialize", "freed"},
             Goto(t, loc),
             \/ pc[t] = "use" /\ loc = "release"
             \/ pc[t] = "read" /\ loc \in {"releaseEnd", "releaseEmpty", "serialize"}
             \/ pc[t] = "serialize" /\ loc = "freed"
      PROVE  GoodStep
  <2>1. GoesOn(t) /\ pc'[t] = loc
    BY <1>0, <1>1, GotoGoesOn DEF Locs
  <2> QED BY <1>0, <1>1, <2>1, MoveGood DEF Relies
<1>2. ASSUME Return(t), pc[t] \in {"read", "serialize", "freed"}
      PROVE  GoodStep
  <2>1. GoesOn(t) /\ pc'[t] = "idle"
    BY <1>0, <1>2, ReturnGoesOn
  <2> QED BY <1>0, <1>2, <2>1, MoveGood DEF Relies
<1> QED BY <1>1, <1>2 DEF UsePkg, ReadDone, SerializeMsgBuf, FailRecvmsg

\* FdListReleasePkgByIndex finds what was put before the read, if the sweep has
\* left it there, and nobody else uses it.
LEMMA ReleaseReadGood ==
    ASSUME IInv, NEW t \in Handlers, ReleaseRead(t), Running
    PROVE  /\ GoodStep
           /\ ~torn => \A p \in pkgs' : key'[p] # hkey[t]
<1> DEFINE ps == FdListSearchPkg(hkey[t])
<1>0. Core /\ TypeOK
  BY DEF IInv, Core
<1>1. /\ pc[t] \in {"releaseEnd", "releaseEmpty"} /\ DerefPkgs(ps)
      /\ UNCHANGED <<proxy, swept>>
      /\ IF pc[t] = "releaseEmpty" THEN Goto(t, "serialize") ELSE Return(t)
  BY DEF ReleaseRead
<1>2. /\ ps \in SUBSET pkgs /\ call[t] \notin Shared
      /\ \A p \in ps : key[p] = hkey[t]
      /\ \A p \in pkgs : key[p] = hkey[t] => p \in ps
  BY <1>0, <1>1 DEF FdListSearchPkg, Core, Serves, Shared
<1> HIDE DEF ps
<1>3. GoesOn(t) /\ pc'[t] \in {"serialize", "idle"}
  BY <1>0, <1>1, GotoGoesOn, ReturnGoesOn DEF Locs
<1>4. Serves' /\ Alone' /\ Hands
  <2>1. pc'[t] = "serialize" \/ pc'[t] = "idle"
    BY <1>3
  <2> QED BY <1>0, <1>1, <1>3, <2>1, GoesOnFacts DEF Relies
<1>5. TypeOK'
  BY <1>0, <1>1, <1>2, <1>3, DerefFacts DEF GoesOn, TypeOK, LocalsOK, Locs
<1>6. Core'
  BY <1>0, <1>1, <1>2, <1>4, <1>5, DerefFacts DEF Core
<1>7. ASSUME ~torn, NEW p \in ps
      PROVE  \A u \in Handlers \ {t} : Relies(u) => hpkg[u] # p
  BY <1>1, <1>2, <1>7, OnlyHand
<1>8. ASSUME ~torn PROVE pkgs' = pkgs \ ps
  <2>1. \A p \in ps : PkgHolders(p) = {}
    BY <1>1, <1>7, <1>8 DEF PkgHolders, Relies
  <2> QED BY <1>1, <1>2, <1>8, <2>1, DropUnheld
<1>9. ASSUME ~torn, NEW p \in pkgs \cup pkgs' PROVE Settled(p)
  <2>1. p \in pkgs
    BY <1>8, <1>9
  <2>2. CASE p \in ps
    <3>1. \A u \in Handlers : Relies(u)' => hpkg'[u] # p
      BY <1>3, <1>7, <1>9, <2>2 DEF GoesOn, Others, Relies
    <3> QED BY <1>8, <1>9, <2>2, <3>1 DEF Settled
  <2>3. CASE p \notin ps
    <3>1. PkgHolders(p)' = PkgHolders(p)
      BY <1>1, <1>3 DEF GoesOn, Others, PkgHolders
    <3>2. ref'[p] = ref[p] /\ swept'[p] = swept[p]
      BY <1>0, <1>1, <1>2, <2>1, <2>3, DerefFacts
    <3> QED BY <1>9, <2>1, <3>1, <3>2 DEF IInv, RefExact, Balanced, Settled
  <2> QED BY <2>2, <2>3
<1>10. ASSUME ~torn, NEW p \in pkgs' PROVE key'[p] # hkey[t]
  BY <1>0, <1>1, <1>2, <1>8, <1>10, DerefFacts
<1>11. GoodStep
  BY <1>0, <1>1, <1>2, <1>3, <1>4, <1>6, <1>9, DerefFacts DEF GoodStep, GoesOn
<1> QED BY <1>10, <1>11

\* FdListReleasePkg, the first time and, after sending, the second.
LEMMA ReleasePkgGood ==
    ASSUME IInv, NEW t \in Handlers, FdListReleasePkg(t), Running
    PROVE  /\ GoodStep
           /\ ~torn /\ call[t] = "send" /\ pc'[t] = "idle" =>
                 \A p \in pkgs' : key'[p] # hkey[t]
<1> DEFINE ps == {hpkg[t]} \cap pkgs
<1>0. Core /\ TypeOK
  BY DEF IInv, Core
<1>1. /\ pc[t] \in {"release", "again"} /\ DerefPkgs(ps)
      /\ UNCHANGED <<proxy, swept>>
      /\ IF pc[t] = "release" /\ call[t] = "send" THEN Goto(t, "again") ELSE Return(t)
  BY DEF FdListReleasePkg
<1>2. /\ ps \in SUBSET pkgs /\ \A p \in ps : p = hpkg[t]
      /\ ~torn => hpkg[t] \in pkgs /\ ps = {hpkg[t]} /\ key[hpkg[t]] = hkey[t]
  BY <1>1 DEF IInv, InHand, Relies
<1> HIDE DEF ps
<1>3. /\ GoesOn(t)
      /\ \/ pc'[t] = "again" /\ pc[t] = "release" /\ call[t] = "send"
         \/ pc'[t] = "idle" /\ (pc[t] = "release" => call[t] # "send")
  BY <1>0, <1>1, GotoGoesOn, ReturnGoesOn DEF Locs
<1>4. Serves' /\ Alone' /\ Hands
  BY <1>0, <1>1, <1>3, GoesOnFacts DEF Relies
<1>5. TypeOK'
  BY <1>0, <1>1, <1>2, <1>3, DerefFacts DEF GoesOn, TypeOK, LocalsOK, Locs
<1>6. Core'
  BY <1>0, <1>1, <1>2, <1>4, <1>5, DerefFacts DEF Core
<1>7. ASSUME ~torn, NEW p \in pkgs \ {hpkg[t]} PROVE Settled(p)
  <2>1. PkgHolders(p)' = PkgHolders(p)
    BY <1>3, <1>7 DEF GoesOn, Others, PkgHolders
  <2>2. ref'[p] = ref[p] /\ swept'[p] = swept[p]
    BY <1>0, <1>1, <1>2, <1>7, DerefFacts
  <2> QED BY <1>7, <2>1, <2>2 DEF IInv, RefExact, Balanced, Settled
<1>8. ASSUME ~torn, pc[t] = "release", NEW p, p = hpkg[t] PROVE Settled(p)
  <2>1. p \in pkgs /\ p \in Cells /\ t \in PkgHolders(p) /\ Balanced(p)
    BY <1>0, <1>2, <1>8 DEF PkgHolders, IInv, RefExact, TypeOK
  <2>2. PkgHolders(p)' = PkgHolders(p) \ {t}
    BY <1>3, <1>8, <2>1 DEF GoesOn, Others, PkgHolders
  <2>3. Cardinality(PkgHolders(p)') = Cardinality(PkgHolders(p)) - 1
    BY <2>1, <2>2, HoldersFinite, FS_RemoveElement
  <2>4. ref'[p] = ref[p] - 1 /\ swept'[p] = swept[p]
    BY <1>0, <1>1, <1>2, <1>8, DerefFacts
  <2>5. ref[p] \in Nat /\ swept[p] \in Nat /\ Cardinality(PkgHolders(p)) \in Nat
    BY <1>0, <2>1, HoldersFinite DEF TypeOK
  <2>6. Balanced(p)'
    BY <2>1, <2>3, <2>4, <2>5 DEF Balanced
  <2> QED BY <2>6 DEF Settled
<1>9. ASSUME ~torn, pc[t] = "again", NEW q, q = hpkg[t]
      PROVE  /\ Settled(q) /\ pkgs' = pkgs \ {q}
             /\ \A p \in pkgs' : key'[p] # hkey[t]
  <2>1. call[t] \notin Shared
    BY <1>0, <1>9 DEF Core, Serves, Shared
  <2>2. \A u \in Handlers \ {t} : Relies(u) => hpkg[u] # q
    BY <1>2, <1>9, <2>1, OnlyHand
  <2>3. \A p \in ps : PkgHolders(p) = {}
    BY <1>2, <1>9, <2>2 DEF PkgHolders, Relies
  <2>4. pkgs' = pkgs \ {q}
    BY <1>1, <1>2, <1>9, <2>3, DropUnheld
  <2>5. \A u \in Handlers : Relies(u)' => hpkg'[u] # q
    BY <1>3, <1>9, <2>2 DEF GoesOn, Others, Relies
  <2>6. Settled(q)
    BY <2>4, <2>5 DEF Settled
  <2>7. \A p \in pkgs' : key'[p] = key[p] /\ key[p] # key[q]
    BY <1>0, <1>1, <1>2, <1>9, <2>4, DerefFacts DEF Core, KeysUnique
  <2> QED BY <1>2, <1>9, <2>4, <2>6, <2>7
<1>10. ASSUME ~torn, NEW p \in pkgs \cup pkgs' PROVE Settled(p)
  <2>1. p \in pkgs
    BY <1>0, <1>1, <1>2, DerefFacts
  <2> QED BY <1>1, <1>7, <1>8, <1>9, <1>10, <2>1
<1>11. GoodStep
  BY <1>0, <1>1, <1>2, <1>3, <1>4, <1>6, <1>10, DerefFacts DEF GoodStep, GoesOn
<1>12. ASSUME ~torn, call[t] = "send", pc'[t] = "idle"
       PROVE  \A p \in pkgs' : key'[p] # hkey[t]
  BY <1>1, <1>3, <1>9, <1>12
<1> QED BY <1>11, <1>12

-----------------------------------------------------------------------------
(* The theorems. *)

\* The invariant holds at first: there are no packages.
LEMMA InitIInv == Init => IInv
<1> SUFFICES ASSUME Init PROVE IInv
  OBVIOUS
<1>1. TypeOK
  BY DEF Init, TypeOK
<1>2. Serves /\ Alone /\ InHand
  BY DEF Init, Serves, Alone, InHand, Relies
<1>3. RefExact /\ KeysUnique /\ Keyed /\ Referenced
  BY DEF Init, RefExact, KeysUnique, Keyed, Referenced
<1> QED BY <1>1, <1>2, <1>3 DEF IInv, Core

\* Every step is good.
LEMMA NextGood ==
    ASSUME IInv, Next
    PROVE  GoodStep
<1>1. ASSUME NEW t \in Handlers, Step(t) PROVE GoodStep
  BY <1>1, MoveSteps, ReleasePkgGood, ReleaseReadGood DEF Step
<1>2. ASSUME NEW t \in Handlers, NEW k \in Keys,
             \/ InsertFirstPkg(t, k) \/ PkgTerminate(t, k)
             \/ \E c \in Calls : GetPkg(t, c, k) \/ PutPkg(t, c, k)
      PROVE  GoodStep
  BY <1>2, InsertFirstPkgGood, PkgTerminateGood, GetPkgGood, PutPkgGood
<1>3. ASSUME NEW p \in Cells, Age(p) PROVE GoodStep
  BY <1>3, StillGood DEF Age, Running, IInv, Core, TypeOK
<1>4. CASE FdListDelTimeoutPkg \/ FdListDestroy
  BY <1>4, SweepGood, DestroyGood
<1>5. CASE FdListInit \/ Fault
  BY <1>5, StillGood DEF FdListInit, Fault, IInv, Core, TypeOK
<1> QED BY <1>1, <1>2, <1>3, <1>4, <1>5 DEF Next

\* Every step, and every stuttering step, keeps the invariant.
LEMMA NextIInv ==
    ASSUME IInv, [Next]_vars
    PROVE  IInv'
<1>1. CASE Next
  BY <1>1, NextGood, GoodStepKeeps
<1>2. CASE UNCHANGED vars
  <2> USE <1>2 DEF vars, list
  <2>1. Core'
    BY DEF IInv, Core, TypeOK, Serves, Alone, KeysUnique, Keyed, Referenced
  <2>2. InHand'
    BY DEF IInv, InHand, Relies
  <2>3. RefExact'
    BY DEF IInv, RefExact, Balanced, PkgHolders
  <2> QED BY <2>1, <2>2, <2>3 DEF IInv
<1> QED BY <1>1, <1>2

\* The invariant holds in every reachable state.
THEOREM InvariantHolds == Spec => []IInv
<1>1. IInv /\ [Next]_vars => IInv'
  BY NextIInv
<1> QED BY <1>1, InitIInv, PTL DEF Spec

\* With any number of handlers, and with the sweep taking references of packages in
\* use, the references of a package (fd_list.c, refCnt) are accounted for until
\* memory is freed in use, and a descriptor and index always name at most one
\* package.
THEOREM RefCountsHold == Spec => []PkgRefCount
<1>1. IInv => PkgRefCount
  BY DEF IInv, Core, PkgRefCount, RefExact, Balanced, KeysUnique
<1> QED BY <1>1, InvariantHolds, PTL

\* No interleaving of handlers frees a package under another handler: only the
\* sweep can, and only when it has come by more often than there are handlers with
\* a reference of their own.
THEOREM OnlySweepsFree == Spec => RefProtects
<1>1. IInv /\ [Next]_vars => [~torn => SweptEnough']_vars
  BY NextGood, GoodStepKeeps
<1> QED BY <1>1, InvariantHolds, PTL DEF Spec, RefProtects

\* The double release after sending and the release by index after a failed read
\* do remove the package, whatever other handlers and the sweep do meanwhile.
THEOREM SentIsGone == Spec => AnsweredIsGone
<1> DEFINE Gone == \A t \in Handlers :
                     /\ call[t] = "send" \/ pc[t] = "releaseEnd"
                     /\ pc'[t] = "idle"
                     /\ ~torn
                     => \A p \in pkgs' : key'[p] # hkey[t]
<1>1. ASSUME IInv, Next PROVE Gone
  <2> SUFFICES ASSUME NEW t \in Handlers,
                      call[t] = "send" \/ pc[t] = "releaseEnd",
                      pc'[t] = "idle", ~torn
               PROVE  \A p \in pkgs' : key'[p] # hkey[t]
    OBVIOUS
  <2>1. pc[t] \in {"use", "release", "again", "releaseEnd"}
    BY <1>1 DEF IInv, Core, TypeOK, Serves, Shared
  <2>2. PICK u \in Handlers : Step(u) \/ \E k \in Keys, c \in Calls : GetPkg(u, c, k) \/ PutPkg(u, c, k)
    <3>1. pc' # pc
      BY <2>1
    <3> QED BY <1>1, <3>1 DEF Next, Age, FdListDelTimeoutPkg, FdListDestroy, FdListInit, Fault,
                            InsertFirstPkg, PkgTerminate, Idle
  <2>3. u = t
    <3>1. CASE u # t
      <4>1. pc'[t] = pc[t]
        BY <2>2, <3>1, <1>1 DEF IInv, Core, TypeOK, Step, UsePkg, FdListReleasePkg, ReadDone,
              ReleaseRead, SerializeMsgBuf, FailRecvmsg, GetPkg, PutPkg, Goto, Return, Begin
      <4> QED BY <2>1, <4>1
    <3> QED BY <3>1
  <2>4. Step(t)
    BY <2>1, <2>2, <2>3 DEF GetPkg, PutPkg, MayCall
  <2>5. Running /\ (FdListReleasePkg(t) \/ ReleaseRead(t))
    <3>1. ~(ReadDone(t) \/ SerializeMsgBuf(t) \/ FailRecvmsg(t))
      BY <2>1 DEF ReadDone, SerializeMsgBuf, FailRecvmsg
    <3>2. UsePkg(t) => pc'[t] = "release"
      BY <1>1 DEF UsePkg, Goto, IInv, Core, TypeOK
    <3> QED BY <2>4, <3>1, <3>2 DEF Step
  <2>6. CASE FdListReleasePkg(t)
    <3>1. call[t] = "send"
      BY <2>6 DEF FdListReleasePkg
    <3> QED BY <1>1, <2>5, <2>6, <3>1, ReleasePkgGood
  <2>7. CASE ReleaseRead(t)
    BY <1>1, <2>5, <2>7, ReleaseReadGood
  <2> QED BY <2>5, <2>6, <2>7
<1>2. IInv /\ [Next]_vars => [Gone]_vars
  BY <1>1
<1> QED BY <1>2, InvariantHolds, PTL DEF Spec, AnsweredIsGone
=============================================================================
