--------------------------- MODULE FsAgentProofs ---------------------------
(***************************************************************************)
(* Proofs about FsAgent, for any number of files, open FILEs, descriptor   *)
(* numbers and records.                                                    *)
(***************************************************************************)
EXTENDS FsAgent, FiniteSetTheorems, WellFoundedInduction, TLAPS

-----------------------------------------------------------------------------
(* The inductive invariant. *)

\* seq lists the nodes of O once each, in the order of the links nx and, the
\* other way, pv, beginning with F; behind the last comes the first again.
IsRing(O, F, nx, pv, m, seq) ==
    /\ m \in Nat \ {0} /\ seq \in [0 .. m - 1 -> O]
    /\ \A n \in O : \E k \in 0 .. m - 1 : seq[k] = n
    /\ \A j, k \in 0 .. m - 1 : seq[j] = seq[k] => j = k
    /\ F = seq[0]
    /\ \A k \in 0 .. m - 1 :
          /\ nx[seq[k]] = seq[IF k = m - 1 THEN 0 ELSE k + 1]
          /\ pv[seq[k]] = seq[IF k = 0 THEN m - 1 ELSE k - 1]

\* g_firstFile and the links make one ring of the open files.
Ring ==
    /\ first = Nil => open = {}
    /\ first # Nil =>
          \E seq \in [0 .. Cardinality(open) - 1 -> open] :
             IsRing(open, first, next, prev, Cardinality(open), seq)

\* No two open FILEs have one descriptor, and the TEE holds the descriptors of
\* the open FILEs, each for the file it leads to.
Handles ==
    /\ \A m, n \in open : fd[m] = fd[n] => m = n
    /\ \A n \in open : tee[fd[n]] = ino[n]
    /\ \A h \in Fds : tee[h] # Nil => \E n \in open : fd[n] = h

\* What was synchronized has also reached the kernel, so a later write back
\* does not undo it.
Promises ==
    \A i \in Inodes : /\ synced[i] \subseteq disk[i] \cap kern[i]
                      /\ written[i] \subseteq kern[i]

IInv == TypeOK /\ Ring /\ Handles /\ Promises

-----------------------------------------------------------------------------
(* The ring. *)

\* The first node is one of the ring's.
LEMMA RingHasFirst ==
    ASSUME NEW O, NEW F, NEW nx, NEW pv, NEW m, NEW seq, IsRing(O, F, nx, pv, m, seq)
    PROVE  seq \in [0 .. m - 1 -> O] /\ F \in O
<1>1. m \in Nat \ {0} /\ F = seq[0] /\ seq \in [0 .. m - 1 -> O]
  BY DEF IsRing
<1> QED BY <1>1

\* A single node is linked to itself.
LEMMA RingOfOne ==
    ASSUME NEW n, NEW nx, NEW pv, nx[n] = n, pv[n] = n
    PROVE  IsRing({n}, n, nx, pv, 1, [k \in 0 .. 0 |-> n])
  BY DEF IsRing

\* AddOpenFile behind the last node keeps the ring, one longer.
LEMMA RingAdd ==
    ASSUME NEW O \in SUBSET Nodes, NEW F, NEW m, NEW seq,
           NEW nx \in [Nodes -> Nodes \cup {Nil}], NEW pv \in [Nodes -> Nodes \cup {Nil}],
           IsRing(O, F, nx, pv, m, seq),
           NEW n \in Nodes \ O
    PROVE  IsRing(O \cup {n}, F, [nx EXCEPT ![pv[F]] = n, ![n] = F],
                  [pv EXCEPT ![n] = pv[F], ![F] = n], m + 1,
                  [k \in 0 .. m |-> IF k = m THEN n ELSE seq[k]])
<1> DEFINE s == [k \in 0 .. m |-> IF k = m THEN n ELSE seq[k]]
           nxt == [nx EXCEPT ![pv[F]] = n, ![n] = F]
           pvt == [pv EXCEPT ![n] = pv[F], ![F] = n]
<1>1. /\ m \in Nat \ {0} /\ \A k \in 0 .. m - 1 : seq[k] \in O
      /\ \A j \in O : \E k \in 0 .. m - 1 : seq[k] = j
      /\ \A j, k \in 0 .. m - 1 : seq[j] = seq[k] => j = k
      /\ F = seq[0] /\ pv[F] = seq[m - 1]
      /\ \A k \in 0 .. m - 1 :
            /\ nx[seq[k]] = seq[IF k = m - 1 THEN 0 ELSE k + 1]
            /\ pv[seq[k]] = seq[IF k = 0 THEN m - 1 ELSE k - 1]
  BY DEF IsRing
<1>2. /\ m + 1 \in Nat \ {0} /\ s \in [0 .. m -> O \cup {n}]
      /\ s[m] = n /\ \A k \in 0 .. m - 1 : s[k] = seq[k] /\ s[k] # n
      /\ F = s[0]
  BY <1>1
<1>3. \A j \in O \cup {n} : \E k \in 0 .. m : s[k] = j
  BY <1>1, <1>2
<1>4. \A j, k \in 0 .. m : s[j] = s[k] => j = k
  BY <1>1, <1>2
<1>5. ASSUME NEW k \in 0 .. m
      PROVE  nxt[s[k]] = s[IF k = m THEN 0 ELSE k + 1]
  <2> HIDE DEF s
  <2>1. CASE k = m
    BY <2>1, <1>1, <1>2
  <2>2. CASE k = m - 1
    BY <2>2, <1>1, <1>2
  <2>3. CASE k < m - 1
    <3>1. seq[k] # seq[m - 1] /\ seq[k] \in Nodes /\ seq[k] # n
      BY <2>3, <1>1
    <3>2. nxt[seq[k]] = nx[seq[k]]
      BY <3>1, <1>1
    <3>3. s[k] = seq[k] /\ s[k + 1] = seq[k + 1]
      <4>1. k \in 0 .. m - 1 /\ k + 1 \in 0 .. m - 1
        BY <2>3, <1>1
      <4> QED BY <4>1, <1>2
    <3>4. nx[seq[k]] = seq[k + 1]
      BY <2>3, <1>1
    <3> QED BY <2>3, <3>2, <3>3, <3>4, <1>1
  <2> QED BY <2>1, <2>2, <2>3, <1>1
<1>6. ASSUME NEW k \in 0 .. m
      PROVE  pvt[s[k]] = s[IF k = 0 THEN m ELSE k - 1]
  <2> HIDE DEF s
  <2>1. CASE k = 0
    BY <2>1, <1>1, <1>2
  <2>2. CASE k = m
    BY <2>2, <1>1, <1>2
  <2>3. CASE k # 0 /\ k # m
    <3>1. seq[k] # F /\ seq[k] \in Nodes /\ seq[k] # n
      BY <2>3, <1>1
    <3>2. pvt[seq[k]] = pv[seq[k]]
      BY <3>1, <1>1
    <3>3. s[k] = seq[k] /\ s[k - 1] = seq[k - 1]
      <4>1. k \in 0 .. m - 1 /\ k - 1 \in 0 .. m - 1
        BY <2>3, <1>1
      <4> QED BY <4>1, <1>2
    <3>4. pv[seq[k]] = seq[k - 1]
      BY <2>3, <1>1
    <3> QED BY <2>3, <3>2, <3>3, <3>4, <1>1
  <2> QED BY <2>1, <2>2, <2>3, <1>1
<1> HIDE DEF s, nxt, pvt
<1>7. m + 1 - 1 = m
  BY <1>1
<1>8. IsRing(O \cup {n}, F, nxt, pvt, m + 1, s)
  BY <1>2, <1>3, <1>4, <1>5, <1>6, <1>7 DEF IsRing
<1> QED BY <1>8 DEF s, nxt, pvt

\* A node is linked to itself only if it is alone.
LEMMA RingAlone ==
    ASSUME NEW O, NEW F, NEW nx, NEW pv, NEW m, NEW seq,
           IsRing(O, F, nx, pv, m, seq),
           NEW n \in O
    PROVE  nx[n] = n <=> O = {n}
<1>1. PICK j \in 0 .. m - 1 : seq[j] = n
  BY DEF IsRing
<1>2. /\ m \in Nat \ {0} /\ \A k \in 0 .. m - 1 : seq[k] \in O
      /\ \A i \in O : \E k \in 0 .. m - 1 : seq[k] = i
      /\ \A i, k \in 0 .. m - 1 : seq[i] = seq[k] => i = k
      /\ nx[n] = seq[IF j = m - 1 THEN 0 ELSE j + 1]
  BY <1>1 DEF IsRing
<1>3. ASSUME nx[n] = n PROVE m = 1
  <2>1. PICK i \in 0 .. m - 1 : i = (IF j = m - 1 THEN 0 ELSE j + 1)
    BY <1>1, <1>2
  <2>2. seq[i] = seq[j]
    BY <1>1, <1>2, <1>3, <2>1
  <2>3. i = j
    BY <1>2, <2>2
  <2> QED BY <1>2, <2>1, <2>3
<1>4. ASSUME m = 1 PROVE O = {n}
  <2>1. \A i \in O : i = seq[0]
    BY <1>2, <1>4
  <2> QED BY <2>1
<1>5. ASSUME O = {n} PROVE nx[n] = n
  BY <1>2, <1>5
<1> QED BY <1>3, <1>4, <1>5

\* DelOpenFile of one of several nodes keeps the ring, one shorter, and
\* g_firstFile in it.
LEMMA RingDel ==
    ASSUME NEW O, NEW F, NEW nx, NEW pv, NEW m, NEW seq, NEW n,
           IsRing(O, F, nx, pv, m, seq), O \subseteq Nodes,
           nx \in [Nodes -> Nodes \cup {Nil}], pv \in [Nodes -> Nodes \cup {Nil}],
           n \in O, nx[n] # n
    PROVE  \E s : IsRing(O \ {n}, IF n = F THEN nx[n] ELSE F, [nx EXCEPT ![pv[n]] = nx[n]],
                         [pv EXCEPT ![nx[n]] = pv[n]], m - 1, s)
<1>1. PICK j \in 0 .. m - 1 : seq[j] = n
  BY DEF IsRing
<1> DEFINE s == [k \in 0 .. m - 2 |-> IF k < j THEN seq[k] ELSE seq[k + 1]]
           nxt == [nx EXCEPT ![pv[n]] = nx[n]]
           pvt == [pv EXCEPT ![nx[n]] = pv[n]]
           G == IF n = F THEN nx[n] ELSE F
<1>2. /\ m \in Nat \ {0} /\ \A k \in 0 .. m - 1 : seq[k] \in O
      /\ \A i \in O : \E k \in 0 .. m - 1 : seq[k] = i
      /\ \A i, k \in 0 .. m - 1 : seq[i] = seq[k] => i = k
      /\ F = seq[0]
      /\ \A k \in 0 .. m - 1 :
            /\ nx[seq[k]] = seq[IF k = m - 1 THEN 0 ELSE k + 1]
            /\ pv[seq[k]] = seq[IF k = 0 THEN m - 1 ELSE k - 1]
  BY DEF IsRing
<1>3. m >= 2
  BY <1>1, <1>2
<1>4. /\ nx[n] = seq[IF j = m - 1 THEN 0 ELSE j + 1]
      /\ pv[n] = seq[IF j = 0 THEN m - 1 ELSE j - 1]
  BY <1>1, <1>2
<1>5. /\ m - 1 \in Nat \ {0} /\ m - 1 - 1 = m - 2
      /\ \A k \in 0 .. m - 2 : s[k] = seq[IF k < j THEN k ELSE k + 1]
      /\ s \in [0 .. m - 2 -> O \ {n}]
  BY <1>1, <1>2, <1>3
<1>6. \A i \in O \ {n} : \E k \in 0 .. m - 2 : s[k] = i
  <2> SUFFICES ASSUME NEW i \in O \ {n} PROVE \E k \in 0 .. m - 2 : s[k] = i
    OBVIOUS
  <2>1. PICK k \in 0 .. m - 1 : seq[k] = i
    BY <1>2
  <2>2. CASE k < j
    BY <2>1, <2>2, <1>5, <1>3
  <2>3. CASE k > j
    <3>1. k - 1 \in 0 .. m - 2 /\ ~(k - 1 < j) /\ k - 1 + 1 = k
      BY <2>3, <1>2
    <3> QED BY <2>1, <3>1, <1>5
  <2> QED BY <2>1, <2>2, <2>3, <1>1, <1>2
<1> HIDE DEF s
<1>7. ASSUME NEW i \in 0 .. m - 2, NEW k \in 0 .. m - 2, s[i] = s[k]
      PROVE  i = k
  <2>1. PICK a \in 0 .. m - 1 : a = (IF i < j THEN i ELSE i + 1)
    BY <1>2, <1>3
  <2>2. PICK b \in 0 .. m - 1 : b = (IF k < j THEN k ELSE k + 1)
    BY <1>2, <1>3
  <2>3. seq[a] = seq[b]
    BY <1>5, <1>7, <2>1, <2>2
  <2>4. a = b
    BY <1>2, <2>3
  <2> QED BY <2>1, <2>2, <2>4
<1>8. G = s[0]
  BY <1>1, <1>2, <1>3, <1>4, <1>5
<1>9. ASSUME NEW k \in 0 .. m - 2
      PROVE  nxt[s[k]] = s[IF k = m - 2 THEN 0 ELSE k + 1]
  <2>1. PICK i \in 0 .. m - 1 : i = (IF k < j THEN k ELSE k + 1)
    BY <1>2, <1>3
  <2>2. s[k] = seq[i] /\ i # j
    BY <2>1, <1>5
  <2>3. seq[i] \in Nodes /\ nx[seq[i]] = seq[IF i = m - 1 THEN 0 ELSE i + 1]
    BY <1>2
  <2>4. CASE seq[i] = pv[n]
    <3>1. nxt[s[k]] = nx[n]
      BY <2>2, <2>3, <2>4
    <3>2. PICK b \in 0 .. m - 1 : b = (IF j = 0 THEN m - 1 ELSE j - 1)
      BY <1>2, <1>3
    <3>3. i = b
      BY <2>4, <3>2, <1>2, <1>4
    <3>4. PICK a \in 0 .. m - 1 : a = (IF j = m - 1 THEN 0 ELSE j + 1)
      BY <1>2, <1>3
    <3>5. PICK c \in 0 .. m - 2 : c = (IF k = m - 2 THEN 0 ELSE k + 1)
      BY <1>2, <1>3
    <3>6. a = (IF c < j THEN c ELSE c + 1)
      BY <3>2, <3>3, <3>4, <3>5, <2>1, <2>2, <1>2, <1>3
    <3>7. s[c] = seq[a] /\ nx[n] = seq[a]
      BY <3>4, <3>6, <1>4, <1>5
    <3> QED BY <3>1, <3>5, <3>7
  <2>5. CASE seq[i] # pv[n]
    <3>1. nxt[s[k]] = nx[seq[i]] /\ i # (IF j = 0 THEN m - 1 ELSE j - 1)
      BY <2>2, <2>3, <2>5, <1>2, <1>3, <1>4
    <3> QED BY <3>1, <2>1, <2>2, <2>3, <1>2, <1>3, <1>5
  <2> QED BY <2>4, <2>5
<1>10. ASSUME NEW k \in 0 .. m - 2
       PROVE  pvt[s[k]] = s[IF k = 0 THEN m - 2 ELSE k - 1]
  <2>1. PICK i \in 0 .. m - 1 : i = (IF k < j THEN k ELSE k + 1)
    BY <1>2, <1>3
  <2>2. s[k] = seq[i] /\ i # j
    BY <2>1, <1>5
  <2>3. seq[i] \in Nodes /\ pv[seq[i]] = seq[IF i = 0 THEN m - 1 ELSE i - 1]
    BY <1>2
  <2>4. CASE seq[i] = nx[n]
    <3>1. pvt[s[k]] = pv[n]
      BY <2>2, <2>3, <2>4
    <3>2. PICK b \in 0 .. m - 1 : b = (IF j = m - 1 THEN 0 ELSE j + 1)
      BY <1>2, <1>3
    <3>3. i = b
      BY <2>4, <3>2, <1>2, <1>4
    <3>4. PICK a \in 0 .. m - 1 : a = (IF j = 0 THEN m - 1 ELSE j - 1)
      BY <1>2, <1>3
    <3>5. PICK c \in 0 .. m - 2 : c = (IF k = 0 THEN m - 2 ELSE k - 1)
      BY <1>2, <1>3
    <3>6. a = (IF c < j THEN c ELSE c + 1)
      BY <3>2, <3>3, <3>4, <3>5, <2>1, <2>2, <1>2, <1>3
    <3>7. s[c] = seq[a] /\ pv[n] = seq[a]
      BY <3>4, <3>6, <1>4, <1>5
    <3> QED BY <3>1, <3>5, <3>7
  <2>5. CASE seq[i] # nx[n]
    <3>1. pvt[s[k]] = pv[seq[i]] /\ i # (IF j = m - 1 THEN 0 ELSE j + 1)
      BY <2>2, <2>3, <2>5, <1>2, <1>3, <1>4
    <3>2. PICK a \in 0 .. m - 1 : a = (IF i = 0 THEN m - 1 ELSE i - 1)
      BY <1>2, <1>3
    <3>3. PICK c \in 0 .. m - 2 : c = (IF k = 0 THEN m - 2 ELSE k - 1)
      BY <1>2, <1>3
    <3>4. a = (IF c < j THEN c ELSE c + 1)
      BY <3>1, <3>2, <3>3, <2>1, <2>2, <1>2, <1>3
    <3>5. s[c] = seq[a]
      BY <3>4, <1>5
    <3> QED BY <3>1, <3>2, <3>3, <3>5, <2>3
  <2> QED BY <2>4, <2>5
<1> HIDE DEF nxt, pvt, G
<1>11. IsRing(O \ {n}, G, nxt, pvt, m - 1, s)
  BY <1>5, <1>6, <1>7, <1>8, <1>9, <1>10 DEF IsRing
<1> QED BY <1>11 DEF nxt, pvt, G

-----------------------------------------------------------------------------
(* The walk along the list. *)

\* The order of the natural numbers, as a relation.
LessThan == {p \in Nat \X Nat : p[1] < p[2]}

\* A set of natural numbers that is not empty has a least element.
LEMMA LeastExists ==
    ASSUME NEW S \in SUBSET Nat, S # {}
    PROVE  \E i \in S : \A j \in S : i <= j
<1>1. IsWellFoundedOn(LessThan, Nat)
  BY NatLessThanWellFounded DEF OpToRel, LessThan
<1>2. PICK i \in S : \A j \in S : <<j, i>> \notin LessThan
  BY <1>1, WFMin
<1>3. \A j \in S : ~(j < i)
  BY <1>2 DEF LessThan
<1> QED BY <1>3

\* f is the walk of length N from F along nx.
IsWalk(f, F, nx, N) ==
    f = [k \in 0 .. N |-> IF k = 0 \/ F = Nil THEN F ELSE nx[f[k - 1]]]

\* There is a walk of any length.
LEMMA WalkExists == ASSUME NEW N \in Nat, NEW F, NEW nx PROVE \E f : IsWalk(f, F, nx, N)
<1> DEFINE Missing == {i \in Nat : ~ \E f : IsWalk(f, F, nx, i)}
<1> SUFFICES ASSUME Missing # {} PROVE FALSE
  OBVIOUS
<1>1. PICK i \in Missing : \A j \in Missing : i <= j
  BY LeastExists
<1>2. i # 0
  <2>1. IsWalk([k \in 0 .. 0 |-> F], F, nx, 0)
    BY DEF IsWalk
  <2> QED BY <2>1, <1>1
<1>3. i \in Nat /\ i - 1 \in Nat /\ i - 1 \notin Missing
  BY <1>1, <1>2
<1>4. PICK g : IsWalk(g, F, nx, i - 1)
  BY <1>3
<1> DEFINE f == [k \in 0 .. i |-> IF k = 0 \/ F = Nil THEN F ELSE nx[g[k - 1]]]
<1>5. \A k \in 0 .. i - 1 : g[k] = f[k]
  BY <1>3, <1>4 DEF IsWalk
<1>6. \A k \in 0 .. i : f[k] = IF k = 0 \/ F = Nil THEN F ELSE nx[f[k - 1]]
  <2> SUFFICES ASSUME NEW k \in 0 .. i, k # 0 PROVE g[k - 1] = f[k - 1]
    OBVIOUS
  <2>1. k - 1 \in 0 .. i - 1
    BY <1>3
  <2> QED BY <2>1, <1>5
<1>7. f = [k \in 0 .. i |-> IF k = 0 \/ F = Nil THEN F ELSE nx[f[k - 1]]]
  <2>1. \A k \in 0 .. i : (IF k = 0 \/ F = Nil THEN F ELSE nx[g[k - 1]])
                            = (IF k = 0 \/ F = Nil THEN F ELSE nx[f[k - 1]])
    BY <1>6
  <2> QED BY <2>1
<1>8. IsWalk(f, F, nx, i)
  BY <1>7 DEF IsWalk
<1> QED BY <1>1, <1>8

\* Walk is the walk from g_firstFile along the links, one step longer than
\* there can be nodes.
LEMMA WalkIs == FsAssumption => /\ Cardinality(Nodes) \in Nat
                                /\ IsWalk(Walk, first, next, Cardinality(Nodes))
<1> SUFFICES ASSUME FsAssumption
             PROVE  /\ Cardinality(Nodes) \in Nat
                    /\ IsWalk(Walk, first, next, Cardinality(Nodes))
  OBVIOUS
<1>1. Cardinality(Nodes) \in Nat
  BY FS_CardinalityType DEF FsAssumption
<1>2. \E f : IsWalk(f, first, next, Cardinality(Nodes))
  BY <1>1, WalkExists
<1> QED BY <1>1, <1>2 DEF Walk, IsWalk

\* The walk stays in the ring, and passes all of it before it comes back to
\* the first node.
LEMMA WalkOfRing ==
    ASSUME NEW O, NEW F, NEW nx, NEW pv, NEW m, NEW seq, NEW N, NEW f,
           IsRing(O, F, nx, pv, m, seq), IsWalk(f, F, nx, N),
           N \in Nat, m <= N, F # Nil
    PROVE  /\ \A k \in 0 .. N : f[k] \in O
           /\ \A n \in O : \E k \in 0 .. N - 1 :
                 f[k] = n /\ \A j \in 1 .. k : f[j] # F
<1>1. /\ m \in Nat \ {0} /\ \A k \in 0 .. m - 1 : seq[k] \in O
      /\ F = seq[0]
      /\ \A k \in 0 .. m - 1 : nx[seq[k]] = seq[IF k = m - 1 THEN 0 ELSE k + 1]
      /\ \A j \in O : \E k \in 0 .. m - 1 : seq[k] = j
      /\ \A j, k \in 0 .. m - 1 : seq[j] = seq[k] => j = k
  BY DEF IsRing
<1>2. f[0] = F /\ \A k \in 0 .. N : k # 0 => f[k] = nx[f[k - 1]]
  BY DEF IsWalk
<1> DEFINE Bad == {k \in 0 .. N : ~(f[k] \in O /\ (k <= m - 1 => f[k] = seq[k]))}
<1> SUFFICES ASSUME Bad # {} PROVE FALSE
  <2>1. CASE Bad = {}
    <3>1. ASSUME NEW n \in O
          PROVE  \E k \in 0 .. N - 1 : f[k] = n /\ \A j \in 1 .. k : f[j] # F
      <4>1. PICK k \in 0 .. m - 1 : seq[k] = n
        BY <1>1
      <4>2. \A j \in 1 .. k : f[j] # F
        <5> SUFFICES ASSUME NEW j \in 1 .. k PROVE f[j] # F
          OBVIOUS
        <5>1. j \in 0 .. m - 1 /\ j \in 0 .. N /\ 0 \in 0 .. m - 1 /\ j # 0
          BY <1>1, <4>1
        <5> QED BY <2>1, <5>1, <1>1
      <4> QED BY <2>1, <4>1, <4>2, <1>1
    <3> QED BY <2>1, <3>1
  <2> QED BY <2>1
<1>3. PICK k \in Bad : \A j \in Bad : k <= j
  <2>1. Bad \in SUBSET Nat
    OBVIOUS
  <2> HIDE DEF Bad
  <2> QED BY <2>1, LeastExists
<1>4. k # 0
  BY <1>1, <1>2, <1>3
<1>5. k \in 0 .. N /\ k - 1 \in 0 .. N /\ k - 1 \notin Bad
  BY <1>3, <1>4
<1>6. f[k - 1] \in O /\ (k - 1 <= m - 1 => f[k - 1] = seq[k - 1])
  BY <1>5
<1>7. f[k] = nx[f[k - 1]]
  BY <1>2, <1>4, <1>5
<1>8. f[k] \in O
  <2>1. PICK j \in 0 .. m - 1 : seq[j] = f[k - 1]
    BY <1>1, <1>6
  <2> QED BY <2>1, <1>1, <1>7
<1>9. k <= m - 1 => f[k] = seq[k]
  <2> SUFFICES ASSUME k <= m - 1 PROVE f[k] = seq[k]
    OBVIOUS
  <2>1. k - 1 \in 0 .. m - 1 /\ k - 1 # m - 1 /\ k - 1 + 1 = k /\ k - 1 <= m - 1
    BY <1>1, <1>5
  <2>2. nx[seq[k - 1]] = seq[k]
    BY <2>1, <1>1
  <2> QED BY <2>1, <2>2, <1>6, <1>7
<1> QED BY <1>3, <1>8, <1>9

\* FindOpenFile finds an open file with the descriptor if there is one, and
\* otherwise nothing.
LEMMA FindFinds ==
    FsAssumption /\ TypeOK /\ Ring =>
       \A h \in Fds :
          \/ FindOpenFile(h) \in open /\ fd[FindOpenFile(h)] = h
          \/ FindOpenFile(h) = Nil /\ \A n \in open : fd[n] # h
<1> SUFFICES ASSUME FsAssumption, TypeOK, Ring, NEW h \in Fds
             PROVE  \/ FindOpenFile(h) \in open /\ fd[FindOpenFile(h)] = h
                    \/ FindOpenFile(h) = Nil /\ \A n \in open : fd[n] # h
  OBVIOUS
<1> DEFINE N == Cardinality(Nodes)
           Hits == {k \in 0 .. N - 1 :
                       first # Nil /\ (\A j \in 1 .. k : Walk[j] # first) /\ fd[Walk[k]] = h}
           Hit == CHOOSE k \in Hits : \A j \in Hits : k <= j
<1>1. FindOpenFile(h) = IF Hits = {} THEN Nil ELSE Walk[Hit]
  BY DEF FindOpenFile
<1>2. N \in Nat /\ IsWalk(Walk, first, next, N)
  BY WalkIs
<1>3. first = Nil => Hits = {} /\ open = {}
  BY DEF Ring
<1> SUFFICES ASSUME first # Nil
             PROVE  \/ FindOpenFile(h) \in open /\ fd[FindOpenFile(h)] = h
                    \/ FindOpenFile(h) = Nil /\ \A n \in open : fd[n] # h
  BY <1>1, <1>3
<1> DEFINE m == Cardinality(open)
<1>4. PICK seq : IsRing(open, first, next, prev, m, seq)
  BY DEF Ring
<1>5. m \in Nat /\ m <= N
  BY FS_Subset, FS_CardinalityType DEF FsAssumption, TypeOK
<1>6. /\ \A k \in 0 .. N : Walk[k] \in open
      /\ \A n \in open : \E k \in 0 .. N - 1 :
            Walk[k] = n /\ \A j \in 1 .. k : Walk[j] # first
  <2> HIDE DEF N, m
  <2>1. first # Nil /\ N \in Nat
    BY <1>2
  <2>2. IsWalk(Walk, first, next, N)
    BY <1>2
  <2> QED BY <2>1, <2>2, <1>4, <1>5, WalkOfRing
<1>7. CASE Hits # {}
  <2>1. Hit \in Hits
    <3>1. Hits \in SUBSET Nat
      BY <1>2
    <3> HIDE DEF Hits
    <3> QED BY <1>7, <3>1, LeastExists
  <2>2. Hit \in 0 .. N /\ fd[Walk[Hit]] = h
    BY <2>1, <1>2
  <2> QED BY <1>1, <1>6, <1>7, <2>2
<1>8. ASSUME NEW n \in open, fd[n] = h PROVE Hits # {}
  <2>1. PICK k \in 0 .. N - 1 : Walk[k] = n /\ \A j \in 1 .. k : Walk[j] # first
    BY <1>6
  <2>2. k \in Hits
    BY <2>1, <1>8
  <2> QED BY <2>2
<1> QED BY <1>1, <1>7, <1>8

\* The walk meets exactly the open files.
LEMMA WalkMeetsOpen ==
    FsAssumption /\ TypeOK /\ Ring =>
       open = (IF first = Nil THEN {} ELSE Range(Walk))
<1> SUFFICES ASSUME FsAssumption, TypeOK, Ring, first # Nil PROVE open = Range(Walk)
  BY DEF Ring
<1> DEFINE N == Cardinality(Nodes)
           m == Cardinality(open)
<1>1. N \in Nat /\ IsWalk(Walk, first, next, N)
  BY WalkIs
<1>2. PICK seq : IsRing(open, first, next, prev, m, seq)
  BY DEF Ring
<1>3. m \in Nat /\ m <= N
  BY FS_Subset, FS_CardinalityType DEF FsAssumption, TypeOK
<1>4. /\ \A k \in 0 .. N : Walk[k] \in open
      /\ \A n \in open : \E k \in 0 .. N - 1 :
            Walk[k] = n /\ \A j \in 1 .. k : Walk[j] # first
  <2> HIDE DEF N, m
  <2>1. first # Nil /\ N \in Nat
    BY <1>1
  <2>2. IsWalk(Walk, first, next, N)
    BY <1>1
  <2> QED BY <2>1, <2>2, <1>2, <1>3, WalkOfRing
<1>5. DOMAIN Walk = 0 .. N
  BY <1>1 DEF IsWalk
<1>6. Range(Walk) \subseteq open
  BY <1>4, <1>5 DEF Range
<1>7. ASSUME NEW n \in open PROVE n \in Range(Walk)
  <2>1. PICK k \in 0 .. N - 1 : Walk[k] = n
    BY <1>4
  <2>2. k \in DOMAIN Walk
    BY <1>1, <1>5
  <2> QED BY <2>1, <2>2 DEF Range
<1> QED BY <1>6, <1>7

-----------------------------------------------------------------------------
(* Every step preserves the inductive invariant. *)

\* What a command on an open descriptor works on.
LEMMA FoundFile ==
    FsAssumption /\ IInv =>
       \A h \in Fds : tee[h] # Nil =>
          FindOpenFile(h) \in open /\ fd[FindOpenFile(h)] = h
          /\ FindOpenFile(h) \in Nodes /\ ino[FindOpenFile(h)] \in Inodes
<1> SUFFICES ASSUME FsAssumption, IInv, NEW h \in Fds, tee[h] # Nil
             PROVE  FindOpenFile(h) \in open /\ fd[FindOpenFile(h)] = h
                    /\ FindOpenFile(h) \in Nodes /\ ino[FindOpenFile(h)] \in Inodes
  OBVIOUS
<1>1. PICK n \in open : fd[n] = h
  BY DEF IInv, Handles
<1>2. FindOpenFile(h) \in open /\ fd[FindOpenFile(h)] = h
  BY <1>1, FindFinds DEF IInv
<1> QED BY <1>2 DEF IInv, TypeOK

\* The ring and the descriptors are as before if no file is opened or closed.
LEMMA OpenFilesKept ==
    ASSUME IInv, UNCHANGED <<ring, open, fd, ino, tee>>
    PROVE  Ring' /\ Handles'
<1>1. UNCHANGED <<first, next, prev, open, fd, ino, tee>>
  BY DEF ring
<1>2. Ring'
  BY <1>1 DEF IInv, Ring
<1>3. Handles'
  BY <1>1 DEF IInv, Handles
<1> QED BY <1>2, <1>3

\* At the start no file is open and nothing is promised.
LEMMA InitIInv == FsAssumption /\ Init => IInv
  BY DEF FsAssumption, Init, IInv, TypeOK, Ring, Handles, Promises

\* The kernel writes back only more than what was synchronized.
LEMMA WriteBackIInv ==
    ASSUME FsAssumption, IInv, NEW i \in Inodes, WriteBack(i)
    PROVE  IInv'
<1>1. Ring' /\ Handles'
  BY OpenFilesKept DEF WriteBack, files
<1>2. TypeOK'
  BY DEF WriteBack, ring, files, IInv, TypeOK
<1>3. Promises'
  BY DEF WriteBack, IInv, TypeOK, Promises
<1> QED BY <1>1, <1>2, <1>3 DEF IInv

\* Flushing a FILE adds its data to the kernel's.
LEMMA SeekIInv ==
    ASSUME FsAssumption, IInv, NEW h \in Fds, SeekWork(h)
    PROVE  IInv'
<1>1. PICK n \in open : n = FindOpenFile(h) /\ n \in Nodes /\ ino[n] \in Inodes
  BY FoundFile DEF SeekWork
<1>2. Ring' /\ Handles'
  BY OpenFilesKept DEF SeekWork
<1>3. /\ kern' = [kern EXCEPT ![ino[n]] = kern[ino[n]] \cup buf[n]]
      /\ buf' = [buf EXCEPT ![n] = {}]
      /\ UNCHANGED <<ring, open, fd, ino, names, disk, tee, written, synced>>
  BY <1>1 DEF SeekWork, Flushed
<1>4. TypeOK'
  BY <1>1, <1>3 DEF ring, IInv, TypeOK
<1>5. Promises'
  BY <1>1, <1>3 DEF IInv, TypeOK, Promises
<1> QED BY <1>2, <1>4, <1>5 DEF IInv

\* A write puts the record into the kernel or into the buffer of the FILE.
LEMMA WriteIInv ==
    ASSUME FsAssumption, IInv, NEW h \in Fds, NEW r \in Recs, NEW ssa \in BOOLEAN,
           WriteWork(h, r, ssa)
    PROVE  IInv'
<1>1. PICK n \in open : n = FindOpenFile(h) /\ n \in Nodes /\ ino[n] \in Inodes
  BY FoundFile DEF WriteWork
<1>2. Ring' /\ Handles'
  BY OpenFilesKept DEF WriteWork
<1>3. /\ \/ /\ kern' = [kern EXCEPT ![ino[n]] = (kern[ino[n]] \cup buf[n]) \cup {r}]
            /\ buf' = [buf EXCEPT ![n] = {}]
            /\ \/ written' = [written EXCEPT ![ino[n]] = @ \cup {r}]
               \/ written' = written
         \/ /\ buf' = [buf EXCEPT ![n] = @ \cup {r}]
            /\ UNCHANGED <<kern, written>>
      /\ UNCHANGED <<ring, open, fd, ino, names, disk, tee, synced>>
  BY <1>1 DEF WriteWork, Flushed
<1>4. TypeOK'
  BY <1>1, <1>3 DEF ring, IInv, TypeOK
<1>5. Promises'
  BY <1>1, <1>3 DEF IInv, TypeOK, Promises
<1> QED BY <1>2, <1>4, <1>5 DEF IInv

\* An fsync that succeeds takes the kernel's content to the disk.
LEMMA FsyncIInv ==
    ASSUME FsAssumption, IInv, NEW h \in Fds, FsyncWork(h)
    PROVE  IInv'
<1>1. PICK n \in open : n = FindOpenFile(h) /\ n \in Nodes /\ ino[n] \in Inodes
  BY FoundFile DEF FsyncWork
<1>2. Ring' /\ Handles'
  BY OpenFilesKept DEF FsyncWork
<1>3. PICK i \in Inodes, d \in SUBSET Recs : i = ino[n] /\ d = Flushed(n)
  BY <1>1 DEF Flushed, IInv, TypeOK
<1>4. /\ kern' = [kern EXCEPT ![i] = d]
      /\ buf' = [buf EXCEPT ![n] = {}]
      /\ \/ /\ disk' = [disk EXCEPT ![i] = d]
            /\ synced' = [synced EXCEPT ![i] = d]
            /\ written' = [written EXCEPT ![i] = d]
         \/ UNCHANGED <<disk, synced, written>>
      /\ UNCHANGED <<ring, open, fd, ino, names, tee>>
  BY <1>1, <1>3 DEF FsyncWork
<1>5. kern[i] \subseteq d
  BY <1>3 DEF Flushed
<1>6. TypeOK'
  BY <1>1, <1>3, <1>4 DEF ring, IInv, TypeOK
<1>7. Promises'
  BY <1>1, <1>3, <1>4, <1>5 DEF IInv, TypeOK, Promises
<1> QED BY <1>2, <1>6, <1>7 DEF IInv

\* Removing a path leaves the content of the file, open or not.
LEMMA RemoveIInv ==
    ASSUME FsAssumption, IInv, NEW ps, RemoveWork(ps)
    PROVE  IInv'
<1>1. Ring' /\ Handles'
  BY OpenFilesKept DEF RemoveWork, UnlinkRecursive, files
<1>2. TypeOK'
  BY DEF RemoveWork, UnlinkRecursive, ring, files, IInv, TypeOK
<1>3. Promises'
  BY DEF RemoveWork, IInv, Promises
<1> QED BY <1>1, <1>2, <1>3 DEF IInv

\* Renaming moves a path to another.
LEMMA RenameIInv ==
    ASSUME FsAssumption, IInv, NEW p \in Paths, NEW q \in Paths, RenameWork(p, q)
    PROVE  IInv'
<1>1. Ring' /\ Handles'
  BY OpenFilesKept DEF RenameWork, files
<1>2. TypeOK'
  BY DEF RenameWork, ring, files, IInv, TypeOK
<1>3. Promises'
  BY DEF RenameWork, IInv, Promises
<1> QED BY <1>1, <1>2, <1>3 DEF IInv

\* A truncated file keeps no promise about what was cut off.
LEMMA TruncateIInv ==
    ASSUME FsAssumption, IInv, NEW p \in Paths, TruncateWork(p)
    PROVE  IInv'
<1>1. Ring' /\ Handles'
  BY OpenFilesKept DEF TruncateWork, files
<1>2. PICK i \in Inodes : i = names[p]
  BY DEF TruncateWork, IInv, TypeOK
<1>3. PICK s \in SUBSET Recs : s \subseteq kern[i] /\ SetContent(i, s)
  BY <1>2 DEF TruncateWork, IInv, TypeOK
<1>4. UNCHANGED <<ring, files, names, disk, tee>>
  BY DEF TruncateWork
<1>5. TypeOK'
  BY <1>3, <1>4 DEF SetContent, ring, files, IInv, TypeOK
<1>6. Promises'
  BY <1>3, <1>4 DEF SetContent, IInv, TypeOK, Promises
<1> QED BY <1>1, <1>5, <1>6 DEF IInv

\* A copy that succeeds is on the disk, and one that fails promises nothing.
LEMMA CopyIInv ==
    ASSUME FsAssumption, IInv, NEW p \in Paths, NEW q \in Paths, CopyWork(p, q)
    PROVE  IInv'
<1>1. Ring' /\ Handles'
  BY OpenFilesKept DEF CopyWork, files
<1>2. names[p] \in Inodes
  BY DEF CopyWork, IInv, TypeOK
<1>3. PICK i \in Inodes, data \in SUBSET Recs :
         /\ names' = [names EXCEPT ![q] = i]
         /\ \/ /\ kern' = [kern EXCEPT ![i] = data]
               /\ disk' = [disk EXCEPT ![i] = data]
               /\ synced' = [synced EXCEPT ![i] = data]
               /\ written' = [written EXCEPT ![i] = data]
            \/ /\ \E s \in SUBSET data : kern' = [kern EXCEPT ![i] = s]
               /\ disk' = IF names[q] = Nil THEN [disk EXCEPT ![i] = {}] ELSE disk
               /\ synced' = [synced EXCEPT ![i] = {}]
               /\ written' = [written EXCEPT ![i] = {}]
  <2>1. PICK i \in Inodes :
           LET data == IF i = names[p] THEN {} ELSE kern[names[p]] IN
           /\ names' = [names EXCEPT ![q] = i]
           /\ \/ /\ kern' = [kern EXCEPT ![i] = data]
                 /\ disk' = [disk EXCEPT ![i] = data]
                 /\ synced' = [synced EXCEPT ![i] = data]
                 /\ written' = [written EXCEPT ![i] = data]
              \/ /\ \E s \in SUBSET data : kern' = [kern EXCEPT ![i] = s]
                 /\ disk' = IF names[q] = Nil THEN [disk EXCEPT ![i] = {}] ELSE disk
                 /\ synced' = [synced EXCEPT ![i] = {}]
                 /\ written' = [written EXCEPT ![i] = {}]
    BY DEF CopyWork
  <2>2. PICK data \in SUBSET Recs : data = IF i = names[p] THEN {} ELSE kern[names[p]]
    BY <1>2 DEF IInv, TypeOK
  <2> QED BY <2>1, <2>2
<1>4. UNCHANGED <<ring, files, tee>>
  BY DEF CopyWork
<1>5. TypeOK'
  BY <1>3, <1>4 DEF ring, files, IInv, TypeOK
<1>6. Promises'
  BY <1>3, <1>4 DEF IInv, TypeOK, Promises
<1> QED BY <1>1, <1>5, <1>6 DEF IInv

\* The process, or the machine, stops.
LEMMA StopIInv ==
    ASSUME FsAssumption, IInv, Restart \/ Crash
    PROVE  IInv'
<1>1. Stopped /\ (UNCHANGED <<kern, written>> \/ Crash)
  BY DEF Restart, Crash
<1>2. Ring' /\ Handles'
  BY <1>1 DEF Stopped, Ring, Handles
<1>3. TypeOK'
  <2>1. kern' \in [Inodes -> SUBSET Recs] /\ written' \in [Inodes -> SUBSET Recs]
    BY <1>1 DEF Crash, IInv, TypeOK
  <2>2. /\ first' = Nil /\ open' = {}
        /\ fd' \in [Nodes -> Fds \cup {Nil}] /\ ino' \in [Nodes -> Inodes \cup {Nil}]
        /\ buf' \in [Nodes -> SUBSET Recs]
        /\ tee' \in [Fds -> Inodes \cup {Nil}]
        /\ UNCHANGED <<next, prev, names, disk, synced>>
    BY <1>1 DEF Stopped
  <2> QED BY <2>1, <2>2 DEF IInv, TypeOK
<1>4. Promises'
  BY <1>1 DEF Stopped, Crash, IInv, TypeOK, Promises
<1> QED BY <1>2, <1>3, <1>4 DEF IInv

\* Opening makes a file without data not yet synchronized, or leaves the files
\* as they are.
LEMMA FopenKeeps ==
    ASSUME IInv, NEW p \in Paths, NEW i \in Inodes, NEW mode, Fopen(p, i, mode)
    PROVE  /\ names' \in [Paths -> Inodes \cup {Nil}]
           /\ kern' \in [Inodes -> SUBSET Recs] /\ disk' \in [Inodes -> SUBSET Recs]
           /\ written' \in [Inodes -> SUBSET Recs] /\ synced' \in [Inodes -> SUBSET Recs]
           /\ Promises'
<1>1. CASE UNCHANGED <<names, disk, kern, written, synced>>
  BY <1>1 DEF IInv, TypeOK, Promises
<1>2. CASE UNCHANGED <<names, disk>> /\ SetContent(i, {})
  BY <1>2 DEF SetContent, IInv, TypeOK, Promises
<1>3. CASE /\ names' = [names EXCEPT ![p] = i]
           /\ disk' = [disk EXCEPT ![i] = {}] /\ SetContent(i, {})
  BY <1>3 DEF SetContent, IInv, TypeOK, Promises
<1> QED BY <1>1, <1>2, <1>3 DEF Fopen

\* AddOpenFile: the node joins the ring.
LEMMA AddRing ==
    ASSUME FsAssumption, IInv, NEW n \in Nodes \ open, open' = open \cup {n}, AddOpenFile(n)
    PROVE  /\ Ring' /\ first' \in Nodes
           /\ next' \in [Nodes -> Nodes \cup {Nil}] /\ prev' \in [Nodes -> Nodes \cup {Nil}]
<1> USE DEF FsAssumption, IInv, TypeOK
<1>1. IsFiniteSet(open)
  BY FS_Subset
<1>2. Cardinality(open') = Cardinality(open) + 1
  BY <1>1, FS_AddElement
<1>3. CASE first = Nil
  <2>1. /\ open = {} /\ first' = n /\ first' # Nil
        /\ next' = [next EXCEPT ![n] = n] /\ prev' = [prev EXCEPT ![n] = n]
    BY <1>3 DEF Ring, AddOpenFile
  <2>2. Cardinality(open') = 1 /\ open' = {n}
    BY <2>1, <1>2, FS_EmptySet
  <2>3. IsRing({n}, n, next', prev', 1, [k \in 0 .. 0 |-> n])
    <3>1. next'[n] = n /\ prev'[n] = n
      BY <2>1
    <3> QED BY <3>1, RingOfOne
  <2>4. \E s \in [0 .. Cardinality(open') - 1 -> open'] :
           IsRing(open', first', next', prev', Cardinality(open'), s)
    <3>1. IsRing(open', first', next', prev', Cardinality(open'), [k \in 0 .. 0 |-> n])
      BY <2>1, <2>2, <2>3
    <3> QED BY <3>1, RingHasFirst
  <2>5. Ring'
    BY <2>1, <2>4 DEF Ring
  <2> QED BY <2>1, <2>5
<1>4. CASE first # Nil
  <2> DEFINE m == Cardinality(open)
  <2>1. PICK seq : IsRing(open, first, next, prev, m, seq)
    BY <1>4 DEF Ring
  <2>2. /\ first' = first
        /\ next' = [next EXCEPT ![prev[first]] = n, ![n] = first]
        /\ prev' = [prev EXCEPT ![n] = prev[first], ![first] = n]
    BY <1>4 DEF AddOpenFile
  <2>3. \E s : IsRing(open', first', next', prev', m + 1, s)
    BY <2>1, <2>2, RingAdd
  <2>4. first \in open
    BY <2>1 DEF IsRing
  <2>5. Ring'
    <3>1. PICK s : IsRing(open', first', next', prev', Cardinality(open'), s)
      BY <2>3, <1>2
    <3>2. s \in [0 .. Cardinality(open') - 1 -> open']
      BY <3>1, RingHasFirst
    <3> QED BY <3>1, <3>2, <2>2, <1>4 DEF Ring
  <2> QED BY <2>2, <2>4, <2>5
<1> QED BY <1>3, <1>4

\* DelOpenFile: the node leaves the ring.
LEMMA DelRing ==
    ASSUME FsAssumption, IInv, NEW n \in open, open' = open \ {n}, DelOpenFile(n)
    PROVE  /\ Ring' /\ first' \in Nodes \cup {Nil}
           /\ next' \in [Nodes -> Nodes \cup {Nil}] /\ prev' \in [Nodes -> Nodes \cup {Nil}]
<1> USE DEF FsAssumption, IInv, TypeOK
<1> DEFINE m == Cardinality(open)
<1>1. m \in Nat /\ Cardinality(open') = m - 1
  BY FS_Subset, FS_CardinalityType, FS_RemoveElement
<1>2. PICK seq : IsRing(open, first, next, prev, m, seq)
  BY DEF Ring
<1>3. next[n] = n <=> open = {n}
  BY <1>2, RingAlone
<1>4. CASE next[n] = n
  <2>1. first' = Nil /\ UNCHANGED <<next, prev>> /\ open' = {}
    BY <1>3, <1>4 DEF DelOpenFile
  <2> QED BY <2>1 DEF Ring
<1>5. CASE next[n] # n
  <2>1. /\ first' = IF n = first THEN next[n] ELSE first
        /\ prev' = [prev EXCEPT ![next[n]] = prev[n]]
        /\ next' = [next EXCEPT ![prev[n]] = next[n]]
    BY <1>5 DEF DelOpenFile
  <2>2. PICK s : IsRing(open', first', next', prev', Cardinality(open'), s)
    <3>1. \E s : IsRing(open \ {n}, IF n = first THEN next[n] ELSE first,
                        [next EXCEPT ![prev[n]] = next[n]],
                        [prev EXCEPT ![next[n]] = prev[n]], m - 1, s)
      BY <1>2, <1>5, RingDel
    <3> QED BY <3>1, <1>1, <2>1
  <2>3. s \in [0 .. Cardinality(open') - 1 -> open'] /\ first' \in open'
    BY <2>2, RingHasFirst
  <2>4. first' \in Nodes /\ first' # Nil
    BY <2>3
  <2>5. Ring'
    BY <2>2, <2>3, <2>4 DEF Ring
  <2>6. prev[n] \in Nodes \cup {Nil} /\ next[n] \in Nodes \cup {Nil}
    OBVIOUS
  <2> QED BY <2>1, <2>4, <2>5, <2>6
<1> QED BY <1>4, <1>5

\* Opening adds a FILE with a descriptor that no open file has.
LEMMA OpenIInv ==
    ASSUME FsAssumption, IInv, NEW p \in Paths, NEW mode, OpenWork(p, mode)
    PROVE  IInv'
<1>1. PICK i \in Inodes, n \in Nodes \ open, h \in Fds \ {fd[m] : m \in open} :
         /\ Fopen(p, i, mode)
         /\ \/ /\ open' = open \cup {n}
               /\ fd' = [fd EXCEPT ![n] = h]
               /\ ino' = [ino EXCEPT ![n] = i]
               /\ AddOpenFile(n)
               /\ tee' = [tee EXCEPT ![h] = i]
               /\ UNCHANGED buf
            \/ UNCHANGED <<ring, files, tee>>
  BY DEF OpenWork
<1>2. /\ names' \in [Paths -> Inodes \cup {Nil}]
      /\ kern' \in [Inodes -> SUBSET Recs] /\ disk' \in [Inodes -> SUBSET Recs]
      /\ written' \in [Inodes -> SUBSET Recs] /\ synced' \in [Inodes -> SUBSET Recs]
      /\ Promises'
  BY <1>1, FopenKeeps
<1>3. CASE UNCHANGED <<ring, files, tee>>
  <2>1. Ring' /\ Handles'
    BY <1>3, OpenFilesKept DEF files
  <2>2. TypeOK'
    BY <1>2, <1>3 DEF ring, files, IInv, TypeOK
  <2> QED BY <1>2, <2>1, <2>2 DEF IInv
<1>4. CASE /\ open' = open \cup {n}
           /\ fd' = [fd EXCEPT ![n] = h]
           /\ ino' = [ino EXCEPT ![n] = i]
           /\ AddOpenFile(n)
           /\ tee' = [tee EXCEPT ![h] = i]
           /\ UNCHANGED buf
  <2>1. /\ Ring' /\ first' \in Nodes
        /\ next' \in [Nodes -> Nodes \cup {Nil}] /\ prev' \in [Nodes -> Nodes \cup {Nil}]
    BY <1>4, AddRing
  <2>2. h # Nil /\ i # Nil
    BY DEF FsAssumption
  <2>3. TypeOK'
    <3>1. /\ open' \subseteq Nodes
          /\ fd' \in [Nodes -> Fds \cup {Nil}]
          /\ ino' \in [Nodes -> Inodes \cup {Nil}]
          /\ tee' \in [Fds -> Inodes \cup {Nil}]
          /\ buf' \in [Nodes -> SUBSET Recs]
      BY <1>4 DEF IInv, TypeOK
    <3>2. \A m \in open' : fd'[m] # Nil /\ ino'[m] # Nil
      BY <1>4, <2>2 DEF IInv, TypeOK
    <3> QED BY <1>2, <2>1, <3>1, <3>2 DEF TypeOK
  <2>4. /\ \A m \in open : fd'[m] = fd[m] /\ ino'[m] = ino[m] /\ fd[m] # h
        /\ fd'[n] = h /\ ino'[n] = i /\ tee'[h] = i
        /\ \A g \in Fds : g # h => tee'[g] = tee[g]
        /\ \A m \in open : fd[m] \in Fds
    BY <1>4 DEF IInv, TypeOK
  <2>5. Handles'
    <3>1. \A m, k \in open' : fd'[m] = fd'[k] => m = k
      BY <1>4, <2>4 DEF IInv, Handles
    <3>2. \A m \in open' : tee'[fd'[m]] = ino'[m]
      BY <1>4, <2>4 DEF IInv, Handles
    <3>3. \A g \in Fds : tee'[g] # Nil => \E m \in open' : fd'[m] = g
      BY <1>4, <2>4 DEF IInv, Handles
    <3> QED BY <3>1, <3>2, <3>3 DEF Handles
  <2> QED BY <1>2, <2>1, <2>3, <2>5 DEF IInv
<1> QED BY <1>1, <1>3, <1>4

\* Closing takes the FILE that has the descriptor, and no other.
LEMMA CloseIInv ==
    ASSUME FsAssumption, IInv, NEW h \in Fds, CloseWork(h)
    PROVE  IInv'
<1>1. PICK n \in open : /\ n = FindOpenFile(h) /\ fd[n] = h
                        /\ n \in Nodes /\ ino[n] \in Inodes
  BY FoundFile DEF CloseWork
<1>2. /\ kern' = [kern EXCEPT ![ino[n]] = kern[ino[n]] \cup buf[n]]
      /\ open' = open \ {n}
      /\ fd' = [fd EXCEPT ![n] = Nil]
      /\ ino' = [ino EXCEPT ![n] = Nil]
      /\ buf' = [buf EXCEPT ![n] = {}]
      /\ DelOpenFile(n)
      /\ tee' = [tee EXCEPT ![h] = Nil]
      /\ UNCHANGED <<names, disk, written, synced>>
  BY <1>1 DEF CloseWork, Flushed
<1>3. /\ Ring' /\ first' \in Nodes \cup {Nil}
      /\ next' \in [Nodes -> Nodes \cup {Nil}] /\ prev' \in [Nodes -> Nodes \cup {Nil}]
  BY <1>2, DelRing
<1>4. TypeOK'
  BY <1>1, <1>2, <1>3 DEF IInv, TypeOK
<1>5. Promises'
  BY <1>1, <1>2 DEF IInv, TypeOK, Promises
<1>6. /\ \A m \in open' : fd'[m] = fd[m] /\ ino'[m] = ino[m] /\ m \in open /\ fd[m] # h
      /\ \A g \in Fds : g # h => tee'[g] = tee[g]
      /\ tee'[h] = Nil
      /\ \A m \in open : fd[m] \in Fds
  BY <1>1, <1>2 DEF IInv, TypeOK, Handles
<1>7. Handles'
  <2>1. \A m, k \in open' : fd'[m] = fd'[k] => m = k
    BY <1>6 DEF IInv, Handles
  <2>2. \A m \in open' : tee'[fd'[m]] = ino'[m]
    BY <1>6 DEF IInv, Handles
  <2>3. ASSUME NEW g \in Fds, tee'[g] # Nil PROVE \E m \in open' : fd'[m] = g
    <3>1. g # h /\ tee[g] # Nil
      BY <1>6, <2>3
    <3>2. PICK m \in open : fd[m] = g
      BY <3>1 DEF IInv, Handles
    <3> QED BY <1>1, <1>2, <1>6, <3>1, <3>2
  <2> QED BY <2>1, <2>2, <2>3 DEF Handles
<1> QED BY <1>3, <1>4, <1>5, <1>7 DEF IInv

\* So every step preserves the invariant.
LEMMA NextIInv == FsAssumption /\ IInv /\ [Next]_vars => IInv'
<1> SUFFICES ASSUME FsAssumption, IInv, [Next]_vars PROVE IInv'
  OBVIOUS
<1>1. ASSUME NEW p \in Paths, NEW mode \in {"w+", "r+"}, OpenWork(p, mode) PROVE IInv'
  BY <1>1, OpenIInv
<1>2. ASSUME NEW h \in Fds, CloseWork(h) PROVE IInv'
  BY <1>2, CloseIInv
<1>3. ASSUME NEW h \in Fds, SeekWork(h) PROVE IInv'
  BY <1>3, SeekIInv
<1>4. ASSUME NEW h \in Fds, FsyncWork(h) PROVE IInv'
  BY <1>4, FsyncIInv
<1>5. ASSUME NEW h \in Fds, NEW r \in Recs, NEW ssa \in BOOLEAN, WriteWork(h, r, ssa)
      PROVE  IInv'
  BY <1>5, WriteIInv
<1>6. ASSUME NEW p \in Paths, TruncateWork(p) PROVE IInv'
  BY <1>6, TruncateIInv
<1>7. ASSUME NEW p \in Paths, NEW q \in Paths, RenameWork(p, q) \/ CopyWork(p, q)
      PROVE  IInv'
  BY <1>7, RenameIInv, CopyIInv
<1>8. ASSUME NEW ps \in Dirs \cup {{p} : p \in Paths}, RemoveWork(ps) PROVE IInv'
  BY <1>8, RemoveIInv
<1>9. CASE Restart \/ Crash
  BY <1>9, StopIInv
<1>10. ASSUME NEW i \in Inodes, WriteBack(i) PROVE IInv'
  BY <1>10, WriteBackIInv
<1>11. CASE UNCHANGED vars
  <2>1. Ring' /\ Handles'
    BY <1>11, OpenFilesKept DEF vars, files
  <2> QED BY <1>11, <2>1 DEF vars, ring, files, IInv, TypeOK, Promises
<1> QED
  BY <1>1, <1>2, <1>3, <1>4, <1>5, <1>6, <1>7, <1>8, <1>9, <1>10, <1>11
  DEF Next, Command

-----------------------------------------------------------------------------
(* The properties. *)

\* The invariant holds in every reachable state.
THEOREM InvariantHolds == Spec => []IInv
<1>1. Init => IInv
  BY FsAssumption, InitIInv
<1>2. IInv /\ [Next]_vars => IInv'
  BY FsAssumption, NextIInv
<1> QED BY <1>1, <1>2, PTL DEF Spec

\* However files are opened and closed, the list is one ring of exactly the
\* open files, linked both ways.
THEOREM RingStaysIntact == Spec => []RingIntact
<1>1. IInv => RingIntact
  <2> SUFFICES ASSUME IInv PROVE RingIntact
    OBVIOUS
  <2>1. open = (IF first = Nil THEN {} ELSE Range(Walk))
    BY FsAssumption, WalkMeetsOpen DEF IInv
  <2>2. ASSUME NEW n \in open PROVE prev[next[n]] = n /\ next[prev[n]] = n
    <3> DEFINE m == Cardinality(open)
    <3>1. PICK seq : IsRing(open, first, next, prev, m, seq)
      BY DEF IInv, Ring
    <3>2. PICK k \in 0 .. m - 1 : seq[k] = n
      BY <3>1 DEF IsRing
    <3>3. /\ m \in Nat \ {0}
          /\ \A j \in 0 .. m - 1 :
                /\ next[seq[j]] = seq[IF j = m - 1 THEN 0 ELSE j + 1]
                /\ prev[seq[j]] = seq[IF j = 0 THEN m - 1 ELSE j - 1]
      BY <3>1 DEF IsRing
    <3> HIDE DEF m
    <3>4. prev[next[n]] = n
      <4>1. PICK j \in 0 .. m - 1 : j = IF k = m - 1 THEN 0 ELSE k + 1
        BY <3>3
      <4>2. next[n] = seq[j] /\ prev[seq[j]] = seq[IF j = 0 THEN m - 1 ELSE j - 1]
        BY <3>2, <3>3, <4>1
      <4>3. k = IF j = 0 THEN m - 1 ELSE j - 1
        BY <3>3, <4>1
      <4> QED BY <3>2, <4>2, <4>3
    <3>5. next[prev[n]] = n
      <4>1. PICK j \in 0 .. m - 1 : j = IF k = 0 THEN m - 1 ELSE k - 1
        BY <3>3
      <4>2. prev[n] = seq[j] /\ next[seq[j]] = seq[IF j = m - 1 THEN 0 ELSE j + 1]
        BY <3>2, <3>3, <4>1
      <4>3. k = IF j = m - 1 THEN 0 ELSE j + 1
        BY <3>3, <4>1
      <4> QED BY <3>2, <4>2, <4>3
    <3> QED BY <3>4, <3>5
  <2> QED BY <2>1, <2>2 DEF RingIntact, IInv
<1> QED BY <1>1, InvariantHolds, PTL

\* The descriptors of the TEE lead to the files that were opened under them,
\* and every open FILE can be closed.
THEOREM HandlesLead == Spec => []HandleNames
<1>1. IInv => HandleNames
  <2> SUFFICES ASSUME IInv PROVE HandleNames
    OBVIOUS
  <2>1. ASSUME NEW h \in Fds, tee[h] # Nil
        PROVE  FindOpenFile(h) \in open /\ ino[FindOpenFile(h)] = tee[h]
    <3>1. FindOpenFile(h) \in open /\ fd[FindOpenFile(h)] = h
      BY <2>1, FsAssumption, FoundFile
    <3> QED BY <3>1 DEF IInv, Handles
  <2>2. ASSUME NEW n \in open PROVE tee[fd[n]] # Nil /\ FindOpenFile(fd[n]) = n
    <3>1. fd[n] \in Fds /\ tee[fd[n]] # Nil
      BY DEF IInv, TypeOK, Handles
    <3>2. FindOpenFile(fd[n]) \in open /\ fd[FindOpenFile(fd[n])] = fd[n]
      BY <3>1, FsAssumption, FoundFile
    <3> QED BY <3>1, <3>2 DEF IInv, Handles
  <2> QED BY <2>1, <2>2 DEF HandleNames
<1> QED BY <1>1, InvariantHolds, PTL

\* What was promised to the TEE as synchronized or written is on the disk or
\* in the kernel, across restarts and crashes.
THEOREM PromisesKept == Spec => []Durable
<1>1. IInv => Durable
  BY DEF IInv, Promises, Durable
<1> QED BY <1>1, InvariantHolds, PTL
==============================================================================
