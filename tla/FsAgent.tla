------------------------------ MODULE FsAgent ------------------------------
(***************************************************************************)
(* The secure storage agent of teecd (teecd/fs_work_agent.c).  The TEE     *)
(* sends one command at a time; the agent keeps its open files in a        *)
(* circular doubly linked list, finds them by descriptor number, and       *)
(* works on files whose data may be in a stdio buffer, in the kernel or on *)
(* the disk.  teecd or the whole machine may stop between two commands.    *)
(*                                                                         *)
(* A path is the result of JoinFileName; the content of a file is the set  *)
(* of the records written to it, each at a place of its own.  A command    *)
(* that fails without an effect, and the commands that only ask (access,   *)
(* file info, disk usage), are stuttering steps.                           *)
(***************************************************************************)
EXTENDS Integers, FiniteSets, Functions

CONSTANTS
    Paths,      \* paths of files
    Dirs,       \* directories, each the set of the paths below it
    Inodes,     \* files as the kernel knows them
    Nodes,      \* heap cells for struct OpenedFile, each with its FILE
    Fds,        \* descriptor numbers
    Recs,       \* records that the TEE writes
    Nil

ASSUME FsAssumption ==
    /\ IsFiniteSet(Nodes)
    /\ Dirs \subseteq SUBSET Paths
    /\ Nil \notin Inodes \cup Nodes \cup Fds

VARIABLES
    first, next, prev,  \* g_firstFile, and the links of the nodes
    open,               \* the FILEs that are open, by their nodes
    fd, ino, buf,       \* their descriptor, file, and data not yet flushed
    names,              \* kernel: the file at each path
    kern, disk,         \* kernel: content of the files, and what is on disk
    tee,                \* TEE: the file it has opened under each descriptor
    written, synced     \* history: what the TEE knows to be written through
                        \* to the kernel, and to the disk

ring == <<first, next, prev>>
files == <<open, fd, ino, buf>>
vars == <<ring, files, names, kern, disk, tee, written, synced>>

Init ==
    /\ first = Nil
    /\ next = [n \in Nodes |-> Nil] /\ prev = [n \in Nodes |-> Nil]
    /\ open = {}
    /\ fd = [n \in Nodes |-> Nil] /\ ino = [n \in Nodes |-> Nil]
    /\ buf = [n \in Nodes |-> {}]
    /\ names = [p \in Paths |-> Nil]
    /\ kern = [i \in Inodes |-> {}] /\ disk = [i \in Inodes |-> {}]
    /\ tee = [h \in Fds |-> Nil]
    /\ written = [i \in Inodes |-> {}] /\ synced = [i \in Inodes |-> {}]

-----------------------------------------------------------------------------
(* The list of open files. *)

\* Add to the tail, that is, before g_firstFile.
AddOpenFile(n) ==
    IF first = Nil
    THEN /\ first' = n
         /\ next' = [next EXCEPT ![n] = n]
         /\ prev' = [prev EXCEPT ![n] = n]
    ELSE /\ next' = [next EXCEPT ![prev[first]] = n, ![n] = first]
         /\ prev' = [prev EXCEPT ![n] = prev[first], ![first] = n]
         /\ UNCHANGED first

\* Mutant: g_firstFile still points to the removed node.
DelOpenFileHead(n) ==
    IF next[n] = n
    THEN first' = Nil /\ UNCHANGED <<next, prev>>
    ELSE /\ prev' = [prev EXCEPT ![next[n]] = prev[n]]
         /\ next' = [next EXCEPT ![prev[n]] = next[n]]
         /\ UNCHANGED first

DelOpenFile(n) ==
    IF next[n] = n
    THEN first' = Nil /\ UNCHANGED <<next, prev>>
    ELSE /\ first' = IF n = first THEN next[n] ELSE first
         /\ prev' = [prev EXCEPT ![next[n]] = prev[n]]
         /\ next' = [next EXCEPT ![prev[n]] = next[n]]

\* The nodes in the order of the list, starting again after the last.
Walk[k \in 0 .. Cardinality(Nodes)] ==
    IF k = 0 \/ first = Nil THEN first ELSE next[Walk[k - 1]]

\* The loop of FindOpenFile: the first node with that descriptor, if any.
FindOpenFile(h) ==
    LET Seen(k) == \A j \in 1 .. k : Walk[j] # first
        Hits == {k \in 0 .. Cardinality(Nodes) - 1 :
                    first # Nil /\ Seen(k) /\ fd[Walk[k]] = h}
    IN IF Hits = {} THEN Nil
       ELSE Walk[CHOOSE k \in Hits : \A j \in Hits : k <= j]

-----------------------------------------------------------------------------
(* What the kernel and stdio do. *)

\* Files that have neither a path nor an open FILE.
FreeInodes == Inodes \ (Range(names) \cup {ino[n] : n \in open})

\* The data of the FILE goes to the kernel.
Flushed(n) == kern[ino[n]] \cup buf[n]

\* Set the content of file i, and with it what the TEE may rely on.
SetContent(i, s) ==
    /\ kern' = [kern EXCEPT ![i] = s]
    /\ written' = [written EXCEPT ![i] = @ \cap s]
    /\ synced' = [synced EXCEPT ![i] = @ \cap s]

\* The kernel writes a file back to the disk whenever it likes.
WriteBack(i) ==
    /\ disk[i] # kern[i]
    /\ disk' = [disk EXCEPT ![i] = kern[i]]
    /\ UNCHANGED <<ring, files, names, kern, tee, written, synced>>

-----------------------------------------------------------------------------
(* The commands. *)

\* fopen: an existing file, emptied for mode "w+", or a new one.
Fopen(p, i, mode) ==
    \/ /\ i = names[p]
       /\ IF mode = "w+" THEN SetContent(i, {}) ELSE UNCHANGED <<kern, written, synced>>
       /\ UNCHANGED <<names, disk>>
    \/ /\ names[p] = Nil /\ mode = "w+" /\ i \in FreeInodes
       /\ names' = [names EXCEPT ![p] = i]
       /\ SetContent(i, {})
       /\ disk' = [disk EXCEPT ![i] = {}]

\* Mutant: without a node the FILE stays open.
OpenKeepsFile(p, mode) ==
    \E i \in Inodes, n \in Nodes \ open, h \in Fds \ {fd[m] : m \in open} :
       /\ Fopen(p, i, mode)
       /\ open' = open \cup {n}
       /\ fd' = [fd EXCEPT ![n] = h]
       /\ ino' = [ino EXCEPT ![n] = i]
       /\ UNCHANGED buf
       /\ \/ AddOpenFile(n) /\ tee' = [tee EXCEPT ![h] = i]
          \/ UNCHANGED <<ring, tee>>

\* SEC_CREATE opens with "w+", SEC_OPEN an existing file with the mode that
\* the TEE gives.  If AddOpenFile has no memory the FILE is closed again.
OpenWork(p, mode) ==
    \E i \in Inodes, n \in Nodes \ open, h \in Fds \ {fd[m] : m \in open} :
       /\ Fopen(p, i, mode)
       /\ \/ /\ open' = open \cup {n}
             /\ fd' = [fd EXCEPT ![n] = h]
             /\ ino' = [ino EXCEPT ![n] = i]
             /\ AddOpenFile(n)
             /\ tee' = [tee EXCEPT ![h] = i]
             /\ UNCHANGED buf
          \/ UNCHANGED <<ring, files, tee>>

\* fclose, which is assumed to succeed, flushes the data of the FILE to the
\* kernel.
CloseWork(h) ==
    LET n == FindOpenFile(h) IN
    /\ tee[h] # Nil /\ n # Nil
    /\ kern' = [kern EXCEPT ![ino[n]] = Flushed(n)]
    /\ open' = open \ {n}
    /\ fd' = [fd EXCEPT ![n] = Nil]
    /\ ino' = [ino EXCEPT ![n] = Nil]
    /\ buf' = [buf EXCEPT ![n] = {}]
    /\ DelOpenFile(n)
    /\ tee' = [tee EXCEPT ![h] = Nil]
    /\ UNCHANGED <<names, disk, written, synced>>

\* Mutant: the flush of a write by the storage service is left out.
WriteNoFlush(h, r, ssa) ==
    LET n == FindOpenFile(h) IN
    /\ tee[h] # Nil /\ n # Nil
    /\ buf' = [buf EXCEPT ![n] = @ \cup {r}]
    /\ written' = IF ssa THEN [written EXCEPT ![ino[n]] = @ \cup {r}] ELSE written
    /\ UNCHANGED <<ring, open, fd, ino, names, kern, disk, tee, synced>>

\* A write of the storage service (SEC_WRITE_SSA) is flushed to the kernel,
\* and answered with 0 if that fails; the log's stays in the buffer, unless
\* stdio finds it full.
WriteWork(h, r, ssa) ==
    LET n == FindOpenFile(h) IN
    /\ tee[h] # Nil /\ n # Nil
    /\ \/ /\ kern' = [kern EXCEPT ![ino[n]] = Flushed(n) \cup {r}]
          /\ buf' = [buf EXCEPT ![n] = {}]
          /\ written' = IF ssa THEN [written EXCEPT ![ino[n]] = @ \cup {r}]
                               ELSE written
       \/ /\ buf' = [buf EXCEPT ![n] = @ \cup {r}]
          /\ UNCHANGED <<kern, written>>
    /\ UNCHANGED <<ring, open, fd, ino, names, disk, tee, synced>>

\* SeekWork, and ReadWork where it follows a write: stdio flushes.
SeekWork(h) ==
    LET n == FindOpenFile(h) IN
    /\ tee[h] # Nil /\ n # Nil
    /\ kern' = [kern EXCEPT ![ino[n]] = Flushed(n)]
    /\ buf' = [buf EXCEPT ![n] = {}]
    /\ UNCHANGED <<ring, open, fd, ino, names, disk, tee, written, synced>>

\* Mutant: the FILE is not flushed before the descriptor is synchronized.
FsyncKernelOnly(h) ==
    LET n == FindOpenFile(h) IN
    /\ tee[h] # Nil /\ n # Nil
    /\ disk' = [disk EXCEPT ![ino[n]] = kern[ino[n]]]
    /\ synced' = [synced EXCEPT ![ino[n]] = Flushed(n)]
    /\ UNCHANGED <<ring, files, names, kern, tee, written>>

\* fflush, then fsync; the second may fail after the first.  (The descriptor 0 is
\* refused, and no file has it: teecd leaves its standard input open.)
FsyncWork(h) ==
    LET n == FindOpenFile(h) IN
    /\ tee[h] # Nil /\ n # Nil
    /\ kern' = [kern EXCEPT ![ino[n]] = Flushed(n)]
    /\ buf' = [buf EXCEPT ![n] = {}]
    /\ \/ /\ disk' = [disk EXCEPT ![ino[n]] = Flushed(n)]
          /\ synced' = [synced EXCEPT ![ino[n]] = Flushed(n)]
          /\ written' = [written EXCEPT ![ino[n]] = Flushed(n)]
       \/ UNCHANGED <<disk, synced, written>>
    /\ UNCHANGED <<ring, open, fd, ino, names, tee>>

\* A file, or everything in a directory, or only a part of it when one of the
\* steps fails.
UnlinkRecursive(ps) ==
    \E gone \in SUBSET ps :
       names' = [p \in Paths |-> IF p \in gone THEN Nil ELSE names[p]]

\* RemoveWork and DeleteAllWork.
RemoveWork(ps) ==
    /\ ps # {}
    /\ UnlinkRecursive(ps)
    /\ UNCHANGED <<ring, files, kern, disk, tee, written, synced>>

\* truncate keeps a part of the content.
TruncateWork(p) ==
    /\ names[p] # Nil
    /\ \E s \in SUBSET kern[names[p]] : SetContent(names[p], s)
    /\ UNCHANGED <<ring, files, names, disk, tee>>

RenameWork(p, q) ==
    /\ names[p] # Nil /\ p # q
    /\ names' = [names EXCEPT ![q] = names[p], ![p] = Nil]
    /\ UNCHANGED <<ring, files, kern, disk, tee, written, synced>>

\* CopyFile empties or creates the target, copies what the kernel has of the
\* source (nothing, if that is the target itself), and synchronizes; or fails
\* with a part of it copied.
CopyWork(p, q) ==
    /\ names[p] # Nil
    /\ \E i \in Inodes :
          LET data == IF i = names[p] THEN {} ELSE kern[names[p]] IN
          /\ i = names[q] \/ (names[q] = Nil /\ i \in FreeInodes)
          /\ names' = [names EXCEPT ![q] = i]
          /\ \/ /\ kern' = [kern EXCEPT ![i] = data]
                /\ disk' = [disk EXCEPT ![i] = data]
                /\ synced' = [synced EXCEPT ![i] = data]
                /\ written' = [written EXCEPT ![i] = data]
             \/ /\ \E s \in SUBSET data : kern' = [kern EXCEPT ![i] = s]
                /\ disk' = IF names[q] = Nil THEN [disk EXCEPT ![i] = {}] ELSE disk
                /\ synced' = [synced EXCEPT ![i] = {}]
                /\ written' = [written EXCEPT ![i] = {}]
    /\ UNCHANGED <<ring, files, tee>>

-----------------------------------------------------------------------------
\* The process ends: its FILEs and buffers are gone, and the TEE, told by the
\* driver, forgets its descriptors.
Stopped ==
    /\ first' = Nil
    /\ open' = {}
    /\ fd' = [n \in Nodes |-> Nil] /\ ino' = [n \in Nodes |-> Nil]
    /\ buf' = [n \in Nodes |-> {}]
    /\ tee' = [h \in Fds |-> Nil]
    /\ UNCHANGED <<next, prev, names, disk, synced>>

\* teecd stops and starts again; the kernel goes on.
Restart == Stopped /\ open # {} /\ UNCHANGED <<kern, written>>

\* The machine stops: what is not on the disk is lost.
Crash ==
    /\ Stopped
    /\ kern' = disk
    /\ written' = [i \in Inodes |-> written[i] \cap disk[i]]

Command ==
    \/ \E p \in Paths, mode \in {"w+", "r+"} : OpenWork(p, mode)
    \/ \E h \in Fds :
          \/ CloseWork(h) \/ SeekWork(h) \/ FsyncWork(h)
          \/ \E r \in Recs, ssa \in BOOLEAN : WriteWork(h, r, ssa)
    \/ \E p \in Paths : TruncateWork(p)
    \/ \E p, q \in Paths : RenameWork(p, q) \/ CopyWork(p, q)
    \/ \E ps \in Dirs \cup {{p} : p \in Paths} : RemoveWork(ps)

Next == Command \/ Restart \/ Crash \/ \E i \in Inodes : WriteBack(i)

Spec == Init /\ [][Next]_vars

-----------------------------------------------------------------------------
(* Properties *)

\* Every variable holds a value of its C type.
TypeOK ==
    /\ first \in Nodes \cup {Nil}
    /\ next \in [Nodes -> Nodes \cup {Nil}] /\ prev \in [Nodes -> Nodes \cup {Nil}]
    /\ open \subseteq Nodes
    /\ fd \in [Nodes -> Fds \cup {Nil}]
    /\ ino \in [Nodes -> Inodes \cup {Nil}]
    /\ buf \in [Nodes -> SUBSET Recs]
    /\ names \in [Paths -> Inodes \cup {Nil}]
    /\ kern \in [Inodes -> SUBSET Recs] /\ disk \in [Inodes -> SUBSET Recs]
    /\ tee \in [Fds -> Inodes \cup {Nil}]
    /\ written \in [Inodes -> SUBSET Recs] /\ synced \in [Inodes -> SUBSET Recs]
    /\ \A n \in open : fd[n] # Nil /\ ino[n] # Nil

\* The types hold, and the list is one ring of exactly the open files, linked both ways, in
\* whatever order files are opened and closed: the loop of FindOpenFile comes
\* back to g_firstFile and meets no freed node.
RingIntact ==
    /\ TypeOK
    /\ open = (IF first = Nil THEN {} ELSE Range(Walk))
    /\ \A n \in open : prev[next[n]] = n /\ next[prev[n]] = n

\* A descriptor that the TEE got from an open leads to the file that was
\* opened, until it is closed, although the kernel uses numbers again; and
\* every open FILE is one that the TEE can still close.
HandleNames ==
    /\ \A h \in Fds : tee[h] # Nil =>
          FindOpenFile(h) \in open /\ ino[FindOpenFile(h)] = tee[h]
    /\ \A n \in open : tee[fd[n]] # Nil /\ FindOpenFile(fd[n]) = n

\* What a successful fsync or copy promised to the TEE is on the disk, also
\* after a crash, until the file is truncated or written anew; and what a
\* write of the storage service (SEC_WRITE_SSA) was told to be written is in
\* the kernel, and so outlives teecd.
Durable ==
    /\ \A i \in Inodes : synced[i] \subseteq disk[i]
    /\ \A i \in Inodes : written[i] \subseteq kern[i]
=============================================================================
