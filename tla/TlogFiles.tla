----------------------------- MODULE TlogFiles -----------------------------
(***************************************************************************)
(* The log files of tlogcat -f (tlogcat/tlogcat.c, tarzip.c): records read *)
(* from the log device go to the file "-0" of the TEE or of the TA that    *)
(* wrote them; a file at its size limit is renamed to the next index, and  *)
(* when all indices are taken the files are moved to a directory of their  *)
(* own and packed into one of as many archives, the oldest of which makes  *)
(* room.  One step is one change of a directory or of a file, so that the  *)
(* process can be killed between any two of them, and each step may fail.  *)
(*                                                                         *)
(* The records of a writer are numbered, and a file is the sequence of the *)
(* numbers it holds, with Header for the version of the TEE that begins a  *)
(* new file.  Records and header have lengths, since a file is full by its *)
(* length.  Of a record that was written in part nothing is kept.  There   *)
(* is one tlogcat -f at a time.                                            *)
(***************************************************************************)
EXTENDS Integers, Sequences, FiniteSets, SequencesExt

CONSTANTS
    Uuids,      \* the writers of records: TEE OS and TAs
    Slots,      \* LOG_FILES_MAX, the size of g_files
    IndexMax,   \* LOG_FILE_INDEX_MAX, the number of files and of archives
    Limit,      \* LOG_FILE_LIMIT
    HeaderLen,  \* the length of g_teeVersion
    RecLens,    \* the lengths of each writer's records; bound: their number
    MaxFaults,  \* bound: the failed steps and killed processes in all
    None

ASSUME TlogAssumption ==
    /\ Slots \in Nat \ {0} /\ Limit \in Nat \ {0}
    /\ IndexMax \in Nat \ {0, 1}
    /\ HeaderLen \in Nat \ {0}
    /\ RecLens \in [Uuids -> Seq(Nat \ {0})] /\ MaxFaults \in Nat
    /\ None \notin Uuids

Indices == 0 .. IndexMax - 1

Header == 0

\* The length of what c holds, header and records of u.
Size(u, c) ==
    FoldLeft(LAMBDA n, r : n + IF r = Header THEN HeaderLen ELSE RecLens[u][r],
             0, c)

RecordsIn(c) == SelectSeq(c, LAMBDA r : r # Header)

VARIABLES
    raw,        \* the files of the log directory, None if there is none
    tmp, tmpDir,\* the files of the directory "_tmp", and whether it exists
    gz,         \* the archives, each with the files packed into it
    slot,       \* g_files: uuid, fileLen, fileIndex, what is not flushed
    pc,         \* where the process is, "off" if there is none
    item,       \* the writer of the record being written
    cu, ci, out,\* compression: the uuid, the loop's index, the archive
    back,       \* where the compression was called from
    wrote,      \* history: the number of records written, by writer
    faults,     \* history: failed steps and killed processes
    hurt,       \* history: writers who lost records to a fault
    shuffled    \* history: writers whose archives a fault left out of order

files == <<raw, tmp, tmpDir, gz>>
comp  == <<cu, ci, out, back>>
hist  == <<faults, hurt, shuffled>>
vars  == <<files, slot, pc, item, comp, wrote, hist>>

NoFiles == [i \in Indices |-> None]

Init ==
    /\ raw = [u \in Uuids |-> NoFiles]
    /\ tmp = [u \in Uuids |-> NoFiles] /\ tmpDir = FALSE
    /\ gz = [u \in Uuids |-> NoFiles]
    /\ slot = [s \in 1 .. Slots |-> None]
    /\ pc = "off" /\ item = None
    /\ cu = None /\ ci = 0 /\ out = 0 /\ back = "close"
    /\ wrote = [u \in Uuids |-> 0]
    /\ faults = 0 /\ hurt = {} /\ shuffled = {}

-----------------------------------------------------------------------------
(* Faults. *)

NoFault == UNCHANGED hist

Fault(lost, mixed) ==
    /\ faults < MaxFaults
    /\ faults' = faults + 1
    /\ hurt' = hurt \cup lost
    /\ shuffled' = shuffled \cup mixed

OpenSlots == {s \in 1 .. Slots : slot[s] # None}

SlotsOf(u) == {s \in OpenSlots : slot[s].uuid = u}

\* What is still in a FILE's buffer, for the file of u.
Unflushed(u) ==
    IF SlotsOf(u) = {} THEN <<>> ELSE slot[CHOOSE s \in SlotsOf(u) : TRUE].buf

\* The number of records that go with what follows the first n members of c.
LostAfter(c, n) == Len(RecordsIn(SubSeq(c, n + 1, Len(c))))

-----------------------------------------------------------------------------
(* Closing a file, and what follows at its limit. *)

\* Mutant: a file of exactly the limit goes on.
OverLimitPast(s) == slot[s].fileLen > Limit

\* LOG_FILE_LIMIT reached
OverLimit(s) == slot[s].fileLen >= Limit

\* "four files are all full, need to compress files"
AllFull(s) == slot[s].fileIndex >= IndexMax - 1

\* Mutant: a full file is always renamed to "-1".
RenamedFirst(s, c) == [raw[slot[s].uuid] EXCEPT ![0] = None, ![1] = c]

\* LogFileFull: the file "-0", of content c, gets the index after fileIndex.
Renamed(s, c) ==
    [raw[slot[s].uuid] EXCEPT ![0] = None, ![slot[s].fileIndex + 1] = c]

\* fclose, then LogFilesCompress, LogFileFull or nothing, and memset of the
\* entry.  loc is where the caller goes on.
CloseSlot(s, loc) ==
    LET u == slot[s].uuid
        c == raw[u][0] \o slot[s].buf IN
    /\ slot' = [slot EXCEPT ![s] = None]
    /\ \/ /\ OverLimit(s) /\ AllFull(s)
          /\ raw' = [raw EXCEPT ![u][0] = c]
          /\ pc' = "mkdir" /\ cu' = u /\ back' = loc
          /\ NoFault
          /\ UNCHANGED <<ci, out>>
       \/ /\ OverLimit(s) /\ ~AllFull(s)
          /\ \/ raw' = [raw EXCEPT ![u] = Renamed(s, c)] /\ NoFault
             \/ raw' = [raw EXCEPT ![u][0] = c] /\ Fault({}, {})
          /\ pc' = loc
          /\ UNCHANGED comp
       \/ /\ ~OverLimit(s)
          /\ raw' = [raw EXCEPT ![u][0] = c]
          /\ pc' = loc
          /\ NoFault
          /\ UNCHANGED comp
    /\ UNCHANGED <<tmp, tmpDir, gz, item, wrote>>

\* The flush before it fails: of what is not flushed the first n members get
\* to the file, and the others are lost although fileLen counts them.
FlushFails(s) ==
    /\ pc = "close" \/ (pc = "get" /\ OverLimit(s))
    /\ \E n \in 0 .. Len(slot[s].buf) - 1 :
          /\ slot' = [slot EXCEPT ![s].buf = SubSeq(@, 1, n)]
          /\ wrote' = [wrote EXCEPT ![slot[s].uuid] = @ - LostAfter(slot[s].buf, n)]
    /\ Fault({slot[s].uuid}, {})
    /\ UNCHANGED <<files, pc, item, comp>>

-----------------------------------------------------------------------------
(* The main loop: Func. *)

\* Buffers, an empty g_files, the device and its version.
Prepare ==
    /\ pc = "off"
    /\ slot' = [s \in 1 .. Slots |-> None]
    /\ pc' = "cmd"
    /\ UNCHANGED <<files, item, comp, wrote, hist>>

\* The driver knows of no other tlogcat -f and notes that there is one.
LogCmdF ==
    /\ pc = "cmd"
    /\ pc' = "close"
    /\ UNCHANGED <<files, slot, item, comp, wrote, hist>>

\* LogFilesClose, one entry of g_files after the other.
LogFilesClose ==
    /\ pc = "close"
    /\ \E s \in OpenSlots :
          /\ \A r \in OpenSlots : s <= r
          /\ CloseSlot(s, "close")

\* All are closed: select.
Wait ==
    /\ pc = "close"
    /\ OpenSlots = {}
    /\ pc' = "wait"
    /\ UNCHANGED <<files, slot, item, comp, wrote, hist>>

\* The device has something to read.
Select ==
    /\ pc = "wait"
    /\ pc' = "read"
    /\ UNCHANGED <<files, slot, item, comp, wrote, hist>>

\* ReadLogBuffer, LogItemGetNext: the next record, of writer u.
ReadItem(u) ==
    /\ pc = "read"
    /\ wrote[u] < Len(RecLens[u])
    /\ item' = u
    /\ pc' = "get"
    /\ UNCHANGED <<files, slot, comp, wrote, hist>>

\* ProcReadLog: the device has nothing more to read, or reading failed.
ReadEnd ==
    /\ pc = "read"
    /\ pc' = "close"
    /\ UNCHANGED <<files, slot, item, comp, wrote, hist>>

\* GetUsableFile, LogFilesChecklimit: the open file of the writer is full.
LogFilesChecklimit ==
    /\ pc = "get"
    /\ \E s \in SlotsOf(item) : OverLimit(s) /\ CloseSlot(s, "get")

\* GetUsableFile: the open file of the writer has room.
GetUsableFile ==
    /\ pc = "get"
    /\ \E s \in SlotsOf(item) : ~OverLimit(s)
    /\ pc' = "write"
    /\ UNCHANGED <<files, slot, item, comp, wrote, hist>>

\* GetFileIndex: the highest index that a file has, 0 if there is none.
GetFileIndex(u) ==
    LET S == {i \in Indices : raw[u][i] # None} IN
    IF S = {} THEN 0 ELSE Max(S)

\* LogFilesOpen: the file "-0" is created, or opened at its end, and fileLen
\* is its size.
Opened(u) == IF raw[u][0] = None THEN <<>> ELSE raw[u][0]

\* Its second half: a new file is given the version of the TEE, after fileLen
\* was taken; that this failed is only logged.
VersionWritten(u, buf) ==
    \/ buf = (IF raw[u][0] = None THEN <<Header>> ELSE <<>>) /\ NoFault
    \/ buf = <<>> /\ raw[u][0] = None /\ Fault({}, {})

\* LogFilesAdd: the first free entry is taken; if there is none the file is
\* closed again and the record is not saved.
LogFilesAdd(entry) ==
    LET free == (1 .. Slots) \ OpenSlots
        u == entry.uuid IN
    \/ /\ free = {}
       /\ raw' = [raw EXCEPT ![u][0] = Opened(u) \o entry.buf]
       /\ pc' = "read" /\ item' = None
       /\ UNCHANGED slot
    \/ /\ free # {}
       /\ raw' = [raw EXCEPT ![u][0] = Opened(u)]
       /\ slot' = [slot EXCEPT ![Min(free)] = entry]
       /\ pc' = "write"
       /\ UNCHANGED item

\* LogFilesGet for a writer without a file.  The size of the file that is
\* opened is not looked at.
LogFilesGet ==
    /\ pc = "get"
    /\ SlotsOf(item) = {}
    /\ \E buf \in {<<>>, <<Header>>} :
          /\ VersionWritten(item, buf)
          /\ LogFilesAdd([uuid |-> item, fileLen |-> Size(item, Opened(item)),
                          fileIndex |-> GetFileIndex(item), buf |-> buf])
    /\ UNCHANGED <<tmp, tmpDir, gz, comp, wrote>>

\* The directories cannot be made or the file cannot be opened: the record is
\* not saved.
LogFilesGetFails ==
    /\ pc = "get"
    /\ SlotsOf(item) = {}
    /\ Fault({}, {})
    /\ item' = None
    /\ pc' = "read"
    /\ UNCHANGED <<files, slot, comp, wrote>>

\* Mutant: fileLen is not counted up.
WriteUncounted ==
    /\ pc = "write"
    /\ \E s \in SlotsOf(item) :
          slot' = [slot EXCEPT ![s].buf = Append(@, wrote[item] + 1)]
    /\ wrote' = [wrote EXCEPT ![item] = @ + 1]
    /\ item' = None
    /\ pc' = "read"
    /\ UNCHANGED <<files, comp, hist>>

\* WritePrivateLogFile
WriteItem ==
    /\ pc = "write"
    /\ \E s \in SlotsOf(item) :
          slot' = [slot EXCEPT ![s].buf = Append(@, wrote[item] + 1),
                               ![s].fileLen = @ + RecLens[item][wrote[item] + 1]]
    /\ wrote' = [wrote EXCEPT ![item] = @ + 1]
    /\ item' = None
    /\ pc' = "read"
    /\ UNCHANGED <<files, comp, hist>>

\* fwrite fails, for want of space: the file is closed with a first part of
\* what was not flushed, and its entry is cleared.
WriteFails ==
    /\ pc = "write"
    /\ \E s \in SlotsOf(item) : \E n \in 0 .. Len(slot[s].buf) :
          /\ raw' = [raw EXCEPT ![item][0] = @ \o SubSeq(slot[s].buf, 1, n)]
          /\ wrote' = [wrote EXCEPT ![item] = @ - LostAfter(slot[s].buf, n)]
          /\ slot' = [slot EXCEPT ![s] = None]
    /\ Fault({item}, {})
    /\ item' = None
    /\ pc' = "read"
    /\ UNCHANGED <<tmp, tmpDir, gz, comp>>

-----------------------------------------------------------------------------
(* LogFilesCompress. *)

Goto(loc, i) == pc' = loc /\ ci' = i

\* The compression is over, and its caller goes on.
Return == pc' = back /\ cu' = None /\ ci' = 0 /\ out' = 0 /\ back' = "close"

SameCall == UNCHANGED <<slot, item, wrote, cu, back>>

\* MkdirTmpPath: what an earlier compression left behind is removed.  If the
\* directory cannot be made the files stay as they are.
MkdirTmpPath ==
    /\ pc = "mkdir"
    /\ \/ /\ tmp' = [u \in Uuids |-> NoFiles] /\ tmpDir' = TRUE
          /\ Goto("move", IndexMax - 1)
          /\ NoFault
          /\ UNCHANGED <<cu, out, back>>
       \/ /\ Return
          /\ Fault({}, {})
          /\ UNCHANGED <<tmp, tmpDir>>
    /\ UNCHANGED <<raw, gz, slot, item, wrote>>

NextMove == IF ci = 0 THEN Goto("out", 0) ELSE Goto("move", ci - 1)

\* MoveFileToTmpPath for the index ci.  A file that cannot be moved is
\* removed, and stays where it is if that fails too.
MoveFileToTmpPath ==
    /\ pc = "move"
    /\ \/ /\ raw' = [raw EXCEPT ![cu][ci] = None]
          /\ tmp' = [tmp EXCEPT ![cu][ci] = raw[cu][ci]]
          /\ NoFault
       \/ /\ raw[cu][ci] # None
          /\ raw' = [raw EXCEPT ![cu][ci] = None]
          /\ Fault({cu}, {})
          /\ UNCHANGED tmp
       \/ /\ raw[cu][ci] # None
          /\ Fault({}, {cu})
          /\ UNCHANGED <<raw, tmp>>
    /\ NextMove
    /\ SameCall
    /\ UNCHANGED <<tmpDir, gz, out>>

FreeArchives == {i \in Indices : gz[cu][i] = None}

\* Mutant: when no name is free the first one is used again.
GetCompressFileAgain ==
    /\ pc = "out"
    /\ out' = IF FreeArchives # {} THEN Min(FreeArchives) ELSE 0
    /\ Goto("open", 0)
    /\ NoFault
    /\ SameCall
    /\ UNCHANGED <<raw, tmp, tmpDir, gz>>

\* GetCompressFile: the first free archive name; without one the oldest
\* archive is removed by ArrangeCompressFile.  (If that unlink fails the
\* rename that follows replaces the archive.)
GetCompressFile ==
    /\ pc = "out"
    /\ IF FreeArchives # {}
       THEN /\ out' = Min(FreeArchives)
            /\ Goto("open", 0)
            /\ UNCHANGED gz
       ELSE /\ gz' = [gz EXCEPT ![cu][0] = None]
            /\ Goto("arrange", 1)
            /\ UNCHANGED out
    /\ NoFault
    /\ SameCall
    /\ UNCHANGED <<raw, tmp, tmpDir>>

\* ArrangeCompressFile: the archive ci takes the name before its own, even if
\* it is taken because the rename before this one failed.
ArrangeCompressFile ==
    /\ pc = "arrange"
    /\ \/ /\ gz' = [gz EXCEPT ![cu][ci - 1] = gz[cu][ci], ![cu][ci] = None]
          /\ NoFault
       \/ /\ Fault({cu}, {cu})
          /\ UNCHANGED gz
    /\ IF ci = IndexMax - 1
       THEN Goto("open", 0) /\ out' = IndexMax - 1
       ELSE Goto("arrange", ci + 1) /\ UNCHANGED out
    /\ SameCall
    /\ UNCHANGED <<raw, tmp, tmpDir>>

\* TriggerCompress, OpenZipFile: an archive of that name is overwritten.
\* Without memory, a file or its attributes the compression is given up;
\* gzclose has then made an empty archive of the file if there is one.
OpenZipFile ==
    /\ pc = "open"
    /\ \/ /\ gz' = [gz EXCEPT ![cu][out] = NoFiles]
          /\ Goto("zip", 0)
          /\ NoFault
       \/ /\ Goto("remove", 0)
          /\ Fault({cu}, {})
          /\ \/ UNCHANGED gz
             \/ gz' = [gz EXCEPT ![cu][out] = NoFiles]
    /\ SameCall
    /\ UNCHANGED <<raw, tmp, tmpDir, out>>

\* What can be read of an archive of which only the first n members are whole.
FirstMembers(n) == [i \in Indices |-> IF i < n THEN gz[cu][out][i] ELSE None]

\* WriteSingleFile, WriteZipContent for the file ci.  After a failure what
\* follows in the archive cannot be told apart any more.
WriteSingleFile ==
    /\ pc = "zip"
    /\ \/ /\ gz' = [gz EXCEPT ![cu][out][ci] = tmp[cu][ci]]
          /\ IF ci = IndexMax - 1 THEN Goto("gzclose", 0) ELSE Goto("zip", ci + 1)
          /\ NoFault
       \/ /\ tmp[cu][ci] # None
          /\ Goto("gzclose", 0)
          /\ Fault({cu}, {})
          /\ UNCHANGED gz
    /\ SameCall
    /\ UNCHANGED <<raw, tmp, tmpDir, out>>

\* The end of TarZipFiles: gzclose writes out what zlib has kept back, and
\* nobody looks at its result.
GzClose ==
    /\ pc = "gzclose"
    /\ \/ UNCHANGED gz /\ NoFault
       \/ \E n \in Indices :
             /\ gz' = [gz EXCEPT ![cu][out] = FirstMembers(n)]
             /\ Fault({cu}, {})
    /\ Goto("remove", 0)
    /\ SameCall
    /\ UNCHANGED <<raw, tmp, tmpDir, out>>

\* The end of TriggerCompress: the moved files are removed, whether or not
\* they were packed, and the directory if that leaves it empty.
RemoveTmp ==
    /\ pc = "remove"
    /\ \/ /\ tmp' = [tmp EXCEPT ![cu] = NoFiles] /\ tmpDir' = FALSE
          /\ NoFault
       \/ /\ Fault({}, {})
          /\ UNCHANGED <<tmp, tmpDir>>
    /\ Return
    /\ UNCHANGED <<raw, gz, slot, item, wrote>>

-----------------------------------------------------------------------------
\* An archive is being written, and the moved files are needed.
Writing == pc \in {"zip", "gzclose"}

Compressing == pc \in {"move", "out", "arrange", "open"} \/ Writing

\* The process is killed: what is not flushed is lost from some point on (a
\* buffer holds the header and, each being one long at least, Limit records), an
\* open archive is cut short, and nobody comes back to the moved files.
Kill ==
    /\ pc # "off"
    /\ \E n \in [Uuids -> 0 .. Limit + 1] :
          /\ \A u \in Uuids : n[u] <= Len(Unflushed(u))
          /\ raw' = [u \in Uuids |->
                        IF SlotsOf(u) = {} THEN raw[u]
                        ELSE [raw[u] EXCEPT ![0] = @ \o SubSeq(Unflushed(u), 1, n[u])]]
          /\ wrote' = [u \in Uuids |-> wrote[u] - LostAfter(Unflushed(u), n[u])]
    /\ \/ ~Writing /\ UNCHANGED gz
       \/ /\ Writing
          /\ \E n \in 0 .. IndexMax : gz' = [gz EXCEPT ![cu][out] = FirstMembers(n)]
    /\ Fault(IF Compressing /\ tmp[cu] # NoFiles THEN {cu} ELSE {},
             IF pc = "arrange" THEN {cu} ELSE {})
    /\ slot' = [s \in 1 .. Slots |-> None]
    /\ pc' = "off" /\ item' = None
    /\ cu' = None /\ ci' = 0 /\ out' = 0 /\ back' = "close"
    /\ UNCHANGED <<tmp, tmpDir>>

Loop ==
    \/ Prepare \/ LogCmdF \/ LogFilesClose \/ Wait \/ Select \/ ReadEnd
    \/ \E u \in Uuids : ReadItem(u)
    \/ \E s \in OpenSlots : FlushFails(s)
    \/ LogFilesChecklimit \/ GetUsableFile
    \/ LogFilesGet \/ LogFilesGetFails \/ WriteItem \/ WriteFails

Compress ==
    \/ MkdirTmpPath \/ MoveFileToTmpPath
    \/ GetCompressFile \/ ArrangeCompressFile
    \/ OpenZipFile \/ WriteSingleFile \/ GzClose \/ RemoveTmp

Next == Loop \/ Compress \/ Kill

Spec == Init /\ [][Next]_vars

-----------------------------------------------------------------------------
(* Properties *)

\* What a set of files holds, by age: "-0" is the newest file, and the others
\* were renamed in the order of their indices.
ByAge(f) ==
    FlattenSeq([k \in 1 .. IndexMax |->
                   LET i == k % IndexMax IN IF f[i] = None THEN <<>> ELSE f[i]])

\* The archives of u by age.  One that is still being written does not count,
\* since its files are not removed yet.
Archived(u) ==
    FlattenSeq([k \in 1 .. IndexMax |->
                   IF gz[u][k - 1] = None \/ (Writing /\ cu = u /\ out = k - 1)
                   THEN <<>> ELSE ByAge(gz[u][k - 1])])

\* The records of u that are still there, in the order in which a reader
\* finds them by the names of the files.
Retained(u) ==
    LET moved(i) == Compressing /\ cu = u /\ tmp[u][i] # None IN
    RecordsIn(Archived(u)
                 \o ByAge([i \in Indices |-> IF moved(i) THEN tmp[u][i] ELSE raw[u][i]])
                 \o Unflushed(u))

\* The entries of g_files agree with the directory although they are read
\* long after they were filled in: a writer has one at most (two FILEs would
\* overwrite each other's records), fileIndex is still the highest index, so
\* that LogFileFull renames to a free name, and fileLen falls short of the
\* file's size by the version in a file made by this very FILE, which is
\* written after ftell and never counted, and by nothing else.
SlotsCurrent ==
    /\ \A u \in Uuids : Cardinality(SlotsOf(u)) <= 1
    /\ \A s \in OpenSlots :
          LET u == slot[s].uuid
              uncounted == IF Header \in Range(slot[s].buf) THEN HeaderLen ELSE 0 IN
          /\ raw[u][0] # None
          /\ slot[s].fileIndex = GetFileIndex(u)
          /\ u \notin hurt =>
                slot[s].fileLen + uncounted = Size(u, raw[u][0] \o slot[s].buf)

\* Whoever reads a writer's archives and files by their numbers reads its
\* records in the order in which they were written, whatever was lost in
\* between, and however often tlogcat was killed; only an interrupted or
\* failed renaming of the archives, or a full file that could be neither
\* moved nor removed, spoils it.
OrderKept ==
    \A u \in Uuids \ shuffled :
       LET r == Retained(u) IN \A k \in 2 .. Len(r) : r[k - 1] < r[k]

\* As long as no step fails and tlogcat is killed at most outside a
\* compression, no written record is lost but the oldest ones, and those only
\* when every archive is in use.
OnlyOldestLost ==
    \A u \in Uuids \ (hurt \cup shuffled) :
       LET r == Retained(u)
           lost == wrote[u] - Len(r)
           free == {i \in Indices : gz[u][i] = None} IN
       /\ \A k \in 1 .. Len(r) : r[k] = lost + k
       /\ lost > 0 => Cardinality(free) <= IF Compressing /\ cu = u THEN 1 ELSE 0

\* The longest record of any writer.
MaxRecLen == Max({0} \cup UNION {Range(RecLens[u]) : u \in Uuids})

\* LOG_FILE_LIMIT is not a limit: it is compared before a record is written,
\* with a length that leaves out the version.  But no file passes it by more
\* than the version and one record, and by one record more for every failure
\* or end of the process: a full file that could not be rotated is opened
\* again without a look at its size, and once in every opening it grows past
\* the limit.  A process that waits, if nothing has failed, has rotated every
\* file whose records reach the limit, and has removed the moved files.
SpaceBounded ==
    /\ \A u \in Uuids : \A i \in Indices :
          raw[u][i] # None =>
             Size(u, raw[u][i]) < Limit + HeaderLen + MaxRecLen * (1 + faults)
    /\ pc = "wait" /\ faults = 0 =>
          /\ ~tmpDir
          /\ \A u \in Uuids :
                raw[u][0] # None => Size(u, raw[u][0]) < Limit + HeaderLen
============================================================================
