# Formal model of the iTrustee client

TLA+ specifications of the parts of this repository in which several threads,
processes or worlds share state, the TLC configurations that check them on
small instances, and proofs for TLAPS. Paths below are relative to `src/` of
the repository's source tree (`src/libteec_vendor/...`); `PROJECT.json` maps
every definition to the lines it models.

## 1. The system

| Component | Source | State it keeps | Operations |
|---|---|---|---|
| Contexts and sessions (libteec) | `libteec_vendor/tee_client_api.c`, `inc/tee_client_inner.h` | `g_teecContextList`, reference-counted `TEEC_ContextHidl` objects with a driver descriptor and a session list; the client's `TEEC_Context` and `TEEC_Session` structures | initialize, finalize, open, close, invoke, cancel |
| Shared memory (libteec) | same | per context: `shm_bitmap`, `shrd_mem_list`, reference-counted `TEEC_SharedMemoryHidl` objects | register, allocate, release, use as a memory reference |
| Session pool (libteec) | `libteec_vendor/tee_session_pool.c` | semaphore `keys`, bitmap `usage`, counters, sessions | create (with a detached worker), invoke, destroy, query |
| Connection to teecd | `libteec_vendor/tee_client_socket.c` | cached daemon version | connect, version check, receive a descriptor |
| Loading of TA images | `libteec_vendor/tee_client_app_load.c`, `tee_load_sec_file.c` | none beyond a call | read an image into a buffer |
| CA daemon (teecd) | `teecd/tee_ca_daemon.c` | one socket, one connection at a time | authenticate a client, open the driver, send the descriptor |
| Agents (teecd, agentd) | `teecd/tee_agent.c`, `misc_work_agent.c`, `secfile_load_agent.c`, `agentd/agentd.c` | one shared buffer and one thread for each agent | register, wait for a request, answer, unregister |
| Secure storage agent (teecd) | `teecd/fs_work_agent.c` | list of open files, current volume | 16 file commands |
| Blocking queue (posix proxy) | `tee_teleport/posix_proxy/src/xtasklet/blocking_queue.c` | ring in shared memory: head, tail, flip bits, entries; per side a mutex, an interrupt flag, a reference count | enqueue, dequeue, interrupt, destroy |
| Cross tasklet, thread pool (posix proxy) | `.../xtasklet/cross_tasklet.c`, `thread_pool.c` | two queues, executor threads, `terminated` | create, fetch, execute, destroy |
| Package list (posix proxy) | `posix_proxy/src/fd_list.c` | packages of data in transfer with reference counts and timestamps | put, get, release, expire |
| Life cycle and call handlers (posix proxy) | `posix_proxy/src/posix_proxy.c`, `posix_*.c`, `serialize.c` | session, control thread, tasklets | init, register tasklets, dispatch calls, exit |
| tlogcat | `tlogcat/*.c` | `g_files`: for each writer of records its open file, size and highest index; the log directory and its archives | read records, write, rotate, compress |
| tee_teleport | `tee_teleport/tee_teleport.c`, `scp.c`, `run.c`, `portal.c` | the files that hold the ids of TEE sessions, between its processes | create, run, pull a log, delete, destroy, install, uninstall |
| Authentication, logging, helpers | `authentication/`, `teecd/tee_ca_auth.c`, `common/` | none | hash, parse `/proc`, format |

**Interactions.** A client application calls libteec from any number of its
threads. libteec asks teecd for a descriptor of the driver over a local socket
and from then on talks to the TEE by `ioctl` and `mmap` on it. The TEE calls
back into the normal world in two ways: through agents (teecd waits in an
`ioctl` and answers in a shared buffer) and, for POSIX calls of a TEE program,
through the posix proxy's pair of rings (tasks in, results out). The session
pool is a client of the context and session API.

**What is hard.**

* *Interleaving.* A context object is destroyed by whichever call drops its
  last reference, possibly not the one that finalized it; locks are taken and
  released between the steps of one call; a driver descriptor doubles as the
  identity of a context and is reused by the kernel.
* *Separate updates.* The pool's semaphore and bitmap; the TEE's sessions and
  the library's list; the block list, the mapping and the bitmap.
* *No common lock.* The two ends of a ring are in different worlds.
* *Partial failure.* Opening and mapping may fail after part of the state was
  written; the public structures belong to the client. tlogcat and tee_teleport
  change several files, or a file and the TEE, one after the other.
* *Crashes.* teecd, a client, tlogcat or tee_teleport may be killed between any
  two of its steps, and what it left is found by the next one.
* *Boundaries.* Wrap-around of a ring with flip bits, a full bitmap, 32-bit
  sums of offset and size.
* *Waiting.* A pool whose sessions die; a producer that polls with its mutex
  held; finalization left to the last user; a child process that is given three
  seconds.

**What makes each component correct.** Contexts: references are exact, nothing
freed is used, descriptors and TEE sessions are neither leaked nor closed for
somebody else. Shared memory: an offset belongs to at most one block and is
free again when the block is gone; a checked reference is valid when used.
Pool: an invoker gets an open session for itself, and nobody waits while one is
to be had. Queue: a lossless FIFO channel. Tasklet: every accepted task is
executed once or dropped at destruction. Package list: a package is freed once,
by its last user. CA daemon: only an authenticated client gets a descriptor,
and the client's connection ends. Agents: one answer for one request.
Secure storage: a handle names the file it was opened for. tlogcat: a file
passes its limit by a record and the version at most, records stay in order and
only the oldest archive is given up.
tee_teleport: every session of the TEE can be found again through an id file,
and what was transferred is complete.

`PROJECT.json` lists the hazards at their lines under `hazards`, each with the
properties that cover it or the reason why none does yet.

## 2. The modules

Names in the models are those of the source where TLA+ allows it. Every thread
has a program counter; one step is one critical section, one `ioctl` or one
write to a structure that is shared outside the lock. Operators marked
*Mutant* are faulty versions of the operator that follows them, used to make
sure that the properties notice the fault.

### `TeecContext`: contexts and sessions

| Model | Code |
|---|---|
| `list`, `live` | `g_teecContextList`, the allocated `TEEC_ContextHidl` |
| `fd`, `cnt`, `slist` | `contextHidl->fd`, `->ops_cnt`, `->session_list` |
| `ctxFd`, `sctx`, `sid` | `context->fd`, `session->context`, `session->session_id` of the client's structures |
| `openFds`, `tee` | the kernel's descriptor table; the TEE's session table |
| `opened` | history: what the client believes to be open |
| `pc`, `op`, `tctx`, `tses`, `th`, `tsid` | where a thread is, and its local variables |

A call begins with one of the actions of `Start` (the client's choice) and goes
on with those of `Step`: `GetBnContext` (look up by descriptor and take a
reference, under the list's mutex), the `ioctl` steps, the list operations, and
`PutBnContext`, which sends the thread to `drain` when it dropped the last
reference. `drain` is `TEEC_FinalizeContextHidl`: close every listed session,
close the descriptor, free the object. The variable `free`, chosen in `Init`,
says whether the client overlaps calls with the end of the context or session
that they use: `FALSE` is the discipline that the GlobalPlatform API asks for,
`TRUE` what a client can do and the reference counts exist to survive.

The TEE is external: it gives each session an id that is not in use, through
the descriptor it was opened on, and closes a session only through that
descriptor. Every operation of the TEE or driver may fail.

### `Bitmap`, `SharedMem`: shared memory

`Bitmap` gives `SetBit`, `ClearBit` and the two searches over a bitmap seen as
a set of positions. `SharedMem` models one context with its list of blocks; the
four kinds of block (`mapped`, `zeroSize`, `zeroCopy`, `registered`) are the
cases that the code tells apart. `stray` remembers that the release of a
zero-copy block, which never took a position, has cleared that of another block
(finding 2). The actions follow
`TEEC_AllocateSharedMemory`, `TEEC_RegisterSharedMemory`,
`TEEC_ReleaseSharedMemory`, the use of a block as a memory reference, and
finalization; the context is reduced to its reference count.

### `SessionPool`

The creator opens session 0 (`phase = "creating"`), returns the pool and leaves
the rest to the worker, while invokers run `sem_wait`, take a session under the
lock, invoke, put the session back under the lock and post. `Init` draws the
bitmap from `Garbage`, as `malloc` does.

### `Channel`, `BlockingQueue`: the ring

`Channel` is the abstract specification: what was received is a prefix of what
was sent. `BlockingQueue` is the ring with its flip bits, messages of several
entries, one mutex and one interrupt flag for each side, polling, timeouts and
failing allocations. `Chan == INSTANCE Channel WITH got <- Received` is the
refinement mapping: a message counts as sent when `SetHead` publishes it and as
received when `SetTail` gives its entries back, and `Received` reads the blocks
that were copied as whole messages.

### `FdList`: packages of the posix proxy

`pkgs` is `fdList->list`, `ref` the packages' `refCnt`, `old` the packages past
`GetPkgTimeOutByLen`. Every function of `fd_list.c` is a critical section of
`fdListLock` and one action here. The handlers that use it are sequences of
actions: `InsertFirstPkg`; `GetPkg`, `UsePkg`, `FdListReleasePkg` (once for a
block, twice for a package that is sent); `PutPkg`, `ReadDone`, `ReleaseRead`,
`SerializeMsgBuf` for receiving, with the failure of the last in `FailRecvmsg`. A
package may pass its limit at any time, and the sweep takes a reference from it
whoever that belongs to. Two histories say what came of it: `swept`, the
references that the sweep took from a package, and `torn`, that a package's memory
was freed while a handler used it, or twice. From then on the behaviour of the
program is undefined: the model lets it go on, or end at any time (`Fault`).
`MayCall` is what the model assumes of the TEE: it waits for the answer to a call
on a package before it makes the next one, except that blocks after the first may
be transferred side by side.

### `PosixProxy`: tasklets and their life

The threads of one proxy process: the main thread (`pc["main"]`), the executor
of the control tasklet (`ex[<<"ctrl", 0>>]`, with `pc["ctrl"]` while it serves
a control call), the executors of the data tasklet, and the sweeping thread.
`tl`, `priv`, `terminated`, `intrRes`, `intrTask` are the fields of the two
`struct Xtasklet`, `dt` and `dtTl` the `struct DataTasklet`, `proxy` and `gData`
the global structure. `XtaskletCreate`, `XtaskletDestroy` and `FreeDataTasklet`
are called from several places; `after` holds the return locations of an actor.
Every allocation, `pthread_create` and `ioctl` of the creation may fail. The
rings are counters of the calls in them. `known`, `request`, `calls`, `ended`
are the TEE's: which memory it was given, its control call, its data calls. It
makes a control call only when no data call is in progress, and none after it
has unregistered the proxy. `child` says whether the proxy was itself created
on the request of another one.

The control call that asks for a child process is `CloneChild`, `WaitChild` and
`ReadResult`. Of a child the model has what its parent can notice (`kid`): it
sets up its proxy or fails, writes its result (`ok`) and posts the semaphore
(`posted`), serves until the TEE ends it, and is a zombie (`gone`) until
`ReapChildren`, the loop of `wait` at the end of `PosixProxyDestroy`. The three
seconds may pass at any time; a semaphore that a killed process of the same pid
has left behind, posted, looks the same to the parent. `clone` copies a process
of several threads without the handlers that `fork` runs, so that a child made
while another thread is inside the allocator may hang (`stuck`). The TEE asks for
a child only of a proxy that is set up and runs a program, possibly while other
threads of the program have data calls in progress. `told` and `late` record
which children the TEE was given the pid of, and which the parent gave up.

### `FsAgent`: secure storage

`first`, `next`, `prev` are the ring of `struct OpenedFile`, manipulated as
`AddOpenFile`, `DelOpenFile` and `FindOpenFile` do; `fd`, `ino` and `buf` are
the `FILE` of a node: its descriptor, its file, and what it has buffered.
`names`, `kern` and `disk` are the file system. There is one action for each
command that changes something; one whose call of the C library fails without
an effect is a stuttering step, one that fails half-way (`FsyncWork`,
`CopyWork`, `RemoveWork`, `OpenWork` without memory for a node) is a disjunct.
`Restart` ends teecd, `Crash` the machine. `tee`, `written` and `synced` record
what the TEE was told: which file a descriptor was opened for, and what was
written to the kernel or to the disk. The content of a file is a set of
records, each at a place of its own; writing over other data is not modelled.

### `Teecd`: the daemon and its clients

| Model | Code |
|---|---|
| `mpc`, `index`, `sigIgn`, `reg` | `main` of teecd and the loops of `tee_agent.c`; whether SIGPIPE is ignored yet; the agents the driver knows |
| `tpc`, `treq` | the agents' threads, and the agents with a request of the TEE |
| `wpc`, `conn`, `caInfo`, `dfd` | `CaServerWorkThread`: the connection it serves, the request read from it, its descriptor of the driver |
| `refs`, `login` | the driver's open files: references to each, and the process whose certificate it was given |
| `cpc`, `cmd`, `tries`, `sock` | client threads in `CaDaemonConnectWithCaInfo` |
| `msg`, `answer`, `backlog` | what is in the sockets; connections that are not accepted yet |
| `hold` | the descriptor that a client has received |
| `first`, `verOk` | `g_firstConnectTeecd` and `g_teecVersionCheckResult` of a process |

`withCa = FALSE` is agentd, the same program without the thread that serves
clients. A request is served by `Accept`, `RecvCaMsg` (with its timeout of three
seconds), `ProcessCaMsg`, `SendLoginInfo`, `SendFileDescriptor` and
`CloseSocket`; a descriptor that is sent is in `answer` until the client takes it
or dies. `Kill` ends a client process and `KillTeecd` the daemon between any two
steps, and `Restart` starts the daemon again; the kernel then closes what they
had open. Until `IgnoreSigpipe` the daemon also ends when it answers a peer that
is gone. There are fewer clients than `BACKLOG_LEN`, so that `connect` does not
block.

### `TlogFiles`: the files of tlogcat

| Model | Code |
|---|---|
| `raw`, `tmp`, `tmpDir`, `gz` | the files `-0` ... of each writer, the directory `_tmp`, the archives |
| `slot` | `g_files`: uuid, `fileLen`, `fileIndex`, and what is in the `FILE`'s buffer |
| `pc`, `item` | the loop of `Func`, `ProcReadLog` and `OutputLog`; the record in hand |
| `cu`, `ci`, `out`, `back` | `LogFilesCompress`: whose files, the index of a loop, the archive's number, the caller |
| `hurt`, `shuffled` | history: writers with a fault, and those whose archives a fault left unordered |

The records of a writer are numbered, and a file is the sequence of the numbers
that it holds, with a `Header` where `LogFilesOpen` has written the version of
the TEE into a new file (`VersionWritten`). Records and header have lengths,
since it is lengths that are compared with the limit: `fileLen` is taken before
the header is written, and the comparison is made before the record is. One step
is one change of a directory or a file (`rename`, `unlink`, one member of an
archive), so that `Kill` comes between any two of them, and each has a disjunct
in which it fails. `CloseSlot` is `LogFilesClose` for one entry, with the
rotation that follows at the limit. Compression is `MkdirTmpPath`,
`MoveFileToTmpPath` for each index, `GetCompressFile`, `ArrangeCompressFile` for
each archive, `OpenZipFile`, `WriteSingleFile`, `GzClose` and `RemoveTmp`. The
driver is external: it has records to read or none.

### `Teleport`: sessions and files of tee_teleport

Every process runs one command: `InitPortal`, `HandleUserCmd` (the id file is
read first, and the first option of `g_teleportFuncTable` that was given chooses
the function), the steps of that function, `Exit`. `file` holds the files of the
normal world as sequences of items (an id, or a block of a log), `live`, `app`,
`log`, `runtime`, `staged` what the TEE has. The functions are split where
another process or the end of this one can come between: `GetPathForCreate`
checks that the id file does not exist, `CopyFile` and `CopyFileByBlk` push the
application, `InstallApp` creates the session, `OpenIdFile` and `WriteSessionID`
save its id, and `UndoCreate` destroys the session when that fails; `OpenDst`,
`CopyFileFromTEEByBlk` and `EndPull` pull a log; `DoDestroy` and `Unlink` are the
two halves of a destruction. `Kill` is possible anywhere. The TEE is external: it
gives each session a new id, knows its own sessions, and may refuse any call.
The histories `raced`, `gapped`, `cut`, `excused` and `stale` name the cases in
which the code does lose something (section 3); the properties claim the rest.

## 3. Runs

| Run | Instance | Result |
|---|---|---|
| `teec` | 3 threads, 2 contexts, 2 objects, 2 sessions, 2 descriptors, 2 ids; both kinds of client | `RefCount` (with the types), `NoUseAfterFree`, `FdOwnership`, `SessionAccounted` hold, and for a client without overlapping calls `ViewsAgree`, `CancelOnOwnFd` |
| `teec_live` | 2 threads, overlapping calls, fairness | `ContextReclaimed` holds |
| `shm` | 2 threads, 3 blocks, 2 positions; all four kinds of block | `BitmapExact`, `ShmRefCount`, `MemrefStillValid`, `NothingLeft` hold, no deadlock |
| `pool` | 3 sessions, 3 invokers, 5 bits of any content, fairness | `TakenIsOpen`, `KeysMatch`, `NoSessionLeft`, `WaitersServed` hold |
| `queue` | 2 producers, 2 consumers, 3 entries, messages of 1 and 2 entries, 4 messages, fairness | `NoOverwrite`, `EnqueueCompletes` and the refinement `FifoChannel` hold |
| `fdlist` | 3 handlers, 2 keys, 2 cells, expiry at any time, fairness of the sweep and of time only | `PkgRefCount` (with the types), `RefProtects`, `AnsweredIsGone`, `PkgReclaimed` hold |
| `fdlist_expiry` | 2 handlers, expiry at any time | `BufferUsable` is violated (finding 1) |
| `posix_proxy` | 2 data executors, 3 data calls at a time, 1 child process, failures of every step of a creation (of a pool only its first thread), fairness | `TaskletAlive` (with the types), `NothingLeft`, `ChildAnswer`, `CallsAnswered`, `ProxyEnds` hold |
| `fs_agent` | 2 paths, 2 files, 3 nodes and descriptors, 1 record | `RingIntact` (with the types), `HandleNames`, `Durable` hold |
| `teecd` | 2 clients in 2 processes, 2 agents, 2 files of the driver, 2 attempts to connect, fairness | `ResourcesAccounted` (with the types), `DescriptorEarned`, `NobodyWaits` hold, no deadlock |
| `tlog` | 3 writers for 2 entries of `g_files`, 3 indices, records of 1 and 2, a version of 1, a limit of 2, 1 fault | `SlotsCurrent`, `OrderKept`, `OnlyOldestLost`, `SpaceBounded` hold, no deadlock |
| `teleport` | 2 processes, 2 paths, 2 sessions, 4 commands of which at most one does not create or destroy or else 3 of any kind, files and logs of up to 2 blocks, 1 fault | `IdFilesExact`, `InstalledWhole`, `PulledWhole` hold |

**Why the bounds are enough to be interesting.** Three threads are one that
finalizes, one whose call overlaps it, and one that meanwhile gets the freed
descriptor for another context; two contexts and two descriptors make reuse of
a descriptor possible, and two sessions and ids a mix-up of sessions. Two
positions in the bitmap with three blocks reach exhaustion, and two kinds that
release position 0 for different reasons. Three sessions and three invokers
reach a pool that is exhausted while the worker still opens sessions; `NBits`
is larger than the pool, as in the code, so that stale bits lie above the
sessions. Four messages on a ring of three entries wrap head and tail, with
messages that straddle the end of the ring. `MaxMsgs` is the only counter
bound. Three handlers on two packages are two transfers of one package beside
another call, and a new package in a cell that was just freed. Three open
files make a ring with a head, a tail and a node in between, and any of them
may be closed; two files are one that was unlinked while open and its
successor. One record suffices for durability, since the records of a file do
not interact. More data calls than executors leave calls waiting in the ring of
a proxy; the control calls are unbounded in number, so that data tasklets are
created, replaced and removed again and again. Each creation of a child has a
semaphore and shared memory of its own, so that one child meets everything there
is to meet; a proxy with two children satisfies the invariants too (`NKids = 2`,
too many states for the liveness properties). Two clients of two processes
are one that is served and one that waits, fails or dies meanwhile, and each
could get the other's descriptor; two files let the daemon open one while the
other is with a client; two agents make a registration that fails after one
that succeeded. A second thread of a process, which shares `first` and `verOk`
with it, is in the module but not in the run. In `tlog` one writer has enough
records to fill all its files and all its archives and to make the oldest
archive go; the others compete with it for the entries of `g_files`. A file is
filled by two short records or a long one, which meet the limit exactly, or by a
short and a long one, which pass it. One fault anywhere, followed by everything else, is what the properties
speak about. In `teleport` two processes are enough for every race on a file.
Commands have a cost (`Cost`, `Budget`): three of any kind create a session, use
or destroy it, and put another one in its place; a fourth is possible where
creations and destructions meet, two processes that destroy one session and a
third that puts its own id into the file between them.

**Deadlock** is checked except where the system may stop: a client thread that
faults ends the process (`teec`, `teec_live`), invokers of a pool whose
sessions have all died wait for ever, the queue stops when it is interrupted
or all `MaxMsgs` messages are through, a proxy ends, and so do the commands of
tee_teleport (`Budget`). In `fdlist` undefined behaviour may end the proxy.

**Fairness.** `TeecContext!FairSpec`: a call that has begun goes on, that is,
the driver answers every `ioctl` and the scheduler runs every thread; nothing is
assumed about which calls a client makes. `SessionPool!FairSpec`: the worker
and each invoker go on; `sem_wait` promises no order, so the property asks that
*somebody* is served. `BlockingQueue!FairSpec`: threads inside a call go on,
consumers call again (`ExecutorFetch` loops), a mutex that is free again and
again is given to somebody, and an allocation that is tried again and again
succeeds at some time. `FdList!FairSpec`: the sweeping thread runs every ten
seconds, and the limit of every package passes in the end; nothing is asked of
the handlers, one of which may wait in `recvfrom` for ever.
`PosixProxy!FairSpec`: every thread of the proxy goes on, the handlers of data
calls return, and a child that does not hang goes on; nothing is assumed of the
TEE. `Teecd!FairSpec`: the daemon's and the agents' threads go on, and so does a
client that waits to be connected or answered; a client may stop for ever
anywhere else, also between connecting and sending its request, and neither a
death nor a restart need ever happen.

### Findings

1. *`fdlist_expiry`.* The sweep drops a reference of every package that is too
   old, whoever holds it. A handler that waits in `recvfrom` has none of its own,
   so the buffer is freed under it, although it "will be freed when clearing pkg"
   (`posix_network.c:270`), after the read. One that is sending has a reference
   and survives the first sweep, not the second: the memory goes before "the write
   is completed" (`posix_network.c:244`). What can still be relied on is the
   subject of `RefProtects`.

The other disagreements that the models show are cases that a property exempts
by name, or that a bound or an assumption keeps out:

2. A zero-copy block takes no position of `shm_bitmap` and has offset 0; its
   release clears position 0 all the same, so that the next block is mapped at
   the offset of a block that is still in use (`SharedMem`, `stray`).
3. A message as large as the ring is accepted and then waits for ever
   (`blocking_queue.c:220`).
4. `ThreadPoolInit`, when a thread other than the first cannot be created, joins
   threads that nobody has told to stop (`thread_pool.c:100`; with
   `FailsAt = {0, 1}` `CallsAnswered` fails).
5. A child proxy that is ready after more than three seconds serves the TEE
   although its creation was reported as failed, and a child that hangs, or that
   the TEE never ends, keeps its parent in `wait` for ever
   (`posix_proxy.c:355`, `:294`; `late` and `stuck` in `PosixProxy`).
6. `TEEC_OpenSession` sets `session->context` before anything can fail, because
   "ca may call closesession even if opensession failed", but leaves `session_id`
   alone, and `TEEC_CloseSession` looks the session up by that id. In a structure
   that was never written to it may be the id of another session of the context,
   which is closed instead (`tee_client_api.c:1014`). The runs start with
   structures that are zero (`GarbageIds`).
7. teecd serves clients before it ignores SIGPIPE (line 79 of
   `teecd.c`); a client that dies in that interval can end the daemon.
8. tlogcat removes the moved files whether or not they were packed
   (`tlogcat.c:381`), and one that was killed before packing finds them in `_tmp`
   and removes them at the next compression (`hurt` in `TlogFiles`). The comment
   on the archives ("then to zero, recycle using", line 602) describes a ring;
   the code shifts all archives by one. The wait and
   retry after `LOG_READ_STATUS_ERROR` (line 1041) is never reached: that value is
   larger than `LOG_BUFFER_LEN`, which is refused ten lines before.
9. `CopyFileByBlk` returns the result of the block before when a file turns out
   to be shorter than `lstat` said: from the second block on that is success, and
   an application without its end is reported as pushed and is installed
   (`scp.c:89`; `cut` in `Teleport`). For an empty application it fails, always.
10. A pull looks at the TEE's result after the last block only, so that a refused
    block in the middle is a hole in a log that is reported as complete
    (`scp.c:246`; `gapped`). For a log without blocks the result is not
    initialized.
11. Two processes that create a session with one id file at the same time both
    pass the check for its existence, and one id is lost; the id of a session is
    lost too when the process is killed before it has written it, or when the TEE
    created the session and the call failed all the same (`excused`). When the TEE
    has destroyed a session and the call fails, or `unlink` does, the id file stays
    and names a session that is no more (`stale`).
12. When `SerializeMsgBuf` fails, `NetRecvmsgWork` frees a buffer that belongs to
    a package which is in the list, and which frees it again
    (`posix_network.c:550`; `FailRecvmsg` and `torn` in `FdList`).
13. `LOG_FILE_LIMIT` is passed without any failure: it is compared before a record
    is written, with a length that leaves out the version which `LogFilesOpen`
    writes into a new file after it took the length (`tlogcat.c:674`, `:278`).
    `SlotsCurrent` and `SpaceBounded` say by how much.

## 4. Proofs

Each `...Proofs` module extends the module it is about. All of its theorems are
about the specification that the runs check, for every value of the constants
that the module's assumption allows; there is no bound on threads, blocks,
sessions, clients, messages or files except that sets which are counted are
finite. The properties named on the right are those of section 3.

| Module | Theorem | States |
|---|---|---|
| `TeecContextProofs` | `TypeCorrect`, `RefCountExact`, `MemorySafe`, `DescriptorsOwned` | `TypeOK`, `RefCount`, `NoUseAfterFree`, `FdOwnership` |
| | `SessionsAccounted` | `SessionAccounted` |
| | `CancelSafe`, `ViewsHold` | `CancelOnOwnFd`, `ViewsAgree` |
| `SharedMemProofs` | `RefCountsHold`, `OffsetsExact`, `AcceptedStaysListed`, `ContextLeavesNothing` | `ShmRefCount`, `BitmapExact`, `MemrefStillValid`, `NothingLeft` |
| `SessionPoolProofs` | `OnlyOpenSessionsTaken`, `KeysExact`, `AllSessionsClosed` | `TakenIsOpen`, `KeysMatch`, `NoSessionLeft` |
| `BlockingQueueProofs` | `NothingOverwritten` | `NoOverwrite` |
| | `QueueIsChannel` | `FifoChannel`, the refinement of `Channel` |
| `FdListProofs` | `RefCountsHold`, `OnlySweepsFree`, `SentIsGone` | `PkgRefCount`, the action properties `RefProtects` and `AnsweredIsGone` |
| `FsAgentProofs` | `RingStaysIntact`, `HandlesLead`, `PromisesKept` | `RingIntact`, `HandleNames`, `Durable` |
| `TeecdProofs` | `NothingLeaks`, `OwnLoginOnly` | `ResourcesAccounted`, `DescriptorEarned` |
| `PosixProxyProofs` | `TaskletsStayAlive`, `ProxyLeavesNothing`, `ChildrenAnswered` | `TaskletAlive`, `NothingLeft`, `ChildAnswer` |

The theorems about the posix proxy hold wherever the creation of a thread fails,
also at the positions that the run leaves out because finding 4 makes its liveness
properties false there.

**Assumptions.** Each module has one `ASSUME`, which the runs evaluate: `Nil`,
`None` and the like are none of the values they stand beside, sets whose members
are counted (`Threads`, `Invokers`, `Handlers`, `Blocks`, `Cells`, `Clients`) are
finite, and sizes are naturals. One theorem has a hypothesis of its own, because the
property is false without it: `ViewsHold` says `GarbageIds \cap Sids = {}`: the
client's structures do not start with an id that the TEE hands out. Without it
finding 6 is a counterexample. The theorems of `FdListProofs` have none: packages
expire and are swept at any time. What is false once memory was freed in use (finding
1) they state up to that point (`~torn`), and `OnlySweepsFree` says what it takes to
get there.

**The invariants.** In each module `IInv` is the inductive invariant, a
conjunction of named parts, `InitIInv` and `NextIInv` are the two halves of the
proof, and there is one lemma for every action or group of actions that change the
same things. The properties alone are not inductive; what each proof needs in
addition is the reason why the code is right.

* *Contexts.* To know that `PutBnContext` may free the object one needs that its
  own reference is the last one: the count is exactly the number of the owners
  (`CountExact`), every owner's pointer is to an allocated object, no thread keeps
  a pointer after giving its reference back (`Pointers`), and an object that is
  being created or destroyed is in nobody else's hands (`Exclusive`).
  `DescriptorsOwned` follows on top, since only the creation and the destruction of
  an object touch the descriptors.
* *Sessions.* `SInv` says which structure of the client *stands for* a session of
  the TEE: the one that is listed with its id, or the one of the thread that has
  just opened it or is about to close it. That there is exactly one needs that a
  session which is being opened or closed is in no list (`Unlisted`) and that a
  listed one is open through the descriptor of the object that lists it
  (`Through`). It holds for clients with overlapping calls too.
* *Disciplined clients.* `QInv` adds, for `free = FALSE`, what the GlobalPlatform API
  asks of a client: who finalizes, opens or closes has the context or session for
  itself (`Roles`). From that follows that a thread's object is listed with the
  descriptor of its context (`InUse`), although descriptors are reused while
  another thread is still draining the object that had it.
* *Shared memory.* The references of the context and of every block are counted as
  above (`CtxRefs`, `CellRefs`). `Positions` says whose offset a set bit is.
  The difficult part is `Backed`: a block of size 0 is looked up by the common address
  `ZERO_SIZE_PTR`, so that a release may take *another* block's cell; the invariant
  is therefore about numbers, not about identities. There are at least as many
  listed cells with an address as there are client structures that rely on it.
* *Session pool.* `Counted`: the semaphore's value and the threads that have a key
  but not yet a session, or no longer, are together the number of set bits below
  `opened`. So `sem_wait` never admits a thread that will find no bit. The bits
  above are whatever `malloc` left, and `SessionsExact`, `LoopCounts` keep the
  searches away from them.
* *Queue.* `Layout`: there are starts, one for every unread message, such that the
  messages lie one after the other between tail and head; `Writing` and `Reading`
  say how far the one producer and the one consumer with the mutex have come.
  `HeadPastTail` and its neighbours state what the flip bits mean. For the
  refinement, `BlocksInjective` and `PrefixReceived` show that what consumers have
  put together are the messages sent; `SetHead` maps to `Send`, `SetTail` to `Receive`,
  and every other step to a stutter.
* *Packages.* `Alone`: only transfers of blocks meet on a package; with `KeysUnique` it
  makes a name a package. `Balanced`: what is left in `refCnt` and what the sweep took are
  together one for the list and one for every handler with a reference, although neither
  of the two is known by itself. `InHand`: until memory is freed in use, a handler's package
  is in the list and is the one of its call. `GoodStep` is what every action does to
  a package that is neither new nor freed: it keeps the balance, and no step but the sweep
  frees a package that another handler relies on. When the sweep frees one, its count was
  at 1, so that the balance gives that the sweep has taken one reference more than there
  are holders: that is `RefProtects`.
* *Storage agent.* `Ring`: the open files can be numbered so that `next` and `prev` are
  the neighbours, once around. `RingAdd`, `RingDel` and the lemmas beside them
  state once what `AddOpenFile` and `DelOpenFile` do to such a numbering, in the cases of
  the first node, the last, and the only one. `Walk` and `FindOpenFile`, which the
  model writes as a walk from the head, are shown to meet every node of the ring.
  `Promises` needs that what was synchronized is also still in the kernel.
* *teecd.* `Accounted`: the references of a file of the driver are the daemon's, those of
  answers that lie in sockets, and those of clients; and the daemon shares its file
  with nobody. `Served`: the connection that is being served, if its client still has it,
  is one on which the client waits for the answer to *that* request, so that an answer
  never goes to a later connection; `Queue`: a client is in the backlog once.
  `InSockets` and `Earned` carry the login of a descriptor on its way and the result of the version
  check from the process that made it to the thread that uses it.

* *Posix proxy.* `PartsAt` says which parts of a data tasklet there are at every
  location of the thread that creates or frees it: `list`, the tasklet, `priv`, the
  `struct DataTasklet`, its `tl`, the sweeping thread. Where that thread returns to
  belongs to this, since `XtaskletDestroy` is called for a whole data tasklet and for
  one whose sweeping thread could not be started. `DataParts` says whose it is: the
  main thread's once that has turned to it, before that the control executor's while
  it serves a call about it, and otherwise it is whole or not there at all, as `gData`
  says. That the two threads never meet on it is the part that needs an argument.
  There is no lock: the end comes from the TEE's last call (`Requests`: one control
  call at a time, none after `unregister`), and whoever saw `destroySem` posted or the
  program ended finds that call served up to its answer (`Ending`); and the main
  thread turns to the data tasklet only after it has joined the control executor
  (`MainFrees`). `Counted` (calls waiting and calls with an executor are not answered
  yet) excludes data calls while a tasklet is replaced, so that a handler finds the
  package list although executors start before `priv` is set.
  For the children, `KidAnswers` relates the shared result, the semaphore and what
  the parent has made of them; it was not inductive without the fact that whoever has
  reported has left a result behind.

**Induction.** The library's induction theorems take an operator as a
parameter, which the installed provers cannot instantiate. Where a proof needs an
induction on numbers (the lowest position of a bitmap in `SharedMemProofs` and
`SessionPoolProofs`, the length of a walk around the ring in `FsAgentProofs`) it uses
that `<` on the naturals, as a relation (`LessThan`), is well founded, so that a
set of numbers that is not empty has a least element.

**Model-checked only.**

* Liveness: `ContextReclaimed`, `WaitersServed`, `EnqueueCompletes`, `PkgReclaimed`,
  `CallsAnswered`, `ProxyEnds`, `NobodyWaits`. TLAPS reasons neither about
  `ENABLED` nor, therefore, about weak fairness.
* `TlogFiles`: `OrderKept` and `OnlyOldestLost` speak of what a reader finds by going
  through all archives and files, a fold over sequences of sequences, so that each
  step would need an induction over data. `SlotsCurrent` and `SpaceBounded` are
  within reach and have no proof yet.
* `Teleport` (`IdFilesExact`, `InstalledWhole`, `PulledWhole`): within reach, and no
  proof yet.

## 5. What is left out

* Locking a pthread mutex, `sem_post` and the checked copy functions succeed;
  their error paths only log and return.
* The paths of `tee_client_api.c` for callers from a HIDL service
  (`callFromHidl`, `GetBnSession`, `PutBnSession`) are not reachable in this
  library.
* Operation parameters: `TEEC_CheckOperation` and `TEEC_Encode` are steps that
  may refuse; the sum of offset and size, which is not checked for overflow, is
  not modelled.
* `TEEC_SessionPoolDestroy` while the detached worker still runs. The code has
  no way to wait for the worker, so the model assumes that the caller has seen
  it end.
* The content of a ring that one world creates before the other initializes it;
  messages as large as the ring.
* Of the posix proxy: control calls between the writes to the fields of
  `g_posix_proxy`, when a call would read a null pointer; threads of a pool other
  than the first that cannot be created (`FailsAt` of the run); children of
  children; the forwarding of POSIX calls and the serializer, which keep no state
  beyond the packages.
* `FsAgent`: `fclose` in `CloseWork` succeeds. After a failure
  (`fs_work_agent.c:828`) the agent's list keeps a node whose `FILE` is gone, and
  nothing could be said about what a later use of it does; `RingIntact` and
  `HandleNames` are therefore silent about a disk that fails at the moment a file
  is closed. The descriptor 0 is nobody's file: teecd leaves its standard input open.
* `PosixProxy`: `shmat` succeeds. Its failure is `(void *)-1` and is compared with
  `NULL` (`posix_proxy.c:392`), so that the proxy would write through that pointer
  instead of answering with an error.
* `FdListDestroy` with calls in progress (the TEE has none then); the
  descriptor bitmap of `fd_list.c`, which has no users.
* `FsAgent`: the building of paths (`JoinFileName`), file offsets, directory
  operations that are not yet on the disk at a power loss, and a TEE that keeps
  using descriptors of a teecd that has ended.
* Of teecd: the thread that sends the time to the TEE, the loading of agents
  from libraries, what an agent does between a request and its answer (for the
  storage agent this is `FsAgent`), agents' threads that cannot be created, the
  memory for a request, and the reading of `/proc` by which a client is
  authenticated (`SendLoginInfo` succeeds or fails). A daemon of another version
  that takes its place while clients run; the client, which keeps the result of
  its check, does not notice.
* tlogcat: reading from the driver, the output to syslog, the options that query
  or set a value of the driver, the text of a record, and a second tlogcat that
  writes files (the driver allows one).
* tee_teleport: `TeeList`, `TeeClean`, `TeeRconfig` and the message for
  containers, each a single call that leaves nothing on this side; the parsing of
  options; how a program behaves in the TEE.
* Pure input and output: reading TA images and certificates, the format of
  archives, command lines, logging.

## 6. Plan

Theorems to add: `InstalledWhole` and `IdFilesExact` for `Teleport`, whose invariant
has to say which process holds the id of a session that is in no file yet;
`SlotsCurrent` for `TlogFiles`.

Models to add: the parameter rules of `TEEC_CheckOperation` with its sums as
operators, against a reference definition, and the bounds of the serializer
likewise.
