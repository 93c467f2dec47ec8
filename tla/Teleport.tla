----------------------------- MODULE Teleport -----------------------------
(***************************************************************************)
(* The command line tool tee_teleport (tee_teleport.c, scp.c, run.c,       *)
(* portal.c).  Each process runs one command: it creates an application in *)
(* the TEE, runs it, pulls its log, deletes the log or destroys it.  What  *)
(* outlives a process is the session in the TEE and the file that holds    *)
(* the session's id; nothing locks that file, so processes meet in it, and *)
(* a process may be killed between any two of its calls.                   *)
(*                                                                         *)
(* A file is the sequence of its items: the id of session s is <<s, 0>>,   *)
(* block n of the log of s is <<s, n>>.  The TEE is the environment: it    *)
(* takes or refuses each call, and it gives each session a new id.         *)
(***************************************************************************)
EXTENDS Integers, Sequences, FiniteSets, SequencesExt

CONSTANTS
    Procs,        \* the processes that can run at a time
    Paths,        \* the files named with -i and -v, or their defaults
    Commands,     \* the sets of options a user gives
    Sizes,        \* bound: the sizes in blocks of the files that are pushed
    MaxLog,       \* bound: the blocks of a log
    MaxSessions,  \* bound: the sessions the TEE creates
    Cost, Budget, \* bound: what each command costs, and all of them together
    MaxFaults,    \* bound: kills, shrinking files, failing fclose and unlink,
                  \* lost answers
    None

Sessions == 1 .. MaxSessions

ASSUME TeleportAssumption ==
    /\ Sizes \subseteq Nat /\ MaxLog \in Nat
    /\ MaxSessions \in Nat /\ MaxFaults \in Nat
    /\ Cost \in [Commands -> Nat \ {0}] /\ Budget \in Nat
    /\ \A c \in Commands : c \subseteq {"INSTALL", "UNINSTALL", "CREATE", "RUN",
                              "OUTPUT", "DELETE", "DESTROY", "ID", "SAVE"}

VARIABLES
    file,     \* the contents of each path, None if there is no file
    live,     \* TEE: the sessions there are
    app,      \* TEE: for each session, its installed application
    log,      \* TEE: for each session, the blocks of its log
    runtime,  \* TEE: the installed interpreter, None if there is none
    staged,   \* TEE: the blocks each process pushed
    pr,       \* the processes
    orphan,   \* processes whose open file has been unlinked
    raced,    \* history: processes whose path was written since they checked it
    gapped,   \* history: processes the TEE refused a block and then gave a later one
    cut,      \* history: processes that pushed only a part, and went on
    excused,  \* history: sessions lost for a reason the code leaves open
    stale,    \* history: destroyed sessions whose id file was not removed
    cmds,     \* history: the cost of the commands given
    faults    \* history: the number of faults

tee  == <<live, app, log, runtime, staged>>
hist == <<raced, gapped, cut, excused, stale, faults>>
vars == <<file, tee, pr, orphan, cmds, hist>>

\* main's locals, all 0: a process that has not started.
Idle == [pc |-> "idle", cmd |-> {}, idf |-> None, save |-> None, sid |-> 0,
         blks |-> 0, nbr |-> 0, err |-> FALSE]

NoApp == [blks |-> 0, got |-> <<>>, cut |-> FALSE]

Init ==
    /\ file = [f \in Paths |-> None]
    /\ live = {}
    /\ app = [s \in Sessions |-> NoApp] /\ log = [s \in Sessions |-> 0]
    /\ runtime = None
    /\ staged = [p \in Procs |-> <<>>]
    /\ pr = [p \in Procs |-> Idle]
    /\ orphan = {} /\ raced = {} /\ gapped = {} /\ cut = {}
    /\ excused = {} /\ stale = {} /\ cmds = 0 /\ faults = 0

-----------------------------------------------------------------------------
(* Files. *)

Hole == <<0, 0>>

\* Item x written at position n of the contents c.
WriteAt(c, n, x) ==
    [i \in 1 .. IF n > Len(c) THEN n ELSE Len(c) |->
        IF i = n THEN x ELSE IF i <= Len(c) THEN c[i] ELSE Hole]

\* The session ids that fscanf finds at the head of a file.
IdsIn(c) == IF c = None \/ c = <<>> THEN {}
            ELSE {s \in Sessions : c[1] = <<s, 0>>}

\* The processes that use f, which had no file when they checked it.
Users(f) ==
    {q \in Procs : /\ pr[q].save = f
                   /\ pr[q].pc \in {"stat", "push", "install", "write", "close",
                                    "open", "get", "pulled"}}

\* Process p wrote its path: whoever checked that path before did so in vain.
Trespass(p) == raced' = raced \cup (Users(pr[p].save) \ {p})

\* A write that follows a race may put the id of another session out of reach.
Overwritten(p) == IF p \in raced THEN IdsIn(file[pr[p].save]) ELSE {}

-----------------------------------------------------------------------------
(* Processes. *)

\* p goes on at l; nothing is left of it at the end.
Goto(p, l) ==
    pr' = [pr EXCEPT ![p] =
             IF l = "exit" THEN [Idle EXCEPT !.pc = l] ELSE [@ EXCEPT !.pc = l]]

At(p, l) == pr[p].pc = l

\* -c with -r and -e: create, run and destroy, without an id file.
FastRun(p) == {"CREATE", "RUN", "DESTROY"} \subseteq pr[p].cmd

\* Where DoRun and DoOutput return to.
After(p) == IF FastRun(p) THEN "undo" ELSE "exit"

\* main: ParseArgs and InitPortal, which checks the version, opens the device,
\* allocates the buffer and registers it.  When one of them fails, what was
\* acquired is released and nothing has happened.
InitPortal(p) ==
    /\ At(p, "idle")
    /\ \E c \in Commands, i, v \in Paths :
          /\ cmds' = cmds + Cost[c]
          /\ cmds' <= Budget
          /\ {"ID", "OUTPUT"} \subseteq c \/ i = v
          /\ pr' = [pr EXCEPT ![p] = [Idle EXCEPT !.pc = "cmd", !.cmd = c,
                                                  !.idf = i, !.save = v]]
    /\ UNCHANGED <<file, tee, orphan, hist>>

\* g_teleportFuncTable
FuncTable == <<"INSTALL", "UNINSTALL", "CREATE", "RUN", "OUTPUT", "DELETE", "DESTROY">>

NeedId == {"RUN", "OUTPUT", "DELETE", "DESTROY"}

Entry == [INSTALL |-> "stat", UNINSTALL |-> "uninstall", CREATE |-> "check",
          RUN |-> "run", OUTPUT |-> "pull", DELETE |-> "delete", DESTROY |-> "destroy"]

\* The session id is read first; the first option of the table that is given
\* chooses the function.
HandleUserCmd(p) ==
    LET cmd == pr[p].cmd
        ids == IF "ID" \in cmd THEN IdsIn(file[pr[p].idf]) ELSE {0}
        f   == SelectSeq(FuncTable, LAMBDA t : t \in cmd)[1] IN
    /\ At(p, "cmd")
    /\ IF ids = {} \/ (f \in NeedId /\ "ID" \notin cmd)
       THEN Goto(p, "exit")
       ELSE \E s \in ids : pr' = [pr EXCEPT ![p].sid = s, ![p].pc = Entry[f]]
    /\ UNCHANGED <<file, tee, orphan, hist>>

\* DestroyPortal, and the end of the process.
Exit(p) ==
    /\ At(p, "exit")
    /\ pr' = [pr EXCEPT ![p] = Idle]
    /\ staged' = [staged EXCEPT ![p] = <<>>]
    /\ raced' = raced \ {p} /\ gapped' = gapped \ {p} /\ orphan' = orphan \ {p}
    /\ cut' = cut \ {p}
    /\ UNCHANGED <<file, live, app, log, runtime, excused, stale, faults>>

-----------------------------------------------------------------------------
(* Pushing and installing an application: DoCreate, DoInstall. *)

\* Mutant: a path that has a file is accepted.
CheckIDSavePathNever(p) == TRUE

\* "if file exists, returns error"
CheckIDSavePath(p) == FastRun(p) \/ file[pr[p].save] = None

\* GetPathForCreate: the path of the application may be wrong, or that of the id.
GetPathForCreate(p) ==
    /\ At(p, "check")
    /\ \/ CheckIDSavePath(p) /\ Goto(p, "stat") /\ raced' = raced \ {p}
       \/ Goto(p, "exit") /\ UNCHANGED raced
    /\ UNCHANGED <<file, tee, orphan, gapped, excused, stale, faults, cut>>

\* PushFile, CopyFile: the size of the file is taken.  An empty file has no
\* block and fails.
CopyFile(p) ==
    /\ At(p, "stat")
    /\ \/ \E n \in Sizes \ {0} :
             pr' = [pr EXCEPT ![p].pc = "push", ![p].blks = n, ![p].nbr = 0]
       \/ Goto(p, "exit")
    /\ UNCHANGED <<file, tee, orphan, hist>>

NextBlock(p) ==
    [pr EXCEPT ![p].nbr = @ + 1,
               ![p].pc = IF pr[p].nbr + 1 = pr[p].blks THEN "install" ELSE "push"]

\* Mutant: the result of the call is checked, that of the TEE is not.
CopyFileByBlkBlindly(p) ==
    /\ At(p, "push")
    /\ \/ staged' = [staged EXCEPT ![p] = Append(@, pr[p].nbr)]
       \/ UNCHANGED staged
    /\ pr' = NextBlock(p)
    /\ UNCHANGED <<file, live, app, log, runtime, orphan, hist>>

\* One block is read and pushed; the call may fail and the TEE may refuse the
\* block.  If the file has shrunk since its size was taken, what the function
\* returns is the result of the block before: a failure at the first block,
\* success at a later one.
CopyFileByBlk(p) ==
    /\ At(p, "push")
    /\ \/ /\ staged' = [staged EXCEPT ![p] = Append(@, pr[p].nbr)]
          /\ pr' = NextBlock(p)
          /\ UNCHANGED hist
       \/ Goto(p, "exit") /\ UNCHANGED <<staged, hist>>
       \/ /\ pr[p].nbr > 0 /\ faults < MaxFaults
          /\ Goto(p, "install")
          /\ cut' = cut \cup {p} /\ faults' = faults + 1
          /\ UNCHANGED <<staged, raced, gapped, excused, stale>>
    /\ UNCHANGED <<file, live, app, log, runtime, orphan>>

Pushed(p) == [blks |-> pr[p].blks, got |-> staged[p], cut |-> p \in cut]

\* The sessions there have been.
Known == {s \in Sessions : app[s] # NoApp}

\* TeeInstall, for an application: the TEE creates a session, or refuses; or
\* it creates one and the call fails all the same.
InstallApp(p) ==
    /\ At(p, "install") /\ "CREATE" \in pr[p].cmd /\ "INSTALL" \notin pr[p].cmd
    /\ \/ Goto(p, "exit") /\ UNCHANGED <<tee, hist>>
       \/ \E s \in Sessions \ Known :
             /\ \A r \in Sessions \ Known : s <= r
             /\ live' = live \cup {s}
             /\ app' = [app EXCEPT ![s] = Pushed(p)]
             /\ \/ /\ pr' = [pr EXCEPT ![p].sid = s,
                              ![p].pc = IF FastRun(p) THEN "run" ELSE "write"]
                   /\ UNCHANGED hist
                \/ /\ faults < MaxFaults
                   /\ Goto(p, "exit")
                   /\ excused' = excused \cup {s} /\ faults' = faults + 1
                   /\ UNCHANGED <<raced, gapped, stale, cut>>
             /\ UNCHANGED <<log, runtime, staged>>
    /\ UNCHANGED <<file, orphan>>

\* TeeInstall, for an interpreter or a library of it.
InstallRuntime(p) ==
    /\ At(p, "install") /\ "INSTALL" \in pr[p].cmd
    /\ runtime' = Pushed(p) \/ UNCHANGED runtime
    /\ Goto(p, "exit")
    /\ UNCHANGED <<file, live, app, log, staged, orphan, hist>>

\* TeeUninstall
TeeUninstall(p) ==
    /\ At(p, "uninstall")
    /\ runtime' = None \/ UNCHANGED runtime
    /\ Goto(p, "exit")
    /\ UNCHANGED <<file, live, app, log, staged, orphan, hist>>

-----------------------------------------------------------------------------
(* The id file. *)

\* WriteSessionID: fopen(path, "w") empties a file that is there.
OpenIdFile(p) ==
    /\ At(p, "write")
    /\ \/ /\ file' = [file EXCEPT ![pr[p].save] = <<>>]
          /\ Goto(p, "close")
          /\ Trespass(p)
          /\ excused' = excused \cup Overwritten(p)
       \/ Goto(p, "undo") /\ UNCHANGED <<file, raced, excused>>
    /\ UNCHANGED <<tee, orphan, gapped, stale, faults, cut>>

\* fprintf may fail.  The id gets to the file in fclose, whose result is not
\* looked at.
WriteSessionID(p) ==
    LET s == pr[p].sid
        f == pr[p].save IN
    /\ At(p, "close")
    /\ \/ Goto(p, "undo") /\ UNCHANGED <<file, raced, excused, faults>>
       \/ /\ file' = IF p \in orphan \/ file[f] = None THEN file
                     ELSE [file EXCEPT ![f] = WriteAt(@, 1, <<s, 0>>)]
          /\ Goto(p, "exit")
          /\ Trespass(p)
          /\ excused' = excused \cup Overwritten(p) \cup (IF p \in raced THEN {s} ELSE {})
          /\ UNCHANGED faults
       \/ /\ faults < MaxFaults
          /\ Goto(p, "exit")
          /\ excused' = excused \cup {s} /\ faults' = faults + 1
          /\ UNCHANGED <<file, raced>>
    /\ UNCHANGED <<tee, orphan, gapped, stale, cut>>

\* What remains of the application of a session that has ended.
Gone == [NoApp EXCEPT !.cut = TRUE]

\* The session ends in the TEE, its log and its application with it.
TeeDestroyed(s) ==
    /\ live' = live \ {s}
    /\ log' = [log EXCEPT ![s] = 0]
    /\ app' = [app EXCEPT ![s] = Gone]

\* TeeDestroy of a session that has no id file: when the TEE refuses, or is not
\* reached, nobody can ask again.  That the TEE destroys the session and the
\* call fails makes no difference here: either way the process ends.
UndoCreate(p) ==
    /\ At(p, "undo")
    /\ \/ TeeDestroyed(pr[p].sid) /\ UNCHANGED excused
       \/ excused' = excused \cup {pr[p].sid} /\ UNCHANGED <<live, log, app>>
    /\ Goto(p, "exit")
    /\ UNCHANGED <<file, runtime, staged, orphan, raced, gapped, stale, faults, cut>>

-----------------------------------------------------------------------------
(* Running an application and pulling its log. *)

\* Mutant: a fast run that cannot run returns.
DoRunOrReturn(p) ==
    /\ At(p, "run")
    /\ \/ \E n \in 0 .. MaxLog :
             /\ n >= log[pr[p].sid] /\ log' = [log EXCEPT ![pr[p].sid] = n]
             /\ Goto(p, IF "OUTPUT" \in pr[p].cmd THEN "pull" ELSE After(p))
       \/ Goto(p, "exit") /\ UNCHANGED log
    /\ UNCHANGED <<file, live, app, runtime, staged, orphan, hist>>

\* The program leaves something in its log, or there is no such session: this
\* is reported as the result of the program, and DoRun goes on.  The parameters,
\* the posix proxy or the call may fail, before or after the program has run.
DoRun(p) ==
    LET s == pr[p].sid IN
    /\ At(p, "run")
    /\ \E n \in 0 .. MaxLog :
          /\ n >= log[s]
          /\ log' = IF s \in live THEN [log EXCEPT ![s] = n] ELSE log
    /\ \/ Goto(p, IF "OUTPUT" \in pr[p].cmd THEN "pull" ELSE After(p))
       \/ Goto(p, After(p))
    /\ UNCHANGED <<file, live, app, runtime, staged, orphan, hist>>

\* PullFile, CopyFileFromTEE: the TEE tells the size of the log, or refuses and
\* leaves the size at 0, which is not noticed here.
CopyFileFromTEE(p) ==
    LET s == pr[p].sid IN
    /\ At(p, "pull")
    /\ \/ /\ s \in live
          /\ pr' = [pr EXCEPT ![p].pc = "dst", ![p].blks = log[s], ![p].err = FALSE]
       \/ pr' = [pr EXCEPT ![p].pc = "dst", ![p].blks = 0, ![p].err = TRUE]
       \/ Goto(p, After(p))
    /\ UNCHANGED <<file, tee, orphan, hist>>

\* SetDstPath: a file that exists is an error.
SetDstPath(p) ==
    /\ At(p, "dst")
    /\ \/ file[pr[p].save] = None /\ Goto(p, "open") /\ raced' = raced \ {p}
       \/ Goto(p, After(p)) /\ UNCHANGED raced
    /\ UNCHANGED <<file, tee, orphan, gapped, excused, stale, faults, cut>>

\* open(path, O_RDWR | O_CREAT) leaves the contents of a file that is there.
OpenDst(p) ==
    LET f == pr[p].save IN
    /\ At(p, "open")
    /\ \/ /\ file' = [file EXCEPT ![f] = IF @ = None THEN <<>> ELSE @]
          /\ pr' = [pr EXCEPT ![p].pc = "get", ![p].nbr = 0]
          /\ Trespass(p)
       \/ Goto(p, After(p)) /\ UNCHANGED <<file, raced>>
    /\ UNCHANGED <<tee, orphan, gapped, excused, stale, faults, cut>>

\* Mutant: blocks are asked for from the second on.
MoreBlocksPast(p) == pr[p].nbr + 1 < pr[p].blks

MoreBlocks(p) == pr[p].nbr < pr[p].blks

\* A block of the log, or whatever the buffer holds when the TEE has refused:
\* only the result of the last call is looked at, after the loop.
CopyFileFromTEEByBlk(p) ==
    LET s == pr[p].sid
        f == pr[p].save
        n == pr[p].nbr + 1 IN
    /\ At(p, "get")
    /\ MoreBlocks(p)
    /\ \/ \E ok \in BOOLEAN :
             /\ ok => s \in live /\ n <= log[s]
             /\ file' = IF p \in orphan THEN file
                        ELSE [file EXCEPT ![f] = WriteAt(@, n, IF ok THEN <<s, n>> ELSE Hole)]
             /\ pr' = [pr EXCEPT ![p].nbr = n, ![p].err = ~ok]
             /\ gapped' = IF ok /\ pr[p].err THEN gapped \cup {p} ELSE gapped
             /\ Trespass(p)
             /\ excused' = excused \cup Overwritten(p)
       \/ Goto(p, After(p)) /\ UNCHANGED <<file, gapped, raced, excused>>
    /\ UNCHANGED <<tee, orphan, stale, faults, cut>>

\* After the loop.  ret has no value if there was no block: any outcome.
EndPull(p) ==
    /\ At(p, "get")
    /\ ~MoreBlocks(p)
    /\ \/ ~pr[p].err /\ Goto(p, "pulled")
       \/ (pr[p].err \/ pr[p].blks = 0) /\ Goto(p, After(p))
    /\ UNCHANGED <<file, tee, orphan, hist>>

\* "successfully pulled log"
Pulled(p) ==
    /\ At(p, "pulled")
    /\ Goto(p, After(p))
    /\ UNCHANGED <<file, tee, orphan, hist>>

\* TeeDelete
DoDelete(p) ==
    LET s == pr[p].sid IN
    /\ At(p, "delete")
    /\ log' = [log EXCEPT ![s] = 0] \/ UNCHANGED log
    /\ Goto(p, "exit")
    /\ UNCHANGED <<file, live, app, runtime, staged, orphan, hist>>

-----------------------------------------------------------------------------
(* Destroying an application. *)

\* Mutant: the id file is removed although the session is still there.
DoDestroyAnyway(p) ==
    /\ At(p, "destroy")
    /\ TeeDestroyed(pr[p].sid) \/ UNCHANGED <<live, log, app>>
    /\ Goto(p, "unlink")
    /\ UNCHANGED <<file, runtime, staged, orphan, hist>>

\* TeeDestroy: when it fails the id file stays, even if the TEE did destroy the
\* session and only the call failed.
DoDestroy(p) ==
    LET s == pr[p].sid IN
    /\ At(p, "destroy")
    /\ \/ s \in live /\ TeeDestroyed(s) /\ Goto(p, "unlink") /\ UNCHANGED hist
       \/ Goto(p, "exit") /\ UNCHANGED <<live, log, app, hist>>
       \/ /\ s \in live /\ faults < MaxFaults
          /\ TeeDestroyed(s)
          /\ Goto(p, "exit")
          /\ stale' = stale \cup {s} /\ faults' = faults + 1
          /\ UNCHANGED <<raced, gapped, cut, excused>>
    /\ UNCHANGED <<file, runtime, staged, orphan>>

\* The file is unlinked by name, whatever it holds by now.
Unlink(p) ==
    LET f == pr[p].idf IN
    /\ At(p, "unlink")
    /\ \/ /\ file' = [file EXCEPT ![f] = None]
          /\ orphan' = orphan \cup
                {q \in Procs : pr[q].pc \in {"close", "get", "pulled"} /\ pr[q].save = f}
          /\ UNCHANGED stale
          /\ UNCHANGED faults
       \/ /\ faults < MaxFaults
          /\ stale' = stale \cup {pr[p].sid} /\ faults' = faults + 1
          /\ UNCHANGED <<file, orphan>>
    /\ Goto(p, "exit")
    /\ UNCHANGED <<tee, raced, gapped, excused, cut>>

-----------------------------------------------------------------------------
(* The environment. *)

\* p is the process that knows the id of s, which is in no file yet.
Holds(p, s) ==
    /\ pr[p].sid = s
    /\ "CREATE" \in pr[p].cmd
    /\ pr[p].pc \notin {"idle", "check", "stat", "push", "install", "exit"}

\* p is killed; its portal goes with it.
Kill(p) ==
    /\ ~At(p, "idle")
    /\ faults < MaxFaults
    /\ faults' = faults + 1
    /\ excused' = excused \cup {s \in live : Holds(p, s)}
    /\ stale' = stale \cup (IF At(p, "unlink") THEN {pr[p].sid} ELSE {})
    /\ pr' = [pr EXCEPT ![p] = Idle]
    /\ staged' = [staged EXCEPT ![p] = <<>>]
    /\ raced' = raced \ {p} /\ gapped' = gapped \ {p} /\ orphan' = orphan \ {p}
    /\ cut' = cut \ {p}
    /\ UNCHANGED <<file, live, app, log, runtime>>

\* "file exists, please clean": the user removes a file that holds no id and
\* that no process has open.
CleanFile(f) ==
    /\ file[f] # None /\ IdsIn(file[f]) = {}
    /\ \A p \in Procs : pr[p].save = f => pr[p].pc \notin {"close", "get", "pulled"}
    /\ file' = [file EXCEPT ![f] = None]
    /\ UNCHANGED <<tee, pr, orphan, hist>>

Step(p) ==
    \/ HandleUserCmd(p) \/ Exit(p)
    \/ GetPathForCreate(p) \/ CopyFile(p) \/ CopyFileByBlk(p)
    \/ InstallApp(p) \/ InstallRuntime(p) \/ TeeUninstall(p)
    \/ OpenIdFile(p) \/ WriteSessionID(p) \/ UndoCreate(p)
    \/ DoRun(p) \/ CopyFileFromTEE(p) \/ SetDstPath(p) \/ OpenDst(p)
    \/ CopyFileFromTEEByBlk(p) \/ EndPull(p) \/ Pulled(p) \/ DoDelete(p)
    \/ DoDestroy(p) \/ Unlink(p) \/ Kill(p)

Next ==
    \/ \E p \in Procs : InitPortal(p)
    \/ (\E p \in Procs : Step(p)) /\ UNCHANGED cmds
    \/ (\E f \in Paths : CleanFile(f)) /\ UNCHANGED cmds

Spec == Init /\ [][Next]_vars

-----------------------------------------------------------------------------
(* Properties. *)

\* A session of the TEE can be destroyed: a file holds its id, or the process
\* that created it is still at work (DoCreate, DoDestroy); and a file that holds
\* an id holds that of a session there is, or one that is just being destroyed,
\* or one that was destroyed although the call failed or whose file could not be
\* removed (stale).  Exempt from the first part are the sessions of a process
\* that was killed, whose id fclose did not write, whose installation reported a
\* failure, that the TEE refused to destroy for want of an id file, and those of
\* processes that checked one path at the same time (excused).
IdFilesExact ==
    /\ \A s \in live \ excused :
          \/ \E f \in Paths : s \in IdsIn(file[f])
          \/ \E p \in Procs : Holds(p, s)
    /\ \A f \in Paths : \A s \in IdsIn(file[f]) :
          \/ s \in live \cup stale
          \/ \E p \in Procs : At(p, "unlink") /\ pr[p].sid = s

\* What the TEE installs is the file that was pushed, its blocks in order and
\* without a gap (CopyFileByBlk), however many processes push at a time; and
\* every block of it, unless the file shrank while it was pushed, which the
\* code takes for its end.
InstalledWhole ==
    \A a \in {app[s] : s \in live} \cup ({runtime} \ {None}) :
        /\ a.got = [n \in 1 .. Len(a.got) |-> n - 1]
        /\ Len(a.got) = a.blks \/ a.cut

\* A log that was reported as pulled is in the file, every block of it, and the
\* file holds nothing else (CopyFileFromTEEByBlk).  Exempt are pulls to a path
\* another process wrote meanwhile, and those where the TEE refused a block and
\* then gave a later one, which the code does not notice.
PulledWhole ==
    \A p \in Procs \ (raced \cup gapped \cup orphan) :
        At(p, "pulled") =>
            file[pr[p].save] = [n \in 1 .. pr[p].blks |-> <<pr[p].sid, n>>]

=============================================================================
