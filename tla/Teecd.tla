------------------------------- MODULE Teecd -------------------------------
(***************************************************************************)
(* The daemon teecd (teecd/*.c) and the clients that ask it for a          *)
(* descriptor of the driver (libteec_vendor/tee_client_socket.c).          *)
(*                                                                         *)
(* The daemon's main thread registers the agents, starts the thread that   *)
(* serves clients (CaServerWorkThread) and the agents' threads, and joins  *)
(* them.  agentd is the same program without the first of them.  A client  *)
(* thread asks for the daemon's version once for its process, and then for *)
(* a descriptor.  Clients and daemon may be killed at any time, and the    *)
(* daemon is started again.  There are fewer clients than BACKLOG_LEN.     *)
(***************************************************************************)
EXTENDS Integers, Sequences, FiniteSets

CONSTANTS
    Procs,      \* client processes
    Clients,    \* their threads, pairs of a process and a number
    NAgents,
    NFiles,     \* open files of the driver at a time
    SleepCount, \* SLEEP_COUNT, attempts to connect
    Nil

Agents == 1 .. NAgents
Files == 1 .. NFiles
Proc(c) == c[1]

ASSUME TeecdAssumption ==
    /\ Clients \subseteq Procs \X Nat /\ IsFiniteSet(Clients)
    /\ NAgents \in Nat \ {0} /\ NFiles \in Nat \ {0} /\ SleepCount \in Nat \ {0}
    /\ Nil \notin Procs /\ Nil \notin Clients /\ Nil \notin Files \cup {0}

VARIABLES
    withCa,         \* teecd, or agentd?
    compat,         \* is the daemon's version one that libteec accepts?
    mpc, index,     \* the main thread, and its loop variable
    sigIgn,         \* SIGPIPE is ignored
    reg, tpc,       \* registered agents; the agents' threads
    treq,           \* agents with a request of the TEE
    wpc, conn, caInfo, dfd, \* CaServerWorkThread: connection, request, driver file
    backlog,        \* connections not accepted yet
    refs, login,    \* files of the driver: references, whose login they have
    first, verOk,   \* processes: g_firstConnectTeecd, g_teecVersionCheckResult = 0
    cpc, cmd, tries, \* client threads: where they are, request, failCount
    sock,           \* their connection
    msg, answer,    \* what is in the socket, in either direction
    hold            \* the descriptor they have got

mvars == <<withCa, compat, mpc, index, sigIgn, reg>>
avars == <<tpc, treq>>
wvars == <<wpc, conn, caInfo, dfd>>
fvars == <<refs, login>>
pvars == <<first, verOk>>
cvars == <<cpc, cmd, tries, hold>>
svars == <<backlog, sock, msg, answer>>
vars == <<mvars, avars, wvars, fvars, pvars, cvars, svars>>

Init ==
    /\ withCa \in BOOLEAN /\ compat \in BOOLEAN
    /\ mpc = "init" /\ index = 1 /\ sigIgn = FALSE /\ reg = {}
    /\ tpc = [a \in Agents |-> "off"] /\ treq = {}
    /\ wpc = "off" /\ conn = Nil /\ caInfo = "none" /\ dfd = Nil
    /\ refs = [f \in Files |-> 0] /\ login = [f \in Files |-> Nil]
    /\ first = [p \in Procs |-> TRUE] /\ verOk = [p \in Procs |-> FALSE]
    /\ cpc = [c \in Clients |-> "idle"] /\ cmd = [c \in Clients |-> "none"]
    /\ tries = [c \in Clients |-> 0] /\ hold = [c \in Clients |-> Nil]
    /\ backlog = <<>> /\ sock = [c \in Clients |-> "none"]
    /\ msg = [c \in Clients |-> "none"] /\ answer = [c \in Clients |-> Nil]

\* References are given up, those[f] of them to f; with the last one goes the
\* file, and what the driver knows of it.
Drop(those) ==
    LET left == [f \in Files |-> refs[f] - those[f]] IN
    /\ refs' = left
    /\ login' = [f \in Files |-> IF left[f] = 0 THEN Nil ELSE login[f]]

One(g) == [f \in Files |-> IF f = g THEN 1 ELSE 0]

-----------------------------------------------------------------------------
(* The main thread. *)

\* TeecdInit: the version of the driver.
TeecdInit ==
    /\ mpc = "init"
    /\ \/ mpc' = "agents" /\ index' = 1
       \/ mpc' = "over" /\ UNCHANGED index
    /\ UNCHANGED <<withCa, compat, sigIgn, reg, avars, wvars, fvars, pvars, cvars, svars>>

\* A round of the first loop of ProcessAgentInit; AgentInit closes its
\* descriptor if the registration fails.
AgentInit ==
    /\ mpc = "agents"
    /\ \/ /\ reg' = reg \cup {index}
          /\ index' = index + 1
          /\ mpc' = IF index = NAgents THEN "startCa" ELSE "agents"
       \/ mpc' = "undo" /\ UNCHANGED <<reg, index>>
    /\ UNCHANGED <<withCa, compat, sigIgn, avars, wvars, fvars, pvars, cvars, svars>>

\* Its second loop, after which main returns.
UndoAgentInit ==
    /\ mpc = "undo"
    /\ reg' = reg \ {a \in Agents : a < index}
    /\ mpc' = "over" /\ treq' = {}
    /\ UNCHANGED <<withCa, compat, index, sigIgn, tpc, wvars, fvars, pvars, cvars, svars>>

StartCaServer ==
    /\ mpc = "startCa"
    /\ wpc' = IF withCa THEN "socket" ELSE "end"
    /\ mpc' = IF withCa THEN "signal" ELSE "threads"
    /\ UNCHANGED <<withCa, compat, index, sigIgn, reg, avars, conn, caInfo, dfd, fvars,
                   pvars, cvars, svars>>

IgnoreSigpipe ==
    /\ mpc = "signal"
    /\ sigIgn' = TRUE /\ mpc' = "threads"
    /\ UNCHANGED <<withCa, compat, index, reg, avars, wvars, fvars, pvars, cvars, svars>>

ProcessAgentThreadCreate ==
    /\ mpc = "threads"
    /\ tpc' = [a \in Agents |-> "wait"]
    /\ mpc' = "join"
    /\ UNCHANGED <<withCa, compat, index, sigIgn, reg, treq, wvars, fvars, pvars, cvars, svars>>

\* Both joins, and ProcessAgentExit.
JoinAndExit ==
    /\ mpc = "join"
    /\ wpc = "end" /\ \A a \in Agents : tpc[a] = "end"
    /\ reg' = {} /\ treq' = {}
    /\ mpc' = "over"
    /\ UNCHANGED <<withCa, compat, index, sigIgn, tpc, wvars, fvars, pvars, cvars, svars>>

\* The end of the process without its doing: the kernel closes its sockets and
\* files, and unregisters its agents.
Killed ==
    /\ mpc' = "over" /\ reg' = {} /\ treq' = {}
    /\ tpc' = [a \in Agents |-> "off"]
    /\ wpc' = "off" /\ conn' = Nil /\ caInfo' = "none" /\ dfd' = Nil
    /\ Drop(One(dfd))
    /\ sock' = [c \in Clients |-> IF sock[c] = "none" THEN "none" ELSE "shut"]
    /\ backlog' = <<>> /\ index' = 1 /\ sigIgn' = FALSE
    /\ UNCHANGED <<withCa, compat, pvars, cvars, msg, answer>>

KillTeecd == mpc # "over" /\ Killed

\* The daemon is started again.
Restart ==
    /\ mpc = "over"
    /\ mpc' = "init" /\ index' = 1 /\ sigIgn' = FALSE
    /\ tpc' = [a \in Agents |-> "off"] /\ wpc' = "off"
    /\ UNCHANGED <<withCa, compat, reg, treq, conn, caInfo, dfd, fvars, pvars,
                   cvars, svars>>

-----------------------------------------------------------------------------
(* The agents' threads.  A wait or an answer that fails ends the thread. *)

TeeRequest(a) ==
    /\ a \in reg \ treq
    /\ treq' = treq \cup {a}
    /\ UNCHANGED <<mvars, tpc, wvars, fvars, pvars, cvars, svars>>

\* A round of the work loop, up to SEND_EVENT_RESPONSE.
WorkLoop(a) ==
    /\ tpc[a] = "wait"
    /\ \/ a \in treq /\ treq' = treq \ {a} /\ UNCHANGED tpc
       \/ tpc' = [tpc EXCEPT ![a] = "end"] /\ UNCHANGED treq
    /\ UNCHANGED <<mvars, wvars, fvars, pvars, cvars, svars>>

-----------------------------------------------------------------------------
(* CaServerWorkThread *)

\* The peer of the connection being served still has its end open.
PeerThere == sock[conn] = "accepted"

\* CreateSocket, listen and malloc, or the thread ends.
CreateSocket ==
    /\ wpc = "socket"
    /\ wpc' \in {"accept", "end"}
    /\ UNCHANGED <<mvars, avars, conn, caInfo, dfd, fvars, pvars, cvars, svars>>

Accept ==
    /\ wpc = "accept" /\ backlog # <<>>
    /\ conn' = Head(backlog) /\ backlog' = Tail(backlog)
    /\ sock' = [sock EXCEPT ![Head(backlog)] = IF @ = "queued" THEN "accepted" ELSE @]
    /\ wpc' = "recv"
    /\ UNCHANGED <<mvars, avars, caInfo, dfd, fvars, pvars, cvars, msg, answer>>

\* Mutant: waits for the message without a timeout.
RecvNoTimeout ==
    /\ wpc = "recv"
    /\ \/ /\ PeerThere /\ msg[conn] # "none"
          /\ caInfo' = msg[conn] /\ wpc' = "process"
       \/ ~PeerThere /\ wpc' = "close" /\ UNCHANGED caInfo
    /\ UNCHANGED <<mvars, avars, conn, dfd, fvars, pvars, cvars, svars>>

\* The message, or nothing: the peer is gone, or three seconds have passed.
RecvCaMsg ==
    /\ wpc = "recv"
    /\ \/ /\ PeerThere /\ msg[conn] # "none"
          /\ caInfo' = msg[conn] /\ wpc' = "process"
       \/ /\ ~PeerThere \/ msg[conn] = "none"
          /\ wpc' = "close" /\ UNCHANGED caInfo
    /\ UNCHANGED <<mvars, avars, conn, dfd, fvars, pvars, cvars, svars>>

\* ProcessCaMsg opens the driver, unless the request is for a version.
ProcessCaMsg ==
    /\ wpc = "process"
    /\ \/ caInfo = "version" /\ wpc' = "send" /\ UNCHANGED <<dfd, refs>>
       \/ caInfo = "fd" /\ wpc' = "close" /\ UNCHANGED <<dfd, refs>>
       \/ /\ caInfo = "fd"
          /\ \E f \in Files :
                /\ refs[f] = 0 /\ \A g \in 1 .. f - 1 : refs[g] # 0
                /\ dfd' = f
                /\ refs' = [refs EXCEPT ![f] = 1]
          /\ wpc' = "login"
    /\ UNCHANGED <<mvars, avars, conn, caInfo, login, pvars, cvars, svars>>

\* Mutant: the descriptor is not closed if the login fails.
SendLoginInfoLeak ==
    /\ wpc = "login"
    /\ \/ login' = [login EXCEPT ![dfd] = Proc(conn)] /\ wpc' = "send" /\ UNCHANGED dfd
       \/ UNCHANGED login /\ wpc' = "close" /\ dfd' = Nil
    /\ UNCHANGED <<mvars, avars, conn, caInfo, refs, pvars, cvars, svars>>

\* The certificate of the peer's process goes to the driver, or the file is
\* closed.
SendLoginInfo ==
    /\ wpc = "login"
    /\ \/ /\ login' = [login EXCEPT ![dfd] = Proc(conn)]
          /\ wpc' = "send"
          /\ UNCHANGED <<dfd, refs>>
       \/ Drop(One(dfd)) /\ wpc' = "close" /\ dfd' = Nil
    /\ UNCHANGED <<mvars, avars, conn, caInfo, pvars, cvars, svars>>

\* SendFileDescriptor, after which the daemon closes its descriptor.  Sending to
\* a peer that is gone raises SIGPIPE.
SendFileDescriptor ==
    /\ wpc = "send"
    /\ \/ /\ PeerThere
          /\ answer' = [answer EXCEPT ![conn] = IF caInfo = "fd" THEN dfd ELSE 0]
          /\ wpc' = "close" /\ dfd' = Nil
          /\ UNCHANGED <<mvars, avars, conn, caInfo, fvars, backlog, sock, msg>>
       \/ /\ ~PeerThere /\ sigIgn
          /\ Drop(One(dfd))
          /\ wpc' = "close" /\ dfd' = Nil
          /\ UNCHANGED <<mvars, avars, conn, caInfo, svars>>
       \/ ~PeerThere /\ ~sigIgn /\ Killed
    /\ UNCHANGED <<pvars, cvars>>

CloseSocket ==
    /\ wpc = "close"
    /\ sock' = [sock EXCEPT ![conn] = IF PeerThere THEN "shut" ELSE @]
    /\ conn' = Nil /\ caInfo' = "none" /\ wpc' = "accept"
    /\ UNCHANGED <<mvars, avars, dfd, fvars, pvars, cvars, backlog, msg, answer>>

-----------------------------------------------------------------------------
(* The client's side: CaDaemonConnectWithCaInfo. *)

CGoto(c, loc) == cpc' = [cpc EXCEPT ![c] = loc]

Begin(c) ==
    /\ cpc[c] = "idle" /\ hold[c] = Nil
    /\ \/ first[Proc(c)] /\ CGoto(c, "connect") /\ cmd' = [cmd EXCEPT ![c] = "version"]
       \/ ~first[Proc(c)] /\ CGoto(c, "check") /\ UNCHANGED cmd
    /\ UNCHANGED <<mvars, avars, wvars, fvars, pvars, svars, tries, hold>>

\* Mutant: the result of the version check is not looked at.
CheckNothing(c) ==
    /\ cpc[c] = "check"
    /\ CGoto(c, "connect") /\ cmd' = [cmd EXCEPT ![c] = "fd"]
    /\ UNCHANGED <<mvars, avars, wvars, fvars, pvars, svars, tries, hold>>

CheckResult(c) ==
    /\ cpc[c] = "check"
    /\ \/ verOk[Proc(c)] /\ CGoto(c, "connect") /\ cmd' = [cmd EXCEPT ![c] = "fd"]
       \/ ~verOk[Proc(c)] /\ CGoto(c, "idle") /\ UNCHANGED cmd
    /\ UNCHANGED <<mvars, avars, wvars, fvars, pvars, svars, tries, hold>>

\* A round of the loop of CaDaemonConnect.  Without permission to connect the
\* loop is left at once.
Connect(c) ==
    /\ cpc[c] = "connect"
    /\ \/ /\ wpc \notin {"off", "socket", "end"}
          /\ backlog' = Append(backlog, c)
          /\ sock' = [sock EXCEPT ![c] = "queued"]
          /\ CGoto(c, "send") /\ tries' = [tries EXCEPT ![c] = 0]
       \/ /\ wpc \in {"off", "socket", "end"}
          /\ tries' = [tries EXCEPT ![c] = (@ + 1) % SleepCount]
          /\ CGoto(c, IF tries[c] + 1 = SleepCount THEN "idle" ELSE "connect")
          /\ UNCHANGED <<backlog, sock>>
       \/ /\ tries' = [tries EXCEPT ![c] = 0]
          /\ CGoto(c, "idle")
          /\ UNCHANGED <<backlog, sock>>
    /\ UNCHANGED <<mvars, avars, wvars, fvars, pvars, cmd, hold, msg, answer>>

\* The connection is closed; what is in it is lost.
Leave(c) ==
    /\ sock' = [sock EXCEPT ![c] = "none"]
    /\ msg' = [msg EXCEPT ![c] = "none"]
    /\ answer' = [answer EXCEPT ![c] = Nil]
    /\ UNCHANGED backlog

Send(c) ==
    /\ cpc[c] = "send"
    /\ \/ /\ sock[c] # "shut"
          /\ msg' = [msg EXCEPT ![c] = cmd[c]]
          /\ CGoto(c, "recv")
          /\ UNCHANGED <<backlog, sock, answer>>
       \/ sock[c] = "shut" /\ Leave(c) /\ CGoto(c, "idle")
    /\ UNCHANGED <<mvars, avars, wvars, fvars, pvars, cmd, tries, hold>>

\* RecvSockMsg: the version, the descriptor, or the end of the connection.
Recv(c) ==
    /\ cpc[c] = "recv"
    /\ answer[c] # Nil \/ sock[c] = "shut"
    /\ Leave(c)
    /\ \/ /\ answer[c] = Nil
          /\ CGoto(c, "idle") /\ UNCHANGED <<verOk, hold>>
       \/ /\ answer[c] # Nil /\ cmd[c] = "version"
          /\ verOk' = [verOk EXCEPT ![Proc(c)] = compat]
          /\ CGoto(c, "gotVersion") /\ UNCHANGED hold
       \/ /\ answer[c] # Nil /\ cmd[c] = "fd"
          /\ hold' = [hold EXCEPT ![c] = answer[c]]
          /\ CGoto(c, "idle") /\ UNCHANGED verOk
    /\ UNCHANGED <<mvars, avars, wvars, fvars, first, cmd, tries>>

GotVersion(c) ==
    /\ cpc[c] = "gotVersion"
    /\ first' = [first EXCEPT ![Proc(c)] = FALSE]
    /\ CGoto(c, "check")
    /\ UNCHANGED <<mvars, avars, wvars, fvars, verOk, cmd, tries, hold, svars>>

\* The client is done with its context.
CloseFd(c) ==
    /\ cpc[c] = "idle" /\ hold[c] # Nil
    /\ Drop(One(hold[c]))
    /\ hold' = [hold EXCEPT ![c] = Nil]
    /\ UNCHANGED <<mvars, avars, wvars, pvars, cpc, cmd, tries, svars>>

\* A client process ends.
Kill(p) ==
    LET mine == {c \in Clients : Proc(c) = p} IN
    /\ \E c \in mine : cpc[c] # "dead"
    /\ cpc' = [c \in Clients |-> IF c \in mine THEN "dead" ELSE cpc[c]]
    /\ Drop([f \in Files |-> Cardinality({c \in mine : hold[c] = f})
                             + Cardinality({c \in mine : answer[c] = f})])
    /\ hold' = [c \in Clients |-> IF c \in mine THEN Nil ELSE hold[c]]
    /\ answer' = [c \in Clients |-> IF c \in mine THEN Nil ELSE answer[c]]
    /\ sock' = [c \in Clients |-> IF c \in mine THEN "none" ELSE sock[c]]
    /\ msg' = [c \in Clients |-> IF c \in mine THEN "none" ELSE msg[c]]
    /\ cmd' = [c \in Clients |-> IF c \in mine THEN "none" ELSE cmd[c]]
    /\ tries' = [c \in Clients |-> IF c \in mine THEN 0 ELSE tries[c]]
    /\ UNCHANGED <<mvars, avars, wvars, pvars, backlog>>

-----------------------------------------------------------------------------
MainStep ==
    \/ TeecdInit \/ AgentInit \/ UndoAgentInit \/ StartCaServer \/ IgnoreSigpipe
    \/ ProcessAgentThreadCreate \/ JoinAndExit

CaStep ==
    \/ CreateSocket \/ Accept \/ RecvCaMsg \/ ProcessCaMsg \/ SendLoginInfo
    \/ SendFileDescriptor \/ CloseSocket

\* What a client that waits for the daemon does.
WaitStep(c) == Connect(c) \/ Recv(c)

ClientStep(c) ==
    \/ Begin(c) \/ CheckResult(c) \/ WaitStep(c) \/ Send(c) \/ GotVersion(c) \/ CloseFd(c)

Next ==
    \/ MainStep \/ CaStep \/ KillTeecd \/ Restart
    \/ \E a \in Agents : TeeRequest(a) \/ WorkLoop(a)
    \/ \E c \in Clients : ClientStep(c)
    \/ \E p \in Procs : Kill(p)

Spec == Init /\ [][Next]_vars

\* The daemon's threads go on, and clients that wait for it; a client may stop
\* anywhere else, also between connecting and sending its request.
FairSpec ==
    /\ Spec
    /\ WF_vars(MainStep) /\ WF_vars(CaStep)
    /\ \A a \in Agents : WF_vars(WorkLoop(a))
    /\ \A c \in Clients : WF_vars(WaitStep(c))

-----------------------------------------------------------------------------
(* Properties *)

\* Every variable holds a value of its C type.
TypeOK ==
    /\ mpc \in {"init", "agents", "undo", "startCa", "signal", "threads", "join", "over"}
    /\ index \in 1 .. NAgents + 1
    /\ withCa \in BOOLEAN /\ compat \in BOOLEAN /\ sigIgn \in BOOLEAN
    /\ reg \subseteq Agents /\ treq \subseteq reg
    /\ tpc \in [Agents -> {"off", "wait", "end"}]
    /\ wpc \in {"off", "socket", "accept", "recv", "process", "login", "send", "close", "end"}
    /\ conn \in Clients \cup {Nil} /\ dfd \in Files \cup {Nil}
    /\ caInfo \in {"none", "version", "fd"}
    /\ refs \in [Files -> Nat] /\ login \in [Files -> Procs \cup {Nil}]
    /\ first \in [Procs -> BOOLEAN] /\ verOk \in [Procs -> BOOLEAN]
    /\ cpc \in [Clients -> {"idle", "check", "connect", "send", "recv", "gotVersion", "dead"}]
    /\ cmd \in [Clients -> {"none", "version", "fd"}]
    /\ tries \in [Clients -> 0 .. SleepCount - 1]
    /\ hold \in [Clients -> Files \cup {Nil}]
    /\ backlog \in Seq(Clients)
    /\ sock \in [Clients -> {"none", "queued", "accepted", "shut"}]
    /\ msg \in [Clients -> {"none", "version", "fd"}]
    /\ answer \in [Clients -> Files \cup {0, Nil}]

\* The types hold; every reference to a file of the driver is one that the
\* daemon, a message on its way or a client accounts for, whoever fails or dies
\* in the middle of a request, and the daemon has none between requests; and
\* a daemon that has ended has left no agent registered.
ResourcesAccounted ==
    /\ TypeOK
    /\ \A f \in Files :
          refs[f] = (IF dfd = f THEN 1 ELSE 0)
                    + Cardinality({c \in Clients : answer[c] = f})
                    + Cardinality({c \in Clients : hold[c] = f})
    /\ wpc \in {"accept", "recv"} => dfd = Nil
    /\ mpc = "over" => reg = {}

\* A client has a descriptor only if the driver knows it by its own
\* certificate, and if the daemon's version suits the client's library: whoever
\* else is served before or after it, and however often the daemon is restarted.
DescriptorEarned ==
    \A c \in Clients : hold[c] # Nil => login[hold[c]] = Proc(c) /\ compat

\* Nobody waits for ever: not a client for the daemon, whatever other clients
\* do or leave undone, and not the TEE for an agent that is registered, as
\* long as the agent's thread has not ended.
NobodyWaits ==
    /\ \A c \in Clients :
          cpc[c] \in {"connect", "recv"} ~> cpc[c] \notin {"connect", "recv"}
    /\ \A a \in Agents : a \in treq ~> a \notin treq \/ tpc[a] = "end"
=============================================================================
