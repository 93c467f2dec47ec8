---------------------------- MODULE TeecdProofs ----------------------------
(***************************************************************************)
(* Proofs about Teecd, for any number of processes, client threads, agents *)
(* and files of the driver.                                                *)
(***************************************************************************)
EXTENDS Teecd, FiniteSetTheorems, TLAPS

-----------------------------------------------------------------------------
(* The inductive invariant. *)

\* The agents that are registered while the main thread is in its loops, and
\* when the thread that serves clients can be there.
Main ==
    /\ mpc \in {"init", "over"} => reg = {}
    /\ mpc = "agents" => index \in Agents
    /\ mpc \in {"agents", "undo"} => reg \subseteq {a \in Agents : a < index}
    /\ mpc \in {"init", "agents", "undo", "startCa", "over"} => wpc \in {"off", "end"}

\* What the daemon has for the request it serves.
Daemon ==
    /\ dfd # Nil => wpc \in {"login", "send"} /\ caInfo = "fd"
    /\ wpc \in {"recv", "process", "login", "send", "close"} => conn \in Clients
    /\ wpc \in {"process", "login", "send"} => caInfo \in {"version", "fd"}
    /\ wpc = "login" => dfd \in Files
    /\ wpc = "send" /\ caInfo = "fd" => dfd \in Files /\ login[dfd] = Proc(conn)

\* The connection that is served, if its client still has it, is one on which
\* the client waits for the answer to that very request.
Served ==
    wpc \in {"recv", "process", "login", "send"} /\ sock[conn] = "accepted" =>
       /\ answer[conn] = Nil
       /\ wpc # "recv" => cpc[conn] = "recv" /\ cmd[conn] = caInfo

\* A client is in the backlog at most once, with the connection it waits on.
Queue ==
    /\ \A i \in 1 .. Len(backlog) : \/ sock[backlog[i]] = "queued"
                                    \/ cpc[backlog[i]] = "dead"
    /\ \A i, j \in 1 .. Len(backlog) : backlog[i] = backlog[j] => i = j

\* What is in a client's socket belongs to its request, and a descriptor on
\* its way is one that has the login of the client's process.
InSockets ==
    \A c \in Clients :
       /\ sock[c] # "none" => cpc[c] \in {"send", "recv"}
       /\ msg[c] # "none" => cpc[c] = "recv" /\ msg[c] = cmd[c]
       /\ answer[c] # Nil => cpc[c] = "recv" /\ sock[c] \in {"accepted", "shut"}
       /\ answer[c] = 0 => cmd[c] = "version"
       /\ answer[c] \in Files => cmd[c] = "fd" /\ login[answer[c]] = Proc(c)

\* Only a process that has found the version good asks for a descriptor, and
\* only a client that waits for nothing has one.
Earned ==
    /\ \A p \in Procs : verOk[p] => compat
    /\ \A c \in Clients :
          /\ cpc[c] \in {"connect", "send", "recv"} => cmd[c] # "none"
          /\ cmd[c] = "fd" => compat
          /\ hold[c] # Nil => /\ cpc[c] = "idle" /\ compat
                              /\ login[hold[c]] = Proc(c)

\* The references to a file of the driver are the daemon's, and those of the
\* clients that have a descriptor or will receive one; the daemon shares its
\* file with nobody.
Answers(f) == {c \in Clients : answer[c] = f}
Holders(f) == {c \in Clients : hold[c] = f}

Accounted ==
    \A f \in Files :
       /\ refs[f] = (IF dfd = f THEN 1 ELSE 0) + Cardinality(Answers(f))
                    + Cardinality(Holders(f))
       /\ dfd = f => Answers(f) = {} /\ Holders(f) = {}

IInv == TypeOK /\ Main /\ Daemon /\ Served /\ Queue /\ InSockets /\ Earned /\ Accounted

\* The backlog keeps its order while no connection in it is taken from it.
LEMMA QueueKept ==
    ASSUME TypeOK, Queue, backlog' = backlog,
           \A c \in Clients : sock[c] = "queued" \/ cpc[c] = "dead" =>
                                sock'[c] = "queued" \/ cpc'[c] = "dead"
    PROVE  Queue'
<1>1. \A i \in 1 .. Len(backlog) : backlog[i] \in Clients
  BY DEF TypeOK
<1>2. \A i \in 1 .. Len(backlog) : \/ sock'[backlog[i]] = "queued"
                                    \/ cpc'[backlog[i]] = "dead"
  BY <1>1 DEF Queue
<1>3. \A i, j \in 1 .. Len(backlog) : backlog[i] = backlog[j] => i = j
  BY DEF Queue
<1> QED BY <1>2, <1>3 DEF Queue

-----------------------------------------------------------------------------
(* Counting. *)

Finite(S) == IsFiniteSet(S) /\ Cardinality(S) \in Nat

\* The sets of clients that are counted are finite.
LEMMA Countable == Finite({}) /\ \A S \in SUBSET Clients : Finite(S)
  BY TeecdAssumption, FS_EmptySet, FS_Subset, FS_CardinalityType DEF TeecdAssumption, Finite

\* Adding an element, taking out some, and a set with nothing in it.
LEMMA OneMore ==
    ASSUME NEW S, Finite(S), NEW x, x \notin S
    PROVE  Cardinality(S \cup {x}) = Cardinality(S) + 1
  BY FS_AddElement DEF Finite

LEMMA OneLess ==
    ASSUME NEW S, Finite(S), NEW x \in S
    PROVE  Cardinality(S \ {x}) = Cardinality(S) - 1
  BY FS_RemoveElement DEF Finite

LEMMA SomeLess ==
    ASSUME NEW S, Finite(S), NEW T, T \subseteq S
    PROVE  Cardinality(S \ T) = Cardinality(S) - Cardinality(T)
<1>1. S \cap T = T
  OBVIOUS
<1> QED BY <1>1, FS_Difference DEF Finite

LEMMA Empty ==
    /\ Cardinality({}) = 0
    /\ \A S : Finite(S) /\ Cardinality(S) = 0 => S = {}
  BY FS_EmptySet DEF Finite

\* Nobody outside a set of clients with no files has references in it.
LEMMA Countables ==
    \A f : Answers(f) \in SUBSET Clients /\ Finite(Answers(f))
           /\ Holders(f) \in SUBSET Clients /\ Finite(Holders(f))
  BY Countable DEF Answers, Holders

LEMMA CountablesNext ==
    (\A f : Answers(f) \in SUBSET Clients /\ Finite(Answers(f))
            /\ Holders(f) \in SUBSET Clients /\ Finite(Holders(f)))'
  BY Countables, PTL

\* A file with no references belongs to nobody.
LEMMA NoReference ==
    ASSUME Accounted, NEW f \in Files
    PROVE  /\ refs[f] \in Nat
           /\ refs[f] = 0 => dfd # f /\ Answers(f) = {} /\ Holders(f) = {}
<1>1. /\ Cardinality(Answers(f)) \in Nat /\ Cardinality(Holders(f)) \in Nat
      /\ refs[f] = (IF dfd = f THEN 1 ELSE 0) + Cardinality(Answers(f))
                    + Cardinality(Holders(f))
  BY Countables DEF Finite, Accounted
<1>2. refs[f] = 0 => Cardinality(Answers(f)) = 0 /\ Cardinality(Holders(f)) = 0 /\ dfd # f
  BY <1>1
<1> QED BY <1>1, <1>2, Countables, Empty

LEMMA NoReferenceNext ==
    (Accounted => \A f \in Files :
        /\ refs[f] \in Nat
        /\ refs[f] = 0 => dfd # f /\ Answers(f) = {} /\ Holders(f) = {})'
<1>1. Accounted => \A f \in Files :
        /\ refs[f] \in Nat
        /\ refs[f] = 0 => dfd # f /\ Answers(f) = {} /\ Holders(f) = {}
  BY NoReference
<1> QED BY <1>1, PTL

-----------------------------------------------------------------------------
(* What steps leave alone. *)

\* Giving up the reference to one file, or to none.
LEMMA DropOne ==
    ASSUME TypeOK, NEW g \in Files \cup {Nil}, Drop(One(g))
    PROVE  /\ refs' \in [Files -> Int] /\ login' \in [Files -> Procs \cup {Nil}]
           /\ \A f \in Files : refs'[f] = IF f = g THEN refs[f] - 1 ELSE refs[f]
  BY DEF TypeOK, Drop, One

\* The types, by whom they are about: the main thread and the agents, the
\* thread that serves clients, and the clients with the driver.
MainTypes ==
    /\ mpc \in {"init", "agents", "undo", "startCa", "signal", "threads", "join", "over"}
    /\ index \in 1 .. NAgents + 1
    /\ withCa \in BOOLEAN /\ compat \in BOOLEAN /\ sigIgn \in BOOLEAN
    /\ reg \subseteq Agents /\ treq \subseteq reg
    /\ tpc \in [Agents -> {"off", "wait", "end"}]

ServerTypes ==
    /\ wpc \in {"off", "socket", "accept", "recv", "process", "login", "send", "close", "end"}
    /\ conn \in Clients \cup {Nil} /\ dfd \in Files \cup {Nil}
    /\ caInfo \in {"none", "version", "fd"}

ClientTypes ==
    /\ refs \in [Files -> Nat] /\ login \in [Files -> Procs \cup {Nil}]
    /\ first \in [Procs -> BOOLEAN] /\ verOk \in [Procs -> BOOLEAN]
    /\ cpc \in [Clients -> {"idle", "check", "connect", "send", "recv", "gotVersion", "dead"}]
    /\ cmd \in [Clients -> {"none", "version", "fd"}]
    /\ tries \in [Clients -> 0 .. SleepCount - 1]
    /\ hold \in [Clients -> Files \cup {Nil}]
    /\ backlog \in Seq(Clients)
    /\ sock \in [Clients -> {"none", "queued", "accepted", "shut"}]
    /\ msg \in [Clients -> {"none", "version", "fd"}]
    /\ answer \in [Clients -> Files \cup {0, Nil}]

LEMMA Types == TypeOK <=> MainTypes /\ ServerTypes /\ ClientTypes
  BY DEF TypeOK, MainTypes, ServerTypes, ClientTypes

LEMMA TypesNext == (TypeOK <=> MainTypes /\ ServerTypes /\ ClientTypes)'
  BY Types, PTL

\* A file that still has a reference keeps its login.
LEMMA DropLogin ==
    ASSUME NEW those, Drop(those), Accounted', TypeOK
    PROVE  /\ \A c \in Clients : answer'[c] \in Files => login'[answer'[c]] = login[answer'[c]]
           /\ \A c \in Clients : hold'[c] \in Files => login'[hold'[c]] = login[hold'[c]]
           /\ dfd' \in Files => login'[dfd'] = login[dfd']
<1>1. \A f \in Files : refs'[f] = 0 => dfd' # f /\ Answers(f)' = {} /\ Holders(f)' = {}
  BY NoReferenceNext
<1>2. \A f \in Files : refs'[f] # 0 => login'[f] = login[f]
  BY DEF Drop
<1>3. ASSUME NEW c \in Clients, answer'[c] \in Files
      PROVE  login'[answer'[c]] = login[answer'[c]]
  <2>1. \A f : f = answer'[c] => c \in Answers(f)'
    BY DEF Answers
  <2> QED BY <1>1, <1>2, <1>3, <2>1
<1>4. ASSUME NEW c \in Clients, hold'[c] \in Files
      PROVE  login'[hold'[c]] = login[hold'[c]]
  <2>1. \A f : f = hold'[c] => c \in Holders(f)'
    BY DEF Holders
  <2> QED BY <1>1, <1>2, <1>4, <2>1
<1>5. dfd' \in Files => login'[dfd'] = login[dfd']
  BY <1>1, <1>2
<1> QED BY <1>3, <1>4, <1>5

\* References that do not move are accounted for as before.
LEMMA AccountsSame ==
    ASSUME Accounted, UNCHANGED <<refs, dfd, answer, hold>>
    PROVE  Accounted'
<1>1. \A f : Answers(f)' = Answers(f) /\ Holders(f)' = Holders(f)
  BY DEF Answers, Holders
<1> QED BY <1>1 DEF Accounted

\* The references are numbers.
LEMMA RefsAreCounts ==
    ASSUME Accounted', refs' \in [Files -> Int]
    PROVE  refs' \in [Files -> Nat]
<1>1. \A f \in Files : refs'[f] \in Nat
  BY NoReferenceNext
<1> QED BY <1>1

\* Steps of the main thread, while no request is served.
LEMMA QuietDaemon ==
    ASSUME IInv, UNCHANGED <<compat, conn, caInfo, dfd, fvars, pvars, cvars, svars>>,
           \/ wpc' = wpc
           \/ wpc \in {"off", "end", "socket"} /\ wpc' \in {"off", "end", "socket", "accept"}
    PROVE  /\ Daemon' /\ Served' /\ Queue' /\ InSockets' /\ Earned' /\ Accounted'
           /\ ServerTypes' /\ ClientTypes'
<1> USE DEF IInv, fvars, pvars, cvars, svars
<1>1. Daemon'
  BY DEF Daemon
<1>2. Served'
  BY DEF Served
<1>3. Queue' /\ InSockets' /\ Earned'
  BY DEF Queue, InSockets, Earned
<1>4. Accounted'
  <2>1. \A f \in Files : Answers(f)' = Answers(f) /\ Holders(f)' = Holders(f)
    BY DEF Answers, Holders
  <2>2. refs' = refs /\ dfd' = dfd
    OBVIOUS
  <2> QED BY <2>1, <2>2 DEF Accounted
<1>5. ServerTypes' /\ ClientTypes'
  BY Types DEF ServerTypes, ClientTypes
<1> QED BY <1>1, <1>2, <1>3, <1>4, <1>5

-----------------------------------------------------------------------------
(* Every step preserves the inductive invariant. *)

\* At the start nobody has anything.
LEMMA InitIInv == TeecdAssumption /\ Init => IInv
<1> SUFFICES ASSUME TeecdAssumption, Init PROVE IInv
  OBVIOUS
<1>1. TypeOK
  <2>1. 1 \in 1 .. NAgents + 1
    BY DEF TeecdAssumption
  <2>2. MainTypes
    BY <2>1 DEF Init, MainTypes
  <2>3. ServerTypes
    BY DEF TeecdAssumption, Init, ServerTypes
  <2>4. ClientTypes
    BY DEF TeecdAssumption, Init, ClientTypes
  <2> QED BY <2>2, <2>3, <2>4, Types
<1>2. Main /\ Daemon /\ Served /\ Earned
  BY DEF TeecdAssumption, Init, Main, Daemon, Served, Earned
<1>3. Queue /\ InSockets
  BY DEF TeecdAssumption, Init, Queue, InSockets
<1>4. Accounted
  <2>1. \A f \in Files : Answers(f) = {} /\ Holders(f) = {}
    BY DEF TeecdAssumption, Init, Answers, Holders
  <2>2. \A f \in Files : dfd # f /\ refs[f] = 0
    BY DEF TeecdAssumption, Init
  <2>3. ASSUME NEW f \in Files
        PROVE  refs[f] = (IF dfd = f THEN 1 ELSE 0) + Cardinality(Answers(f))
                         + Cardinality(Holders(f))
    <3>1. Cardinality(Answers(f)) = 0 /\ Cardinality(Holders(f)) = 0
      BY <2>1, Empty
    <3> QED BY <2>2, <3>1
  <2> QED BY <2>1, <2>3 DEF Accounted
<1> QED BY <1>1, <1>2, <1>3, <1>4 DEF IInv

\* The main thread registers agents, takes them back, starts the threads and
\* joins them.
LEMMA MainIInv ==
    ASSUME TeecdAssumption, IInv, MainStep
    PROVE  IInv'
<1> USE DEF IInv, mvars, avars, wvars
<1>1. CASE TeecdInit
  <2>1. /\ Daemon' /\ Served' /\ Queue' /\ InSockets' /\ Earned' /\ Accounted'
        /\ ServerTypes' /\ ClientTypes'
    BY <1>1, QuietDaemon DEF TeecdInit
  <2>2. MainTypes' /\ Main'
    BY <1>1, Types DEF TeecdInit, MainTypes, Main, TeecdAssumption, Agents
  <2> QED BY <2>1, <2>2, TypesNext
<1>2. CASE AgentInit
  <2>1. /\ Daemon' /\ Served' /\ Queue' /\ InSockets' /\ Earned' /\ Accounted'
        /\ ServerTypes' /\ ClientTypes'
    BY <1>2, QuietDaemon DEF AgentInit
  <2>2. NAgents \in Nat /\ index \in 1 .. NAgents /\ Agents = 1 .. NAgents
    BY <1>2 DEF AgentInit, Main, Agents, TeecdAssumption
  <2>3. MainTypes'
    BY <1>2, <2>2, Types DEF AgentInit, MainTypes
  <2>4. Main'
    BY <1>2, <2>2, Types DEF AgentInit, MainTypes, Main
  <2> QED BY <2>1, <2>3, <2>4, TypesNext
<1>3. CASE UndoAgentInit
  <2>1. /\ Daemon' /\ Served' /\ Queue' /\ InSockets' /\ Earned' /\ Accounted'
        /\ ServerTypes' /\ ClientTypes'
    BY <1>3, QuietDaemon DEF UndoAgentInit
  <2>2. MainTypes' /\ Main'
    BY <1>3, Types DEF UndoAgentInit, MainTypes, Main
  <2> QED BY <2>1, <2>2, TypesNext
<1>4. CASE StartCaServer
  <2>1. /\ Daemon' /\ Served' /\ Queue' /\ InSockets' /\ Earned' /\ Accounted'
        /\ ServerTypes' /\ ClientTypes'
    BY <1>4, QuietDaemon DEF StartCaServer, Main
  <2>2. MainTypes' /\ Main'
    BY <1>4, Types DEF StartCaServer, MainTypes, Main
  <2> QED BY <2>1, <2>2, TypesNext
<1>5. CASE IgnoreSigpipe
  <2>1. /\ Daemon' /\ Served' /\ Queue' /\ InSockets' /\ Earned' /\ Accounted'
        /\ ServerTypes' /\ ClientTypes'
    BY <1>5, QuietDaemon DEF IgnoreSigpipe
  <2>2. MainTypes' /\ Main'
    BY <1>5, Types DEF IgnoreSigpipe, MainTypes, Main
  <2> QED BY <2>1, <2>2, TypesNext
<1>6. CASE ProcessAgentThreadCreate
  <2>1. /\ Daemon' /\ Served' /\ Queue' /\ InSockets' /\ Earned' /\ Accounted'
        /\ ServerTypes' /\ ClientTypes'
    BY <1>6, QuietDaemon DEF ProcessAgentThreadCreate
  <2>2. MainTypes' /\ Main'
    BY <1>6, Types DEF ProcessAgentThreadCreate, MainTypes, Main
  <2> QED BY <2>1, <2>2, TypesNext
<1>7. CASE JoinAndExit
  <2>1. /\ Daemon' /\ Served' /\ Queue' /\ InSockets' /\ Earned' /\ Accounted'
        /\ ServerTypes' /\ ClientTypes'
    BY <1>7, QuietDaemon DEF JoinAndExit
  <2>2. MainTypes' /\ Main'
    BY <1>7, Types DEF JoinAndExit, MainTypes, Main
  <2> QED BY <2>1, <2>2, TypesNext
<1> QED BY <1>1, <1>2, <1>3, <1>4, <1>5, <1>6, <1>7 DEF MainStep

\* The agents' threads, and the start of the daemon after its end.
LEMMA AgentIInv ==
    ASSUME TeecdAssumption, IInv, NEW a \in Agents, TeeRequest(a) \/ WorkLoop(a) \/ Restart
    PROVE  IInv'
<1> USE DEF IInv, mvars, avars, wvars
<1>1. CASE TeeRequest(a)
  <2>1. /\ Daemon' /\ Served' /\ Queue' /\ InSockets' /\ Earned' /\ Accounted'
        /\ ServerTypes' /\ ClientTypes'
    BY <1>1, QuietDaemon DEF TeeRequest
  <2>2. MainTypes' /\ Main'
    BY <1>1, Types DEF TeeRequest, MainTypes, Main
  <2> QED BY <2>1, <2>2, TypesNext
<1>2. CASE WorkLoop(a)
  <2>1. /\ Daemon' /\ Served' /\ Queue' /\ InSockets' /\ Earned' /\ Accounted'
        /\ ServerTypes' /\ ClientTypes'
    BY <1>2, QuietDaemon DEF WorkLoop
  <2>2. MainTypes' /\ Main'
    BY <1>2, Types DEF WorkLoop, MainTypes, Main
  <2> QED BY <2>1, <2>2, TypesNext
<1>3. CASE Restart
  <2>1. /\ Daemon' /\ Served' /\ Queue' /\ InSockets' /\ Earned' /\ Accounted'
        /\ ServerTypes' /\ ClientTypes'
    BY <1>3, QuietDaemon DEF Restart, Main
  <2>2. MainTypes' /\ Main'
    <3>1. 1 \in 1 .. NAgents + 1
      BY DEF TeecdAssumption
    <3>2. MainTypes'
      BY <1>3, <3>1, Types DEF Restart, MainTypes
    <3> QED BY <1>3, <3>2 DEF Restart, Main
  <2> QED BY <2>1, <2>2, TypesNext
<1> QED BY <1>1, <1>2, <1>3

\* The daemon closes its file of the driver, if it has one.
LEMMA DaemonDrops ==
    ASSUME TeecdAssumption, IInv, UNCHANGED <<answer, hold>>, Drop(One(dfd)), dfd' = Nil
    PROVE  /\ Accounted'
           /\ refs' \in [Files -> Nat] /\ login' \in [Files -> Procs \cup {Nil}]
           /\ \A c \in Clients : answer[c] \in Files => login'[answer[c]] = login[answer[c]]
           /\ \A c \in Clients : hold[c] # Nil => login'[hold[c]] = login[hold[c]]
<1>1. /\ refs' \in [Files -> Int] /\ login' \in [Files -> Procs \cup {Nil}]
      /\ \A f \in Files : refs'[f] = IF f = dfd THEN refs[f] - 1 ELSE refs[f]
  BY DropOne DEF IInv, TypeOK
<1>2. \A f \in Files : dfd' # f /\ Answers(f)' = Answers(f) /\ Holders(f)' = Holders(f)
  BY DEF Answers, Holders, TeecdAssumption
<1>3. \A f \in Files : Cardinality(Answers(f)) \in Nat /\ Cardinality(Holders(f)) \in Nat
  BY Countables DEF Finite
<1>4. Accounted'
  BY <1>1, <1>2, <1>3 DEF IInv, Accounted
<1>5. \A c \in Clients : /\ answer'[c] = answer[c] /\ hold'[c] = hold[c]
                         /\ hold[c] # Nil => hold[c] \in Files
  BY DEF IInv, TypeOK
<1> QED BY <1>1, <1>4, <1>5, RefsAreCounts, DropLogin DEF IInv

\* The end of the daemon without its doing takes its file with it, and the
\* connections; what clients have received stays theirs.
LEMMA KilledIInv ==
    ASSUME TeecdAssumption, IInv, Killed
    PROVE  IInv'
<1> USE DEF IInv
<1>1. /\ Accounted'
      /\ refs' \in [Files -> Nat] /\ login' \in [Files -> Procs \cup {Nil}]
      /\ \A c \in Clients : answer[c] \in Files => login'[answer[c]] = login[answer[c]]
      /\ \A c \in Clients : hold[c] # Nil => login'[hold[c]] = login[hold[c]]
  BY DaemonDrops DEF Killed, cvars
<1>2. MainTypes'
  <2>1. 1 \in 1 .. NAgents + 1
    BY DEF TeecdAssumption
  <2> QED BY <2>1, Types DEF Killed, MainTypes
<1>3. ServerTypes'
  BY DEF Killed, ServerTypes
<1>4. ClientTypes'
  <2>1. sock' \in [Clients -> {"none", "queued", "accepted", "shut"}] /\ backlog' \in Seq(Clients)
    BY DEF Killed
  <2> QED BY <1>1, <2>1, Types DEF Killed, pvars, cvars, ClientTypes
<1>5. Main' /\ Daemon' /\ Served'
  BY DEF Killed, Main, Daemon, Served
<1>6. Queue'
  BY DEF Killed, Queue
<1>7. InSockets'
  <2>1. \A c \in Clients : /\ sock'[c] = (IF sock[c] = "none" THEN "none" ELSE "shut")
                           /\ msg'[c] = msg[c] /\ answer'[c] = answer[c]
                           /\ cpc'[c] = cpc[c] /\ cmd'[c] = cmd[c]
    BY DEF Killed, cvars
  <2> QED BY <1>1, <2>1 DEF InSockets
<1>8. Earned'
  BY <1>1 DEF Killed, pvars, cvars, Earned
<1> QED BY <1>1, <1>2, <1>3, <1>4, <1>5, <1>6, <1>7, <1>8, TypesNext

\* Steps of the thread that serves clients that take nothing from them and
\* give them nothing.
LEMMA ServerAlone ==
    ASSUME IInv, UNCHANGED <<mvars, avars, dfd, fvars, pvars, cvars, backlog, sock, msg, answer>>,
           wpc \notin {"off", "end"}
    PROVE  /\ MainTypes' /\ ClientTypes'
           /\ Main' /\ Queue' /\ InSockets' /\ Earned' /\ Accounted'
<1> USE DEF IInv, mvars, avars, fvars, pvars, cvars
<1>1. MainTypes' /\ ClientTypes'
  BY Types DEF MainTypes, ClientTypes
<1>2. Main'
  BY DEF Main
<1>3. Queue' /\ InSockets' /\ Earned'
  BY DEF Queue, InSockets, Earned
<1>4. Accounted'
  <2>1. \A f \in Files : Answers(f)' = Answers(f) /\ Holders(f)' = Holders(f)
    BY DEF Answers, Holders
  <2>2. refs' = refs /\ dfd' = dfd
    OBVIOUS
  <2> QED BY <2>1, <2>2 DEF Accounted
<1> QED BY <1>1, <1>2, <1>3, <1>4

\* Creating the socket, receiving a message and the version request leave the
\* clients and the driver alone.
LEMMA ReceiveIInv ==
    ASSUME TeecdAssumption, IInv, CreateSocket \/ RecvCaMsg
    PROVE  IInv'
<1>1. CASE CreateSocket
  <2>1. /\ Daemon' /\ Served' /\ Queue' /\ InSockets' /\ Earned' /\ Accounted'
        /\ ServerTypes' /\ ClientTypes'
    BY <1>1, QuietDaemon DEF CreateSocket, mvars
  <2>2. MainTypes' /\ Main'
    BY <1>1, ServerAlone DEF CreateSocket, svars
  <2> QED BY <2>1, <2>2, TypesNext DEF IInv
<1>2. CASE RecvCaMsg
  <2>1. /\ MainTypes' /\ ClientTypes'
        /\ Main' /\ Queue' /\ InSockets' /\ Earned' /\ Accounted'
    BY <1>2, ServerAlone DEF RecvCaMsg, svars
  <2>2. conn \in Clients /\ dfd = Nil
    BY <1>2 DEF RecvCaMsg, IInv, Daemon
  <2>3. msg[conn] \in {"none", "version", "fd"}
    BY <2>2 DEF IInv, TypeOK
  <2>4. ServerTypes' /\ Daemon'
    BY <1>2, <2>2, <2>3 DEF RecvCaMsg, IInv, TypeOK, ServerTypes, Daemon
  <2>5. Served'
    BY <1>2, <2>2 DEF RecvCaMsg, IInv, InSockets, Served, PeerThere, svars, cvars
  <2> QED BY <2>1, <2>4, <2>5, TypesNext DEF IInv
<1> QED BY <1>1, <1>2

\* The daemon takes the first client of the backlog.
LEMMA AcceptIInv ==
    ASSUME TeecdAssumption, IInv, Accept
    PROVE  IInv'
<1> DEFINE c == Head(backlog)
<1> USE DEF IInv
<1>1. /\ c \in Clients /\ backlog # <<>> /\ backlog' = Tail(backlog) /\ backlog \in Seq(Clients)
      /\ c = backlog[1]
  BY DEF Accept, TypeOK
<1>2. /\ wpc = "accept" /\ wpc' = "recv" /\ conn' = c
      /\ sock' = [sock EXCEPT ![c] = IF @ = "queued" THEN "accepted" ELSE @]
      /\ UNCHANGED <<mvars, avars, caInfo, dfd, fvars, pvars, cvars, msg, answer>>
  BY DEF Accept
<1> HIDE DEF c
<1>3. sock[c] = "queued" \/ (cpc[c] = "dead" /\ sock[c] = "none")
  <2>1. 1 \in 1 .. Len(backlog)
    BY <1>1
  <2>2. sock[c] = "queued" \/ cpc[c] = "dead"
    BY <1>1, <2>1 DEF Queue
  <2> QED BY <1>1, <2>2 DEF InSockets
<1>4. MainTypes' /\ ServerTypes' /\ ClientTypes'
  <2>1. MainTypes'
    BY <1>2, Types DEF MainTypes, mvars, avars
  <2>2. ServerTypes'
    BY <1>1, <1>2, Types DEF ServerTypes
  <2>3. /\ backlog' \in Seq(Clients)
        /\ sock' \in [Clients -> {"none", "queued", "accepted", "shut"}]
    BY <1>1, <1>2, Types DEF ClientTypes
  <2>4. ClientTypes'
    BY <1>2, <2>3, Types DEF ClientTypes, fvars, pvars, cvars
  <2> QED BY <2>1, <2>2, <2>4
<1>5. Main' /\ Daemon'
  <2>1. Main'
    BY <1>2 DEF Main, mvars
  <2>2. Daemon'
    BY <1>1, <1>2 DEF Daemon
  <2> QED BY <2>1, <2>2
<1>6. Served'
  BY <1>1, <1>2, <1>3 DEF Served, InSockets, TypeOK
<1>7. Queue'
  <2>1. /\ Len(backlog') = Len(backlog) - 1 /\ Len(backlog) \in Nat \ {0}
        /\ \A i \in 1 .. Len(backlog') : backlog'[i] = backlog[i + 1]
    BY <1>1
  <2>2. ASSUME NEW i \in 1 .. Len(backlog')
        PROVE  i + 1 \in 1 .. Len(backlog) /\ backlog[i + 1] # c /\ backlog[i + 1] \in Clients
    BY <1>1, <2>1 DEF Queue
  <2>3. ASSUME NEW i \in 1 .. Len(backlog')
        PROVE  sock'[backlog'[i]] = "queued" \/ cpc'[backlog'[i]] = "dead"
    BY <1>1, <1>2, <2>1, <2>2 DEF Queue, TypeOK, cvars
  <2>4. ASSUME NEW i \in 1 .. Len(backlog'), NEW j \in 1 .. Len(backlog'),
               backlog'[i] = backlog'[j]
        PROVE  i = j
    <3>1. backlog[i + 1] = backlog[j + 1]
      BY <2>1, <2>4
    <3>2. i + 1 = j + 1
      BY <2>2, <3>1 DEF Queue
    <3> QED BY <2>1, <3>2
  <2> QED BY <2>3, <2>4 DEF Queue
<1>8. InSockets' /\ Earned'
  BY <1>1, <1>2, <1>3 DEF InSockets, Earned, TypeOK, mvars, fvars, pvars, cvars
<1>9. Accounted'
  <2>1. UNCHANGED <<refs, dfd, answer, hold>>
    BY <1>2 DEF fvars, cvars
  <2> QED BY <2>1, AccountsSame
<1> QED BY <1>4, <1>5, <1>6, <1>7, <1>8, <1>9, TypesNext

\* ProcessCaMsg opens a file of the driver that nobody has.
LEMMA ProcessIInv ==
    ASSUME TeecdAssumption, IInv, ProcessCaMsg
    PROVE  IInv'
<1> USE DEF IInv
<1>1. /\ wpc = "process" /\ dfd = Nil /\ conn \in Clients
      /\ UNCHANGED <<mvars, avars, conn, caInfo, login, pvars, cvars, svars>>
  BY DEF ProcessCaMsg, Daemon
<1>2. Main' /\ Queue' /\ InSockets' /\ Earned'
  <2>1. Main'
    BY <1>1 DEF Main, mvars
  <2>2. Queue' /\ InSockets'
    BY <1>1 DEF Queue, InSockets, svars, cvars
  <2>3. Earned'
    BY <1>1 DEF Earned, mvars, pvars, cvars
  <2> QED BY <2>1, <2>2, <2>3
<1>3. Served'
  BY <1>1 DEF Served, svars, cvars, ProcessCaMsg
<1>4. MainTypes'
  BY <1>1, Types DEF MainTypes, mvars, avars
<1>5. CASE wpc' \in {"send", "close"} /\ UNCHANGED <<dfd, refs>>
           /\ (wpc' = "send" => caInfo = "version")
  <2>1. Daemon'
    BY <1>1, <1>5 DEF Daemon
  <2>2. Accounted'
    BY <1>1, <1>5, AccountsSame DEF svars, cvars
  <2>3. ServerTypes' /\ ClientTypes'
    BY <1>1, <1>5, Types DEF ServerTypes, ClientTypes, pvars, cvars, svars
  <2> QED BY <1>2, <1>3, <1>4, <2>1, <2>2, <2>3, TypesNext
<1>6. CASE /\ caInfo = "fd" /\ wpc' = "login"
           /\ \E f \in Files : /\ refs[f] = 0 /\ dfd' = f
                               /\ refs' = [refs EXCEPT ![f] = 1]
  <2>1. PICK f \in Files : refs[f] = 0 /\ dfd' = f /\ refs' = [refs EXCEPT ![f] = 1]
    BY <1>6
  <2>2. Daemon'
    BY <1>1, <1>6, <2>1 DEF Daemon
  <2>3. Answers(f) = {} /\ Holders(f) = {}
    BY <2>1, NoReference
  <2>4. \A g : Answers(g)' = Answers(g) /\ Holders(g)' = Holders(g)
    BY <1>1 DEF Answers, Holders, svars, cvars
  <2>5. Accounted'
    <3>1. ASSUME NEW g \in Files
          PROVE  refs'[g] = (IF dfd' = g THEN 1 ELSE 0) + Cardinality(Answers(g))
                            + Cardinality(Holders(g))
      <4>1. CASE g = f
        <5>1. refs'[g] = 1 /\ dfd' = g
          BY <2>1, <4>1 DEF TypeOK
        <5> QED BY <5>1, <2>3, <4>1, Empty
      <4>2. CASE g # f
        <5>1. refs'[g] = refs[g] /\ dfd' # g /\ dfd # g
          BY <1>1, <2>1, <4>2 DEF TypeOK, TeecdAssumption
        <5> QED BY <5>1 DEF Accounted
      <4> QED BY <4>1, <4>2
    <3> QED BY <2>1, <2>3, <2>4, <3>1 DEF Accounted
  <2>6. ServerTypes'
    BY <1>1, <1>6, <2>1, Types DEF ServerTypes
  <2>7. ClientTypes'
    <3>1. refs' \in [Files -> Nat]
      BY <2>1 DEF TypeOK
    <3> QED BY <1>1, <3>1, Types DEF ClientTypes, pvars, cvars, svars
  <2> QED BY <1>2, <1>3, <1>4, <2>2, <2>5, <2>6, <2>7, TypesNext
<1> QED BY <1>5, <1>6 DEF ProcessCaMsg

\* The driver learns the process of the client that is served, or the file is
\* closed.
LEMMA LoginIInv ==
    ASSUME TeecdAssumption, IInv, SendLoginInfo
    PROVE  IInv'
<1> USE DEF IInv
<1>1. /\ wpc = "login" /\ conn \in Clients /\ caInfo = "fd" /\ dfd \in Files
      /\ dfd # Nil
      /\ UNCHANGED <<mvars, avars, conn, caInfo, pvars, cvars, svars>>
  BY DEF SendLoginInfo, Daemon, TeecdAssumption
<1>2. Main' /\ Queue' /\ MainTypes'
  <2>1. Main'
    BY <1>1 DEF Main, mvars, SendLoginInfo
  <2>2. Queue'
    BY <1>1 DEF Queue, svars, cvars
  <2> QED BY <2>1, <2>2, <1>1, Types DEF MainTypes, mvars, avars
<1>3. Served'
  BY <1>1 DEF Served, svars, cvars, SendLoginInfo
<1>4. CASE /\ login' = [login EXCEPT ![dfd] = Proc(conn)]
           /\ wpc' = "send" /\ UNCHANGED <<dfd, refs>>
  <2>1. \A c \in Clients : answer[c] # dfd /\ hold[c] # dfd
    BY <1>1 DEF Accounted, Answers, Holders
  <2>2. /\ login'[dfd] = Proc(conn)
        /\ \A f \in Files : f # dfd => login'[f] = login[f]
    BY <1>1, <1>4 DEF TypeOK
  <2>3. Daemon'
    BY <1>1, <1>4, <2>2 DEF Daemon
  <2>4. InSockets'
    BY <1>1, <2>1, <2>2 DEF InSockets, svars, cvars
  <2>5. Earned'
    <3>1. \A c \in Clients : hold[c] # Nil => hold[c] \in Files /\ login'[hold[c]] = login[hold[c]]
      BY <2>1, <2>2 DEF TypeOK
    <3> QED BY <1>1, <3>1 DEF Earned, mvars, pvars, cvars
  <2>6. Accounted'
    BY <1>1, <1>4, AccountsSame DEF svars, cvars
  <2>7. ServerTypes' /\ ClientTypes'
    <3>1. Proc(conn) \in Procs
      BY <1>1 DEF TeecdAssumption, Proc
    <3>2. login' \in [Files -> Procs \cup {Nil}]
      BY <1>4, <3>1 DEF TypeOK
    <3> QED BY <1>1, <1>4, <3>2, Types DEF ServerTypes, ClientTypes, pvars, cvars, svars
  <2> QED BY <1>2, <1>3, <2>3, <2>4, <2>5, <2>6, <2>7, TypesNext
<1>5. CASE Drop(One(dfd)) /\ wpc' = "close" /\ dfd' = Nil
  <2>1. /\ Accounted'
        /\ refs' \in [Files -> Nat] /\ login' \in [Files -> Procs \cup {Nil}]
        /\ \A c \in Clients : answer[c] \in Files => login'[answer[c]] = login[answer[c]]
        /\ \A c \in Clients : hold[c] # Nil => login'[hold[c]] = login[hold[c]]
    BY <1>1, <1>5, DaemonDrops DEF svars, cvars
  <2>2. Daemon' /\ ServerTypes'
    BY <1>1, <1>5, Types DEF Daemon, ServerTypes
  <2>3. InSockets' /\ Earned'
    BY <1>1, <2>1 DEF InSockets, Earned, mvars, pvars, svars, cvars
  <2>4. ClientTypes'
    BY <1>1, <2>1, Types DEF ClientTypes, pvars, cvars, svars
  <2> QED BY <1>2, <1>3, <2>1, <2>2, <2>3, <2>4, TypesNext
<1> QED BY <1>4, <1>5 DEF SendLoginInfo

\* The end of a request closes the connection, for whoever is there.
LEMMA CloseSocketIInv ==
    ASSUME TeecdAssumption, IInv, CloseSocket
    PROVE  IInv'
<1> USE DEF IInv
<1>1. /\ wpc = "close" /\ wpc' = "accept" /\ dfd = Nil /\ conn \in Clients
      /\ conn' = Nil /\ caInfo' = "none"
      /\ sock' = [sock EXCEPT ![conn] = IF @ = "accepted" THEN "shut" ELSE @]
      /\ UNCHANGED <<mvars, avars, dfd, fvars, pvars, cvars, backlog, msg, answer>>
  BY DEF CloseSocket, Daemon, PeerThere
<1>2. Main' /\ Daemon' /\ Served'
  <2>1. Main'
    BY <1>1 DEF Main, mvars
  <2>2. Daemon' /\ Served'
    BY <1>1 DEF Daemon, Served
  <2> QED BY <2>1, <2>2
<1>3. \A c \in Clients : /\ sock'[c] = sock[c] \/ (sock[c] = "accepted" /\ sock'[c] = "shut")
                         /\ cpc'[c] = cpc[c] /\ cmd'[c] = cmd[c] /\ answer'[c] = answer[c]
  BY <1>1 DEF TypeOK, cvars
<1>4. Queue'
  BY <1>1, <1>3, QueueKept
<1>5. InSockets'
  BY <1>1, <1>3 DEF InSockets, fvars
<1>6. Earned'
  BY <1>1 DEF Earned, mvars, fvars, pvars, cvars
<1>7. Accounted'
  BY <1>1, AccountsSame DEF fvars, cvars
<1>8. MainTypes' /\ ServerTypes'
  BY <1>1, Types DEF MainTypes, ServerTypes, mvars, avars
<1>9. ClientTypes'
  <2>1. sock' \in [Clients -> {"none", "queued", "accepted", "shut"}]
    BY <1>1 DEF TypeOK
  <2> QED BY <1>1, <2>1, Types DEF ClientTypes, fvars, pvars, cvars
<1> QED BY <1>2, <1>4, <1>5, <1>6, <1>7, <1>8, <1>9, TypesNext

\* The client that waits gets the version, or the daemon's descriptor; if it is
\* gone, the daemon closes what it has, or is gone itself.
LEMMA SendIInv ==
    ASSUME TeecdAssumption, IInv, SendFileDescriptor
    PROVE  IInv'
<1> USE DEF IInv
<1>1. /\ wpc = "send" /\ conn \in Clients /\ caInfo \in {"version", "fd"}
      /\ caInfo = "fd" => dfd \in Files /\ login[dfd] = Proc(conn)
      /\ caInfo = "version" => dfd = Nil
      /\ UNCHANGED <<pvars, cvars>>
  BY DEF SendFileDescriptor, Daemon
<1>2. ASSUME PeerThere,
             answer' = [answer EXCEPT ![conn] = IF caInfo = "fd" THEN dfd ELSE 0],
             wpc' = "close", dfd' = Nil,
             UNCHANGED <<mvars, avars, conn, caInfo, fvars, backlog, sock, msg>>
      PROVE  IInv'
  <2> DEFINE v == IF caInfo = "fd" THEN dfd ELSE 0
  <2>1. /\ sock[conn] = "accepted" /\ answer[conn] = Nil /\ cpc[conn] = "recv"
        /\ cmd[conn] = caInfo
    BY <1>1, <1>2 DEF Served, PeerThere
  <2>2. /\ v # Nil /\ v \in Files \cup {0} /\ 0 \notin Files
        /\ v = 0 => caInfo = "version"
        /\ v \in Files => caInfo = "fd" /\ v = dfd /\ login[v] = Proc(conn)
    BY <1>1 DEF TeecdAssumption, Files
  <2>3. /\ answer'[conn] = v
        /\ \A c \in Clients : c # conn => answer'[c] = answer[c]
    BY <1>1, <1>2 DEF TypeOK
  <2>4. answer' \in [Clients -> Files \cup {0, Nil}]
    BY <1>1, <1>2, <2>2 DEF TypeOK
  <2> HIDE DEF v
  <2>5. Main' /\ Daemon' /\ Served'
    <3>1. Main'
      BY <1>1, <1>2 DEF Main, mvars
    <3>2. Daemon' /\ Served'
      BY <1>1, <1>2 DEF Daemon, Served
    <3> QED BY <3>1, <3>2
  <2>6. Queue'
    BY <1>1, <1>2 DEF Queue, cvars
  <2>7. InSockets'
    BY <1>1, <1>2, <2>1, <2>2, <2>3 DEF InSockets, cvars, fvars
  <2>8. Earned'
    BY <1>1, <1>2 DEF Earned, mvars, pvars, cvars, fvars
  <2>9. Accounted'
    <3>1. ASSUME NEW f \in Files
          PROVE  /\ dfd' # f
                 /\ Holders(f)' = Holders(f)
                 /\ refs'[f] = Cardinality(Answers(f)') + Cardinality(Holders(f))
      <4>1. dfd' # f /\ Holders(f)' = Holders(f) /\ refs'[f] = refs[f] /\ f # Nil
        BY <1>1, <1>2 DEF Holders, cvars, fvars, TeecdAssumption
      <4>2. CASE dfd = f
        <5>1. v = f /\ Answers(f) = {} /\ Holders(f) = {}
          BY <1>1, <4>1, <4>2 DEF v, Accounted
        <5>2. Answers(f)' = {} \cup {conn}
          BY <1>1, <2>3, <5>1 DEF Answers
        <5>3. Cardinality(Answers(f)') = 0 + 1
          BY <5>2, OneMore, Countable, Empty
        <5>4. refs[f] = 1 + 0 + 0
          BY <4>2, <5>1, Empty DEF Accounted
        <5> QED BY <4>1, <5>1, <5>3, <5>4, Empty
      <4>3. CASE dfd # f
        <5>1. v # f
          BY <1>1, <2>2, <4>3
        <5>2. Answers(f)' = Answers(f)
          BY <1>1, <2>1, <2>3, <4>1, <5>1 DEF Answers
        <5>3. Cardinality(Answers(f)) \in Nat /\ Cardinality(Holders(f)) \in Nat
          BY Countables DEF Finite
        <5>4. refs[f] = Cardinality(Answers(f)) + Cardinality(Holders(f))
          BY <4>3, <5>3 DEF Accounted
        <5> QED BY <4>1, <5>2, <5>4
      <4> QED BY <4>2, <4>3
    <3>2. \A f \in Files : Cardinality(Answers(f)') \in Nat /\ Cardinality(Holders(f)') \in Nat
      BY CountablesNext DEF Finite
    <3>3. ASSUME NEW f \in Files
          PROVE  /\ refs'[f] = (IF dfd' = f THEN 1 ELSE 0) + Cardinality(Answers(f)')
                               + Cardinality(Holders(f)')
                 /\ dfd' # f
      BY <3>1, <3>2
    <3> QED BY <3>3 DEF Accounted
  <2>10. MainTypes' /\ ServerTypes' /\ ClientTypes'
    BY <1>1, <1>2, <2>4, Types DEF MainTypes, ServerTypes, ClientTypes, mvars, avars, fvars,
       pvars, cvars
  <2> QED BY <2>5, <2>6, <2>7, <2>8, <2>9, <2>10, TypesNext
<1>3. ASSUME Drop(One(dfd)), wpc' = "close", dfd' = Nil,
             UNCHANGED <<mvars, avars, conn, caInfo, svars>>
      PROVE  IInv'
  <2>1. /\ Accounted'
        /\ refs' \in [Files -> Nat] /\ login' \in [Files -> Procs \cup {Nil}]
        /\ \A c \in Clients : answer[c] \in Files => login'[answer[c]] = login[answer[c]]
        /\ \A c \in Clients : hold[c] # Nil => login'[hold[c]] = login[hold[c]]
    BY <1>1, <1>3, DaemonDrops DEF svars, cvars
  <2>2. Main' /\ Daemon' /\ Served'
    <3>1. Main'
      BY <1>1, <1>3 DEF Main, mvars
    <3>2. Daemon' /\ Served'
      BY <1>1, <1>3 DEF Daemon, Served
    <3> QED BY <3>1, <3>2
  <2>3. Queue'
    BY <1>1, <1>3 DEF Queue, svars, cvars
  <2>4. InSockets' /\ Earned'
    BY <1>1, <1>3, <2>1 DEF InSockets, Earned, mvars, pvars, svars, cvars
  <2>5. MainTypes' /\ ServerTypes' /\ ClientTypes'
    BY <1>1, <1>3, <2>1, Types DEF MainTypes, ServerTypes, ClientTypes, mvars, avars,
       pvars, cvars, svars
  <2> QED BY <2>1, <2>2, <2>3, <2>4, <2>5, TypesNext
<1>4. ASSUME PeerThere \/ ~PeerThere, Killed
      PROVE  IInv'
  BY <1>4, KilledIInv
<1> QED BY <1>2, <1>3, <1>4 DEF SendFileDescriptor

\* A client that waits for nothing goes on, with a request it may make.
LEMMA ClientMoves ==
    ASSUME TeecdAssumption, IInv, NEW c \in Clients, NEW loc, NEW what,
           UNCHANGED <<mvars, avars, wvars, fvars, verOk, tries, hold, svars>>,
           first' \in [Procs -> BOOLEAN],
           cpc[c] \in {"idle", "check", "gotVersion"}, hold[c] = Nil,
           cpc' = [cpc EXCEPT ![c] = loc], loc \in {"idle", "check", "connect"},
           cmd' = [cmd EXCEPT ![c] = what], what \in {"none", "version", "fd"},
           loc = "connect" => what # "none",
           what = "fd" => compat
    PROVE  IInv'
<1> USE DEF IInv
<1>1. /\ cpc'[c] = loc /\ cmd'[c] = what
      /\ \A d \in Clients : d # c => cpc'[d] = cpc[d] /\ cmd'[d] = cmd[d]
  BY DEF TypeOK
<1>2. sock[c] = "none" /\ msg[c] = "none" /\ answer[c] = Nil
  BY DEF InSockets
<1>3. Main' /\ Daemon'
  <2>1. Main'
    BY DEF Main, mvars, wvars
  <2>2. Daemon'
    BY DEF Daemon, wvars, fvars
  <2> QED BY <2>1, <2>2
<1>4. Served'
  <2>1. conn = c => sock[conn] # "accepted"
    BY <1>2
  <2>2. wpc \in {"recv", "process", "login", "send"} => conn \in Clients
    BY DEF Daemon
  <2> QED BY <1>1, <2>1, <2>2 DEF Served, wvars, svars
<1>5. Queue'
  <2>1. backlog \in Seq(Clients)
    BY DEF TypeOK
  <2>2. \A i \in 1 .. Len(backlog) : backlog[i] \in Clients
    BY <2>1
  <2>3. \A d \in Clients : cpc[d] = "dead" => cpc'[d] = "dead"
    BY <1>1
  <2> QED BY <2>2, <2>3 DEF Queue, svars
<1>6. InSockets'
  BY <1>1, <1>2 DEF InSockets, svars, fvars, TeecdAssumption
<1>7. Earned'
  BY <1>1 DEF Earned, mvars, fvars
<1>8. Accounted'
  BY AccountsSame DEF wvars, fvars, svars
<1>9. MainTypes' /\ ServerTypes'
  BY Types DEF MainTypes, ServerTypes, mvars, avars, wvars
<1>10. ClientTypes'
  <2>1. /\ cpc' \in [Clients -> {"idle", "check", "connect", "send", "recv", "gotVersion", "dead"}]
        /\ cmd' \in [Clients -> {"none", "version", "fd"}]
    BY DEF TypeOK
  <2> QED BY <2>1, Types DEF ClientTypes, fvars, svars
<1> QED BY <1>3, <1>4, <1>5, <1>6, <1>7, <1>8, <1>9, <1>10, TypesNext

\* A client begins, looks at the result of the version check, or has got the
\* version.
LEMMA ClientMovesIInv ==
    ASSUME TeecdAssumption, IInv, NEW c \in Clients, Begin(c) \/ CheckResult(c) \/ GotVersion(c)
    PROVE  IInv'
<1> USE DEF IInv
<1>1. /\ Proc(c) \in Procs
      /\ cmd \in [Clients -> {"none", "version", "fd"}] /\ first \in [Procs -> BOOLEAN]
      /\ hold[c] # Nil => cpc[c] = "idle"
      /\ cmd[c] = "fd" => compat
      /\ cmd[c] \in {"none", "version", "fd"}
  BY DEF TypeOK, Earned, Proc, TeecdAssumption
<1>2. cmd = [cmd EXCEPT ![c] = cmd[c]]
  BY <1>1
<1>3. CASE Begin(c)
  <2>1. /\ cpc[c] = "idle" /\ hold[c] = Nil
        /\ UNCHANGED <<mvars, avars, wvars, fvars, verOk, tries, hold, svars>>
        /\ first' \in [Procs -> BOOLEAN]
    BY <1>1, <1>3 DEF Begin, pvars
  <2>2. \E loc, what : /\ cpc' = [cpc EXCEPT ![c] = loc]
                       /\ cmd' = [cmd EXCEPT ![c] = what]
                       /\ (loc = "connect" /\ what = "version") \/ (loc = "check" /\ what = cmd[c])
    BY <1>2, <1>3 DEF Begin, CGoto
  <2> QED BY <1>1, <2>1, <2>2, ClientMoves
<1>4. CASE CheckResult(c)
  <2>1. /\ cpc[c] = "check" /\ hold[c] = Nil
        /\ UNCHANGED <<mvars, avars, wvars, fvars, verOk, tries, hold, svars>>
        /\ first' \in [Procs -> BOOLEAN]
    BY <1>1, <1>4 DEF CheckResult, pvars
  <2>2. verOk[Proc(c)] => compat
    BY <1>1 DEF Earned
  <2>3. \E loc, what : /\ cpc' = [cpc EXCEPT ![c] = loc]
                       /\ cmd' = [cmd EXCEPT ![c] = what]
                       /\ \/ loc = "connect" /\ what = "fd" /\ compat
                          \/ loc = "idle" /\ what = cmd[c]
    BY <1>2, <1>4, <2>2 DEF CheckResult, CGoto
  <2> QED BY <1>1, <2>1, <2>3, ClientMoves
<1>5. CASE GotVersion(c)
  <2>1. /\ cpc[c] = "gotVersion" /\ hold[c] = Nil
        /\ UNCHANGED <<mvars, avars, wvars, fvars, verOk, tries, hold, svars>>
        /\ first' \in [Procs -> BOOLEAN]
        /\ cpc' = [cpc EXCEPT ![c] = "check"] /\ cmd' = cmd
    BY <1>1, <1>5 DEF GotVersion, CGoto
  <2> QED BY <1>1, <1>2, <2>1, ClientMoves
<1> QED BY <1>3, <1>4, <1>5

\* A client connects, or finds no daemon.
LEMMA ConnectIInv ==
    ASSUME TeecdAssumption, IInv, NEW c \in Clients, Connect(c)
    PROVE  IInv'
<1> USE DEF IInv
<1>1. /\ cpc[c] = "connect" /\ hold[c] = Nil /\ cmd[c] # "none"
      /\ sock[c] = "none" /\ msg[c] = "none" /\ answer[c] = Nil
      /\ UNCHANGED <<mvars, avars, wvars, fvars, pvars, cmd, hold, msg, answer>>
  BY DEF Connect, InSockets, Earned
<1>2. \A d \in Clients : d # c => cpc'[d] = cpc[d]
  BY DEF Connect, CGoto, TypeOK
<1>3. \/ backlog' = Append(backlog, c) /\ sock' = [sock EXCEPT ![c] = "queued"] /\ cpc'[c] = "send"
      \/ UNCHANGED <<backlog, sock>> /\ cpc'[c] \in {"idle", "connect"}
  BY DEF Connect, CGoto, TypeOK
<1>4. backlog \in Seq(Clients) /\ \A i \in 1 .. Len(backlog) : backlog[i] \in Clients \ {c}
  <2>1. backlog \in Seq(Clients)
    BY DEF TypeOK
  <2>2. \A i \in 1 .. Len(backlog) : backlog[i] \in Clients
    BY <2>1
  <2> QED BY <1>1, <2>1, <2>2 DEF Queue
<1>5. /\ sock'[c] \in {"none", "queued"} /\ (sock'[c] # "none" => cpc'[c] = "send")
      /\ \A d \in Clients : d # c => sock'[d] = sock[d]
  BY <1>1, <1>3 DEF TypeOK
<1>6. Main' /\ Daemon'
  <2>1. Main'
    BY <1>1 DEF Main, mvars, wvars
  <2>2. Daemon'
    BY <1>1 DEF Daemon, wvars, fvars
  <2> QED BY <2>1, <2>2
<1>7. Served'
  <2>1. wpc \in {"recv", "process", "login", "send"} => conn \in Clients
    BY DEF Daemon
  <2> QED BY <1>1, <1>2, <1>5, <2>1 DEF Served, wvars
<1>8. Queue'
  <2>1. CASE backlog' = Append(backlog, c) /\ sock'[c] = "queued"
    <3>1. /\ Len(backlog) \in Nat /\ Len(backlog') = Len(backlog) + 1
          /\ backlog'[Len(backlog) + 1] = c
          /\ \A i \in 1 .. Len(backlog) : backlog'[i] = backlog[i]
      BY <1>4, <2>1
    <3>2. \A i \in 1 .. Len(backlog') : i \in 1 .. Len(backlog) \/ i = Len(backlog) + 1
      BY <3>1
    <3>3. \A i \in 1 .. Len(backlog) : \/ sock'[backlog'[i]] = "queued"
                                       \/ cpc'[backlog'[i]] = "dead"
      BY <1>2, <1>4, <1>5, <3>1 DEF Queue
    <3>4. ASSUME NEW i \in 1 .. Len(backlog'), NEW j \in 1 .. Len(backlog'),
                 backlog'[i] = backlog'[j]
          PROVE  i = j
      BY <1>4, <3>1, <3>2, <3>4 DEF Queue
    <3> QED BY <2>1, <3>1, <3>2, <3>3, <3>4 DEF Queue
  <2>2. CASE UNCHANGED <<backlog, sock>>
    BY <1>2, <1>4, <2>2 DEF Queue
  <2> QED BY <1>3, <2>1, <2>2 DEF TypeOK
<1>9. InSockets'
  BY <1>1, <1>2, <1>5 DEF InSockets, fvars, TeecdAssumption
<1>10. Earned'
  BY <1>1, <1>2, <1>3 DEF Earned, mvars, fvars, pvars
<1>11. Accounted'
  BY <1>1, AccountsSame DEF wvars, fvars
<1>12. MainTypes' /\ ServerTypes'
  BY <1>1, Types DEF MainTypes, ServerTypes, mvars, avars, wvars
<1>13. ClientTypes'
  <2>1. cpc' \in [Clients -> {"idle", "check", "connect", "send", "recv", "gotVersion", "dead"}]
    <3>1. \E loc \in {"send", "idle", "connect"} : cpc' = [cpc EXCEPT ![c] = loc]
      BY DEF Connect, CGoto
    <3> QED BY <3>1 DEF TypeOK
  <2>2. tries' \in [Clients -> 0 .. SleepCount - 1]
    <3>1. /\ tries \in [Clients -> 0 .. SleepCount - 1] /\ SleepCount \in Nat \ {0}
          /\ 0 \in 0 .. SleepCount - 1
      BY DEF TypeOK, TeecdAssumption
    <3>2. (tries[c] + 1) % SleepCount \in 0 .. SleepCount - 1
      BY <3>1
    <3>3. \/ tries' = [tries EXCEPT ![c] = 0]
          \/ tries' = [tries EXCEPT ![c] = (tries[c] + 1) % SleepCount]
      BY DEF Connect
    <3> QED BY <3>1, <3>2, <3>3
  <2>3. backlog' \in Seq(Clients) /\ sock' \in [Clients -> {"none", "queued", "accepted", "shut"}]
    <3>1. Append(backlog, c) \in Seq(Clients)
      BY <1>4
    <3>2. /\ [sock EXCEPT ![c] = "queued"] \in [Clients -> {"none", "queued", "accepted", "shut"}]
          /\ sock \in [Clients -> {"none", "queued", "accepted", "shut"}]
      BY DEF TypeOK
    <3>3. CASE backlog' = Append(backlog, c) /\ sock' = [sock EXCEPT ![c] = "queued"]
      BY <3>1, <3>2, <3>3
    <3>4. CASE UNCHANGED <<backlog, sock>>
      BY <1>4, <3>2, <3>4
    <3> QED BY <1>3, <3>3, <3>4
  <2> QED BY <1>1, <2>1, <2>2, <2>3, Types DEF ClientTypes, fvars, pvars
<1> QED BY <1>6, <1>7, <1>8, <1>9, <1>10, <1>11, <1>12, <1>13, TypesNext

\* A client closes its connection; a descriptor that has come is now its own.
LeavesFor(c, loc) ==
    /\ cpc[c] \in {"send", "recv"} /\ sock[c] \in {"accepted", "shut"}
    /\ Leave(c)
    /\ UNCHANGED <<mvars, avars, wvars, fvars, first, cmd, tries>>
    /\ loc \in {"idle", "gotVersion"} /\ cpc' = [cpc EXCEPT ![c] = loc]
    /\ verOk' \in [Procs -> BOOLEAN] /\ \A p \in Procs : verOk'[p] => compat
    /\ hold' = [hold EXCEPT ![c] = IF answer[c] \in Files THEN answer[c] ELSE Nil]
    /\ answer[c] \in Files => loc = "idle"

LEMMA ClientLeaves ==
    ASSUME TeecdAssumption, IInv, NEW c \in Clients, NEW loc, LeavesFor(c, loc)
    PROVE  IInv'
<1> USE DEF IInv, LeavesFor
<1>1. /\ cpc'[c] = loc /\ sock'[c] = "none" /\ msg'[c] = "none" /\ answer'[c] = Nil
      /\ hold'[c] = (IF answer[c] \in Files THEN answer[c] ELSE Nil)
      /\ hold[c] = Nil /\ UNCHANGED backlog
  BY DEF Leave, TypeOK, Earned
<1>2. \A d \in Clients : d # c => /\ cpc'[d] = cpc[d] /\ sock'[d] = sock[d] /\ msg'[d] = msg[d]
                                  /\ answer'[d] = answer[d] /\ hold'[d] = hold[d]
  BY DEF Leave, TypeOK
<1>3. Main' /\ Daemon'
  <2>1. Main'
    BY DEF Main, mvars, wvars
  <2>2. Daemon'
    BY DEF Daemon, wvars, fvars
  <2> QED BY <2>1, <2>2
<1>4. Served'
  <2>1. wpc \in {"recv", "process", "login", "send"} => conn \in Clients
    BY DEF Daemon
  <2> QED BY <1>1, <1>2, <2>1 DEF Served, wvars
<1>5. Queue'
  <2>1. backlog \in Seq(Clients)
    BY DEF TypeOK
  <2>2. \A i \in 1 .. Len(backlog) : backlog[i] \in Clients
    BY <2>1
  <2>3. \A i \in 1 .. Len(backlog) : backlog[i] # c
    BY DEF Queue
  <2> QED BY <1>1, <1>2, <2>2, <2>3 DEF Queue
<1>6. InSockets'
  BY <1>1, <1>2 DEF InSockets, fvars, TeecdAssumption
<1>7. Earned'
  <2>1. hold'[c] # Nil => /\ answer[c] \in Files /\ hold'[c] = answer[c] /\ cpc'[c] = "idle"
                          /\ compat /\ login[hold'[c]] = Proc(c)
    BY <1>1 DEF InSockets, Earned
  <2>2. compat' = compat /\ login' = login /\ cmd' = cmd
    BY DEF mvars, fvars
  <2>3. ASSUME NEW d \in Clients
        PROVE  /\ cpc'[d] \in {"connect", "send", "recv"} => cmd[d] # "none"
               /\ cmd[d] = "fd" => compat
               /\ hold'[d] # Nil => /\ cpc'[d] = "idle" /\ compat
                                    /\ login[hold'[d]] = Proc(d)
    BY <1>1, <1>2, <2>1 DEF Earned
  <2> QED BY <2>2, <2>3 DEF Earned
<1>8. Accounted'
  <2>1. refs' = refs /\ dfd' = dfd
    BY DEF wvars, fvars
  <2>2. ASSUME NEW f \in Files
        PROVE  /\ Cardinality(Answers(f)') + Cardinality(Holders(f)')
                    = Cardinality(Answers(f)) + Cardinality(Holders(f))
               /\ dfd = f => Answers(f)' = {} /\ Holders(f)' = {}
    <3>1. f # Nil
      BY DEF TeecdAssumption
    <3>2. CASE answer[c] = f
      <4>1. c \in Answers(f) /\ c \notin Holders(f)
        BY <1>1, <3>1, <3>2 DEF Answers, Holders
      <4>2. Answers(f)' = Answers(f) \ {c} /\ Holders(f)' = Holders(f) \cup {c}
        BY <1>1, <1>2, <3>1, <3>2 DEF Answers, Holders
      <4>3. Cardinality(Answers(f)') = Cardinality(Answers(f)) - 1
        BY <4>1, <4>2, Countables, OneLess
      <4>4. Cardinality(Holders(f)') = Cardinality(Holders(f)) + 1
        BY <4>1, <4>2, Countables, OneMore
      <4>5. Cardinality(Answers(f)) \in Nat /\ Cardinality(Holders(f)) \in Nat
        BY Countables DEF Finite
      <4>6. dfd # f
        BY <4>1 DEF Accounted
      <4> QED BY <4>3, <4>4, <4>5, <4>6
    <3>3. CASE answer[c] # f
      <4>1. Answers(f)' = Answers(f) /\ Holders(f)' = Holders(f)
        BY <1>1, <1>2, <3>1, <3>3 DEF Answers, Holders
      <4> QED BY <4>1 DEF Accounted
    <3> QED BY <3>2, <3>3
  <2>3. \A f \in Files : /\ Cardinality(Answers(f)) \in Nat /\ Cardinality(Holders(f)) \in Nat
                         /\ Cardinality(Answers(f)') \in Nat /\ Cardinality(Holders(f)') \in Nat
    BY Countables, CountablesNext DEF Finite
  <2>4. \A f \in Files : refs[f] = (IF dfd = f THEN 1 ELSE 0) + Cardinality(Answers(f))
                                   + Cardinality(Holders(f))
    BY DEF Accounted
  <2>5. ASSUME NEW f \in Files
        PROVE  /\ refs'[f] = (IF dfd' = f THEN 1 ELSE 0) + Cardinality(Answers(f)')
                             + Cardinality(Holders(f)')
               /\ dfd' = f => Answers(f)' = {} /\ Holders(f)' = {}
    BY <2>1, <2>2, <2>3, <2>4
  <2> QED BY <2>5 DEF Accounted
<1>9. MainTypes' /\ ServerTypes'
  BY Types DEF MainTypes, ServerTypes, mvars, avars, wvars
<1>10. ClientTypes'
  <2>1. /\ cpc' \in [Clients -> {"idle", "check", "connect", "send", "recv", "gotVersion", "dead"}]
        /\ verOk' \in [Procs -> BOOLEAN]
        /\ hold' \in [Clients -> Files \cup {Nil}]
    BY DEF TypeOK
  <2>2. /\ sock' \in [Clients -> {"none", "queued", "accepted", "shut"}]
        /\ msg' \in [Clients -> {"none", "version", "fd"}]
        /\ answer' \in [Clients -> Files \cup {0, Nil}]
    BY DEF Leave, TypeOK
  <2> QED BY <1>1, <2>1, <2>2, Types DEF ClientTypes, fvars
<1> QED BY <1>3, <1>4, <1>5, <1>6, <1>7, <1>8, <1>9, <1>10, TypesNext

\* A client sends its request, or finds that the connection is closed.
LEMMA RequestIInv ==
    ASSUME TeecdAssumption, IInv, NEW c \in Clients, Send(c)
    PROVE  IInv'
<1> USE DEF IInv
<1>1. /\ cpc[c] = "send" /\ hold[c] = Nil /\ cmd[c] # "none" /\ answer[c] = Nil
      /\ UNCHANGED <<mvars, avars, wvars, fvars, pvars, cmd, tries, hold>>
  BY DEF Send, InSockets, Earned
<1>2. CASE /\ msg' = [msg EXCEPT ![c] = cmd[c]] /\ cpc' = [cpc EXCEPT ![c] = "recv"]
           /\ UNCHANGED <<backlog, sock, answer>>
  <2>1. /\ cpc'[c] = "recv" /\ msg'[c] = cmd[c]
        /\ \A d \in Clients : d # c => cpc'[d] = cpc[d] /\ msg'[d] = msg[d]
    BY <1>2 DEF TypeOK
  <2>2. Main' /\ Daemon'
    <3>1. Main'
      BY <1>1 DEF Main, mvars, wvars
    <3>2. Daemon'
      BY <1>1 DEF Daemon, wvars, fvars
    <3> QED BY <3>1, <3>2
  <2>3. Served'
    <3>1. wpc \in {"recv", "process", "login", "send"} => conn \in Clients
      BY DEF Daemon
    <3> QED BY <1>1, <1>2, <2>1, <3>1 DEF Served, wvars
  <2>4. Queue'
    <3>1. backlog \in Seq(Clients)
      BY DEF TypeOK
    <3>2. \A i \in 1 .. Len(backlog) : backlog[i] \in Clients
      BY <3>1
    <3> QED BY <1>1, <1>2, <2>1, <3>2 DEF Queue
  <2>5. InSockets'
    BY <1>1, <1>2, <2>1 DEF InSockets, fvars
  <2>6. Earned'
    BY <1>1, <2>1 DEF Earned, mvars, fvars, pvars
  <2>7. Accounted'
    BY <1>1, <1>2, AccountsSame DEF wvars, fvars
  <2>8. MainTypes' /\ ServerTypes'
    BY <1>1, Types DEF MainTypes, ServerTypes, mvars, avars, wvars
  <2>9. ClientTypes'
    <3>1. cmd[c] \in {"none", "version", "fd"}
      BY DEF TypeOK
    <3>2. /\ cpc' \in [Clients -> {"idle", "check", "connect", "send", "recv", "gotVersion", "dead"}]
          /\ msg' \in [Clients -> {"none", "version", "fd"}]
      BY <1>2, <3>1 DEF TypeOK
    <3> QED BY <1>1, <1>2, <3>2, Types DEF ClientTypes, fvars, pvars
  <2> QED BY <2>2, <2>3, <2>4, <2>5, <2>6, <2>7, <2>8, <2>9, TypesNext
<1>3. CASE sock[c] = "shut" /\ Leave(c) /\ cpc' = [cpc EXCEPT ![c] = "idle"]
  <2>1. /\ hold \in [Clients -> Files \cup {Nil}] /\ verOk \in [Procs -> BOOLEAN]
        /\ Proc(c) \in Procs /\ answer[c] \notin Files
    BY <1>1 DEF TypeOK, Proc, TeecdAssumption
  <2>2. /\ hold' = [hold EXCEPT ![c] = IF answer[c] \in Files THEN answer[c] ELSE Nil]
        /\ verOk' \in [Procs -> BOOLEAN] /\ UNCHANGED first
    BY <1>1, <2>1 DEF pvars
  <2>3. \A p \in Procs : verOk'[p] => compat
    BY <1>1 DEF Earned, pvars
  <2>4. LeavesFor(c, "idle")
    BY <1>1, <1>3, <2>1, <2>2, <2>3 DEF LeavesFor
  <2> QED BY <2>4, ClientLeaves
<1> QED BY <1>2, <1>3 DEF Send, CGoto

\* A client gets the version, its descriptor, or the end of the connection.
LEMMA RecvIInv ==
    ASSUME TeecdAssumption, IInv, NEW c \in Clients, Recv(c)
    PROVE  IInv'
<1> USE DEF IInv
<1>1. /\ cpc[c] = "recv" /\ hold[c] = Nil /\ sock[c] \in {"accepted", "shut"}
      /\ Leave(c)
      /\ UNCHANGED <<mvars, avars, wvars, fvars, first, cmd, tries>>
  BY DEF Recv, InSockets, Earned
<1>2. /\ hold \in [Clients -> Files \cup {Nil}] /\ verOk \in [Procs -> BOOLEAN]
      /\ Proc(c) \in Procs /\ compat \in BOOLEAN /\ \A p \in Procs : verOk[p] => compat
      /\ answer[c] \in Files \cup {0, Nil} /\ Nil \notin Files
  BY DEF TypeOK, Proc, TeecdAssumption, Earned
<1>3. hold = [hold EXCEPT ![c] = Nil]
  BY <1>1, <1>2
<1>4. CASE answer[c] = Nil /\ cpc' = [cpc EXCEPT ![c] = "idle"] /\ UNCHANGED <<verOk, hold>>
  <2>1. /\ hold' = [hold EXCEPT ![c] = IF answer[c] \in Files THEN answer[c] ELSE Nil]
        /\ verOk' \in [Procs -> BOOLEAN] /\ \A p \in Procs : verOk'[p] => compat
    BY <1>2, <1>3, <1>4
  <2>2. LeavesFor(c, "idle")
    BY <1>1, <1>2, <1>4, <2>1 DEF LeavesFor
  <2> QED BY <2>2, ClientLeaves
<1>5. CASE /\ cmd[c] = "version" /\ cpc' = [cpc EXCEPT ![c] = "gotVersion"]
           /\ verOk' = [verOk EXCEPT ![Proc(c)] = compat] /\ UNCHANGED hold
  <2>1. answer[c] \notin Files
    BY <1>5 DEF InSockets
  <2>2. hold' = [hold EXCEPT ![c] = IF answer[c] \in Files THEN answer[c] ELSE Nil]
    BY <1>3, <1>5, <2>1
  <2>3. verOk' \in [Procs -> BOOLEAN] /\ \A p \in Procs : verOk'[p] => compat
    BY <1>2, <1>5
  <2>4. LeavesFor(c, "gotVersion")
    BY <1>1, <1>2, <1>5, <2>1, <2>2, <2>3 DEF LeavesFor
  <2> QED BY <2>4, ClientLeaves
<1>6. CASE /\ answer[c] # Nil /\ cmd[c] = "fd" /\ hold' = [hold EXCEPT ![c] = answer[c]]
           /\ cpc' = [cpc EXCEPT ![c] = "idle"] /\ UNCHANGED verOk
  <2>1. answer[c] \in Files
    BY <1>2, <1>6 DEF InSockets
  <2>2. /\ hold' = [hold EXCEPT ![c] = IF answer[c] \in Files THEN answer[c] ELSE Nil]
        /\ verOk' \in [Procs -> BOOLEAN] /\ \A p \in Procs : verOk'[p] => compat
    BY <1>2, <1>3, <1>6, <2>1
  <2>3. LeavesFor(c, "idle")
    BY <1>1, <1>2, <1>6, <2>2 DEF LeavesFor
  <2> QED BY <2>3, ClientLeaves
<1> QED BY <1>4, <1>5, <1>6 DEF Recv, CGoto

\* A client closes its descriptor.
LEMMA CloseFdIInv ==
    ASSUME TeecdAssumption, IInv, NEW c \in Clients, CloseFd(c)
    PROVE  IInv'
<1> USE DEF IInv
<1> DEFINE g == hold[c]
<1>1. /\ cpc[c] = "idle" /\ g # Nil /\ g \in Files /\ Drop(One(g))
      /\ UNCHANGED <<mvars, avars, wvars, pvars, cpc, cmd, tries, svars>>
  BY DEF CloseFd, TypeOK
<1>2. hold'[c] = Nil /\ \A d \in Clients : d # c => hold'[d] = hold[d]
  BY DEF CloseFd, TypeOK
<1>3. hold' \in [Clients -> Files \cup {Nil}]
  BY DEF CloseFd, TypeOK
<1> HIDE DEF g
<1>4. /\ refs' \in [Files -> Int] /\ login' \in [Files -> Procs \cup {Nil}]
      /\ \A f \in Files : refs'[f] = IF f = g THEN refs[f] - 1 ELSE refs[f]
  BY <1>1, DropOne
<1>5. Accounted'
  <2>1. \A f : Answers(f)' = Answers(f)
    BY <1>1 DEF Answers, svars
  <2>2. dfd' = dfd /\ g = hold[c]
    BY <1>1 DEF wvars, g
  <2>3. ASSUME NEW f \in Files
        PROVE  /\ Cardinality(Holders(f)') = Cardinality(Holders(f)) - (IF f = g THEN 1 ELSE 0)
               /\ Holders(f) = {} => Holders(f)' = {}
    <3>1. f # Nil
      BY DEF TeecdAssumption
    <3>2. CASE f = g
      <4>1. c \in Holders(f) /\ Holders(f)' = Holders(f) \ {c}
        BY <1>2, <2>2, <3>1, <3>2 DEF Holders
      <4> QED BY <3>2, <4>1, Countables, OneLess
    <3>3. CASE f # g
      <4>1. Holders(f)' = Holders(f)
        BY <1>2, <2>2, <3>1, <3>3 DEF Holders
      <4>2. Cardinality(Holders(f)) \in Nat
        BY Countables DEF Finite
      <4> QED BY <3>3, <4>1, <4>2
    <3> QED BY <3>2, <3>3
  <2>4. \A f \in Files : Cardinality(Answers(f)) \in Nat /\ Cardinality(Holders(f)) \in Nat
    BY Countables DEF Finite
  <2>5. ASSUME NEW f \in Files
        PROVE  /\ refs'[f] = (IF dfd' = f THEN 1 ELSE 0) + Cardinality(Answers(f)')
                             + Cardinality(Holders(f)')
               /\ dfd' = f => Answers(f)' = {} /\ Holders(f)' = {}
    BY <1>4, <2>1, <2>2, <2>3, <2>4 DEF Accounted
  <2> QED BY <2>5 DEF Accounted
<1>6. /\ refs' \in [Files -> Nat]
      /\ \A d \in Clients : answer[d] \in Files => login'[answer[d]] = login[answer[d]]
      /\ \A d \in Clients : hold'[d] \in Files => login'[hold'[d]] = login[hold'[d]]
      /\ dfd \in Files => login'[dfd] = login[dfd]
  BY <1>1, <1>4, <1>5, RefsAreCounts, DropLogin DEF svars, wvars
<1>7. Main' /\ Daemon' /\ Served'
  <2>1. Main'
    BY <1>1 DEF Main, mvars, wvars
  <2>2. Daemon' /\ Served'
    BY <1>1, <1>6 DEF Daemon, Served, wvars, svars
  <2> QED BY <2>1, <2>2
<1>8. Queue' /\ InSockets'
  BY <1>1, <1>6 DEF Queue, InSockets, svars
<1>9. Earned'
  <2>1. \A d \in Clients : hold'[d] # Nil => hold'[d] \in Files /\ hold'[d] = hold[d]
    BY <1>2, <1>3
  <2> QED BY <1>1, <1>6, <2>1 DEF Earned, mvars, pvars
<1>10. MainTypes' /\ ServerTypes' /\ ClientTypes'
  <2>1. MainTypes' /\ ServerTypes'
    BY <1>1, Types DEF MainTypes, ServerTypes, mvars, avars, wvars
  <2>2. ClientTypes'
    BY <1>1, <1>3, <1>4, <1>6, Types DEF ClientTypes, pvars, svars
  <2> QED BY <2>1, <2>2
<1> QED BY <1>5, <1>7, <1>8, <1>9, <1>10, TypesNext

\* A client process ends, with its connections and descriptors.
LEMMA KillIInv ==
    ASSUME TeecdAssumption, IInv, NEW p \in Procs, Kill(p)
    PROVE  IInv'
<1> DEFINE mine == {c \in Clients : Proc(c) = p}
           answering(f) == {c \in mine : answer[c] = f}
           holding(f) == {c \in mine : hold[c] = f}
           lost == [f \in Files |-> Cardinality(holding(f)) + Cardinality(answering(f))]
<1> USE DEF IInv
<1>1. Drop(lost) /\ UNCHANGED <<mvars, avars, wvars, pvars, backlog>>
  BY DEF Kill
<1>2. \A c \in Clients : c \in mine =>
         /\ cpc'[c] = "dead" /\ hold'[c] = Nil /\ answer'[c] = Nil /\ sock'[c] = "none"
         /\ msg'[c] = "none" /\ cmd'[c] = "none"
  BY DEF Kill
<1>3. \A c \in Clients : c \notin mine =>
         /\ cpc'[c] = cpc[c] /\ hold'[c] = hold[c] /\ answer'[c] = answer[c]
         /\ sock'[c] = sock[c] /\ msg'[c] = msg[c] /\ cmd'[c] = cmd[c]
  BY DEF Kill
<1>4. /\ cpc' \in [Clients -> {"idle", "check", "connect", "send", "recv", "gotVersion", "dead"}]
      /\ cmd' \in [Clients -> {"none", "version", "fd"}]
      /\ tries' \in [Clients -> 0 .. SleepCount - 1]
      /\ hold' \in [Clients -> Files \cup {Nil}]
      /\ sock' \in [Clients -> {"none", "queued", "accepted", "shut"}]
      /\ msg' \in [Clients -> {"none", "version", "fd"}]
      /\ answer' \in [Clients -> Files \cup {0, Nil}]
  <2>1. 0 \in 0 .. SleepCount - 1
    BY DEF TeecdAssumption
  <2> QED BY <2>1 DEF Kill, TypeOK
<1>5. \A f : /\ answering(f) \subseteq Answers(f) /\ holding(f) \subseteq Holders(f)
             /\ Finite(answering(f)) /\ Finite(holding(f))
  BY Countable DEF Answers, Holders
<1>6. \A f \in Files : /\ Answers(f)' = Answers(f) \ answering(f)
                       /\ Holders(f)' = Holders(f) \ holding(f)
  BY <1>2, <1>3 DEF Answers, Holders, TeecdAssumption
<1>7. \A f \in Files : /\ Cardinality(answering(f)) \in Nat /\ Cardinality(holding(f)) \in Nat
                       /\ Cardinality(Answers(f)) \in Nat /\ Cardinality(Holders(f)) \in Nat
                       /\ lost[f] = Cardinality(holding(f)) + Cardinality(answering(f))
  BY <1>5, Countables DEF Finite
<1>8. \A f \in Files : /\ Cardinality(Answers(f)') = Cardinality(Answers(f)) - Cardinality(answering(f))
                       /\ Cardinality(Holders(f)') = Cardinality(Holders(f)) - Cardinality(holding(f))
  BY <1>5, <1>6, SomeLess, Countables
<1> HIDE DEF lost, answering, holding
<1>9. /\ refs' \in [Files -> Int] /\ login' \in [Files -> Procs \cup {Nil}]
      /\ \A f \in Files : refs'[f] = refs[f] - lost[f]
  <2>1. \A f \in Files : lost[f] \in Nat /\ refs[f] \in Nat
    BY <1>7 DEF TypeOK
  <2> QED BY <1>1, <2>1 DEF Drop, TypeOK
<1>10. Accounted'
  <2>1. dfd' = dfd
    BY <1>1 DEF wvars
  <2>2. \A f \in Files : refs[f] = (IF dfd = f THEN 1 ELSE 0) + Cardinality(Answers(f))
                                   + Cardinality(Holders(f))
    BY DEF Accounted
  <2>3. ASSUME NEW f \in Files
        PROVE  refs'[f] = (IF dfd' = f THEN 1 ELSE 0) + Cardinality(Answers(f)')
                          + Cardinality(Holders(f)')
    BY <1>7, <1>8, <1>9, <2>1, <2>2
  <2>4. ASSUME NEW f \in Files, dfd' = f
        PROVE  Answers(f)' = {} /\ Holders(f)' = {}
    BY <1>6, <2>1, <2>4 DEF Accounted
  <2> QED BY <2>3, <2>4 DEF Accounted
<1>11. /\ refs' \in [Files -> Nat]
       /\ \A d \in Clients : answer'[d] \in Files => login'[answer'[d]] = login[answer'[d]]
       /\ \A d \in Clients : hold'[d] \in Files => login'[hold'[d]] = login[hold'[d]]
       /\ dfd \in Files => login'[dfd] = login[dfd]
  BY <1>1, <1>9, <1>10, RefsAreCounts, DropLogin DEF wvars
<1>12. Main' /\ Daemon'
  <2>1. Main'
    BY <1>1 DEF Main, mvars, wvars
  <2>2. Daemon'
    BY <1>1, <1>11 DEF Daemon, wvars
  <2> QED BY <2>1, <2>2
<1>13. Served'
  <2>1. wpc \in {"recv", "process", "login", "send"} => conn \in Clients
    BY DEF Daemon
  <2> QED BY <1>1, <1>2, <1>3, <2>1 DEF Served, wvars
<1>14. Queue'
  <2>1. \A c \in Clients : sock[c] = "queued" \/ cpc[c] = "dead" =>
                            sock'[c] = "queued" \/ cpc'[c] = "dead"
    BY <1>2, <1>3
  <2> QED BY <1>1, <2>1, QueueKept
<1>15. InSockets'
  <2>1. Nil # 0 /\ Nil \notin Files
    BY DEF TeecdAssumption
  <2>2. ASSUME NEW c \in Clients
        PROVE  /\ sock'[c] # "none" => cpc'[c] \in {"send", "recv"}
               /\ msg'[c] # "none" => cpc'[c] = "recv" /\ msg'[c] = cmd'[c]
               /\ answer'[c] # Nil => cpc'[c] = "recv" /\ sock'[c] \in {"accepted", "shut"}
               /\ answer'[c] = 0 => cmd'[c] = "version"
               /\ answer'[c] \in Files => cmd'[c] = "fd" /\ login'[answer'[c]] = Proc(c)
    <3>1. CASE c \in mine
      BY <1>2, <2>1, <3>1
    <3>2. CASE c \notin mine
      BY <1>3, <1>11, <3>2 DEF InSockets
    <3> QED BY <3>1, <3>2
  <2> QED BY <2>2 DEF InSockets
<1>16. Earned'
  <2>1. compat' = compat /\ verOk' = verOk
    BY <1>1 DEF mvars, pvars
  <2>2. ASSUME NEW c \in Clients
        PROVE  /\ cpc'[c] \in {"connect", "send", "recv"} => cmd'[c] # "none"
               /\ cmd'[c] = "fd" => compat
               /\ hold'[c] # Nil => /\ cpc'[c] = "idle" /\ compat
                                    /\ login'[hold'[c]] = Proc(c)
    <3>1. CASE c \in mine
      BY <1>2, <3>1
    <3>2. CASE c \notin mine
      <4>1. hold'[c] # Nil => hold'[c] \in Files
        BY <1>4
      <4> QED BY <1>3, <1>11, <3>2, <4>1 DEF Earned
    <3> QED BY <3>1, <3>2
  <2> QED BY <2>1, <2>2 DEF Earned
<1>17. MainTypes' /\ ServerTypes' /\ ClientTypes'
  BY <1>1, <1>4, <1>9, <1>11, Types DEF MainTypes, ServerTypes, ClientTypes, mvars, avars,
     wvars, pvars
<1> QED BY <1>10, <1>12, <1>13, <1>14, <1>15, <1>16, <1>17, TypesNext

\* Every step, or none.
LEMMA NextIInv == TeecdAssumption /\ IInv /\ [Next]_vars => IInv'
<1> SUFFICES ASSUME TeecdAssumption, IInv, [Next]_vars PROVE IInv'
  OBVIOUS
<1>1. CASE UNCHANGED vars
  <2>1. /\ Daemon' /\ Served' /\ Queue' /\ InSockets' /\ Earned' /\ Accounted'
        /\ ServerTypes' /\ ClientTypes'
    BY <1>1, QuietDaemon DEF vars, mvars, wvars
  <2>2. MainTypes' /\ Main'
    BY <1>1, Types DEF IInv, vars, mvars, avars, wvars, MainTypes, Main
  <2> QED BY <2>1, <2>2, TypesNext DEF IInv
<1>2. CASE MainStep
  BY <1>2, MainIInv
<1>3. CASE CaStep
  BY <1>3, ReceiveIInv, AcceptIInv, ProcessIInv, LoginIInv, SendIInv, CloseSocketIInv DEF CaStep
<1>4. CASE KillTeecd
  BY <1>4, KilledIInv DEF KillTeecd
<1>5. CASE Restart
  <2>1. 1 \in Agents
    BY DEF TeecdAssumption, Agents
  <2> QED BY <1>5, <2>1, AgentIInv
<1>6. ASSUME NEW a \in Agents, TeeRequest(a) \/ WorkLoop(a)
      PROVE  IInv'
  BY <1>6, AgentIInv
<1>7. ASSUME NEW c \in Clients, ClientStep(c)
      PROVE  IInv'
  BY <1>7, ClientMovesIInv, ConnectIInv, RequestIInv, RecvIInv, CloseFdIInv
     DEF ClientStep, WaitStep
<1>8. ASSUME NEW p \in Procs, Kill(p)
      PROVE  IInv'
  BY <1>8, KillIInv
<1> QED BY <1>1, <1>2, <1>3, <1>4, <1>5, <1>6, <1>7, <1>8 DEF Next

-----------------------------------------------------------------------------
(* The theorems. *)

\* The inductive invariant holds whatever the daemon and its clients do, and
\* whoever of them is killed.
THEOREM InvariantHolds == Spec => []IInv
<1>1. Init => IInv
  BY InitIInv, TeecdAssumption
<1>2. IInv /\ [Next]_vars => IInv'
  BY NextIInv, TeecdAssumption
<1> QED BY <1>1, <1>2, PTL DEF Spec

\* Every open file of the driver is the daemon's, on its way in an answer or a
\* client's, exactly as often as it has references, and the daemon has none
\* between two requests: no error path of ProcessCaMsg and no end of a process
\* loses one, and a daemon that has ended has left no agent registered.
THEOREM NothingLeaks == Spec => []ResourcesAccounted
<1>1. IInv => ResourcesAccounted
  BY DEF IInv, Accounted, Answers, Holders, Daemon, Main, ResourcesAccounted
<1> QED BY <1>1, InvariantHolds, PTL

\* A client has a descriptor only with the login of its own process, and only if
\* its library has accepted the daemon's version.
THEOREM OwnLoginOnly == Spec => []DescriptorEarned
<1>1. IInv => DescriptorEarned
  BY DEF IInv, Earned, DescriptorEarned
<1> QED BY <1>1, InvariantHolds, PTL
==============================================================================
