------------------------------ MODULE Listener ------------------------------
(***************************************************************************)
(* A TCP server on epoll (TcpServerBase.hpp, FdrTcpServer.cpp) and the     *)
(* clients it accepted (Server.cpp): the server's op thread opens, reopens *)
(* and closes, the fdr thread accepts, and each client's device has an op  *)
(* queue of its own in which it leaves the listener's list.                *)
(*                                                                         *)
(* A queue of a device runs its tasks one by one (module AQueue) and holds *)
(* the device while it has some.                                           *)
(***************************************************************************)
EXTENDS Integers, Sequences, FiniteSets, SequencesExt

CONSTANTS
  MaxClients,    \* bound: connections that come
  Capacity,      \* ServiceArgs_.Capacity_
  MaxListeners,  \* bound: listeners that are created
  MaxOps,        \* bound: commands to the server, and errors of a listening socket
  CloseBySeq     \* the commands include aclose and alclose

VARIABLES
  srvState,     \* State_ of the server
  ops,          \* its OpQueue_
  current,      \* Listener_, 0: none
  made,         \* how many listeners there were
  disp,         \* the Dispose that the op thread is in, and what it does after it
  isDisposing,  \* IsDisposing_ of each listener
  heard,        \* the fdr thread looks at its socket
  clients,      \* its AcceptedClients_
  loop,         \* where the fdr thread is in its OnFdrEvent_Handling
  dev,          \* the device of each client
  asked,        \* how many commands and errors there were
  crossed,      \* clients that got a task while they were being accepted, or were accepted after Dispose
  misused       \* clients that were used after they were freed

serverVars == <<srvState, ops, current, made, disp, asked>>
listenerVars == <<isDisposing, heard, clients, loop>>
lsnVars == <<serverVars, listenerVars, dev, crossed, misused>>

Clients == 1 .. MaxClients
Listeners == 1 .. MaxListeners
Quiet == [at |-> "idle", l |-> 0, devs |-> <<>>, next |-> "none"]
NoLoop == [at |-> "idle", c |-> 0]
NoDevice == [st |-> "none", owner |-> 0, seq |-> 0, refs |-> 0, tasks |-> <<>>, fdr |-> FALSE, peer |-> "none"]

Init ==
  /\ srvState = "Initialized" /\ ops = <<>> /\ current = 0 /\ made = 0 /\ disp = Quiet /\ asked = 0
  /\ isDisposing = [l \in Listeners |-> FALSE] /\ heard = [l \in Listeners |-> FALSE]
  /\ clients = [l \in Listeners |-> <<>>] /\ loop = [l \in Listeners |-> NoLoop]
  /\ dev = [c \in Clients |-> NoDevice] /\ crossed = {} /\ misused = {}

-----------------------------------------------------------------------------
(* Devices *)

Early == {"Initializing", "Initialized", "LinkReady"}

(* intrusive_ptr_release; the last one frees. *)
Released(r) == IF r.refs = 1 THEN [r EXCEPT !.refs = 0, !.st = "Destructing"] ELSE [r EXCEPT !.refs = @ - 1]

(* AddTask: who runs the queue holds the device. *)
Posted(r, t) == [r EXCEPT !.tasks = Append(@, t), !.refs = IF r.tasks = <<>> THEN @ + 1 ELSE @]

(* Clients between AddAcceptedClient's list and the end of Initialize. *)
BeingAccepted == {loop[l].c : l \in {x \in Listeners : loop[x].at \in {"ref", "init"}}}

(* A task from elsewhere than the accepting thread. *)
Post(c, t) ==
  /\ crossed' = IF c \in BeingAccepted THEN crossed \cup {c} ELSE crossed
  /\ IF dev[c].st = "Destructing" THEN misused' = misused \cup {c} /\ UNCHANGED dev
     ELSE dev' = [dev EXCEPT ![c] = Posted(@, t)] /\ UNCHANGED misused

(* What a task makes of a device's state: OpThr_Open, Close, Dispose, LingerClose, CheckLingerClose. *)
After(st, t) ==
  CASE t = "open" /\ st \in {"Initializing", "Initialized"} -> {"LinkReady"}
    [] t \in {"close", "dispose"} -> {"Disposing"}
    [] t = "linger" /\ st = "LinkReady" -> {"Lingering", "Disposing"}
    [] t = "linger" /\ st \in {"Initializing", "Initialized"} -> {"Disposing"}
    [] t = "sent" /\ st = "Lingering" -> {"Disposing"}
    [] OTHER -> {st}

(* Mutant: the client stays where it is when it lingers. *)
LeavesAtEnd(before, after) == before \in Early /\ after = "Disposing"

(* OpImpl_StateChanged: the client leaves the list. *)
Leaves(before, after) == before \in Early /\ after \in {"Lingering", "Disposing"}

(* Mutant: the client is looked for by its place. *)
FoundAtPlace(l, c) == {i \in DOMAIN clients[l] : i = dev[c].seq}

(* RemoveAcceptedClient looks for the number, and for the device there. *)
Found(l, c) == {i \in DOMAIN clients[l] : dev[clients[l][i]].seq = dev[c].seq /\ clients[l][i] = c}

(* RemoveAcceptedClient; IsDisposing_ is read before the lock. *)
RemoveAcceptedClient(c, r) ==
  LET l == r.owner
  IN \/ isDisposing[l] /\ dev' = [dev EXCEPT ![c] = r] /\ UNCHANGED clients
     \/ Found(l, c) = {} /\ dev' = [dev EXCEPT ![c] = r] /\ UNCHANGED clients
     \/ \E i \in Found(l, c) :
          dev' = [dev EXCEPT ![c] = Released(r)] /\ clients' = [clients EXCEPT ![l] = RemoveAt(@, i)]

(* A task of the client's queue, up to the return of who ran it. *)
RunTask(c) ==
  /\ dev[c].tasks # <<>>
  /\ \E st \in After(dev[c].st, Head(dev[c].tasks)) :
       LET r == dev[c]
           starts == st = "LinkReady" /\ r.st # st
           q == [r EXCEPT !.st = st, !.tasks = Tail(@), !.fdr = @ \/ starts, !.refs = IF starts THEN @ + 1 ELSE @]
           rest == IF q.tasks = <<>> THEN Released(q) ELSE q
       IN IF Leaves(r.st, st) THEN RemoveAcceptedClient(c, rest)
          ELSE dev' = [dev EXCEPT ![c] = rest] /\ UNCHANGED clients
  /\ UNCHANGED <<serverVars, isDisposing, heard, loop, crossed, misused>>

(* The end of the connection is read, or an error: SocketError. *)
SocketError(c) ==
  /\ dev[c].fdr /\ dev[c].peer = "closed"
  /\ dev' = [dev EXCEPT ![c] = Released(Posted([@ EXCEPT !.fdr = FALSE], "dispose"))]
  /\ UNCHANGED <<serverVars, listenerVars, crossed, misused>>

(* What was to be sent is sent: CheckSendQueueEmpty. *)
LastSent(c) ==
  /\ dev[c].fdr /\ dev[c].st = "Lingering" /\ dev[c].tasks = <<>>
  /\ dev' = [dev EXCEPT ![c] = Posted(@, "sent")]
  /\ UNCHANGED <<serverVars, listenerVars, crossed, misused>>

(* The session closes its device. *)
SessionCloses(c) ==
  /\ dev[c].st = "LinkReady" /\ dev[c].tasks = <<>>
  /\ \E t \in {"close", "linger"} : Post(c, t)
  /\ UNCHANGED <<serverVars, listenerVars>>

-----------------------------------------------------------------------------
(* The peers. A listening socket is open as long as its listener is there. *)

Alive(l) == l <= made /\ (current = l \/ (disp.at # "idle" /\ disp.l = l) \/ loop[l].at # "idle"
                          \/ \E c \in Clients : dev[c].owner = l /\ dev[c].refs > 0)

(* Connections are numbered as they come. *)
Connects(c) ==
  /\ dev[c].peer = "none" /\ \A x \in 1 .. c - 1 : dev[x].peer # "none"
  /\ \E l \in Listeners : Alive(l) /\ dev' = [dev EXCEPT ![c].peer = "waiting", ![c].owner = l]
  /\ UNCHANGED <<serverVars, listenerVars, crossed, misused>>

PeerCloses(c) ==
  /\ dev[c].peer = "open" /\ dev' = [dev EXCEPT ![c].peer = "closed"]
  /\ UNCHANGED <<serverVars, listenerVars, crossed, misused>>

(* A peer that was told the end, by the shutdown of OpImpl_Close. *)
PeerIsTold(c) == dev[c].st = "Disposing" /\ PeerCloses(c)

-----------------------------------------------------------------------------
(* The fdr thread accepts. *)

Waiting(l) == {c \in Clients : dev[c].owner = l /\ dev[c].peer = "waiting"}

(* IsDisposing is read at the beginning and after each client. *)
OnFdrEvent(l) ==
  /\ loop[l].at = "idle" /\ heard[l] /\ ~isDisposing[l] /\ Waiting(l) # {}
  /\ loop' = [loop EXCEPT ![l].at = "accept"]
  /\ UNCHANGED <<serverVars, isDisposing, heard, clients, dev, crossed, misused>>

(* Mutant: one more than the capacity. *)
HasRoomForOneMore(l) == Len(clients[l]) <= Capacity

(* GetConnectionCount against the capacity. *)
HasRoom(l) == Len(clients[l]) < Capacity

(* accept takes who came first; the client may be on the block list, too many, or
   without a session. *)
Accept(l) ==
  /\ loop[l].at = "accept"
  /\ \E c \in Waiting(l) :
       /\ \A x \in Waiting(l) : c <= x
       /\ \/ dev' = [dev EXCEPT ![c].peer = "refused"] /\ loop' = [loop EXCEPT ![l] = NoLoop]
          \/ /\ HasRoom(l)
             /\ dev' = [dev EXCEPT ![c].peer = "open", ![c].st = "Initializing", ![c].refs = 1]
             /\ loop' = [loop EXCEPT ![l] = [at |-> "add", c |-> c]]
  /\ UNCHANGED <<serverVars, isDisposing, heard, clients, crossed, misused>>

(* Mutant: the number is how many there are. *)
NextSeqOfCount(l) == Len(clients[l]) + 1

NextSeq(l) == IF clients[l] = <<>> THEN 1 ELSE dev[Last(clients[l])].seq + 1

(* AddAcceptedClient, under the lock. *)
AddToList(l) ==
  /\ loop[l].at = "add"
  /\ dev' = [dev EXCEPT ![loop[l].c].seq = NextSeq(l)]
  /\ clients' = [clients EXCEPT ![l] = Append(@, loop[l].c)]
  /\ loop' = [loop EXCEPT ![l].at = "ref"]
  /\ crossed' = IF isDisposing[l] THEN crossed \cup {loop[l].c} ELSE crossed
  /\ UNCHANGED <<serverVars, isDisposing, heard, misused>>

(* AddAcceptedClient: the list's reference. What follows on a freed device is undefined. *)
AddRef(l) ==
  LET c == loop[l].c
  IN /\ loop[l].at = "ref"
     /\ IF dev[c].st = "Destructing"
        THEN misused' = misused \cup {c} /\ loop' = [loop EXCEPT ![l] = NoLoop] /\ UNCHANGED dev
        ELSE dev' = [dev EXCEPT ![c].refs = @ + 1] /\ loop' = [loop EXCEPT ![l].at = "init"] /\ UNCHANGED misused
     /\ UNCHANGED <<serverVars, isDisposing, heard, clients, crossed>>

(* Initialize sets the state whatever it was; AsyncOpen; the loop lets go of the device. *)
InitializeAndOpen(l) ==
  LET c == loop[l].c
  IN /\ loop[l].at = "init"
     /\ dev' = [dev EXCEPT ![c] = Released(Posted([@ EXCEPT !.st = "Initialized"], "open"))]
     /\ loop' = [loop EXCEPT ![l].at = "log"]
     /\ UNCHANGED <<serverVars, isDisposing, heard, clients, crossed, misused>>

(* The client's number is logged, and IsDisposing looked at. *)
LogAccepted(l) ==
  /\ loop[l].at = "log" /\ loop' = [loop EXCEPT ![l] = NoLoop]
  /\ UNCHANGED <<serverVars, isDisposing, heard, clients, dev, crossed, misused>>

(* An error of the listening socket: the handler is removed, the op thread is told. *)
ListenError(l) ==
  /\ loop[l].at = "idle" /\ heard[l] /\ ~isDisposing[l] /\ asked < MaxOps
  /\ heard' = [heard EXCEPT ![l] = FALSE] /\ loop' = [loop EXCEPT ![l].at = "error"]
  /\ asked' = asked + 1
  /\ UNCHANGED <<srvState, ops, current, made, disp, isDisposing, clients, dev, crossed, misused>>

TellError(l) ==
  /\ loop[l].at = "error" /\ ops' = Append(ops, [k |-> "error", n |-> l]) /\ loop' = [loop EXCEPT ![l] = NoLoop]
  /\ UNCHANGED <<srvState, current, made, disp, asked, isDisposing, heard, clients, dev, crossed, misused>>

AcceptLoop(l) == Accept(l) \/ AddToList(l) \/ AddRef(l) \/ InitializeAndOpen(l) \/ LogAccepted(l) \/ TellError(l)

-----------------------------------------------------------------------------
(* The server *)

Commands == [k : {"open", "reopen", "close", "dispose"}, n : {0}]
            \cup IF CloseBySeq THEN [k : {"aclose", "alclose"}, n : 1 .. 2] ELSE {}

Command ==
  /\ asked < MaxOps /\ asked' = asked + 1 /\ \E o \in Commands : ops' = Append(ops, o)
  /\ UNCHANGED <<srvState, current, made, disp, listenerVars, dev, crossed, misused>>

(* EmitOnCommonTimer of a server that is broken. *)
TimerReopens ==
  /\ srvState \in {"ListenBroken", "LinkError"} /\ \A i \in DOMAIN ops : ops[i].k # "timer"
  /\ ops' = Append(ops, [k |-> "timer", n |-> 0])
  /\ UNCHANGED <<srvState, current, made, disp, asked, listenerVars, dev, crossed, misused>>

(* Mutant: the old listener goes on. *)
DisposeListenerNot(next) ==
  /\ disp' = [at |-> "each", l |-> 0, devs |-> <<>>, next |-> next] /\ current' = 0
  /\ UNCHANGED <<isDisposing, heard>>

(* OpImpl_DisposeListener, up to the lock: IsDisposing_ is set, the handler removed. *)
DisposeListener(next) ==
  /\ disp' = [at |-> IF current = 0 THEN "each" ELSE "swap", l |-> current, devs |-> <<>>, next |-> next]
  /\ current' = 0
  /\ isDisposing' = [l \in Listeners |-> isDisposing[l] \/ l = current]
  /\ heard' = [l \in Listeners |-> heard[l] /\ l # current]

(* What the next task of the op queue disposes of the listener for: OpThr_Open, Close, Dispose. *)
DisposesFor(k) ==
  CASE k = "open" /\ srvState # "Disposing" -> "Open"
    [] k = "reopen" /\ srvState = "Initialized" -> "Open"
    [] k = "reopen" /\ srvState \in {"ListenBroken", "LinkError", "Closed"} -> "Reopen"
    [] k = "timer" /\ srvState \in {"ListenBroken", "LinkError"} -> "Reopen"
    [] k = "close" /\ srvState \notin {"Closed", "Disposing"} -> "Closed"
    [] k = "dispose" /\ srvState # "Disposing" -> "Disposing"
    [] OTHER -> "none"

Opens ==
  /\ disp = Quiet /\ ops # <<>> /\ DisposesFor(Head(ops).k) # "none"
  /\ DisposeListener(DisposesFor(Head(ops).k)) /\ ops' = Tail(ops)
  /\ srvState' = IF Head(ops).k = "close" \/ (Head(ops).k = "dispose" /\ srvState # "Closed") THEN "Closing" ELSE srvState
  /\ UNCHANGED <<made, asked, clients, loop, dev, crossed, misused>>

(* Mutant: an error of any listener. *)
SetBrokenAny(l) == srvState' = IF srvState = "Listening" THEN "ListenBroken" ELSE srvState

(* OnFdrEvent_Handling's task: an error of the listener that is in use. *)
SetBroken(l) == srvState' = IF current = l /\ srvState = "Listening" THEN "ListenBroken" ELSE srvState

(* The tasks that dispose of nothing; those by number find a client of this listener. *)
OtherTask ==
  /\ disp = Quiet /\ ops # <<>> /\ DisposesFor(Head(ops).k) = "none" /\ ops' = Tail(ops)
  /\ LET o == Head(ops)
         at == IF current = 0 \/ o.k \notin {"aclose", "alclose"} THEN {}
               ELSE {c \in ToSet(clients[current]) : dev[c].seq = o.n}
     IN /\ IF o.k = "error" THEN SetBroken(o.n) ELSE UNCHANGED srvState
        /\ IF at = {} THEN UNCHANGED <<dev, crossed, misused>>
           ELSE \E c \in at : Post(c, IF o.k = "aclose" THEN "close" ELSE "linger")
  /\ UNCHANGED <<current, made, disp, asked, listenerVars>>

(* Dispose, under the lock. *)
SwapClients ==
  /\ disp.at = "swap" /\ disp' = [disp EXCEPT !.at = "each", !.devs = clients[disp.l]]
  /\ clients' = [clients EXCEPT ![disp.l] = <<>>]
  /\ UNCHANGED <<srvState, ops, current, made, asked, isDisposing, heard, loop, dev, crossed, misused>>

(* Mutant: who is still being initialised is let go of. *)
DisposeReadyOnly ==
  LET c == Head(disp.devs)
  IN /\ disp.at = "each" /\ disp.devs # <<>> /\ disp' = [disp EXCEPT !.devs = Tail(@)]
     /\ crossed' = crossed
     /\ dev' = [dev EXCEPT ![c] = Released(IF @.st = "LinkReady" THEN Posted(@, "dispose") ELSE @)]
     /\ UNCHANGED <<srvState, ops, current, made, asked, listenerVars, misused>>

(* Dispose: each of them is disposed of, and the list's reference released. *)
DisposeEach ==
  LET c == Head(disp.devs)
  IN /\ disp.at = "each" /\ disp.devs # <<>> /\ disp' = [disp EXCEPT !.devs = Tail(@)]
     /\ crossed' = IF c \in BeingAccepted THEN crossed \cup {c} ELSE crossed
     /\ IF dev[c].st = "Destructing" THEN misused' = misused \cup {c} /\ UNCHANGED dev
        ELSE dev' = [dev EXCEPT ![c] = Released(Posted(@, "dispose"))] /\ UNCHANGED misused
     /\ UNCHANGED <<srvState, ops, current, made, asked, listenerVars>>

(* OpImpl_CreateListener, or the end of OpImpl_Close; Open may find its configuration bad. *)
AfterDispose ==
  /\ disp.at = "each" /\ disp.devs = <<>> /\ disp' = Quiet
  /\ IF disp.next \in {"Closed", "Disposing"} THEN srvState' = disp.next /\ UNCHANGED <<current, made, heard>>
     ELSE \/ srvState' = "LinkError" /\ UNCHANGED <<current, made, heard>>
          \/ disp.next = "Open" /\ srvState' = "ConfigError" /\ UNCHANGED <<current, made, heard>>
          \/ /\ made < MaxListeners /\ made' = made + 1 /\ current' = made + 1
             /\ heard' = [heard EXCEPT ![made + 1] = TRUE] /\ srvState' = "Listening"
  /\ UNCHANGED <<ops, asked, isDisposing, clients, loop, dev, crossed, misused>>

Server == Opens \/ OtherTask \/ SwapClients \/ DisposeEach \/ AfterDispose

Next ==
  \/ Command \/ TimerReopens \/ Server
  \/ \E l \in Listeners : OnFdrEvent(l) \/ ListenError(l) \/ AcceptLoop(l)
  \/ \E c \in Clients : Connects(c) \/ PeerCloses(c) \/ RunTask(c) \/ SocketError(c) \/ LastSent(c) \/ SessionCloses(c)

Spec == Init /\ [][Next]_lsnVars

(* The threads run; a peer that is told the end closes. *)
Fairness ==
  /\ WF_lsnVars(Server)
  /\ \A l \in Listeners : WF_lsnVars(OnFdrEvent(l)) /\ WF_lsnVars(AcceptLoop(l))
  /\ \A c \in Clients : WF_lsnVars(RunTask(c)) /\ WF_lsnVars(SocketError(c))
                        /\ WF_lsnVars(PeerIsTold(c))

FairSpec == Spec /\ Fairness

-----------------------------------------------------------------------------

(* A listener's list is in the order of the numbers that its clients are looked for by,
   holds no more than the capacity, and those clients that are neither broken nor
   lingering (AddAcceptedClient, RemoveAcceptedClient). *)
ListIsExact ==
  \A l \in Listeners :
    /\ \A i, j \in DOMAIN clients[l] : i < j => dev[clients[l][i]].seq < dev[clients[l][j]].seq
    /\ ~isDisposing[l] => /\ Len(clients[l]) <= Capacity
                          /\ \A c \in Clients \ crossed : dev[c].owner = l /\ loop[l] # [at |-> "add", c |-> c]
                               => (c \in ToSet(clients[l]) <=> dev[c].st \in Early)

(* One listener is in use at most; the server says Listening when it hears, and
   ListenBroken when it does not (OpImpl_Reopen, OpImpl_Open, the task of OnFdrEvent_Handling). *)
OneListens ==
  /\ \A l \in 1 .. made : l # current => isDisposing[l]
  /\ current # 0 => ~isDisposing[current] /\ srvState \in {"Listening", "ListenBroken"}
  /\ srvState = "Listening" /\ disp = Quiet /\ ~heard[current]
       => loop[current].at = "error" \/ \E i \in DOMAIN ops : ops[i] = [k |-> "error", n |-> current]
  /\ srvState = "ListenBroken" /\ disp = Quiet => ~heard[current]

(* Whoever is in the list of a listener when it is disposed of is told to go, unless it
   was still being accepted (Server.hpp: the clients are disposed of with their listener). *)
NobodyIsLeftBehind ==
  \A c \in Clients \ crossed :
    LET l == dev[c].owner
    IN l # 0 /\ isDisposing[l] /\ disp.l # l /\ dev[c].st \in Early /\ loop[l] # [at |-> "add", c |-> c]
         => \E i \in DOMAIN dev[c].tasks : dev[c].tasks[i] = "dispose"

(* Nobody uses a device that was freed, and the list holds none (intrusive_ptr_add_ref and
   intrusive_ptr_release of AcceptedClients_), unless it was still being accepted. *)
FreedWhenUnused ==
  /\ misused \subseteq crossed
  /\ \A c \in Clients \ crossed :
       dev[c].st = "Destructing" => dev[c].tasks = <<>> /\ ~dev[c].fdr /\ \A l \in Listeners : c \notin ToSet(clients[l])

(* What is logged of a client is read from a device that is there. Not so: the loop has
   let go of it (FdrTcpServer.cpp:174-177). *)
LogReadsADevice == \A l \in Listeners : loop[l].at = "log" => dev[loop[l].c].st # "Destructing"

(* A client of a listener that is disposed of is told to go, also if it was just being
   accepted. Not so (Server.cpp:102): it stays in a list that nobody looks at. *)
ClientsGoWithTheirListener ==
  \A c \in Clients :
    LET l == dev[c].owner
    IN l # 0 /\ isDisposing[l] /\ disp.l # l /\ dev[c].st = "LinkReady"
         => \E i \in DOMAIN dev[c].tasks : dev[c].tasks[i] = "dispose"

(* The clients of a listener that is disposed of are freed, but for those that linger. *)
ListenersDisappear ==
  \A l \in Listeners : isDisposing[l]
    ~> \A c \in Clients \ crossed : dev[c].owner = l => dev[c].st \in {"none", "Destructing", "Lingering"}

(* Who connects to a listener in use is accepted or refused (OnFdrEvent_Handling). *)
ConnectsAreAnswered ==
  \A c \in Clients : dev[c].peer = "waiting" ~> dev[c].peer # "waiting" \/ ~heard[dev[c].owner]
=============================================================================
