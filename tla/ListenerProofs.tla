--------------------------- MODULE ListenerProofs ---------------------------
(***************************************************************************)
(* For any number of clients, of listeners and of commands, and any room   *)
(* in the lists: the list of a listener is that of its clients that are    *)
(* up, one listener is in use and the server says whether it hears, who is *)
(* in the list when it is taken is told to go, and a device is freed when  *)
(* nothing uses it any more.                                               *)
(*                                                                         *)
(* The first part is about the server and its listeners, the second about  *)
(* the clients: what one step does to one device, and what it leaves of    *)
(* the others.                                                             *)
(***************************************************************************)
EXTENDS Listener, SequenceTheorems, TLAPS

-----------------------------------------------------------------------------
(* The invariant *)

States == {"none", "Initializing", "Initialized", "LinkReady", "Lingering", "Disposing", "Destructing"}
Peers == {"none", "waiting", "refused", "open", "closed"}
Tasks == {"open", "close", "dispose", "linger", "sent"}
Owners == Listeners \cup {0}
Devices == [st : States, owner : Owners, seq : Nat, refs : Int, tasks : Seq(Tasks), fdr : BOOLEAN, peer : Peers]
Accepting == {"add", "ref", "init", "log"}
ServerStates == {"Initialized", "Closing", "Closed", "Disposing", "Listening", "ListenBroken", "LinkError", "ConfigError"}
Ops == [k : {"open", "reopen", "close", "dispose", "aclose", "alclose", "timer", "error"}, n : Nat]

(* The server's own state. *)
ServerTyped ==
  /\ srvState \in ServerStates /\ ops \in Seq(Ops) /\ current \in Owners /\ made \in Nat
  /\ disp \in [at : {"idle", "swap", "each"}, l : Owners, devs : Seq(Clients),
               next : {"none", "Open", "Reopen", "Closed", "Disposing"}]
  /\ isDisposing \in [Listeners -> BOOLEAN] /\ heard \in [Listeners -> BOOLEAN]
  /\ loop \in [Listeners -> [at : {"idle", "accept", "error"} \cup Accepting, c : Clients \cup {0}]]

(* The listener in use is the last one that was made, and there is none while
   one is disposed of; of all the others the end has begun. *)
InUse ==
  /\ made <= MaxListeners /\ current <= made
  /\ \A l \in Listeners : heard[l] => l = current
  /\ \A l \in Listeners : isDisposing[l] <=> l <= made /\ l # current
  /\ \A l \in Listeners : loop[l].at # "idle" => l <= made
  /\ disp.at = "idle" => disp = Quiet
  /\ disp.at # "idle" => current = 0 /\ disp.l <= made /\ disp.next # "none"
  /\ disp.at = "swap" => disp.l # 0 /\ disp.devs = <<>>

(* What the server says of the listener in use; an error of a listener is on its
   way only when the listener does not hear any more. *)
Errs(l) == loop[l].at = "error" \/ \E i \in 1 .. Len(ops) : ops[i] = [k |-> "error", n |-> l]
Says ==
  /\ current # 0 => srvState \in {"Listening", "ListenBroken"}
  /\ srvState \in {"Listening", "ListenBroken"} /\ disp.at = "idle" => current # 0
  /\ \A l \in Listeners : Errs(l) => ~heard[l] /\ l <= made
  /\ srvState = "Listening" /\ disp.at = "idle" => heard[current] \/ Errs(current)
  /\ srvState = "ListenBroken" /\ disp.at = "idle" => ~heard[current]

In(q, c) == \E i \in 1 .. Len(q) : q[i] = c
BySeq(q, d) == \A i, j \in 1 .. Len(q) : i < j => d[q[i]].seq < d[q[j]].seq
NotYet == {"none", "waiting", "refused"}

DevsTyped ==
  /\ dev \in [Clients -> Devices] /\ clients \in [Listeners -> Seq(Clients)]
  /\ crossed \subseteq Clients /\ misused \subseteq crossed

(* The lists, and what was taken from one to be disposed of. *)
Lists ==
  /\ BySeq(disp.devs, dev)
  /\ \A l \in Listeners : BySeq(clients[l], dev) /\ Len(clients[l]) <= Capacity
  /\ \A l \in Listeners, c \in Clients : In(clients[l], c) => dev[c].owner = l
  /\ \A c \in Clients : In(disp.devs, c) =>
       disp.l # 0 /\ dev[c].owner = disp.l /\ ~In(clients[disp.l], c)
  /\ \A l \in Listeners : loop[l].c # 0 <=> loop[l].at \in Accepting
  /\ \A l \in Listeners : loop[l].c # 0 => dev[loop[l].c].owner = l
  /\ \A l \in Listeners : loop[l].at = "add" => loop[l].c \notin crossed /\ Len(clients[l]) < Capacity

(* Who was not accepted is nowhere. *)
IsNew(c) ==
  /\ dev[c].st = "none" /\ dev[c].refs = 0 /\ dev[c].tasks = <<>> /\ ~dev[c].fdr
  /\ ~In(disp.devs, c) /\ c \notin crossed
  /\ \A l \in Listeners : ~In(clients[l], c) /\ loop[l].c # c
Known(c) == (dev[c].peer \in NotYet => IsNew(c)) /\ (dev[c].owner = 0 <=> dev[c].peer = "none")
News == \A c \in Clients : Known(c)

(* A device is freed when neither its list (or who disposes of it) nor its queue,
   the fdr thread or the accepting loop holds it. As long as it is neither broken nor
   lingering it is in its list, on the way out of it, or told to go.
   Here l: it is in the list; d: it was taken to be disposed of; a: where the
   loop is with it; g: its listener is disposing; s: its list is yet to be taken. *)
B(b) == IF b THEN 1 ELSE 0
Fine(r, l, d, a, g, s) ==
  /\ ~(l /\ d)
  /\ r.refs = B((l \/ d) /\ a # "ref") + B(r.tasks # <<>>) + B(r.fdr) + B(a \in {"add", "ref", "init"})
  /\ r.refs = 0 <=> r.st \in {"none", "Destructing"}
  /\ a \in {"add", "ref", "init"} => r.st = "Initializing" /\ r.tasks = <<>> /\ ~r.fdr
  /\ r.st \in {"Initializing", "Initialized"} => ~r.fdr
  /\ a = "add" => ~l /\ ~d
  /\ a \in {"ref", "init"} => l \/ d
  /\ a # "add" => /\ ~g => (l <=> r.st \in Early)
                  /\ r.st \in Early => l \/ d \/ In(r.tasks, "dispose")
                  /\ g /\ ~s => ~l

LoopAt(c) == IF loop[dev[c].owner].c = c THEN loop[dev[c].owner].at ELSE "log"
Kept(c) ==
  dev[c].owner # 0 => Fine(dev[c], In(clients[dev[c].owner], c), In(disp.devs, c), LoopAt(c),
                           isDisposing[dev[c].owner], disp.at = "swap" /\ disp.l = dev[c].owner)
AllKept == \A c \in Clients \ crossed : Kept(c)

Inv == ServerTyped /\ InUse /\ Says /\ DevsTyped /\ Lists /\ News /\ AllKept

(* The bounds are numbers. *)
ServerOK == MaxClients \in Nat /\ Capacity \in Nat /\ MaxListeners \in Nat /\ MaxOps \in Nat

-----------------------------------------------------------------------------
(* The server and its listeners *)

ServerInv == ServerTyped /\ InUse /\ Says

(* The queue of the server is one longer, or one shorter. *)
LEMMA OpsGrow ==
  ASSUME ops \in Seq(Ops), NEW o \in Ops, ops' = Append(ops, o)
  PROVE  /\ ops' \in Seq(Ops)
         /\ \A x : (\E i \in 1 .. Len(ops') : ops'[i] = x) <=> (x = o \/ \E i \in 1 .. Len(ops) : ops[i] = x)
<1>1. /\ ops' \in Seq(Ops) /\ Len(ops') = Len(ops) + 1 /\ ops'[Len(ops) + 1] = o
      /\ Len(ops) \in Nat /\ \A i \in 1 .. Len(ops) : ops'[i] = ops[i]
  OBVIOUS
<1>2. \A i \in 1 .. Len(ops') : i \in 1 .. Len(ops) \/ i = Len(ops) + 1
  BY <1>1
<1>3. 1 .. Len(ops) \subseteq 1 .. Len(ops') /\ Len(ops) + 1 \in 1 .. Len(ops')
  BY <1>1
<1> QED
  BY <1>1, <1>2, <1>3

(* The queue of the server is one shorter; what it had is its head or still there. *)
LEMMA OpsShrink ==
  ASSUME ops \in Seq(Ops), ops # <<>>, ops' = Tail(ops)
  PROVE  /\ ops' \in Seq(Ops) /\ Head(ops) \in Ops
         /\ \A x : (\E i \in 1 .. Len(ops') : ops'[i] = x) => \E i \in 1 .. Len(ops) : ops[i] = x
         /\ \A x : (\E i \in 1 .. Len(ops) : ops[i] = x) => x = Head(ops) \/ \E i \in 1 .. Len(ops') : ops'[i] = x
<1>1. /\ ops' \in Seq(Ops) /\ Len(ops') = Len(ops) - 1 /\ Head(ops) = ops[1] /\ Head(ops) \in Ops
      /\ Len(ops) \in Nat \ {0} /\ \A i \in 1 .. Len(ops') : ops'[i] = ops[i + 1]
  OBVIOUS
<1>2. \A i \in 1 .. Len(ops') : i + 1 \in 1 .. Len(ops)
  BY <1>1
<1>3. \A i \in 1 .. Len(ops) : i = 1 \/ (i - 1 \in 1 .. Len(ops') /\ ops'[i - 1] = ops[i])
  BY <1>1
<1> QED
  BY ZenonT(40), <1>1, <1>2, <1>3

(* The loop goes on with a client, or begins or ends. *)
LEMMA LoopGoesOn ==
  ASSUME ServerInv, UNCHANGED <<serverVars, isDisposing, heard>>,
         NEW l \in Listeners, NEW p \in {"idle", "accept"} \cup Accepting, NEW c \in Clients \cup {0},
         loop' = [loop EXCEPT ![l] = [at |-> p, c |-> c]], loop[l].at # "error", p # "idle" => l <= made
  PROVE  ServerInv'
<1>1. ServerTyped'
  BY DEF ServerInv, ServerTyped, serverVars
<1>2. /\ loop' \in [Listeners -> [at : {"idle", "accept", "error"} \cup Accepting, c : Clients \cup {0}]]
      /\ loop'[l].at = p /\ \A x \in Listeners : x # l => loop'[x] = loop[x]
  BY DEF ServerInv, ServerTyped
<1>3. InUse'
  BY <1>2 DEF ServerInv, ServerTyped, InUse, serverVars, Quiet
<1>4. \A x \in Listeners : Errs(x)' <=> Errs(x)
  BY <1>2 DEF Errs, serverVars, Accepting
<1>5. Says'
  BY <1>4 DEF ServerInv, ServerTyped, Says, serverVars, Owners
<1> QED
  BY <1>1, <1>3, <1>5 DEF ServerInv

(* A device does something. *)
LEMMA ServerStays ==
  ASSUME ServerInv, UNCHANGED <<serverVars, isDisposing, heard, loop>>
  PROVE  ServerInv'
BY DEF ServerInv, ServerTyped, InUse, Says, Errs, serverVars

(* The server is told to do something (OnDevice_Command, the reopening timer). *)
LEMMA IsAsked == ServerInv /\ (Command \/ TimerReopens) => ServerInv'
<1> SUFFICES ASSUME ServerInv, Command \/ TimerReopens PROVE ServerInv'
  OBVIOUS
<1>1. PICK o \in Ops : ops' = Append(ops, o) /\ o.k # "error"
  BY DEF Command, Commands, TimerReopens, Ops
<1>2. UNCHANGED <<srvState, current, made, disp, isDisposing, heard, loop>>
  BY DEF Command, TimerReopens, listenerVars
<1>3. ops \in Seq(Ops)
  BY DEF ServerInv, ServerTyped
<1>4. ops' \in Seq(Ops) /\ \A l : Errs(l)' <=> Errs(l)
  BY <1>1, <1>2, <1>3, OpsGrow DEF Errs
<1>5. ServerTyped' /\ InUse'
  BY <1>2, <1>4 DEF ServerInv, ServerTyped, InUse
<1>6. Says'
  BY <1>2, <1>4 DEF ServerInv, Says
<1> QED
  BY <1>5, <1>6 DEF ServerInv

(* The socket of a listener fails, and the loop tells the server. *)
LEMMA ListenerErrs ==
  ASSUME ServerInv, NEW l \in Listeners, ListenError(l) \/ TellError(l)
  PROVE  ServerInv'
<1>1. CASE ListenError(l)
  <2>1. /\ UNCHANGED <<srvState, ops, current, made, disp, isDisposing>> /\ l = current /\ l <= made
        /\ heard' = [heard EXCEPT ![l] = FALSE] /\ loop' = [loop EXCEPT ![l].at = "error"]
    BY <1>1 DEF ListenError, ServerInv, InUse, ServerTyped
  <2>2. /\ ~heard'[l] /\ loop'[l].at = "error" /\ \A x \in Listeners : x # l => heard'[x] = heard[x] /\ loop'[x] = loop[x]
        /\ heard' \in [Listeners -> BOOLEAN]
        /\ loop' \in [Listeners -> [at : {"idle", "accept", "error"} \cup Accepting, c : Clients \cup {0}]]
    BY <2>1 DEF ServerInv, ServerTyped
  <2>3. ServerTyped'
    BY <2>1, <2>2 DEF ServerInv, ServerTyped
  <2>4. InUse'
    BY <2>1, <2>2 DEF ServerInv, InUse
  <2>5. Errs(l)' /\ \A x \in Listeners : x # l => (Errs(x)' <=> Errs(x))
    BY <2>1, <2>2 DEF Errs
  <2>6. srvState = "ListenBroken" /\ disp.at = "idle" => ~heard[l]
    BY <2>1 DEF ServerInv, Says
  <2>7. Says'
    BY <2>1, <2>2, <2>5, <2>6 DEF ServerInv, Says
  <2> QED
    BY <2>3, <2>4, <2>7 DEF ServerInv
<1>2. CASE TellError(l)
  <2> DEFINE o == [k |-> "error", n |-> l]
  <2>1. /\ UNCHANGED <<srvState, current, made, disp, isDisposing, heard>> /\ loop[l].at = "error"
        /\ ops' = Append(ops, o) /\ loop' = [loop EXCEPT ![l] = NoLoop] /\ o \in Ops
    BY <1>2 DEF TellError, Listeners, Ops
  <2>2. /\ loop'[l] = NoLoop /\ \A x \in Listeners : x # l => loop'[x] = loop[x]
        /\ loop' \in [Listeners -> [at : {"idle", "accept", "error"} \cup Accepting, c : Clients \cup {0}]]
    BY <2>1 DEF ServerInv, ServerTyped, NoLoop
  <2>3. ops' \in Seq(Ops) /\ \A x : (\E i \in 1 .. Len(ops') : ops'[i] = x) <=> (x = o \/ \E i \in 1 .. Len(ops) : ops[i] = x)
    BY <2>1, OpsGrow DEF ServerInv, ServerTyped
  <2>4. \A x \in Listeners : Errs(x)' <=> Errs(x)
    <3> SUFFICES ASSUME NEW x \in Listeners PROVE Errs(x)' <=> Errs(x)
      OBVIOUS
    <3>1. [k |-> "error", n |-> x] = o <=> x = l
      OBVIOUS
    <3>2. CASE x = l
      BY <2>1, <2>3, <3>2 DEF Errs
    <3>3. CASE x # l
      BY <2>2, <2>3, <3>1, <3>3 DEF Errs
    <3> QED
      BY <3>2, <3>3
  <2>5. ServerTyped'
    BY <2>1, <2>2, <2>3 DEF ServerInv, ServerTyped
  <2>6. InUse'
    BY <2>1, <2>2 DEF ServerInv, InUse, NoLoop
  <2>7. Says'
    BY <2>1, <2>4 DEF ServerInv, ServerTyped, Says, Owners
  <2> QED
    BY <2>5, <2>6, <2>7 DEF ServerInv
<1> QED
  BY <1>1, <1>2

(* OpImpl_Open and OpImpl_Reopen: the listener in use, if any, is to be disposed of. *)
LEMMA ServerOpens == ServerInv /\ Opens => ServerInv'
<1> SUFFICES ASSUME ServerInv, Opens PROVE ServerInv'
  OBVIOUS
<1> DEFINE next == DisposesFor(Head(ops).k)
<1>1. /\ disp = Quiet /\ ops # <<>> /\ ops' = Tail(ops) /\ next # "none" /\ UNCHANGED <<made, loop>>
      /\ disp' = [at |-> IF current = 0 THEN "each" ELSE "swap", l |-> current, devs |-> <<>>, next |-> next]
      /\ current' = 0 /\ isDisposing' = [l \in Listeners |-> isDisposing[l] \/ l = current]
      /\ heard' = [l \in Listeners |-> heard[l] /\ l # current]
      /\ srvState' \in {srvState, "Closing"}
  BY DEF Opens, DisposeListener
<1>2. next \in {"none", "Open", "Reopen", "Closed", "Disposing"}
  BY DEF DisposesFor
<1> HIDE DEF next
<1>3. /\ ops' \in Seq(Ops)
      /\ \A x : (\E i \in 1 .. Len(ops') : ops'[i] = x) => \E i \in 1 .. Len(ops) : ops[i] = x
  BY <1>1, OpsShrink DEF ServerInv, ServerTyped
<1>4. \A l \in Listeners : Errs(l)' => Errs(l)
  BY <1>1, <1>3 DEF Errs
<1>5. ServerTyped'
  <2>1. disp'.at \in {"swap", "each"} /\ disp'.l = current /\ disp'.devs = <<>> /\ disp'.next = next
    BY <1>1
  <2>2. <<>> \in Seq(Clients)
    OBVIOUS
  <2>3. disp' \in [at : {"idle", "swap", "each"}, l : Owners, devs : Seq(Clients),
                    next : {"none", "Open", "Reopen", "Closed", "Disposing"}]
    BY <1>1, <1>2, <2>2 DEF ServerInv, ServerTyped
  <2>4. srvState' \in ServerStates /\ current' \in Owners /\ made' \in Nat
    BY <1>1 DEF ServerInv, ServerTyped, ServerStates, Owners
  <2>5. isDisposing' \in [Listeners -> BOOLEAN] /\ heard' \in [Listeners -> BOOLEAN] /\ UNCHANGED loop
    BY <1>1 DEF ServerInv, ServerTyped
  <2> QED
    BY <1>3, <2>3, <2>4, <2>5 DEF ServerInv, ServerTyped
<1>6. InUse'
  <2>0. \A l \in Listeners : (isDisposing'[l] <=> isDisposing[l] \/ l = current) /\ (heard'[l] <=> heard[l] /\ l # current)
    BY <1>1, Zenon
  <2>1. \A l \in Listeners : (isDisposing'[l] <=> l <= made /\ l # 0) /\ ~heard'[l]
    BY <2>0 DEF ServerInv, ServerTyped, InUse, Listeners, Owners
  <2>2. /\ disp'.at \in {"swap", "each"} /\ disp'.l = current /\ disp'.devs = <<>> /\ disp'.next # "none"
        /\ disp'.at = "swap" => current # 0
    BY <1>1
  <2> QED
    BY <1>1, <2>1, <2>2 DEF ServerInv, ServerTyped, InUse
<1>7. Says'
  BY <1>1, <1>4 DEF ServerInv, ServerTyped, Says, Owners
<1> QED
  BY <1>5, <1>6, <1>7 DEF ServerInv

(* The other tasks of the server: close, dispose, by number, an error of a listener. *)
LEMMA OtherTaskRuns == ServerInv /\ OtherTask => ServerInv'
<1> SUFFICES ASSUME ServerInv, OtherTask PROVE ServerInv'
  OBVIOUS
<1>1. /\ disp = Quiet /\ ops # <<>> /\ ops' = Tail(ops)
      /\ UNCHANGED <<current, made, disp, isDisposing, heard, loop>>
      /\ \/ Head(ops).k = "error" /\ SetBroken(Head(ops).n)
         \/ Head(ops).k # "error" /\ UNCHANGED srvState
  BY DEF OtherTask, listenerVars
<1>2. /\ ops' \in Seq(Ops) /\ Head(ops) \in Ops
      /\ \A x : (\E i \in 1 .. Len(ops') : ops'[i] = x) => \E i \in 1 .. Len(ops) : ops[i] = x
      /\ \A x : (\E i \in 1 .. Len(ops) : ops[i] = x) => x = Head(ops) \/ \E i \in 1 .. Len(ops') : ops'[i] = x
      /\ Head(ops) = ops[1] /\ 1 \in 1 .. Len(ops)
  BY <1>1, OpsShrink DEF ServerInv, ServerTyped
<1>3. \A l \in Listeners : Errs(l)' => Errs(l)
  BY <1>1, <1>2 DEF Errs
<1>4. \A l \in Listeners : Errs(l) => Errs(l)' \/ Head(ops) = [k |-> "error", n |-> l]
  BY <1>1, <1>2 DEF Errs
<1>5. srvState' \in {srvState, "ListenBroken"}
  BY <1>1 DEF SetBroken
<1>6. ServerTyped'
  BY <1>1, <1>2, <1>5 DEF ServerInv, ServerTyped, ServerStates
<1>7. InUse'
  BY <1>1 DEF ServerInv, InUse
<1>8. CASE Head(ops).k # "error"
  <2>1. \A l \in Listeners : Errs(l)' <=> Errs(l)
    BY <1>3, <1>4, <1>8
  <2>2. Says'
    BY <1>1, <1>8, <2>1 DEF ServerInv, ServerTyped, Says, Owners
  <2> QED
    BY <1>6, <1>7, <2>2 DEF ServerInv
<1>9. CASE Head(ops).k = "error"
  <2> DEFINE n == Head(ops).n
  <2>1. Head(ops) = [k |-> "error", n |-> n]
    BY <1>2, <1>9 DEF Ops
  <2>2. srvState' = IF current = n /\ srvState = "Listening" THEN "ListenBroken" ELSE srvState
    BY <1>1, <1>9 DEF SetBroken
  <2>3. n \in Listeners => Errs(n)
    BY <1>2, <2>1 DEF Errs
  <2>4. \A l \in Listeners : l # n => (Errs(l)' <=> Errs(l))
    BY <1>3, <1>4
  <2> HIDE DEF n
  <2>5. current = n /\ current # 0 => ~heard[current]
    BY <2>3 DEF ServerInv, ServerTyped, Says, Owners
  <2>6. Says'
    BY <1>1, <1>3, <2>2, <2>4, <2>5 DEF ServerInv, ServerTyped, Says, Owners
  <2> QED
    BY <1>6, <1>7, <2>6 DEF ServerInv
<1> QED
  BY <1>8, <1>9

(* DeviceListener::Dispose, whose steps leave the server alone but for where it is. *)
LEMMA ServerDisposes == ServerInv /\ DevsTyped /\ (SwapClients \/ DisposeEach) => ServerInv'
<1> SUFFICES ASSUME ServerInv, DevsTyped, SwapClients \/ DisposeEach PROVE ServerInv'
  OBVIOUS
<1>1. /\ UNCHANGED <<srvState, ops, current, made, isDisposing, heard, loop>> /\ disp.at # "idle"
      /\ disp'.at = "each" /\ disp'.l = disp.l /\ disp'.next = disp.next
      /\ disp' \in [at : {"idle", "swap", "each"}, l : Owners, devs : Seq(Clients),
                     next : {"none", "Open", "Reopen", "Closed", "Disposing"}]
  <2>1. CASE SwapClients
    BY <2>1 DEF SwapClients, ServerInv, ServerTyped, InUse, DevsTyped, Owners
  <2>2. CASE DisposeEach
    <3>1. disp.devs \in Seq(Clients) /\ disp.devs # <<>> /\ disp' = [disp EXCEPT !.devs = Tail(disp.devs)]
      BY <2>2 DEF DisposeEach, ServerInv, ServerTyped
    <3>2. Tail(disp.devs) \in Seq(Clients)
      BY <3>1
    <3> QED
      BY <2>2, <3>1, <3>2 DEF DisposeEach, ServerInv, ServerTyped, listenerVars
  <2> QED
    BY <2>1, <2>2
<1>2. ServerTyped'
  BY <1>1 DEF ServerInv, ServerTyped
<1>3. InUse'
  BY <1>1 DEF ServerInv, InUse
<1>4. Says'
  BY <1>1 DEF ServerInv, Says, Errs
<1> QED
  BY <1>2, <1>3, <1>4 DEF ServerInv

(* What follows a Dispose: a new listener, or the end. *)
LEMMA ServerHasDisposed == ServerOK /\ ServerInv /\ AfterDispose => ServerInv'
<1> SUFFICES ASSUME ServerOK, ServerInv, AfterDispose PROVE ServerInv'
  OBVIOUS
<1>1. /\ disp.at = "each" /\ disp' = Quiet /\ UNCHANGED <<ops, isDisposing, loop>> /\ current = 0
      /\ disp.next # "none"
  BY DEF AfterDispose, ServerInv, InUse
<1>2. \A l : Errs(l)' <=> Errs(l)
  BY <1>1 DEF Errs
<1>3. disp' \in [at : {"idle", "swap", "each"}, l : Owners, devs : Seq(Clients),
                 next : {"none", "Open", "Reopen", "Closed", "Disposing"}]
  <2>1. <<>> \in Seq(Clients)
    OBVIOUS
  <2> QED
    BY <1>1, <2>1 DEF Quiet, Owners
<1>4. CASE UNCHANGED <<current, made, heard>> /\ srvState' \in {"Closed", "Disposing", "LinkError", "ConfigError"}
  <2>1. ServerTyped'
    BY <1>1, <1>3, <1>4 DEF ServerInv, ServerTyped, ServerStates
  <2>2. InUse'
    BY <1>1, <1>4 DEF ServerInv, InUse, Quiet
  <2>3. Says'
    BY <1>1, <1>2, <1>4 DEF ServerInv, Says
  <2> QED
    BY <2>1, <2>2, <2>3 DEF ServerInv
<1>5. CASE /\ made < MaxListeners /\ made' = made + 1 /\ current' = made + 1
           /\ heard' = [heard EXCEPT ![made + 1] = TRUE] /\ srvState' = "Listening"
  <2>1. made \in Nat /\ made + 1 \in Listeners /\ heard \in [Listeners -> BOOLEAN]
    BY <1>5 DEF ServerOK, Listeners, ServerInv, ServerTyped
  <2>2. /\ heard' \in [Listeners -> BOOLEAN] /\ heard'[made + 1]
        /\ \A l \in Listeners : l # made + 1 => heard'[l] = heard[l]
    BY <1>5, <2>1
  <2>3. \A l \in Listeners : ~heard[l]
    BY <1>1 DEF ServerInv, InUse, Listeners
  <2>4. ServerTyped'
    BY <1>1, <1>3, <1>5, <2>1, <2>2 DEF ServerInv, ServerTyped, ServerStates, Owners
  <2>5. InUse'
    <3>1. made' <= MaxListeners /\ current' <= made'
      BY <1>5, <2>1 DEF ServerOK
    <3>2. \A l \in Listeners : (isDisposing[l] <=> l <= made) /\ l # 0
      BY <1>1 DEF ServerInv, InUse, Listeners
    <3>3. \A l \in Listeners : l <= made <=> l <= made + 1 /\ l # made + 1
      BY <2>1 DEF Listeners
    <3>4. \A l \in Listeners : isDisposing'[l] <=> l <= made' /\ l # current'
      BY <1>1, <1>5, <3>2, <3>3
    <3>5. \A l \in Listeners : loop'[l].at # "idle" => l <= made'
      BY <1>1, <1>5, <3>3 DEF ServerInv, InUse
    <3> QED
      BY <1>1, <1>5, <2>2, <2>3, <3>1, <3>4, <3>5 DEF InUse, Quiet
  <2>6. \A l \in Listeners : Errs(l) => l <= made /\ l <= made + 1 /\ l # made + 1
    BY <2>1 DEF ServerInv, Says, Listeners
  <2>7. Says'
    BY <1>1, <1>2, <1>5, <2>1, <2>2, <2>3, <2>6 DEF Says, Listeners
  <2> QED
    BY <2>4, <2>5, <2>7 DEF ServerInv
<1> QED
  BY <1>1, <1>4, <1>5 DEF AfterDispose

(* The accepting loop says nothing of the server but that the socket failed. *)
LEMMA LoopRuns ==
  ASSUME ServerInv, DevsTyped, NEW l \in Listeners,
         OnFdrEvent(l) \/ Accept(l) \/ AddToList(l) \/ AddRef(l) \/ InitializeAndOpen(l) \/ LogAccepted(l)
  PROVE  ServerInv'
<1>1. UNCHANGED <<serverVars, isDisposing, heard>>
  BY DEF OnFdrEvent, Accept, AddToList, AddRef, InitializeAndOpen, LogAccepted, serverVars
<1>2. loop[l] \in [at : {"idle", "accept", "error"} \cup Accepting, c : Clients \cup {0}]
  BY DEF ServerInv, ServerTyped
<1>9. \A p : [loop[l] EXCEPT !.at = p] = [at |-> p, c |-> loop[l].c]
  BY <1>2
<1>3. PICK p \in {"idle", "accept"} \cup Accepting, c \in Clients \cup {0} :
        loop' = [loop EXCEPT ![l] = [at |-> p, c |-> c]]
  <2>1. CASE OnFdrEvent(l)
    <3>1. loop' = [loop EXCEPT ![l] = [at |-> "accept", c |-> loop[l].c]]
      BY <1>9, <2>1 DEF OnFdrEvent
    <3> QED
      BY <1>2, <3>1
  <2>2. CASE Accept(l)
    BY <2>2 DEF Accept, NoLoop, Waiting, Accepting
  <2>3. CASE AddToList(l)
    <3>1. loop' = [loop EXCEPT ![l] = [at |-> "ref", c |-> loop[l].c]]
      BY <1>9, <2>3 DEF AddToList
    <3> QED
      BY <1>2, <3>1 DEF Accepting
  <2>4. CASE AddRef(l)
    <3>1. \/ loop' = [loop EXCEPT ![l] = [at |-> "init", c |-> loop[l].c]]
          \/ loop' = [loop EXCEPT ![l] = [at |-> "idle", c |-> 0]]
      BY <1>9, <2>4 DEF AddRef, NoLoop
    <3> QED
      BY <1>2, <3>1 DEF Accepting
  <2>5. CASE InitializeAndOpen(l)
    <3>1. loop' = [loop EXCEPT ![l] = [at |-> "log", c |-> loop[l].c]]
      BY <1>9, <2>5 DEF InitializeAndOpen
    <3> QED
      BY <1>2, <3>1 DEF Accepting
  <2>6. CASE LogAccepted(l)
    BY <2>6 DEF LogAccepted, NoLoop
  <2> QED
    BY <2>1, <2>2, <2>3, <2>4, <2>5, <2>6
<1>4. loop[l].at # "error" /\ l <= made
  BY DEF OnFdrEvent, Accept, AddToList, AddRef, InitializeAndOpen, LogAccepted, ServerInv, InUse
<1> QED
  BY <1>1, <1>3, <1>4, LoopGoesOn

(* One step, as far as the server and its listeners are concerned. *)
LEMMA ServerStep == ServerOK /\ ServerInv /\ DevsTyped /\ [Next]_lsnVars => ServerInv'
<1> SUFFICES ASSUME ServerOK, ServerInv, DevsTyped, [Next]_lsnVars PROVE ServerInv'
  OBVIOUS
<1>1. CASE \E c \in Clients : \/ Connects(c) \/ PeerCloses(c) \/ RunTask(c) \/ SocketError(c) \/ LastSent(c)
                             \/ SessionCloses(c)
  <2>1. UNCHANGED <<serverVars, isDisposing, heard, loop>>
    BY <1>1 DEF Connects, PeerCloses, RunTask, SocketError, LastSent, SessionCloses, listenerVars
  <2> QED
    BY <2>1, ServerStays
<1>2. CASE \E l \in Listeners : OnFdrEvent(l) \/ ListenError(l) \/ AcceptLoop(l)
  BY <1>2, LoopRuns, ListenerErrs DEF AcceptLoop
<1>3. CASE UNCHANGED lsnVars
  BY <1>3, ServerStays DEF lsnVars, listenerVars
<1>4. CASE Server
  BY <1>4, ServerOpens, OtherTaskRuns, ServerDisposes, ServerHasDisposed DEF Server
<1> QED
  BY <1>1, <1>2, <1>3, <1>4, IsAsked DEF Next

-----------------------------------------------------------------------------
(* Lists in the order of numbers *)

(* A list without its i-th member, by its members and in its order. *)
LEMMA RemoveKeeps ==
  ASSUME NEW q \in Seq(Clients), NEW d, BySeq(q, d), NEW i \in 1 .. Len(q), \A c \in Clients : d[c].seq \in Nat
  PROVE  /\ RemoveAt(q, i) \in Seq(Clients) /\ Len(RemoveAt(q, i)) <= Len(q) /\ BySeq(RemoveAt(q, i), d)
         /\ \A c : In(RemoveAt(q, i), c) <=> In(q, c) /\ c # q[i]
<1> DEFINE a == SubSeq(q, 1, i - 1)
           b == SubSeq(q, i + 1, Len(q))
           u == a \o b
<1>1. /\ a \in Seq(Clients) /\ Len(a) = i - 1 /\ \A j \in 1 .. i - 1 : a[j] = q[j]
  BY SubSeqProperties
<1>2. /\ b \in Seq(Clients) /\ Len(b) = Len(q) - i /\ \A j \in 1 .. (Len(q) - i) : b[j] = q[i + j]
  BY SubSeqProperties
<1> HIDE DEF a, b
<1>3. /\ u \in Seq(Clients) /\ Len(u) = Len(q) - 1
      /\ \A j \in 1 .. (Len(q) - 1) : u[j] = IF j < i THEN q[j] ELSE q[j + 1]
  <2>1. /\ u \in Seq(Clients) /\ Len(u) = Len(a) + Len(b)
        /\ \A j \in 1 .. Len(a) + Len(b) : u[j] = IF j <= Len(a) THEN a[j] ELSE b[j - Len(a)]
    BY <1>1, <1>2, ConcatProperties
  <2>2. i \in Nat \ {0} /\ Len(q) \in Nat /\ i <= Len(q)
    OBVIOUS
  <2>3. ASSUME NEW j \in 1 .. (Len(q) - 1)
        PROVE  u[j] = IF j < i THEN q[j] ELSE q[j + 1]
    <3>1. CASE j < i
      BY <1>1, <1>2, <2>1, <2>2, <3>1
    <3>2. CASE ~(j < i)
      <4>1. j - Len(a) \in 1 .. (Len(q) - i) /\ i + (j - Len(a)) = j + 1 /\ ~(j <= Len(a)) /\ j \in 1 .. Len(a) + Len(b)
        BY <1>1, <1>2, <2>2, <3>2
      <4> QED
        BY <1>2, <2>1, <3>2, <4>1
    <3> QED
      BY <3>1, <3>2
  <2> QED
    BY <1>1, <1>2, <2>1, <2>2, <2>3
<1>4. u = RemoveAt(q, i)
  BY DEF RemoveAt, a, b
<1> HIDE DEF u
<1>5. BySeq(u, d)
  <2> SUFFICES ASSUME NEW j \in 1 .. Len(u), NEW k \in 1 .. Len(u), j < k PROVE d[u[j]].seq < d[u[k]].seq
    BY DEF BySeq
  <2> DEFINE P(n) == IF n < i THEN n ELSE n + 1
  <2>1. P(j) \in 1 .. Len(q) /\ P(k) \in 1 .. Len(q) /\ P(j) < P(k)
    BY <1>3
  <2>2. u[j] = q[P(j)] /\ u[k] = q[P(k)]
    BY <1>3
  <2> QED
    BY <2>1, <2>2 DEF BySeq
<1>6. \A j \in 1 .. Len(q) : j # i => q[j] # q[i]
  BY DEF BySeq
<1>7. \A c : In(u, c) => In(q, c) /\ c # q[i]
  <2> SUFFICES ASSUME NEW c, NEW j \in 1 .. Len(u), u[j] = c PROVE In(q, c) /\ c # q[i]
    BY DEF In
  <2>1. CASE j < i
    <3>1. j \in 1 .. Len(q) /\ j # i /\ q[j] = c
      BY <1>3, <2>1
    <3> QED
      BY <1>6, <3>1 DEF In
  <2>2. CASE ~(j < i)
    <3>1. j + 1 \in 1 .. Len(q) /\ j + 1 # i /\ q[j + 1] = c
      BY <1>3, <2>2
    <3> QED
      BY <1>6, <3>1 DEF In
  <2> QED
    BY <2>1, <2>2
<1>8. \A c : In(q, c) /\ c # q[i] => In(u, c)
  <2> SUFFICES ASSUME NEW c, NEW j \in 1 .. Len(q), q[j] = c, c # q[i] PROVE In(u, c)
    BY DEF In
  <2>1. CASE j < i
    <3>1. j \in 1 .. Len(u) /\ u[j] = c
      BY <1>3, <2>1
    <3> QED
      BY <3>1 DEF In
  <2>2. CASE ~(j < i)
    <3>1. j - 1 \in 1 .. Len(u) /\ u[j - 1] = c
      BY <1>3, <2>2
    <3> QED
      BY <3>1 DEF In
  <2> QED
    BY <2>1, <2>2
<1> QED
  BY <1>3, <1>4, <1>5, <1>7, <1>8

(* A list without its head, by its members and in its order. *)
LEMMA TailKeeps ==
  ASSUME NEW q \in Seq(Clients), q # <<>>, NEW d, BySeq(q, d), \A c \in Clients : d[c].seq \in Nat
  PROVE  /\ Tail(q) \in Seq(Clients) /\ Head(q) \in Clients /\ BySeq(Tail(q), d) /\ In(q, Head(q))
         /\ \A c : In(Tail(q), c) <=> In(q, c) /\ c # Head(q)
<1> DEFINE u == Tail(q)
<1>1. /\ u \in Seq(Clients) /\ Len(u) = Len(q) - 1 /\ \A i \in 1 .. Len(u) : u[i] = q[i + 1]
      /\ Len(q) \in Nat \ {0} /\ Head(q) = q[1] /\ Head(q) \in Clients
  OBVIOUS
<1> HIDE DEF u
<1>2. BySeq(u, d)
  <2> SUFFICES ASSUME NEW j \in 1 .. Len(u), NEW k \in 1 .. Len(u), j < k PROVE d[u[j]].seq < d[u[k]].seq
    BY DEF BySeq
  <2>1. j + 1 \in 1 .. Len(q) /\ k + 1 \in 1 .. Len(q) /\ j + 1 < k + 1
    BY <1>1
  <2> QED
    BY <1>1, <2>1 DEF BySeq
<1>3. \A j \in 1 .. Len(q) : j # 1 => q[j] # q[1]
  BY <1>1 DEF BySeq
<1>4. \A c : In(u, c) => In(q, c) /\ c # Head(q)
  <2> SUFFICES ASSUME NEW c, NEW j \in 1 .. Len(u), u[j] = c PROVE In(q, c) /\ c # Head(q)
    BY DEF In
  <2>1. j + 1 \in 1 .. Len(q) /\ j + 1 # 1 /\ q[j + 1] = c
    BY <1>1
  <2> QED
    BY <1>1, <1>3, <2>1 DEF In
<1>5. \A c : In(q, c) /\ c # Head(q) => In(u, c)
  <2> SUFFICES ASSUME NEW c, NEW j \in 1 .. Len(q), q[j] = c, c # Head(q) PROVE In(u, c)
    BY DEF In
  <2>1. j - 1 \in 1 .. Len(u) /\ u[j - 1] = c
    BY <1>1
  <2> QED
    BY <2>1 DEF In
<1>6. In(q, Head(q))
  BY <1>1 DEF In
<1> QED
  BY <1>1, <1>2, <1>4, <1>5, <1>6 DEF u

(* A sequence with one more at the end, by its members. *)
LEMMA AppendKeeps ==
  ASSUME NEW X, NEW q \in Seq(X), NEW x \in X
  PROVE  /\ Append(q, x) \in Seq(X) /\ Len(Append(q, x)) = Len(q) + 1 /\ Append(q, x) # <<>>
         /\ \A y : In(Append(q, x), y) <=> In(q, y) \/ y = x
<1> DEFINE u == Append(q, x)
<1>1. /\ u \in Seq(X) /\ Len(u) = Len(q) + 1 /\ u[Len(q) + 1] = x /\ Len(q) \in Nat
      /\ \A i \in 1 .. Len(q) : u[i] = q[i]
  OBVIOUS
<1> HIDE DEF u
<1>2. \A i \in 1 .. Len(u) : i \in 1 .. Len(q) \/ i = Len(q) + 1
  BY <1>1
<1>3. 1 .. Len(q) \subseteq 1 .. Len(u) /\ Len(q) + 1 \in 1 .. Len(u)
  BY <1>1
<1>4. \A y : In(u, y) <=> In(q, y) \/ y = x
  BY <1>1, <1>2, <1>3 DEF In
<1> QED
  BY <1>1, <1>4 DEF u

-----------------------------------------------------------------------------
(* Devices *)

(* A device with one user less (intrusive_ptr_release). *)
LEMMA ReleasedIs ==
  ASSUME NEW r \in Devices
  PROVE  /\ Released(r) \in Devices /\ Released(r).refs = r.refs - 1
         /\ Released(r).st = (IF r.refs = 1 THEN "Destructing" ELSE r.st)
         /\ Released(r).owner = r.owner /\ Released(r).seq = r.seq /\ Released(r).tasks = r.tasks
         /\ Released(r).fdr = r.fdr /\ Released(r).peer = r.peer
<1>1. CASE r.refs = 1
  <2>1. Released(r) = [r EXCEPT !.refs = 0, !.st = "Destructing"]
    BY <1>1 DEF Released
  <2>2. "Destructing" \in States /\ 0 \in Int /\ r.refs - 1 = 0
    BY <1>1 DEF States
  <2> QED
    BY <1>1, <2>1, <2>2 DEF Devices
<1>2. CASE r.refs # 1
  <2>1. Released(r) = [r EXCEPT !.refs = r.refs - 1] /\ r.refs - 1 \in Int
    BY <1>2 DEF Released, Devices
  <2> QED
    BY <1>2, <2>1 DEF Devices
<1> QED
  BY <1>1, <1>2

(* A device with one task more (AsyncOpQueue: the first holds the device). *)
LEMMA PostedIs ==
  ASSUME NEW r \in Devices, NEW t \in Tasks
  PROVE  /\ Posted(r, t) \in Devices /\ Posted(r, t).refs = r.refs + B(r.tasks = <<>>)
         /\ Posted(r, t).st = r.st /\ Posted(r, t).owner = r.owner /\ Posted(r, t).seq = r.seq
         /\ Posted(r, t).tasks = Append(r.tasks, t) /\ Posted(r, t).tasks # <<>>
         /\ In(Posted(r, t).tasks, "dispose") <=> In(r.tasks, "dispose") \/ t = "dispose"
         /\ Posted(r, t).fdr = r.fdr /\ Posted(r, t).peer = r.peer
<1>1. r.tasks \in Seq(Tasks)
  BY DEF Devices
<1>2. /\ Append(r.tasks, t) \in Seq(Tasks) /\ Append(r.tasks, t) # <<>>
      /\ In(Append(r.tasks, t), "dispose") <=> In(r.tasks, "dispose") \/ t = "dispose"
  BY <1>1, AppendKeeps
<1>3. Posted(r, t) = [r EXCEPT !.tasks = Append(r.tasks, t), !.refs = r.refs + B(r.tasks = <<>>)]
  <2>1. CASE r.tasks = <<>>
    BY <2>1 DEF Posted, B
  <2>2. CASE r.tasks # <<>>
    <3>1. r.refs + 0 = r.refs
      BY DEF Devices
    <3> QED
      BY <2>2, <3>1 DEF Posted, B
  <2> QED
    BY <2>1, <2>2
<1>4. r.refs + B(r.tasks = <<>>) \in Int
  BY DEF B, Devices
<1> HIDE DEF B
<1> QED
  BY <1>2, <1>3, <1>4 DEF Devices

ClientInv == DevsTyped /\ Lists /\ News /\ AllKept

(* A client that nothing happens to. *)
StaysOut(x) ==
  /\ dev'[x] = dev[x]
  /\ In(disp'.devs, x) <=> In(disp.devs, x)
  /\ x \in crossed' <=> x \in crossed
  /\ \A l \in Listeners : /\ In(clients'[l], x) <=> In(clients[l], x)
                          /\ loop'[l] = loop[l] \/ (loop'[l].c # x /\ loop[l].c # x)
                          /\ isDisposing'[l] = isDisposing[l]
                          /\ (disp'.at = "swap" /\ disp'.l = l) <=> (disp.at = "swap" /\ disp.l = l)

(* A client that nothing happens to is as before. *)
LEMMA OneStays ==
  ASSUME DevsTyped, NEW x \in Clients, StaysOut(x)
  PROVE  (Known(x) => Known(x)') /\ (Kept(x) => Kept(x)')
<1>1. dev[x].owner \in Owners /\ (dev[x].owner # 0 => dev[x].owner \in Listeners)
  BY DEF DevsTyped, Devices, Owners
<1>2. Known(x) => Known(x)'
  <2>1. \A l \in Listeners : loop[l].c # x => loop'[l].c # x
    BY DEF StaysOut
  <2> QED
    BY <2>1 DEF StaysOut, Known, IsNew
<1>3. Kept(x) => Kept(x)'
  <2> SUFFICES ASSUME dev[x].owner # 0, Kept(x) PROVE Kept(x)'
    BY DEF Kept, StaysOut
  <2> DEFINE o == dev[x].owner
  <2>1. o \in Listeners /\ dev'[x].owner = o
    BY <1>1 DEF StaysOut
  <2>2. LoopAt(x)' = LoopAt(x)
    BY <2>1 DEF StaysOut, LoopAt
  <2>3. Fine(dev[x], In(clients[o], x), In(disp.devs, x), LoopAt(x), isDisposing[o], disp.at = "swap" /\ disp.l = o)
    BY DEF Kept
  <2>4. /\ In(clients'[o], x) <=> In(clients[o], x)
        /\ isDisposing'[o] = isDisposing[o]
        /\ (disp'.at = "swap" /\ disp'.l = o) <=> (disp.at = "swap" /\ disp.l = o)
    BY <2>1 DEF StaysOut
  <2> HIDE DEF o
  <2>5. Fine(dev'[x], In(clients'[o], x), In(disp'.devs, x), LoopAt(x)', isDisposing'[o], disp'.at = "swap" /\ disp'.l = o)
    BY <2>2, <2>3, <2>4 DEF Fine, B, StaysOut
  <2> QED
    BY <2>1, <2>5 DEF Kept
<1> QED
  BY <1>2, <1>3

(* Everybody stays as he is, or everybody but one. *)
LEMMA AllStay ==
  ASSUME DevsTyped, News, AllKept, \A x \in Clients : StaysOut(x)
  PROVE  News' /\ AllKept'
BY OneStays DEF News, AllKept, StaysOut

(* Only what happens to one client is to be looked at. *)
LEMMA OthersStay ==
  ASSUME DevsTyped, News, AllKept, NEW c \in Clients, \A x \in Clients : x # c => StaysOut(x),
         Known(c)', c \in crossed' \/ Kept(c)'
  PROVE  News' /\ AllKept'
BY OneStays DEF News, AllKept, StaysOut

-----------------------------------------------------------------------------
(* One device changes *)

(* One device is another record, and the others are as they were. *)
LEMMA DevSet ==
  ASSUME DevsTyped, NEW c \in Clients, NEW r \in Devices, dev' = [dev EXCEPT ![c] = r]
  PROVE  dev' \in [Clients -> Devices] /\ dev'[c] = r /\ \A x \in Clients : x # c => dev'[x] = dev[x]
BY DEF DevsTyped

(* The client a loop has in hand is of that listener, and in no other loop. *)
LEMMA ClientInLoop ==
  ASSUME ServerTyped, DevsTyped, Lists, NEW l \in Listeners, loop[l].c # 0
  PROVE  /\ loop[l].c \in Clients /\ dev[loop[l].c].owner = l /\ LoopAt(loop[l].c) = loop[l].at
         /\ \A x \in Listeners : loop[x].c = loop[l].c => x = l
BY DEF ServerTyped, Lists, LoopAt, Listeners, Clients

(* Where the loop is with a client, by who is being accepted. *)
LEMMA AcceptedOrNot ==
  ASSUME ServerTyped, DevsTyped, Lists, NEW c \in Clients
  PROVE  /\ c \in BeingAccepted => dev[c].owner \in Listeners
         /\ dev[c].owner # 0 => /\ LoopAt(c) \in Accepting
                                /\ c \in BeingAccepted <=> LoopAt(c) \in {"ref", "init"}
<1>1. dev[c].owner \in Owners /\ c # 0
  BY DEF DevsTyped, Devices, Clients
<1>2. \A l \in Listeners : loop[l].c = c => dev[c].owner = l /\ LoopAt(c) = loop[l].at /\ loop[l].at \in Accepting
  BY <1>1, ClientInLoop DEF Lists
<1>3. c \in BeingAccepted => LoopAt(c) \in {"ref", "init"} /\ dev[c].owner \in Listeners
  <2>1. ASSUME NEW l \in Listeners, loop[l].at \in {"ref", "init"}, loop[l].c = c
        PROVE  LoopAt(c) \in {"ref", "init"} /\ dev[c].owner \in Listeners
    BY <1>2, <2>1
  <2> QED
    BY <2>1 DEF BeingAccepted
<1>4. ASSUME dev[c].owner # 0
      PROVE  LoopAt(c) \in Accepting /\ (LoopAt(c) \in {"ref", "init"} => c \in BeingAccepted)
  <2> DEFINE o == dev[c].owner
  <2>1. o \in Listeners
    BY <1>1, <1>4 DEF Owners
  <2>2. CASE loop[o].c = c
    BY <1>2, <2>1, <2>2 DEF BeingAccepted
  <2>3. CASE loop[o].c # c
    BY <2>3 DEF LoopAt, Accepting
  <2> QED
    BY <2>2, <2>3
<1> QED
  BY <1>3, <1>4

(* What holds of a device whatever its list and the loop are. *)
FineStays(c, r) ==
  \A l, d, g, s \in BOOLEAN, a \in Accepting :
    /\ Fine(dev[c], l, d, a, g, s)
    /\ c \notin BeingAccepted => a \notin {"ref", "init"}
    /\ l <=> \E x \in Listeners : In(clients[x], c)
    /\ g <=> isDisposing[dev[c].owner]
    => Fine(r, l, d, a, g, s)

(* One device changes and the lists do not. *)
LEMMA DeviceChanges ==
  ASSUME ServerTyped, ClientInv, NEW c \in Clients, NEW r \in Devices, dev' = [dev EXCEPT ![c] = r],
         r.owner = dev[c].owner, r.seq = dev[c].seq, r.peer \notin NotYet, dev[c].peer \notin NotYet,
         UNCHANGED <<disp, clients, loop, isDisposing>>,
         crossed \subseteq crossed', crossed' \subseteq crossed \cup ({c} \cap BeingAccepted),
         misused' \subseteq crossed', c \in crossed' \/ FineStays(c, r)
  PROVE  ClientInv'
<1>1. dev' \in [Clients -> Devices] /\ dev'[c] = r /\ \A x \in Clients : x # c => dev'[x] = dev[x]
  BY DevSet DEF ClientInv
<1>2. DevsTyped'
  BY <1>1 DEF ClientInv, DevsTyped
<1>3. \A x \in Clients : dev'[x].owner = dev[x].owner /\ dev'[x].seq = dev[x].seq
  BY <1>1
<1>4. Lists'
  <2>1. \A q \in Seq(Clients) : BySeq(q, dev) => BySeq(q, dev')
    <3> SUFFICES ASSUME NEW q \in Seq(Clients), BySeq(q, dev) PROVE BySeq(q, dev')
      OBVIOUS
    <3>1. \A i \in 1 .. Len(q) : q[i] \in Clients
      OBVIOUS
    <3> QED
      BY <1>3, <3>1 DEF BySeq
  <2>2. BySeq(disp'.devs, dev') /\ \A l \in Listeners : BySeq(clients'[l], dev') /\ Len(clients'[l]) <= Capacity
    BY <2>1 DEF ClientInv, Lists, DevsTyped, ServerTyped
  <2>3. ASSUME NEW l \in Listeners, loop[l].at = "add"
        PROVE  loop[l].c \notin crossed' /\ Len(clients[l]) < Capacity
    <3>1. loop[l].c # 0
      BY <2>3 DEF ClientInv, Lists, Accepting
    <3>2. \A x \in Listeners : loop[x].c = loop[l].c => x = l
      BY <3>1, ClientInLoop DEF ClientInv
    <3>3. loop[l].c \notin BeingAccepted
      BY <2>3, <3>2 DEF BeingAccepted
    <3>4. loop[l].c \notin crossed'
      BY <2>3, <3>3 DEF ClientInv, Lists
    <3> QED
      BY <2>3, <3>4 DEF ClientInv, Lists
  <2>4. /\ \A l \in Listeners, x \in Clients : In(clients[l], x) => dev'[x].owner = l
        /\ \A x \in Clients : In(disp.devs, x) => disp.l # 0 /\ dev'[x].owner = disp.l /\ ~In(clients[disp.l], x)
    BY <1>3 DEF ClientInv, Lists
  <2>5. \A l \in Listeners : (loop[l].c # 0 <=> loop[l].at \in Accepting) /\ (loop[l].c # 0 => dev'[loop[l].c].owner = l)
    <3>1. \A l \in Listeners : loop[l].c # 0 => loop[l].c \in Clients
      BY DEF ServerTyped
    <3> QED
      BY <1>3, <3>1 DEF ClientInv, Lists
  <2> QED
    BY <2>2, <2>3, <2>4, <2>5 DEF Lists
<1>5. \A x \in Clients : x # c => StaysOut(x)
  BY <1>1 DEF StaysOut
<1>6. Known(c)'
  <2>1. dev[c].owner # 0
    BY DEF ClientInv, News, Known, NotYet
  <2> QED
    BY <1>1, <2>1 DEF Known, NotYet
<1>7. c \in crossed' \/ Kept(c)'
  <2> SUFFICES ASSUME c \notin crossed', dev[c].owner # 0 PROVE Kept(c)'
    BY <1>3 DEF Kept
  <2> DEFINE o == dev[c].owner
  <2>1. Kept(c) /\ o \in Listeners
    BY DEF ClientInv, AllKept, DevsTyped, Devices, Owners
  <2>2. LoopAt(c) \in Accepting /\ (c \notin BeingAccepted => LoopAt(c) \notin {"ref", "init"})
    BY AcceptedOrNot DEF ClientInv
  <2>3. Fine(dev[c], In(clients[o], c), In(disp.devs, c), LoopAt(c), isDisposing[o], disp.at = "swap" /\ disp.l = o)
    BY <2>1 DEF Kept
  <2>4. isDisposing[o] \in BOOLEAN /\ In(clients[o], c) \in BOOLEAN /\ In(disp.devs, c) \in BOOLEAN
        /\ (disp.at = "swap" /\ disp.l = o) \in BOOLEAN
    BY <2>1 DEF ServerTyped, In
  <2>5. LoopAt(c)' = LoopAt(c) /\ dev'[c].owner = o
    BY <1>3 DEF LoopAt
  <2>7. In(clients[o], c) <=> \E x \in Listeners : In(clients[x], c)
    BY <2>1 DEF ClientInv, Lists
  <2> HIDE DEF o
  <2>6. Fine(r, In(clients[o], c), In(disp.devs, c), LoopAt(c), isDisposing[o], disp.at = "swap" /\ disp.l = o)
    BY <2>2, <2>3, <2>4, <2>7 DEF FineStays, o
  <2> QED
    BY <1>1, <2>5, <2>6 DEF Kept
<1>8. News' /\ AllKept'
  BY <1>5, <1>6, <1>7, OthersStay DEF ClientInv
<1> QED
  BY <1>2, <1>4, <1>8 DEF ClientInv

(* A task that comes from elsewhere. *)
LEMMA PostedStaysFine ==
  ASSUME ServerTyped, ClientInv, NEW c \in Clients, NEW t \in Tasks, c \notin BeingAccepted,
         dev[c].st = "LinkReady" \/ \E x \in Listeners : In(clients[x], c)
  PROVE  FineStays(c, Posted(dev[c], t))
<1> DEFINE r == dev[c]
           there == \E x \in Listeners : In(clients[x], c)
<1>1. r \in Devices
  BY DEF ClientInv, DevsTyped
<1> HIDE DEF r, there
<1>2. /\ Posted(r, t).refs = r.refs + B(r.tasks = <<>>) /\ Posted(r, t).st = r.st /\ Posted(r, t).fdr = r.fdr
      /\ Posted(r, t).tasks # <<>> /\ (In(r.tasks, "dispose") => In(Posted(r, t).tasks, "dispose"))
  BY <1>1, PostedIs
<1>3. ASSUME NEW l \in BOOLEAN, NEW d \in BOOLEAN, NEW g \in BOOLEAN, NEW s \in BOOLEAN, NEW a \in Accepting,
             Fine(r, l, d, a, g, s), a \notin {"ref", "init"}, r.st = "LinkReady" \/ l
      PROVE  Fine(Posted(r, t), l, d, a, g, s)
  <2>1. a # "add"
    BY <1>3 DEF Fine
  <2>2. r.st \notin {"none", "Destructing"} /\ r.refs # 0
    BY <1>3, <2>1 DEF Fine, B
  <2>3. Posted(r, t).refs # 0 /\ Posted(r, t).refs = B((l \/ d) /\ a # "ref") + 1 + B(r.fdr)
    BY <1>2, <1>3, <2>1, <2>2 DEF Fine, B
  <2> QED
    BY <1>2, <1>3, <2>1, <2>2, <2>3 DEF Fine, B
<1> QED
  BY <1>3 DEF FineStays, r, there

(* A task is posted to the device of a client that is up, or in a list. *)
LEMMA PostedTo ==
  ASSUME ServerTyped, ClientInv, NEW c \in Clients, NEW t \in Tasks, Post(c, t), dev[c].peer \notin NotYet,
         UNCHANGED <<disp, clients, loop, isDisposing>>,
         dev[c].st = "LinkReady" \/ \E x \in Listeners : In(clients[x], c)
  PROVE  ClientInv'
<1> DEFINE r == Posted(dev[c], t)
<1>1. dev[c] \in Devices /\ r \in Devices /\ r.owner = dev[c].owner /\ r.seq = dev[c].seq /\ r.peer = dev[c].peer
  BY PostedIs DEF ClientInv, DevsTyped
<1>2. /\ crossed \subseteq crossed' /\ crossed' \subseteq crossed \cup ({c} \cap BeingAccepted)
      /\ c \notin crossed' => c \notin BeingAccepted /\ c \notin crossed
  BY DEF Post
<1>3. ASSUME c \notin crossed' PROVE dev[c].st # "Destructing" /\ FineStays(c, r)
  <2>1. FineStays(c, r)
    BY <1>2, <1>3, PostedStaysFine
  <2>2. Kept(c)
    BY <1>2, <1>3 DEF ClientInv, AllKept
  <2>3. CASE dev[c].st = "LinkReady"
    BY <2>1, <2>3
  <2>4. CASE \E x \in Listeners : In(clients[x], c)
    <3>1. dev[c].owner \in Listeners /\ In(clients[dev[c].owner], c) /\ dev[c].owner # 0
      BY <2>4 DEF ClientInv, Lists, Listeners
    <3>2. LoopAt(c) \notin {"ref", "init"}
      BY <1>2, <1>3, <3>1, AcceptedOrNot DEF ClientInv
    <3>3. dev[c].refs # 0
      BY <2>2, <3>1, <3>2, <1>1 DEF Kept, Fine, B, Devices
    <3>4. dev[c].st # "Destructing"
      BY <2>2, <3>1, <3>3 DEF Kept, Fine
    <3> QED
      BY <2>1, <3>4
  <2> QED
    BY <2>3, <2>4
<1>4. CASE dev' = [dev EXCEPT ![c] = r] /\ UNCHANGED misused
  <2>1. misused' \subseteq crossed'
    BY <1>2, <1>4 DEF ClientInv, DevsTyped
  <2> HIDE DEF r
  <2> QED
    BY <1>1, <1>2, <1>3, <1>4, <2>1, DeviceChanges
<1>5. CASE misused' = misused \cup {c} /\ UNCHANGED dev /\ dev[c].st = "Destructing"
  <2>1. c \in crossed' /\ misused' \subseteq crossed'
    BY <1>2, <1>3, <1>5 DEF ClientInv, DevsTyped
  <2>2. dev' = [dev EXCEPT ![c] = dev[c]]
    BY <1>5 DEF ClientInv, DevsTyped
  <2> QED
    BY <1>1, <1>2, <2>1, <2>2, DeviceChanges
<1> QED
  BY <1>4, <1>5 DEF Post

(* Nothing happens to the clients. *)
LEMMA ClientsStay ==
  ASSUME ClientInv, UNCHANGED <<disp, clients, loop, isDisposing, dev, crossed, misused>>
  PROVE  ClientInv'
<1>1. DevsTyped'
  BY DEF ClientInv, DevsTyped
<1>2. Lists'
  BY DEF ClientInv, Lists, BySeq, In
<1>3. News' /\ AllKept'
  BY AllStay DEF ClientInv, StaysOut
<1> QED
  BY <1>1, <1>2, <1>3 DEF ClientInv

(* The session of a client closes it. *)
LEMMA SessionEnds ==
  ASSUME ServerTyped, ClientInv, NEW c \in Clients, SessionCloses(c)
  PROVE  ClientInv'
<1>1. dev[c].peer \notin NotYet
  BY DEF SessionCloses, ClientInv, News, Known, IsNew
<1>2. PICK t \in {"close", "linger"} : Post(c, t)
  BY DEF SessionCloses
<1>3. UNCHANGED <<disp, clients, loop, isDisposing>> /\ dev[c].st = "LinkReady" /\ t \in Tasks
  BY DEF SessionCloses, serverVars, listenerVars, Tasks
<1> QED
  BY <1>1, <1>2, <1>3, PostedTo

(* aclose and alclose: the client of a number is told to go. *)
LEMMA ToldByNumber ==
  ASSUME ServerTyped, ClientInv, OtherTask
  PROVE  ClientInv'
<1> DEFINE at == IF current = 0 \/ Head(ops).k \notin {"aclose", "alclose"} THEN {}
                 ELSE {c \in ToSet(clients[current]) : dev[c].seq = Head(ops).n}
<1>1. UNCHANGED <<disp, clients, loop, isDisposing>>
  BY DEF OtherTask, listenerVars
<1>2. CASE at = {}
  <2>1. UNCHANGED <<dev, crossed, misused>>
    BY <1>2 DEF OtherTask
  <2> QED
    BY <1>1, <2>1, ClientsStay
<1>3. CASE at # {}
  <2>1. PICK c \in at, t \in {"close", "linger"} : Post(c, t)
    BY <1>3 DEF OtherTask
  <2>2. current \in Listeners /\ c \in ToSet(clients[current])
    BY <1>3 DEF ServerTyped, Owners
  <2>3. clients[current] \in Seq(Clients)
    BY <2>2 DEF ClientInv, DevsTyped
  <2>4. c \in Clients /\ In(clients[current], c)
    BY <2>2, <2>3 DEF ToSet, In
  <2>5. dev[c].peer \notin NotYet
    BY <2>2, <2>4 DEF ClientInv, News, Known, IsNew
  <2>6. t \in Tasks
    BY DEF Tasks
  <2> HIDE DEF at
  <2> QED
    BY <1>1, <2>1, <2>2, <2>4, <2>5, <2>6, PostedTo
<1> QED
  BY <1>2, <1>3

(* The peer closes its end. *)
LEMMA PeerEnds ==
  ASSUME ServerTyped, ClientInv, NEW c \in Clients, PeerCloses(c)
  PROVE  ClientInv'
<1> DEFINE r == [dev[c] EXCEPT !.peer = "closed"]
<1>1. /\ dev[c] \in Devices /\ dev[c].peer = "open" /\ UNCHANGED <<disp, clients, loop, isDisposing, crossed, misused>>
      /\ dev' = [dev EXCEPT ![c] = r]
  BY DEF PeerCloses, serverVars, listenerVars, ClientInv, DevsTyped
<1>2. /\ r \in Devices /\ r.owner = dev[c].owner /\ r.seq = dev[c].seq /\ r.peer = "closed" /\ r.st = dev[c].st
      /\ r.refs = dev[c].refs /\ r.tasks = dev[c].tasks /\ r.fdr = dev[c].fdr
  BY <1>1 DEF Devices, Peers
<1> HIDE DEF r
<1>3. FineStays(c, r)
  BY <1>2 DEF FineStays, Fine
<1>4. misused' \subseteq crossed'
  BY <1>1 DEF ClientInv, DevsTyped
<1> QED
  BY <1>1, <1>2, <1>3, <1>4, DeviceChanges DEF NotYet

(* The socket of a client breaks, or has sent the last byte. *)
LEMMA SocketEnds ==
  ASSUME ServerTyped, ClientInv, NEW c \in Clients, SocketError(c) \/ LastSent(c)
  PROVE  ClientInv'
<1> DEFINE r0 == [dev[c] EXCEPT !.fdr = FALSE]
<1>1. /\ dev[c] \in Devices /\ dev[c].fdr /\ UNCHANGED <<disp, clients, loop, isDisposing, crossed, misused>>
      /\ dev[c].peer \notin NotYet
  BY DEF SocketError, LastSent, serverVars, listenerVars, ClientInv, DevsTyped, News, Known, IsNew
<1>2. misused' \subseteq crossed'
  BY <1>1 DEF ClientInv, DevsTyped
<1>3. CASE SocketError(c)
  <2> DEFINE p == Posted(r0, "dispose")
             r == Released(p)
  <2>1. /\ r0 \in Devices /\ r0.owner = dev[c].owner /\ r0.seq = dev[c].seq /\ r0.peer = dev[c].peer
        /\ r0.st = dev[c].st /\ r0.refs = dev[c].refs /\ r0.tasks = dev[c].tasks /\ r0.fdr = FALSE
    BY <1>1 DEF Devices
  <2> HIDE DEF r0
  <2>2. /\ p \in Devices /\ p.owner = dev[c].owner /\ p.seq = dev[c].seq /\ p.peer = dev[c].peer
        /\ p.st = dev[c].st /\ p.refs = dev[c].refs + B(dev[c].tasks = <<>>) /\ p.tasks # <<>> /\ p.fdr = FALSE
        /\ In(p.tasks, "dispose")
    BY <2>1, PostedIs DEF Tasks
  <2> HIDE DEF p
  <2>3. /\ r \in Devices /\ r.owner = dev[c].owner /\ r.seq = dev[c].seq /\ r.peer = dev[c].peer
        /\ r.st = (IF p.refs = 1 THEN "Destructing" ELSE dev[c].st)
        /\ r.refs = dev[c].refs + B(dev[c].tasks = <<>>) - 1 /\ r.tasks # <<>> /\ r.fdr = FALSE
        /\ In(r.tasks, "dispose")
    <3>1. /\ r \in Devices /\ r.refs = p.refs - 1 /\ r.st = (IF p.refs = 1 THEN "Destructing" ELSE p.st)
          /\ r.owner = p.owner /\ r.seq = p.seq /\ r.tasks = p.tasks /\ r.fdr = p.fdr /\ r.peer = p.peer
      BY <2>2, ReleasedIs
    <3> HIDE DEF r
    <3>2. In(r.tasks, "dispose")
      BY <2>2, <3>1, Zenon
    <3>3. r.refs = dev[c].refs + B(dev[c].tasks = <<>>) - 1
      BY <1>1, <2>2, <3>1 DEF B, Devices
    <3> QED
      BY <2>2, <3>1, <3>2, <3>3
  <2>4. dev' = [dev EXCEPT ![c] = r]
    BY <1>3 DEF SocketError, r0, p
  <2> HIDE DEF r
  <2>5. FineStays(c, r)
    <3> SUFFICES ASSUME NEW l \in BOOLEAN, NEW d \in BOOLEAN, NEW g \in BOOLEAN, NEW s \in BOOLEAN, NEW a \in Accepting,
                        Fine(dev[c], l, d, a, g, s)
                 PROVE  Fine(r, l, d, a, g, s)
      BY DEF FineStays
    <3>1. a \notin {"add", "ref", "init"} /\ dev[c].st \notin {"none", "Destructing"}
      BY <1>1 DEF Fine, B
    <3>2. p.refs # 1 /\ r.refs # 0 /\ r.st = dev[c].st
      BY <1>1, <2>2, <2>3, <3>1 DEF Fine, B
    <3>3. r.refs = B((l \/ d) /\ a # "ref") + B(r.tasks # <<>>) + B(r.fdr) + B(a \in {"add", "ref", "init"})
      BY <1>1, <2>3, <3>1 DEF Fine, B
    <3> QED
      BY <2>3, <3>1, <3>2, <3>3 DEF Fine
  <2> QED
    BY <1>1, <1>2, <2>3, <2>4, <2>5, DeviceChanges
<1>4. CASE LastSent(c)
  <2> DEFINE r == Posted(dev[c], "sent")
  <2>1. /\ r \in Devices /\ r.owner = dev[c].owner /\ r.seq = dev[c].seq /\ r.peer = dev[c].peer
        /\ r.st = dev[c].st /\ r.refs = dev[c].refs + B(dev[c].tasks = <<>>) /\ r.tasks # <<>> /\ r.fdr
        /\ In(dev[c].tasks, "dispose") => In(r.tasks, "dispose")
    BY <1>1, PostedIs DEF Tasks
  <2>2. dev' = [dev EXCEPT ![c] = r]
    BY <1>4 DEF LastSent
  <2> HIDE DEF r
  <2>3. FineStays(c, r)
    <3> SUFFICES ASSUME NEW l \in BOOLEAN, NEW d \in BOOLEAN, NEW g \in BOOLEAN, NEW s \in BOOLEAN, NEW a \in Accepting,
                        Fine(dev[c], l, d, a, g, s)
                 PROVE  Fine(r, l, d, a, g, s)
      BY DEF FineStays
    <3>1. a \notin {"add", "ref", "init"}
      BY <1>1 DEF Fine
    <3>2. r.refs = B((l \/ d) /\ a # "ref") + B(r.tasks # <<>>) + B(r.fdr) + B(a \in {"add", "ref", "init"})
      BY <1>1, <2>1, <3>1 DEF Fine, B
    <3>3. r.refs # 0 /\ r.st \notin {"none", "Destructing"}
      BY <1>1, <1>4, <2>1, <3>2 DEF B, LastSent
    <3> QED
      BY <1>1, <2>1, <3>1, <3>2, <3>3 DEF Fine
  <2> QED
    BY <1>1, <1>2, <2>1, <2>2, <2>3, DeviceChanges
<1> QED
  BY <1>3, <1>4

(* The state of a client that a task takes it to. *)
LEMMA AfterIs ==
  ASSUME NEW st0 \in States, NEW t \in Tasks, NEW st \in After(st0, t)
  PROVE  /\ st \in States
         /\ st0 \notin {"none", "Destructing"} => st \notin {"none", "Destructing"}
         /\ st \in Early => st0 \in Early /\ t \notin {"dispose", "close"}
         /\ st \in {"Initializing", "Initialized"} => st0 = st
         /\ st0 \in Early /\ st \notin Early => Leaves(st0, st)
         /\ Leaves(st0, st) => st0 \in Early /\ st \in {"Lingering", "Disposing"}
         /\ st = "LinkReady" /\ st0 # st => st0 \in {"Initializing", "Initialized"}
<1>1. CASE t = "open" /\ st0 \in {"Initializing", "Initialized"}
  BY <1>1 DEF After, States, Leaves, Early
<1>2. CASE t \in {"close", "dispose"}
  BY <1>2 DEF After, States, Leaves, Early
<1>3. CASE t = "linger"
  BY <1>3 DEF After, States, Leaves, Early
<1>4. CASE t = "sent"
  BY <1>4 DEF After, States, Leaves, Early
<1>5. CASE t = "open" /\ st0 \notin {"Initializing", "Initialized"}
  BY <1>5 DEF After, States, Leaves, Early
<1> QED
  BY <1>1, <1>2, <1>3, <1>4, <1>5 DEF Tasks

(* What a task makes of a device before it leaves its list. *)
Starts(r, st) == st = "LinkReady" /\ r.st # st
Ran(r, st) ==
  [r EXCEPT !.st = st, !.tasks = Tail(@), !.fdr = @ \/ Starts(r, st), !.refs = IF Starts(r, st) THEN @ + 1 ELSE @]
Rest(r, st) == IF Ran(r, st).tasks = <<>> THEN Released(Ran(r, st)) ELSE Ran(r, st)

(* What a task leaves of a device: its next state, its socket, its users. *)
LEMMA RestIs ==
  ASSUME NEW r \in Devices, r.tasks # <<>>, NEW st \in After(r.st, Head(r.tasks))
  PROVE  /\ Rest(r, st) \in Devices /\ Rest(r, st).owner = r.owner /\ Rest(r, st).seq = r.seq
         /\ Rest(r, st).peer = r.peer /\ Rest(r, st).fdr = (r.fdr \/ Starts(r, st))
         /\ Rest(r, st).refs = r.refs + B(Starts(r, st)) - B(Rest(r, st).tasks = <<>>)
         /\ Rest(r, st).st = st \/ (Rest(r, st).st = "Destructing" /\ Rest(r, st).refs = 0)
         /\ Rest(r, st).refs = 0 => Rest(r, st).st = "Destructing" \/ Rest(r, st).tasks # <<>>
         /\ In(r.tasks, "dispose") /\ Head(r.tasks) # "dispose" => In(Rest(r, st).tasks, "dispose")
<1> DEFINE q == Ran(r, st)
           b == Starts(r, st)
<1>1. /\ r.tasks \in Seq(Tasks) /\ Head(r.tasks) \in Tasks /\ Tail(r.tasks) \in Seq(Tasks) /\ r.st \in States
      /\ r.fdr \in BOOLEAN /\ r.refs \in Int
  BY DEF Devices
<1>2. st \in States
  BY <1>1, AfterIs
<1>3. In(r.tasks, "dispose") /\ Head(r.tasks) # "dispose" => In(Tail(r.tasks), "dispose")
  <2> SUFFICES ASSUME NEW i \in 1 .. Len(r.tasks), r.tasks[i] = "dispose", Head(r.tasks) # "dispose"
               PROVE  In(Tail(r.tasks), "dispose")
    BY DEF In
  <2>1. /\ Len(Tail(r.tasks)) = Len(r.tasks) - 1 /\ Head(r.tasks) = r.tasks[1] /\ Len(r.tasks) \in Nat
        /\ \A j \in 1 .. Len(Tail(r.tasks)) : Tail(r.tasks)[j] = r.tasks[j + 1]
    BY <1>1
  <2>2. i # 1 /\ i - 1 \in 1 .. Len(Tail(r.tasks)) /\ Tail(r.tasks)[i - 1] = "dispose"
    BY <2>1
  <2> QED
    BY <2>2 DEF In
<1>4. b \in BOOLEAN
  BY DEF Starts
<1>5. q = [r EXCEPT !.st = st, !.tasks = Tail(r.tasks), !.fdr = r.fdr \/ b, !.refs = IF b THEN r.refs + 1 ELSE r.refs]
  BY DEF Ran
<1>6. (r.fdr \/ b) \in BOOLEAN /\ (IF b THEN r.refs + 1 ELSE r.refs) \in Int
      /\ (IF b THEN r.refs + 1 ELSE r.refs) = r.refs + B(b) /\ B(b) \in Int
  BY <1>1 DEF B
<1> HIDE DEF b
<1>7. /\ q \in Devices /\ q.st = st /\ q.tasks = Tail(r.tasks) /\ q.fdr = (r.fdr \/ b) /\ q.refs = r.refs + B(b)
      /\ q.owner = r.owner /\ q.seq = r.seq /\ q.peer = r.peer
  BY <1>1, <1>2, <1>5, <1>6 DEF Devices
<1> HIDE DEF q
<1>8. CASE q.tasks = <<>>
  <2>1. Rest(r, st) = Released(q)
    BY <1>8 DEF Rest, q
  <2>2. /\ Rest(r, st) \in Devices /\ Rest(r, st).refs = q.refs - 1
        /\ Rest(r, st).st = (IF q.refs = 1 THEN "Destructing" ELSE q.st)
        /\ Rest(r, st).owner = q.owner /\ Rest(r, st).seq = q.seq /\ Rest(r, st).tasks = q.tasks
        /\ Rest(r, st).fdr = q.fdr /\ Rest(r, st).peer = q.peer
    BY <1>7, <2>1, ReleasedIs
  <2>3. Rest(r, st).refs = r.refs + B(b) - B(Rest(r, st).tasks = <<>>)
    BY <1>1, <1>6, <1>7, <1>8, <2>2 DEF B
  <2>4. Rest(r, st).refs = 0 <=> q.refs = 1
    BY <1>1, <1>6, <1>7, <2>2
  <2> QED
    BY <1>3, <1>7, <2>2, <2>3, <2>4 DEF b
<1>9. CASE q.tasks # <<>>
  <2>1. Rest(r, st) = q
    BY <1>9 DEF Rest, q
  <2>2. Rest(r, st).refs = r.refs + B(b) - B(Rest(r, st).tasks = <<>>)
    <3>1. B(q.tasks = <<>>) = 0
      BY <1>9 DEF B
    <3>2. r.refs + B(b) - 0 = r.refs + B(b)
      BY <1>1, <1>6
    <3> QED
      BY <1>7, <2>1, <3>1, <3>2
  <2> QED
    BY <1>3, <1>7, <1>9, <2>1, <2>2 DEF b
<1> QED
  BY <1>8, <1>9

(* The device after a task is as it should be: it stays in its list, or its listener
   disposes of it. *)
LEMMA RestIsFine ==
  ASSUME NEW r \in Devices, r.tasks # <<>>, NEW st \in After(r.st, Head(r.tasks)),
         NEW l \in BOOLEAN, NEW d \in BOOLEAN, NEW g \in BOOLEAN, NEW s \in BOOLEAN, NEW a \in Accepting,
         Fine(r, l, d, a, g, s), Leaves(r.st, st) => g
  PROVE  Fine(Rest(r, st), l, d, a, g, s)
<1> DEFINE z == Rest(r, st)
           b == Starts(r, st)
<1>1. /\ r.tasks \in Seq(Tasks) /\ Head(r.tasks) \in Tasks /\ r.st \in States /\ r.fdr \in BOOLEAN /\ r.refs \in Int
  BY DEF Devices
<1>2. a \notin {"add", "ref", "init"} /\ r.refs = B(l \/ d) + 1 + B(r.fdr) /\ r.st \notin {"none", "Destructing"}
  BY DEF Fine, B
<1>3. /\ st \in States /\ st \notin {"none", "Destructing"}
      /\ st \in Early => r.st \in Early /\ Head(r.tasks) # "dispose"
      /\ r.st \in Early /\ st \notin Early => g
  BY <1>1, <1>2, AfterIs
<1>4. b => r.st \in {"Initializing", "Initialized"} /\ st = "LinkReady"
  BY <1>1, AfterIs DEF Starts
<1>5. /\ z.fdr = (r.fdr \/ b) /\ z.refs = r.refs + B(b) - B(z.tasks = <<>>)
      /\ z.st = st \/ (z.st = "Destructing" /\ z.refs = 0)
      /\ z.refs = 0 => z.st = "Destructing" \/ z.tasks # <<>>
      /\ In(r.tasks, "dispose") /\ Head(r.tasks) # "dispose" => In(z.tasks, "dispose")
  BY RestIs
<1> HIDE DEF z, b
<1>6. b \in BOOLEAN /\ (b => ~r.fdr)
  BY <1>4 DEF b, Starts, Fine
<1>7. B(r.fdr) + B(b) = B(z.fdr) /\ B(z.tasks # <<>>) = 1 - B(z.tasks = <<>>)
  BY <1>1, <1>5, <1>6 DEF B
<1>8. z.refs = B(l \/ d) + B(z.tasks # <<>>) + B(z.fdr)
  BY <1>1, <1>2, <1>5, <1>7 DEF B
<1>9. z.refs = 0 <=> z.st \in {"none", "Destructing"}
  BY <1>3, <1>5, <1>8 DEF B
<1>10. z.st \in Early => z.st = st /\ r.st \in Early /\ Head(r.tasks) # "dispose"
  BY <1>3, <1>5 DEF Early
<1>11. ~g => (l <=> z.st \in Early)
  <2>1. ~g => (r.st \in Early <=> st \in Early)
    BY <1>3
  <2>2. ~g => (st \in Early => z.st = st)
    <3> SUFFICES ASSUME ~g, st \in Early PROVE z.st = st
      OBVIOUS
    <3>1. l
      BY <2>1 DEF Fine
    <3>2. z.refs # 0
      BY <1>8, <3>1 DEF B
    <3> QED
      BY <1>5, <3>2
  <2> QED
    BY <1>2, <1>10, <2>1, <2>2 DEF Fine
<1>12. z.st \in {"Initializing", "Initialized"} => ~z.fdr
  <2> SUFFICES ASSUME z.st \in {"Initializing", "Initialized"} PROVE ~z.fdr
    OBVIOUS
  <2>1. z.st = st /\ r.st = st
    BY <1>1, <1>5, AfterIs
  <2> QED
    BY <1>4, <1>5, <2>1 DEF Fine
<1>13. /\ z.st \in Early => l \/ d \/ In(z.tasks, "dispose")
       /\ g /\ ~s => ~l
  BY <1>2, <1>5, <1>10 DEF Fine
<1>14. /\ ~(l /\ d) /\ B((l \/ d) /\ a # "ref") = B(l \/ d) /\ B(a \in {"add", "ref", "init"}) = 0
       /\ z.refs \in Int /\ B(l \/ d) \in Int /\ B(z.tasks # <<>>) \in Int /\ B(z.fdr) \in Int
  BY <1>1, <1>2, <1>8 DEF Fine, B
<1>15. z.refs = B((l \/ d) /\ a # "ref") + B(z.tasks # <<>>) + B(z.fdr) + B(a \in {"add", "ref", "init"})
  BY <1>8, <1>14
<1>16. Fine(z, l, d, a, g, s)
  BY <1>2, <1>9, <1>11, <1>12, <1>13, <1>14, <1>15 DEF Fine
<1> QED
  BY <1>16 DEF z

(* ... or it leaves its list, and the list's reference is released. *)
LEMMA RemovedIsFine ==
  ASSUME NEW r \in Devices, r.tasks # <<>>, NEW st \in After(r.st, Head(r.tasks)),
         NEW d \in BOOLEAN, NEW g \in BOOLEAN, NEW s \in BOOLEAN, NEW a \in Accepting,
         Fine(r, TRUE, d, a, g, s), Leaves(r.st, st)
  PROVE  Fine(Released(Rest(r, st)), FALSE, d, a, g, s)
<1> DEFINE z == Rest(r, st)
           y == Released(z)
<1>1. /\ r.tasks \in Seq(Tasks) /\ Head(r.tasks) \in Tasks /\ r.st \in States /\ r.fdr \in BOOLEAN /\ r.refs \in Int
  BY DEF Devices
<1>2. a \notin {"add", "ref", "init"} /\ r.refs = 2 + B(r.fdr) /\ ~d
  BY DEF Fine, B
<1>3. st \in {"Lingering", "Disposing"} /\ ~Starts(r, st)
  BY <1>1, AfterIs DEF Starts
<1>4. /\ z \in Devices /\ z.fdr = r.fdr /\ z.refs = r.refs + B(FALSE) - B(z.tasks = <<>>)
      /\ z.st = st \/ (z.st = "Destructing" /\ z.refs = 0)
  <2>1. /\ z \in Devices /\ z.fdr = (r.fdr \/ Starts(r, st)) /\ z.refs = r.refs + B(Starts(r, st)) - B(z.tasks = <<>>)
        /\ z.st = st \/ (z.st = "Destructing" /\ z.refs = 0)
    BY RestIs
  <2> QED
    BY <1>1, <1>3, <2>1 DEF B
<1> HIDE DEF z
<1>5. z.refs = 1 + B(z.tasks # <<>>) + B(z.fdr)
  BY <1>1, <1>2, <1>4 DEF B
<1>6. z.st \in {"Lingering", "Disposing"}
  BY <1>3, <1>4, <1>5 DEF B
<1>7. /\ y.refs = z.refs - 1 /\ y.st = (IF z.refs = 1 THEN "Destructing" ELSE z.st)
      /\ y.tasks = z.tasks /\ y.fdr = z.fdr
  BY <1>4, ReleasedIs
<1> HIDE DEF y
<1>8. y.refs = B(y.tasks # <<>>) + B(y.fdr) /\ (y.refs = 0 <=> z.refs = 1)
  BY <1>5, <1>7 DEF B
<1>9. y.st \in {"Lingering", "Disposing", "Destructing"} /\ (y.refs = 0 <=> y.st = "Destructing")
  BY <1>6, <1>7, <1>8
<1>10. y.refs = B((FALSE \/ d) /\ a # "ref") + B(y.tasks # <<>>) + B(y.fdr) + B(a \in {"add", "ref", "init"})
  BY <1>2, <1>8 DEF B
<1>11. Fine(y, FALSE, d, a, g, s)
  BY <1>2, <1>9, <1>10 DEF Fine, Early
<1> QED
  BY <1>11 DEF y, z

(* A client changes and leaves its list. *)
LEMMA ClientLeaves ==
  ASSUME ServerOK, ServerTyped, ClientInv, NEW c \in Clients, NEW y \in Devices, NEW o \in Listeners, NEW i \in 1 .. Len(clients[o]),
         dev' = [dev EXCEPT ![c] = y], clients' = [clients EXCEPT ![o] = RemoveAt(clients[o], i)], clients[o][i] = c,
         y.owner = dev[c].owner, y.seq = dev[c].seq, y.peer \notin NotYet, dev[c].peer \notin NotYet,
         UNCHANGED <<disp, loop, isDisposing, crossed, misused>>,
         c \in crossed \/ Fine(y, FALSE, In(disp.devs, c), LoopAt(c), isDisposing[o], disp.at = "swap" /\ disp.l = o)
  PROVE  ClientInv'
<1> DEFINE u == RemoveAt(clients[o], i)
<1>1. /\ dev' \in [Clients -> Devices] /\ dev'[c] = y /\ \A x \in Clients : x # c => dev'[x] = dev[x]
      /\ clients[o] \in Seq(Clients) /\ In(clients[o], c) /\ dev[c].owner = o
  BY DevSet DEF ClientInv, DevsTyped, In, Lists
<1>2. \A x \in Clients : dev[x].seq \in Nat
  BY DEF ClientInv, DevsTyped, Devices
<1>3. \A x \in Clients : dev'[x].owner = dev[x].owner /\ dev'[x].seq = dev[x].seq
  BY <1>1
<1>4. /\ u \in Seq(Clients) /\ Len(u) <= Len(clients[o]) /\ BySeq(u, dev)
      /\ \A x : In(u, x) <=> In(clients[o], x) /\ x # c
  BY <1>1, <1>2, RemoveKeeps DEF ClientInv, Lists
<1> HIDE DEF u
<1>5. clients' \in [Listeners -> Seq(Clients)] /\ clients'[o] = u /\ \A l \in Listeners : l # o => clients'[l] = clients[l]
  BY <1>4 DEF ClientInv, DevsTyped, u
<1>6. DevsTyped'
  BY <1>1, <1>5 DEF ClientInv, DevsTyped
<1>7. \A q \in Seq(Clients) : BySeq(q, dev) => BySeq(q, dev')
  <2> SUFFICES ASSUME NEW q \in Seq(Clients), BySeq(q, dev) PROVE BySeq(q, dev')
    OBVIOUS
  <2>1. \A k \in 1 .. Len(q) : q[k] \in Clients
    OBVIOUS
  <2> QED
    BY <1>3, <2>1 DEF BySeq
<1>8. \A l \in Listeners : /\ clients'[l] \in Seq(Clients) /\ BySeq(clients'[l], dev) /\ Len(clients'[l]) <= Len(clients[l])
                           /\ \A x : In(clients'[l], x) <=> In(clients[l], x) /\ ~(l = o /\ x = c)
  BY <1>4, <1>5 DEF ClientInv, Lists, DevsTyped
<1>9. Lists'
  <2>1. BySeq(disp'.devs, dev') /\ \A l \in Listeners : BySeq(clients'[l], dev') /\ Len(clients'[l]) <= Capacity
    <3>1. \A l \in Listeners : Len(clients'[l]) <= Len(clients[l]) /\ Len(clients[l]) <= Capacity
      BY <1>8 DEF ClientInv, Lists
    <3>2. \A l \in Listeners : Len(clients'[l]) <= Capacity
      BY <1>8, <3>1 DEF ServerOK, ClientInv, DevsTyped
    <3> QED
      BY <1>7, <1>8, <3>2 DEF ClientInv, Lists, ServerTyped
  <2>2. ASSUME NEW l \in Listeners, loop[l].at = "add"
        PROVE  loop[l].c \notin crossed' /\ Len(clients'[l]) < Capacity
    <3>1. loop[l].c \notin crossed /\ Len(clients[l]) < Capacity /\ Len(clients'[l]) <= Len(clients[l])
      BY <1>8, <2>2 DEF ClientInv, Lists
    <3> QED
      BY <1>8, <3>1 DEF ServerOK, ClientInv, DevsTyped
  <2>3. /\ \A l \in Listeners, x \in Clients : In(clients'[l], x) => dev'[x].owner = l
        /\ \A x \in Clients : In(disp.devs, x) => disp.l # 0 /\ dev'[x].owner = disp.l /\ ~In(clients'[disp.l], x)
    <3>1. disp.l # 0 => disp.l \in Listeners
      BY DEF ServerTyped, Owners
    <3> QED
      BY ZenonT(40), <1>3, <1>8, <3>1 DEF ClientInv, Lists
  <2>4. \A l \in Listeners : (loop[l].c # 0 <=> loop[l].at \in Accepting) /\ (loop[l].c # 0 => dev'[loop[l].c].owner = l)
    <3>1. \A l \in Listeners : loop[l].c # 0 => loop[l].c \in Clients
      BY DEF ServerTyped
    <3> QED
      BY <1>3, <3>1 DEF ClientInv, Lists
  <2> QED
    BY <2>1, <2>2, <2>3, <2>4 DEF Lists
<1>10. \A x \in Clients : x # c => StaysOut(x)
  BY <1>1, <1>8 DEF StaysOut
<1>11. Known(c)'
  <2>1. dev[c].owner # 0
    BY DEF ClientInv, News, Known, NotYet
  <2> QED
    BY <1>1, <2>1 DEF Known, NotYet
<1>12. c \in crossed' \/ Kept(c)'
  <2>1. LoopAt(c)' = LoopAt(c) /\ dev'[c].owner = o
    BY <1>1, <1>3 DEF LoopAt
  <2>2. ~In(clients'[o], c)
    BY <1>8
  <2>3. In(clients'[o], c) = FALSE
    BY <2>2 DEF In
  <2> QED
    BY <1>1, <2>1, <2>3 DEF Kept
<1> QED
  BY <1>6, <1>9, <1>10, <1>11, <1>12, OthersStay DEF ClientInv

(* A task of a device runs; its client may leave the list (OpImpl_StateChanged). *)
LEMMA TaskRuns ==
  ASSUME ServerOK, ServerTyped, ClientInv, NEW c \in Clients, RunTask(c)
  PROVE  ClientInv'
<1> DEFINE r == dev[c]
           o == r.owner
<1>1. /\ r \in Devices /\ r.tasks # <<>> /\ r.peer \notin NotYet /\ o # 0 /\ o \in Listeners
      /\ UNCHANGED <<disp, loop, isDisposing, crossed, misused>> /\ misused' \subseteq crossed'
  BY DEF RunTask, serverVars, ClientInv, DevsTyped, News, Known, IsNew, Devices, Owners, NotYet
<1>2. PICK st \in After(r.st, Head(r.tasks)) :
        IF Leaves(r.st, st) THEN RemoveAcceptedClient(c, Rest(r, st))
        ELSE dev' = [dev EXCEPT ![c] = Rest(r, st)] /\ UNCHANGED clients
  BY DEF RunTask, Rest, Ran, Starts
<1>3. /\ Rest(r, st) \in Devices /\ Rest(r, st).owner = o /\ Rest(r, st).seq = r.seq /\ Rest(r, st).peer = r.peer
  BY <1>1, RestIs
<1>4. ASSUME dev' = [dev EXCEPT ![c] = Rest(r, st)], UNCHANGED clients,
             Leaves(r.st, st) => isDisposing[o] \/ ~In(clients[o], c)
      PROVE  ClientInv'
  <2>1. c \in crossed' \/ FineStays(c, Rest(r, st))
    <3> SUFFICES ASSUME NEW l \in BOOLEAN, NEW d \in BOOLEAN, NEW g \in BOOLEAN, NEW s \in BOOLEAN, NEW a \in Accepting,
                        Fine(r, l, d, a, g, s), l <=> \E x \in Listeners : In(clients[x], c), g <=> isDisposing[o]
                 PROVE  Fine(Rest(r, st), l, d, a, g, s)
      BY DEF FineStays
    <3>1. In(clients[o], c) <=> l
      BY <1>1 DEF ClientInv, Lists
    <3>2. Leaves(r.st, st) => r.st \in Early /\ (a # "add")
      BY <1>1 DEF Leaves, Fine
    <3>3. Leaves(r.st, st) => g
      BY <1>4, <3>1, <3>2 DEF Fine
    <3> HIDE DEF r
    <3> QED
      BY <1>1, <3>3, RestIsFine
  <2> HIDE DEF r
  <2> QED
    BY <1>1, <1>3, <1>4, <2>1, DeviceChanges DEF r
<1>5. ASSUME Leaves(r.st, st), NEW i \in Found(o, c), dev' = [dev EXCEPT ![c] = Released(Rest(r, st))],
             clients' = [clients EXCEPT ![o] = RemoveAt(clients[o], i)]
      PROVE  ClientInv'
  <2> DEFINE z == Rest(r, st)
             y == Released(z)
  <2>1. i \in 1 .. Len(clients[o]) /\ clients[o][i] = c
    BY <1>1 DEF Found, ClientInv, DevsTyped
  <2>2. y \in Devices /\ y.owner = o /\ y.seq = r.seq /\ y.peer \notin NotYet
    BY <1>1, <1>3, ReleasedIs
  <2>3. ASSUME c \notin crossed
        PROVE  Fine(y, FALSE, In(disp.devs, c), LoopAt(c), isDisposing[o], disp.at = "swap" /\ disp.l = o)
    <3>1. Fine(r, In(clients[o], c), In(disp.devs, c), LoopAt(c), isDisposing[o], disp.at = "swap" /\ disp.l = o)
      BY <1>1, <2>3 DEF ClientInv, AllKept, Kept
    <3>2. In(clients[o], c) = TRUE
      BY <2>1 DEF In
    <3>3. LoopAt(c) \in Accepting
      BY <1>1, AcceptedOrNot DEF ClientInv
    <3>4. isDisposing[o] \in BOOLEAN /\ In(disp.devs, c) \in BOOLEAN /\ (disp.at = "swap" /\ disp.l = o) \in BOOLEAN
      BY <1>1 DEF ServerTyped, In
    <3>5. Fine(r, TRUE, In(disp.devs, c), LoopAt(c), isDisposing[o], disp.at = "swap" /\ disp.l = o)
      BY <3>1, <3>2
    <3> HIDE DEF r, o
    <3> QED
      BY <1>1, <1>5, <3>3, <3>4, <3>5, RemovedIsFine
  <2> HIDE DEF y
  <2> QED
    BY <1>1, <1>5, <2>1, <2>2, <2>3, ClientLeaves DEF y
<1>6. CASE Leaves(r.st, st)
  <2>1. CASE isDisposing[o] /\ dev' = [dev EXCEPT ![c] = Rest(r, st)] /\ UNCHANGED clients
    BY <1>4, <2>1
  <2>2. CASE Found(o, c) = {} /\ dev' = [dev EXCEPT ![c] = Rest(r, st)] /\ UNCHANGED clients
    <3>1. ~In(clients[o], c)
      <4> SUFFICES ASSUME NEW i \in 1 .. Len(clients[o]), clients[o][i] = c PROVE FALSE
        BY DEF In
      <4>1. i \in DOMAIN clients[o]
        BY <1>1 DEF ClientInv, DevsTyped
      <4> QED
        BY <2>2, <4>1 DEF Found
    <3> QED
      BY <1>4, <2>2, <3>1
  <2>3. CASE \E i \in Found(o, c) : /\ dev' = [dev EXCEPT ![c] = Released(Rest(r, st))]
                                    /\ clients' = [clients EXCEPT ![o] = RemoveAt(clients[o], i)]
    BY <1>5, <1>6, <2>3
  <2>4. RemoveAcceptedClient(c, Rest(r, st))
    BY <1>2, <1>6
  <2> QED
    BY <1>3, <2>1, <2>2, <2>3, <2>4 DEF RemoveAcceptedClient
<1> QED
  BY <1>2, <1>4, <1>6

-----------------------------------------------------------------------------
(* The accepting loop looks, or is done *)

(* A loop without a client in hand goes on. *)
LEMMA LoopChanges ==
  ASSUME ServerTyped, ClientInv, NEW l \in Listeners, loop[l].at \notin {"add", "ref", "init"},
         NEW p \in {"idle", "accept", "error"}, loop' = [loop EXCEPT ![l] = [at |-> p, c |-> 0]],
         UNCHANGED <<disp, clients, isDisposing, dev, crossed, misused>>
  PROVE  ClientInv'
<1>1. /\ loop'[l].at = p /\ loop'[l].c = 0 /\ \A x \in Listeners : x # l => loop'[x] = loop[x]
      /\ loop[l].at \in {"idle", "accept", "error", "log"} /\ loop[l].c \in Clients \cup {0}
  BY DEF ServerTyped, Accepting
<1>2. DevsTyped'
  BY DEF ClientInv, DevsTyped
<1>3. Lists'
  <2>1. \A x \in Listeners : loop'[x] = loop[x] \/ (loop'[x].c = 0 /\ loop'[x].at \notin Accepting)
    BY <1>1 DEF Accepting
  <2>2. \A x \in Listeners : loop'[x].at = "add" => loop'[x] = loop[x]
    BY <2>1 DEF Accepting
  <2> QED
    BY <2>1, <2>2 DEF ClientInv, Lists, BySeq, In
<1>4. \A x \in Clients : x # loop[l].c => StaysOut(x)
  BY <1>1 DEF StaysOut, Clients
<1>5. CASE loop[l].c = 0
  <2>1. \A x \in Clients : StaysOut(x)
    BY <1>4, <1>5 DEF Clients
  <2> QED
    BY <1>2, <1>3, <2>1, AllStay DEF ClientInv
<1>6. CASE loop[l].c # 0
  <2>0. PICK c \in Clients : c = loop[l].c
    BY <1>1, <1>6
  <2>1. c \in Clients /\ dev[c].owner = l /\ LoopAt(c) = loop[l].at /\ c # 0
    BY <1>1, <1>6, <2>0, ClientInLoop DEF ClientInv
  <2>2. loop[l].at = "log"
    BY <1>1, <1>6 DEF ClientInv, Lists, Accepting
  <2>3. LoopAt(c)' = "log"
    BY <1>1, <2>1 DEF LoopAt
  <2>4. Known(c)'
    <3>1. \A x \in Listeners : loop'[x].c = c => loop[x].c = c
      BY <1>1, <2>1
    <3>2. Known(c)
      BY <2>1 DEF ClientInv, News
    <3>3. IsNew(c) => IsNew(c)'
      BY <3>1 DEF IsNew
    <3> QED
      BY <3>2, <3>3 DEF Known
  <2>5. c \in crossed' \/ Kept(c)'
    <3>1. c \notin crossed => Kept(c)
      BY <2>1 DEF ClientInv, AllKept
    <3>2. LoopAt(c)' = LoopAt(c)
      BY <2>1, <2>2, <2>3
    <3> QED
      BY <3>1, <3>2 DEF Kept
  <2> QED
    BY <1>2, <1>3, <1>4, <2>1, <2>4, <2>5, <2>0, OthersStay DEF ClientInv
<1> QED
  BY <1>5, <1>6

(* The loop looks at the socket, or has logged the client it took. *)
LEMMA LoopLooks ==
  ASSUME ServerTyped, ClientInv, NEW l \in Listeners,
         OnFdrEvent(l) \/ ListenError(l) \/ TellError(l) \/ LogAccepted(l)
  PROVE  ClientInv'
<1>1. UNCHANGED <<disp, clients, isDisposing, dev, crossed, misused>>
  BY DEF OnFdrEvent, ListenError, TellError, LogAccepted, serverVars
<1>2. loop[l] \in [at : {"idle", "accept", "error"} \cup Accepting, c : Clients \cup {0}]
  BY DEF ServerTyped
<1>3. ASSUME loop[l].at = "idle", NEW p \in {"accept", "error"}, loop' = [loop EXCEPT ![l].at = p]
      PROVE  ClientInv'
  <2>1. loop[l].c = 0
    BY <1>3 DEF ClientInv, Lists, Accepting
  <2>2. [loop[l] EXCEPT !.at = p] = [at |-> p, c |-> 0]
    BY <1>2, <2>1
  <2>3. loop' = [loop EXCEPT ![l] = [at |-> p, c |-> 0]]
    BY <1>3, <2>2
  <2> QED
    BY <1>1, <1>3, <2>3, LoopChanges
<1>4. ASSUME loop[l].at \in {"error", "log"}, loop' = [loop EXCEPT ![l] = NoLoop]
      PROVE  ClientInv'
  BY <1>1, <1>4, LoopChanges DEF NoLoop
<1> QED
  BY <1>3, <1>4 DEF OnFdrEvent, ListenError, TellError, LogAccepted

-----------------------------------------------------------------------------
(* The listener is disposed of *)

(* After the last client was told, the lists are as they were. *)
LEMMA DisposeEnds ==
  ASSUME ServerTyped, ClientInv, AfterDispose
  PROVE  ClientInv'
<1>1. /\ disp.at = "each" /\ disp.devs = <<>> /\ disp' = Quiet /\ disp'.devs = <<>> /\ disp'.at = "idle"
      /\ UNCHANGED <<clients, loop, isDisposing, dev, crossed, misused>>
  BY DEF AfterDispose, Quiet
<1>2. \A x : ~In(<<>>, x)
  BY DEF In
<1>3. DevsTyped'
  BY <1>1 DEF ClientInv, DevsTyped
<1>4. Lists'
  <2>1. BySeq(disp'.devs, dev')
    BY <1>1 DEF BySeq
  <2> QED
    BY <1>1, <1>2, <2>1 DEF ClientInv, Lists, BySeq, In
<1>5. \A x \in Clients : StaysOut(x)
  BY <1>1, <1>2 DEF StaysOut
<1> QED
  BY <1>3, <1>4, <1>5, AllStay DEF ClientInv

(* A listener is disposing; its list is yet to be taken. *)
LEMMA DisposeBegins ==
  ASSUME ServerTyped, InUse, ClientInv, Opens
  PROVE  ClientInv'
<1>1. /\ disp.at = "idle" /\ disp.devs = <<>> /\ disp'.devs = <<>> /\ disp'.l = current
      /\ current # 0 => disp'.at = "swap"
      /\ UNCHANGED <<clients, loop, dev, crossed, misused>>
  BY DEF Opens, DisposeListener, Quiet
<1>2. \A l \in Listeners : isDisposing'[l] <=> isDisposing[l] \/ l = current
  BY DEF Opens, DisposeListener
<1>3. \A x : ~In(<<>>, x)
  BY DEF In
<1>4. DevsTyped'
  BY <1>1 DEF ClientInv, DevsTyped
<1>5. Lists'
  <2>1. BySeq(disp'.devs, dev')
    BY <1>1 DEF BySeq
  <2> QED
    BY <1>1, <1>3, <2>1 DEF ClientInv, Lists, BySeq, In
<1>6. News'
  BY <1>1, <1>3 DEF ClientInv, News, Known, IsNew
<1>7. AllKept'
  <2> SUFFICES ASSUME NEW c \in Clients, c \notin crossed, dev[c].owner # 0, Kept(c) PROVE Kept(c)'
    BY <1>1 DEF ClientInv, AllKept, Kept
  <2> DEFINE o == dev[c].owner
  <2>1. o \in Listeners /\ LoopAt(c)' = LoopAt(c) /\ dev'[c] = dev[c]
    BY <1>1 DEF ClientInv, DevsTyped, Devices, Owners, LoopAt
  <2>2. Fine(dev[c], In(clients[o], c), In(disp.devs, c), LoopAt(c), isDisposing[o], disp.at = "swap" /\ disp.l = o)
    BY DEF Kept
  <2>3. ~In(disp.devs, c) /\ ~In(disp'.devs, c) /\ clients' = clients
    BY <1>1, <1>3
  <2>4. CASE o = current
    <3>1. isDisposing'[o] /\ disp'.at = "swap" /\ disp'.l = o
      BY <1>1, <1>2, <2>1, <2>4 DEF Listeners
    <3> HIDE DEF o
    <3>2. Fine(dev'[c], In(clients'[o], c), In(disp'.devs, c), LoopAt(c)', isDisposing'[o], disp'.at = "swap" /\ disp'.l = o)
      BY <2>1, <2>2, <2>3, <3>1 DEF Fine, B
    <3> QED
      BY <2>1, <3>2 DEF Kept, o
  <2>5. CASE o # current
    <3>1. (isDisposing'[o] <=> isDisposing[o]) /\ ~(disp'.at = "swap" /\ disp'.l = o) /\ ~(disp.at = "swap" /\ disp.l = o)
      BY <1>1, <1>2, <2>1, <2>5
    <3> HIDE DEF o
    <3>2. Fine(dev'[c], In(clients'[o], c), In(disp'.devs, c), LoopAt(c)', isDisposing'[o], disp'.at = "swap" /\ disp'.l = o)
      BY <2>1, <2>2, <2>3, <3>1 DEF Fine, B
    <3> QED
      BY <2>1, <3>2 DEF Kept, o
  <2> QED
    BY <2>4, <2>5
<1> QED
  BY <1>4, <1>5, <1>6, <1>7 DEF ClientInv

(* Dispose takes the list (AcceptedClients_ is swapped). *)
LEMMA ListIsTaken ==
  ASSUME ServerOK, ServerTyped, InUse, ClientInv, SwapClients
  PROVE  ClientInv'
<1>0. PICK o \in Owners : o = disp.l
  BY DEF ServerTyped
<1>1. /\ o \in Listeners /\ disp.at = "swap" /\ disp.l = o /\ disp.devs = <<>> /\ isDisposing[o]
      /\ UNCHANGED <<loop, isDisposing, dev, crossed, misused>>
  BY <1>0 DEF SwapClients, InUse, Owners, Listeners
<1>2. clients[o] \in Seq(Clients)
  BY <1>1 DEF ClientInv, DevsTyped
<1>3. /\ disp'.at = "each" /\ disp'.l = o /\ disp'.devs = clients[o]
      /\ clients' \in [Listeners -> Seq(Clients)] /\ clients'[o] = <<>> /\ \A l \in Listeners : l # o => clients'[l] = clients[l]
  <2>1. <<>> \in Seq(Clients)
    OBVIOUS
  <2>2. disp' = [disp EXCEPT !.at = "each", !.devs = clients[o]] /\ clients' = [clients EXCEPT ![o] = <<>>]
    BY <1>1 DEF SwapClients
  <2>3. disp' \in [at : {"idle", "swap", "each"}, l : Owners, devs : Seq(Clients),
                    next : {"none", "Open", "Reopen", "Closed", "Disposing"}]
        /\ disp'.at = "each" /\ disp'.l = o /\ disp'.devs = clients[o]
    BY <1>1, <1>2, <2>2 DEF ServerTyped
  <2> QED
    BY <1>1, <2>1, <2>2, <2>3 DEF ClientInv, DevsTyped
<1>4. \A x : ~In(<<>>, x)
  BY DEF In
<1>5. DevsTyped'
  BY <1>1, <1>3 DEF ClientInv, DevsTyped
<1>6. Lists'
  <2>1. BySeq(disp'.devs, dev') /\ \A l \in Listeners : BySeq(clients'[l], dev')
    <3>1. BySeq(<<>>, dev)
      BY DEF BySeq
    <3> QED
      BY <1>1, <1>3, <3>1 DEF ClientInv, Lists
  <2>2. \A l \in Listeners : Len(clients'[l]) <= Capacity
    <3>1. Len(<<>>) = 0
      OBVIOUS
    <3> QED
      BY <1>3, <3>1 DEF ServerOK, ClientInv, Lists
  <2>3. ASSUME NEW l \in Listeners, loop'[l].at = "add"
        PROVE  loop'[l].c \notin crossed' /\ Len(clients'[l]) < Capacity
    <3>1. loop[l].c \notin crossed /\ Len(clients[l]) < Capacity
      BY <1>1, <2>3 DEF ClientInv, Lists
    <3>2. Len(clients'[l]) = Len(clients[l]) \/ Len(clients'[l]) = 0
      BY <1>3
    <3> QED
      BY <1>1, <1>2, <3>1, <3>2 DEF ServerOK, ClientInv, DevsTyped
  <2>4. /\ \A l \in Listeners, x \in Clients : In(clients'[l], x) => dev'[x].owner = l
        /\ \A x \in Clients : In(disp'.devs, x) =>
             disp'.l # 0 /\ dev'[x].owner = disp'.l /\ ~In(clients'[disp'.l], x)
    BY <1>1, <1>3, <1>4 DEF ClientInv, Lists, Listeners
  <2> QED
    BY <1>1, <2>1, <2>2, <2>3, <2>4 DEF ClientInv, Lists
<1>7. News'
  BY <1>1, <1>3, <1>4 DEF ClientInv, News, Known, IsNew
<1>8. AllKept'
  <2> SUFFICES ASSUME NEW c \in Clients, c \notin crossed, dev[c].owner # 0, Kept(c) PROVE Kept(c)'
    BY <1>1 DEF ClientInv, AllKept, Kept
  <2>0. PICK w \in Owners : w = dev[c].owner
    BY DEF ClientInv, DevsTyped, Devices
  <2>1. w \in Listeners /\ LoopAt(c)' = LoopAt(c) /\ dev'[c] = dev[c] /\ dev'[c].owner = w /\ isDisposing'[w] = isDisposing[w]
    BY <1>1, <2>0 DEF Owners, LoopAt
  <2>2. Fine(dev[c], In(clients[w], c), In(disp.devs, c), LoopAt(c), isDisposing[w], disp.at = "swap" /\ disp.l = w)
    BY <2>0 DEF Kept
  <2>3. Fine(dev'[c], In(clients'[w], c), In(disp'.devs, c), LoopAt(c)', isDisposing'[w], disp'.at = "swap" /\ disp'.l = w)
    <3>1. CASE w = o
      <4>1. ~In(clients'[w], c) /\ ~In(disp.devs, c) /\ (In(disp'.devs, c) <=> In(clients[w], c)) /\ isDisposing[w]
        BY <1>1, <1>3, <1>4, <3>1
      <4> QED
        BY <1>1, <1>3, <2>1, <2>2, <3>1, <4>1 DEF Fine, B
    <3>2. CASE w # o
      <4>1. clients'[w] = clients[w] /\ ~In(disp.devs, c) /\ ~In(disp'.devs, c)
        BY <1>1, <1>3, <1>4, <2>0, <2>1, <3>2 DEF ClientInv, Lists
      <4> QED
        BY <1>1, <1>3, <2>1, <2>2, <3>2, <4>1 DEF Fine, B
    <3> QED
      BY <3>1, <3>2
  <2> QED
    BY <2>1, <2>3 DEF Kept
<1> QED
  BY <1>5, <1>6, <1>7, <1>8 DEF ClientInv

(* Who is disposed of by the listener is as he should be. *)
LEMMA ToldIsFine ==
  ASSUME NEW r \in Devices, NEW g \in BOOLEAN, NEW a \in Accepting, Fine(r, FALSE, TRUE, a, g, FALSE),
         a \notin {"ref", "init"}, g
  PROVE  r.st # "Destructing" /\ Fine(Released(Posted(r, "dispose")), FALSE, FALSE, a, g, FALSE)
<1> DEFINE p == Posted(r, "dispose")
           y == Released(p)
<1>1. a # "add" /\ r.refs = 1 + B(r.tasks # <<>>) + B(r.fdr) /\ r.st \notin {"none", "Destructing"} /\ r.refs \in Int
      /\ (r.st \in {"Initializing", "Initialized"} => ~r.fdr) /\ r.fdr \in BOOLEAN
  BY DEF Fine, B, Devices
<1>2. /\ p \in Devices /\ p.st = r.st /\ p.refs = r.refs + B(r.tasks = <<>>) /\ p.tasks # <<>> /\ p.fdr = r.fdr
      /\ In(p.tasks, "dispose")
  BY PostedIs DEF Tasks
<1> HIDE DEF p
<1>3. p.refs = 2 + B(r.fdr)
  BY <1>1, <1>2 DEF B
<1>4. y.refs = p.refs - 1 /\ y.st = (IF p.refs = 1 THEN "Destructing" ELSE p.st) /\ y.tasks = p.tasks /\ y.fdr = p.fdr
  BY <1>2, ReleasedIs
<1> HIDE DEF y
<1>5. y.st = r.st /\ y.refs = 1 + B(y.fdr) /\ y.refs # 0 /\ y.tasks # <<>> /\ y.fdr = r.fdr
  BY <1>1, <1>2, <1>3, <1>4 DEF B
<1>6. In(y.tasks, "dispose")
  BY <1>2, <1>4, Zenon
<1>7. y.refs = B((FALSE \/ FALSE) /\ a # "ref") + B(y.tasks # <<>>) + B(y.fdr) + B(a \in {"add", "ref", "init"})
  BY <1>1, <1>5 DEF B
<1>8. Fine(y, FALSE, FALSE, a, g, FALSE)
  BY <1>1, <1>5, <1>6, <1>7 DEF Fine
<1> QED
  BY <1>1, <1>8 DEF y, p

(* Dispose tells one of those it took, and lets go of it. *)
LEMMA OneIsTold ==
  ASSUME ServerOK, ServerTyped, InUse, ClientInv, DisposeEach
  PROVE  ClientInv'
<1>0. PICK c : c = Head(disp.devs)
  OBVIOUS
<1>1. PICK o \in Owners : o = disp.l
  BY DEF ServerTyped
<1>2. \A x \in Clients : dev[x].seq \in Nat
  BY DEF ClientInv, DevsTyped, Devices
<1>3. /\ disp.devs \in Seq(Clients) /\ disp.devs # <<>> /\ BySeq(disp.devs, dev)
      /\ disp' = [disp EXCEPT !.devs = Tail(disp.devs)] /\ disp.at = "each"
  BY DEF DisposeEach, ServerTyped, ClientInv, Lists
<1>4. /\ c \in Clients /\ In(disp.devs, c) /\ Tail(disp.devs) \in Seq(Clients) /\ BySeq(Tail(disp.devs), dev)
      /\ \A x : In(Tail(disp.devs), x) <=> In(disp.devs, x) /\ x # c
  BY <1>0, <1>2, <1>3, TailKeeps
<1>5. disp'.devs = Tail(disp.devs) /\ disp'.at = "each" /\ disp'.l = o
  BY <1>1, <1>3 DEF ServerTyped
<1>6. /\ UNCHANGED <<clients, loop, isDisposing>> /\ crossed \subseteq crossed' /\ crossed' \subseteq crossed \cup {c}
      /\ crossed' \subseteq crossed \cup ({c} \cap BeingAccepted) /\ (c \notin crossed' => c \notin BeingAccepted)
  BY <1>0 DEF DisposeEach, listenerVars
<1>7. o \in Listeners /\ dev[c].owner = o /\ ~In(clients[o], c) /\ isDisposing[o] /\ c # 0
  BY <1>1, <1>3, <1>4 DEF ClientInv, Lists, Owners, InUse, Listeners, Clients
<1>8. dev[c].peer \notin NotYet /\ dev[c] \in Devices
  BY <1>4 DEF ClientInv, News, Known, IsNew, DevsTyped
<1> DEFINE y == Released(Posted(dev[c], "dispose"))
<1>9. y \in Devices /\ y.owner = o /\ y.seq = dev[c].seq /\ y.peer = dev[c].peer
  BY <1>7, <1>8, PostedIs, ReleasedIs DEF Tasks
<1>10. ASSUME c \notin crossed'
       PROVE  dev[c].st # "Destructing" /\ Fine(y, FALSE, FALSE, LoopAt(c), isDisposing[o], FALSE)
  <2>1. Fine(dev[c], In(clients[o], c), In(disp.devs, c), LoopAt(c), isDisposing[o], disp.at = "swap" /\ disp.l = o)
    <3>1. Kept(c) /\ o # 0
      BY <1>4, <1>6, <1>7, <1>10 DEF ClientInv, AllKept, Listeners
    <3> QED
      BY <1>7, <3>1 DEF Kept
  <2>2. Fine(dev[c], FALSE, TRUE, LoopAt(c), isDisposing[o], FALSE)
    BY <1>3, <1>4, <1>7, <2>1 DEF Fine, B
  <2>3. LoopAt(c) \in Accepting /\ LoopAt(c) \notin {"ref", "init"}
    BY <1>4, <1>6, <1>7, <1>10, AcceptedOrNot DEF ClientInv, Listeners
  <2>4. isDisposing[o] \in BOOLEAN
    BY <1>7 DEF ServerTyped
  <2> HIDE DEF y
  <2> QED
    BY <1>7, <1>8, <2>2, <2>3, <2>4, ToldIsFine DEF y
<1>11. \/ dev' = [dev EXCEPT ![c] = y] /\ UNCHANGED misused
       \/ UNCHANGED dev /\ misused' = misused \cup {c} /\ dev[c].st = "Destructing"
  BY <1>0 DEF DisposeEach
<1> HIDE DEF y
<1>12. misused' \subseteq crossed' /\ crossed' \subseteq Clients
  BY <1>4, <1>6, <1>10, <1>11 DEF ClientInv, DevsTyped
<1>13. /\ dev' \in [Clients -> Devices] /\ (dev'[c] = y \/ (c \in crossed' /\ dev'[c] = dev[c]))
       /\ \A x \in Clients : x # c => dev'[x] = dev[x]
  <2>1. CASE dev' = [dev EXCEPT ![c] = y]
    BY <1>4, <1>9, <2>1, DevSet DEF ClientInv
  <2>2. CASE UNCHANGED dev /\ dev[c].st = "Destructing"
    BY <1>10, <2>2 DEF ClientInv, DevsTyped
  <2> QED
    BY <1>11, <2>1, <2>2
<1>14. DevsTyped'
  BY <1>6, <1>12, <1>13 DEF ClientInv, DevsTyped
<1>15. \A x \in Clients : dev'[x].owner = dev[x].owner /\ dev'[x].seq = dev[x].seq /\ dev'[x].peer = dev[x].peer
  BY <1>4, <1>7, <1>9, <1>13
<1>16. Lists'
  <2>1. \A q \in Seq(Clients) : BySeq(q, dev) => BySeq(q, dev')
    <3> SUFFICES ASSUME NEW q \in Seq(Clients), BySeq(q, dev) PROVE BySeq(q, dev')
      OBVIOUS
    <3>1. \A i \in 1 .. Len(q) : q[i] \in Clients
      OBVIOUS
    <3> QED
      BY <1>15, <3>1 DEF BySeq
  <2>2. BySeq(disp'.devs, dev') /\ \A l \in Listeners : BySeq(clients'[l], dev') /\ Len(clients'[l]) <= Capacity
    BY <1>4, <1>5, <1>6, <2>1 DEF ClientInv, Lists, DevsTyped
  <2>3. ASSUME NEW l \in Listeners, loop[l].at = "add"
        PROVE  loop[l].c \notin crossed' /\ Len(clients[l]) < Capacity
    <3>1. loop[l].c # 0
      BY <2>3 DEF ClientInv, Lists, Accepting
    <3>2. \A x \in Listeners : loop[x].c = loop[l].c => x = l
      BY <3>1, ClientInLoop DEF ClientInv
    <3>3. loop[l].c \notin BeingAccepted
      BY <2>3, <3>2 DEF BeingAccepted
    <3>4. loop[l].c \notin crossed'
      BY <1>6, <2>3, <3>3 DEF ClientInv, Lists
    <3> QED
      BY <2>3, <3>4 DEF ClientInv, Lists
  <2>4. /\ \A l \in Listeners, x \in Clients : In(clients[l], x) => dev'[x].owner = l
        /\ \A x \in Clients : In(disp'.devs, x) =>
             disp'.l # 0 /\ dev'[x].owner = disp'.l /\ ~In(clients[disp'.l], x)
    BY <1>1, <1>4, <1>5, <1>15 DEF ClientInv, Lists
  <2>5. \A l \in Listeners : (loop[l].c # 0 <=> loop[l].at \in Accepting) /\ (loop[l].c # 0 => dev'[loop[l].c].owner = l)
    <3>1. \A l \in Listeners : loop[l].c # 0 => loop[l].c \in Clients
      BY DEF ServerTyped
    <3> QED
      BY <1>15, <3>1 DEF ClientInv, Lists
  <2> QED
    BY <1>6, <2>2, <2>3, <2>4, <2>5 DEF Lists
<1>17. \A x \in Clients : x # c => StaysOut(x)
  BY <1>3, <1>4, <1>5, <1>6, <1>13 DEF StaysOut
<1>18. Known(c)'
  BY <1>7, <1>8, <1>15, <1>4 DEF Known, ClientInv, News, NotYet, Listeners
<1>19. c \in crossed' \/ Kept(c)'
  <2> SUFFICES ASSUME c \notin crossed' PROVE Kept(c)'
    OBVIOUS
  <2>1. Fine(y, FALSE, FALSE, LoopAt(c), isDisposing[o], FALSE) /\ dev'[c] = y
    BY <1>10, <1>13
  <2>2. In(clients[o], c) = FALSE /\ In(disp'.devs, c) = FALSE /\ (disp'.at = "swap" /\ disp'.l = o) = FALSE
    BY <1>4, <1>5, <1>7 DEF In
  <2>3. LoopAt(c)' = LoopAt(c) /\ dev'[c].owner = o
    BY <1>4, <1>6, <1>7, <1>15 DEF LoopAt
  <2> QED
    BY <1>6, <2>1, <2>2, <2>3 DEF Kept
<1> QED
  BY <1>4, <1>14, <1>16, <1>17, <1>18, <1>19, OthersStay DEF ClientInv

-----------------------------------------------------------------------------
(* A connection is accepted *)

(* The lists, when nobody leaves or enters one. *)
LEMMA ListsAgain ==
  ASSUME ServerTyped, DevsTyped, Lists, \A x \in Clients : dev'[x].owner = dev[x].owner /\ dev'[x].seq = dev[x].seq,
         UNCHANGED <<disp, clients, crossed>>, NEW l \in Listeners, \A x \in Listeners : x # l => loop'[x] = loop[x],
         loop'[l].c # 0 <=> loop'[l].at \in Accepting,
         loop'[l].c # 0 => loop'[l].c \in Clients /\ dev[loop'[l].c].owner = l,
         loop'[l].at = "add" => loop'[l].c \notin crossed /\ Len(clients[l]) < Capacity
  PROVE  Lists'
<1>1. \A q \in Seq(Clients) : BySeq(q, dev) => BySeq(q, dev')
  <2> SUFFICES ASSUME NEW q \in Seq(Clients), BySeq(q, dev) PROVE BySeq(q, dev')
    OBVIOUS
  <2>1. \A i \in 1 .. Len(q) : q[i] \in Clients
    OBVIOUS
  <2> QED
    BY <2>1 DEF BySeq
<1>2. BySeq(disp'.devs, dev') /\ \A x \in Listeners : BySeq(clients'[x], dev') /\ Len(clients'[x]) <= Capacity
  BY <1>1 DEF Lists, DevsTyped, ServerTyped
<1>3. \A x \in Listeners : loop[x].c # 0 => loop[x].c \in Clients
  BY DEF ServerTyped
<1>4. \A x \in Listeners : (loop'[x].c # 0 <=> loop'[x].at \in Accepting) /\ (loop'[x].c # 0 => dev'[loop'[x].c].owner = x)
  BY <1>3 DEF Lists
<1>5. \A x \in Listeners : loop'[x].at = "add" => loop'[x].c \notin crossed' /\ Len(clients'[x]) < Capacity
  BY DEF Lists
<1>6. /\ \A x \in Listeners, c \in Clients : In(clients'[x], c) => dev'[c].owner = x
      /\ \A c \in Clients : In(disp'.devs, c) => disp'.l # 0 /\ dev'[c].owner = disp'.l /\ ~In(clients'[disp'.l], c)
  BY DEF Lists
<1> QED
  BY <1>2, <1>4, <1>5, <1>6 DEF Lists

(* A loop goes on with the client in hand, whose device changes. *)
LEMMA LoopSteps ==
  ASSUME ServerTyped, ClientInv, NEW l \in Listeners, NEW c \in Clients, c = loop[l].c,
         NEW p \in {"init", "log", "idle"}, NEW k \in {c, 0}, k = 0 <=> p = "idle",
         NEW y \in Devices, dev' = [dev EXCEPT ![c] = y], loop' = [loop EXCEPT ![l] = [at |-> p, c |-> k]],
         y.owner = dev[c].owner, y.seq = dev[c].seq, y.peer = dev[c].peer, misused' \subseteq crossed,
         UNCHANGED <<disp, clients, isDisposing, crossed>>,
         c \in crossed \/ (k = c /\ Fine(y, In(clients[l], c), In(disp.devs, c), p, isDisposing[l],
                                          disp.at = "swap" /\ disp.l = l))
  PROVE  ClientInv'
<1>1. dev' \in [Clients -> Devices] /\ dev'[c] = y /\ \A x \in Clients : x # c => dev'[x] = dev[x]
  BY DevSet DEF ClientInv
<1>2. /\ loop'[l].at = p /\ loop'[l].c = k /\ c # 0 /\ dev[c].owner = l /\ dev'[c].owner = l
      /\ \A x \in Listeners : x # l => loop'[x] = loop[x]
  BY <1>1, ClientInLoop DEF ClientInv, ServerTyped, Clients
<1>3. DevsTyped'
  BY <1>1 DEF ClientInv, DevsTyped
<1>4. \A x \in Clients : dev'[x].owner = dev[x].owner /\ dev'[x].seq = dev[x].seq
  BY <1>1
<1>5. Lists'
  BY <1>2, <1>4, ListsAgain DEF ClientInv, Accepting
<1>6. \A x \in Clients : x # c => StaysOut(x)
  BY <1>1, <1>2 DEF StaysOut, Clients
<1>7. Known(c)'
  <2>1. dev[c].peer \notin NotYet /\ l # 0
    BY DEF ClientInv, News, Known, IsNew, Listeners
  <2> QED
    BY <1>1, <1>2, <2>1 DEF Known, NotYet
<1>8. c \in crossed' \/ Kept(c)'
  <2> SUFFICES ASSUME c \notin crossed PROVE Kept(c)'
    OBVIOUS
  <2>1. LoopAt(c)' = p
    BY <1>2 DEF LoopAt
  <2> QED
    BY <1>1, <1>2, <2>1 DEF Kept
<1> QED
  BY <1>3, <1>5, <1>6, <1>7, <1>8, OthersStay DEF ClientInv

(* The list holds the client (intrusive_ptr_add_ref in AddAcceptedClient). *)
LEMMA ListHolds ==
  ASSUME ServerTyped, ClientInv, NEW l \in Listeners, AddRef(l)
  PROVE  ClientInv'
<1>0. PICK c \in Clients : c = loop[l].c
  BY DEF AddRef, ClientInv, Lists, ServerTyped, Accepting
<1> DEFINE r == dev[c]
           y == [r EXCEPT !.refs = r.refs + 1]
<1>1. /\ r \in Devices /\ loop[l].at = "ref" /\ LoopAt(c) = "ref" /\ r.owner = l /\ l # 0
      /\ UNCHANGED <<disp, clients, isDisposing, crossed>> /\ isDisposing[l] \in BOOLEAN
  BY <1>0, ClientInLoop DEF AddRef, ClientInv, DevsTyped, serverVars, Listeners, Clients, ServerTyped
<1>2. ASSUME c \notin crossed
      PROVE  Fine(r, In(clients[l], c), In(disp.devs, c), "ref", isDisposing[l], disp.at = "swap" /\ disp.l = l)
  BY <1>1, <1>2 DEF ClientInv, AllKept, Kept
<1>3. CASE r.st = "Destructing"
  <2>1. misused' = misused \cup {c} /\ loop' = [loop EXCEPT ![l] = NoLoop] /\ UNCHANGED dev
    BY <1>0, <1>3 DEF AddRef
  <2>2. c \in crossed
    BY <1>2, <1>3 DEF Fine
  <2>3. dev' = [dev EXCEPT ![c] = r] /\ misused' \subseteq crossed
    BY <2>1, <2>2 DEF ClientInv, DevsTyped
  <2> HIDE DEF r
  <2> QED
    BY ZenonT(40), <1>0, <1>1, <2>1, <2>2, <2>3, LoopSteps DEF NoLoop, r, Clients
<1>4. CASE r.st # "Destructing"
  <2>1. dev' = [dev EXCEPT ![c] = y]
    BY <1>0, <1>4 DEF AddRef
  <2>2. [loop[l] EXCEPT !.at = "init"] = [at |-> "init", c |-> c]
    BY <1>0 DEF ServerTyped
  <2>3. loop' = [loop EXCEPT ![l] = [at |-> "init", c |-> c]]
    BY <1>0, <1>4, <2>2 DEF AddRef
  <2>4. misused' \subseteq crossed
    BY <1>0, <1>4 DEF AddRef, ClientInv, DevsTyped
  <2>5. /\ y \in Devices /\ y.refs = r.refs + 1 /\ y.st = r.st /\ y.tasks = r.tasks /\ y.fdr = r.fdr
        /\ y.owner = r.owner /\ y.seq = r.seq /\ y.peer = r.peer
    BY <1>1 DEF Devices
  <2> HIDE DEF y
  <2>6. ASSUME c \notin crossed
        PROVE  Fine(y, In(clients[l], c), In(disp.devs, c), "init", isDisposing[l], disp.at = "swap" /\ disp.l = l)
    <3> HIDE DEF r
    <3>1. r.refs = 1 /\ r.st = "Initializing" /\ r.tasks = <<>> /\ ~r.fdr /\ (In(clients[l], c) \/ In(disp.devs, c))
      BY <1>2, <2>6 DEF Fine, B
    <3> QED
      BY <1>2, <2>5, <2>6, <3>1 DEF Fine, B
  <2>7. c # 0
    BY DEF Clients
  <2> QED
    BY <1>0, <1>1, <2>1, <2>3, <2>4, <2>5, <2>6, <2>7, LoopSteps
<1> QED
  BY <1>3, <1>4

(* The client is initialized and told to open, and the loop lets go of it. *)
LEMMA ClientIsOpened ==
  ASSUME ServerTyped, ClientInv, NEW l \in Listeners, InitializeAndOpen(l)
  PROVE  ClientInv'
<1>0. PICK c \in Clients : c = loop[l].c
  BY DEF InitializeAndOpen, ClientInv, Lists, ServerTyped, Accepting
<1> DEFINE r == dev[c]
           q == [r EXCEPT !.st = "Initialized"]
           p == Posted(q, "open")
           y == Released(p)
<1>1. /\ r \in Devices /\ loop[l].at = "init" /\ LoopAt(c) = "init" /\ r.owner = l /\ l # 0
      /\ UNCHANGED <<disp, clients, isDisposing, crossed, misused>> /\ isDisposing[l] \in BOOLEAN
  BY <1>0, ClientInLoop DEF InitializeAndOpen, ClientInv, DevsTyped, serverVars, Listeners, Clients, ServerTyped
<1>2. ASSUME c \notin crossed
      PROVE  Fine(r, In(clients[l], c), In(disp.devs, c), "init", isDisposing[l], disp.at = "swap" /\ disp.l = l)
  BY <1>1, <1>2 DEF ClientInv, AllKept, Kept
<1>3. dev' = [dev EXCEPT ![c] = y]
  BY <1>0 DEF InitializeAndOpen
<1>4. [loop[l] EXCEPT !.at = "log"] = [at |-> "log", c |-> c]
  BY <1>0 DEF ServerTyped
<1>5. loop' = [loop EXCEPT ![l] = [at |-> "log", c |-> c]]
  BY <1>0, <1>4 DEF InitializeAndOpen
<1>6. /\ q \in Devices /\ q.st = "Initialized" /\ q.refs = r.refs /\ q.tasks = r.tasks /\ q.fdr = r.fdr
      /\ q.owner = r.owner /\ q.seq = r.seq /\ q.peer = r.peer
  BY <1>1 DEF Devices, States
<1> HIDE DEF q
<1>7. /\ p \in Devices /\ p.st = q.st /\ p.refs = q.refs + B(q.tasks = <<>>) /\ p.tasks # <<>> /\ p.fdr = q.fdr
      /\ p.owner = q.owner /\ p.seq = q.seq /\ p.peer = q.peer
  BY <1>6, PostedIs DEF Tasks
<1> HIDE DEF p
<1>8. /\ y \in Devices /\ y.st = (IF p.refs = 1 THEN "Destructing" ELSE p.st) /\ y.refs = p.refs - 1
      /\ y.tasks = p.tasks /\ y.fdr = p.fdr /\ y.owner = p.owner /\ y.seq = p.seq /\ y.peer = p.peer
  BY <1>7, ReleasedIs
<1> HIDE DEF y
<1>9. ASSUME c \notin crossed
      PROVE  Fine(y, In(clients[l], c), In(disp.devs, c), "log", isDisposing[l], disp.at = "swap" /\ disp.l = l)
  <2> HIDE DEF r
  <2>1. r.refs = 2 /\ r.st = "Initializing" /\ r.tasks = <<>> /\ ~r.fdr /\ (In(clients[l], c) \/ In(disp.devs, c))
    BY <1>2, <1>9 DEF Fine, B
  <2>2. y.refs = 2 /\ y.st = "Initialized" /\ y.tasks # <<>> /\ ~y.fdr
    BY <1>6, <1>7, <1>8, <2>1 DEF B
  <2> QED
    BY <1>2, <1>9, <2>1, <2>2 DEF Fine, B, Early
<1>10. misused' \subseteq crossed
  BY <1>1 DEF ClientInv, DevsTyped
<1>11. y.owner = r.owner /\ y.seq = r.seq /\ y.peer = r.peer
  BY <1>6, <1>7, <1>8
<1>12. c # 0
  BY DEF Clients
<1> QED
  BY <1>0, <1>1, <1>3, <1>5, <1>8, <1>9, <1>10, <1>11, <1>12, LoopSteps

(* A peer connects. *)
LEMMA SomeoneConnects ==
  ASSUME ServerTyped, ClientInv, NEW c \in Clients, Connects(c)
  PROVE  ClientInv'
<1>1. PICK l \in Listeners : dev' = [dev EXCEPT ![c].peer = "waiting", ![c].owner = l]
  BY DEF Connects
<1> DEFINE y == [dev[c] EXCEPT !.peer = "waiting", !.owner = l]
<1>2. /\ UNCHANGED <<disp, clients, loop, isDisposing, crossed, misused>> /\ dev[c] \in Devices
      /\ IsNew(c) /\ dev[c].owner = 0 /\ l # 0 /\ c # 0
  BY DEF Connects, serverVars, listenerVars, ClientInv, DevsTyped, News, Known, NotYet, Listeners, Clients
<1>3. dev' = [dev EXCEPT ![c] = y]
  BY <1>1 DEF ClientInv, DevsTyped
<1>4. /\ y \in Devices /\ y.peer = "waiting" /\ y.owner = l /\ y.seq = dev[c].seq /\ y.st = dev[c].st
      /\ y.refs = dev[c].refs /\ y.tasks = dev[c].tasks /\ y.fdr = dev[c].fdr
  BY <1>2 DEF Devices, Peers, Owners
<1> HIDE DEF y
<1>5. dev' \in [Clients -> Devices] /\ dev'[c] = y /\ \A x \in Clients : x # c => dev'[x] = dev[x]
  BY <1>3, <1>4, DevSet DEF ClientInv
<1>6. DevsTyped'
  BY <1>2, <1>5 DEF ClientInv, DevsTyped
<1>7. \A x \in Clients : dev'[x].seq = dev[x].seq /\ (x # c => dev'[x].owner = dev[x].owner)
  BY <1>4, <1>5
<1>8. Lists'
  <2>1. \A q \in Seq(Clients) : BySeq(q, dev) => BySeq(q, dev')
    <3> SUFFICES ASSUME NEW q \in Seq(Clients), BySeq(q, dev) PROVE BySeq(q, dev')
      OBVIOUS
    <3>1. \A i \in 1 .. Len(q) : q[i] \in Clients
      OBVIOUS
    <3> QED
      BY <1>7, <3>1 DEF BySeq
  <2>2. BySeq(disp'.devs, dev') /\ \A x \in Listeners : BySeq(clients'[x], dev') /\ Len(clients'[x]) <= Capacity
    BY <1>2, <2>1 DEF ClientInv, Lists, DevsTyped, ServerTyped
  <2>3. \A x \in Listeners : loop[x].c # 0 => loop[x].c \in Clients /\ loop[x].c # c
    BY <1>2 DEF ServerTyped, IsNew
  <2>4. \A x \in Listeners : loop'[x].c # 0 => dev'[loop'[x].c].owner = x
    BY <1>2, <1>7, <2>3 DEF ClientInv, Lists
  <2>5. /\ \A x \in Listeners, z \in Clients : In(clients'[x], z) => dev'[z].owner = x
        /\ \A z \in Clients : In(disp'.devs, z) =>
             disp'.l # 0 /\ dev'[z].owner = disp'.l /\ ~In(clients'[disp'.l], z)
    BY <1>2, <1>7 DEF ClientInv, Lists, IsNew
  <2> QED
    BY <1>2, <2>2, <2>4, <2>5 DEF ClientInv, Lists
<1>9. \A x \in Clients : x # c => StaysOut(x)
  BY <1>2, <1>5 DEF StaysOut
<1>10. Known(c)'
  BY <1>2, <1>4, <1>5 DEF Known, IsNew
<1>11. c \in crossed' \/ Kept(c)'
  <2>1. LoopAt(c)' = "log" /\ In(clients'[l], c) = FALSE /\ In(disp'.devs, c) = FALSE
    BY <1>2, <1>4, <1>5 DEF LoopAt, IsNew, In
  <2>2. Fine(y, FALSE, FALSE, "log", isDisposing[l], disp.at = "swap" /\ disp.l = l)
    BY <1>2, <1>4 DEF IsNew, Fine, B, Early
  <2> QED
    BY <1>2, <1>4, <1>5, <2>1, <2>2 DEF Kept
<1> QED
  BY <1>6, <1>8, <1>9, <1>10, <1>11, OthersStay DEF ClientInv

(* accept: who waits is refused or becomes a device. *)
LEMMA SomeoneIsTaken ==
  ASSUME ServerTyped, ClientInv, NEW l \in Listeners, Accept(l)
  PROVE  ClientInv'
<1>1. PICK c \in Waiting(l) :
        \/ dev' = [dev EXCEPT ![c].peer = "refused"] /\ loop' = [loop EXCEPT ![l] = NoLoop]
        \/ /\ HasRoom(l)
           /\ dev' = [dev EXCEPT ![c].peer = "open", ![c].st = "Initializing", ![c].refs = 1]
           /\ loop' = [loop EXCEPT ![l] = [at |-> "add", c |-> c]]
  BY DEF Accept
<1>2. /\ UNCHANGED <<disp, clients, isDisposing, crossed, misused>> /\ dev[c] \in Devices /\ c \in Clients
      /\ IsNew(c) /\ dev[c].owner = l /\ l # 0 /\ c # 0 /\ loop[l].at = "accept" /\ loop[l].c = 0
  BY DEF Accept, Waiting, serverVars, ClientInv, DevsTyped, News, Known, NotYet, Listeners, Clients, Lists, Accepting
<1>3. ASSUME NEW y \in Devices, dev' = [dev EXCEPT ![c] = y], y.owner = l, y.seq = dev[c].seq,
             NEW p \in {"idle", "add"}, NEW k \in {0, c}, k = 0 <=> p = "idle",
             loop' = [loop EXCEPT ![l] = [at |-> p, c |-> k]], p = "add" => Len(clients[l]) < Capacity,
             y.peer \in NotYet => y.st = dev[c].st /\ y.refs = dev[c].refs /\ y.tasks = dev[c].tasks
                                  /\ y.fdr = dev[c].fdr /\ p = "idle",
             y.peer # "none",
             Fine(y, FALSE, FALSE, IF p = "add" THEN "add" ELSE "log", isDisposing[l], disp.at = "swap" /\ disp.l = l)
      PROVE  ClientInv'
  <2>1. dev' \in [Clients -> Devices] /\ dev'[c] = y /\ \A x \in Clients : x # c => dev'[x] = dev[x]
    BY <1>2, <1>3, DevSet DEF ClientInv
  <2>2. loop'[l].at = p /\ loop'[l].c = k /\ \A x \in Listeners : x # l => loop'[x] = loop[x]
    BY <1>3 DEF ServerTyped
  <2>3. DevsTyped'
    BY <1>2, <2>1 DEF ClientInv, DevsTyped
  <2>4. \A x \in Clients : dev'[x].seq = dev[x].seq /\ dev'[x].owner = dev[x].owner
    BY <1>2, <1>3, <2>1
  <2>5. c \notin crossed
    BY <1>2 DEF IsNew
  <2>6. loop'[l].c # 0 <=> loop'[l].at \in Accepting
    BY <1>3, <2>2 DEF Accepting
  <2>7. loop'[l].c # 0 => loop'[l].c \in Clients /\ dev[loop'[l].c].owner = l
    BY <1>2, <2>2
  <2>8. loop'[l].at = "add" => loop'[l].c \notin crossed /\ Len(clients[l]) < Capacity
    BY <1>3, <2>2, <2>5
  <2>9. Lists'
    BY <1>2, <2>2, <2>4, <2>6, <2>7, <2>8, ListsAgain DEF ClientInv
  <2>10. \A x \in Clients : x # c => StaysOut(x)
    BY <1>2, <2>1, <2>2 DEF StaysOut, Clients
  <2>11. Known(c)'
    <3>1. y.peer \in NotYet => \A x \in Listeners : loop'[x].c # c
      BY <1>2, <1>3, <2>2 DEF IsNew
    <3> QED
      BY <1>2, <1>3, <2>1, <3>1 DEF Known, IsNew
  <2>12. c \in crossed' \/ Kept(c)'
    <3>1. LoopAt(c)' = IF p = "add" THEN "add" ELSE "log"
      BY <1>2, <1>3, <2>1, <2>2 DEF LoopAt
    <3>2. In(clients'[l], c) = FALSE /\ In(disp'.devs, c) = FALSE
      BY <1>2 DEF IsNew, In
    <3> QED
      BY <1>2, <1>3, <2>1, <3>1, <3>2 DEF Kept
  <2> QED
    BY <1>2, <2>3, <2>9, <2>10, <2>11, <2>12, OthersStay DEF ClientInv
<1>4. CASE dev' = [dev EXCEPT ![c].peer = "refused"] /\ loop' = [loop EXCEPT ![l] = NoLoop]
  <2> DEFINE y == [dev[c] EXCEPT !.peer = "refused"]
  <2>1. dev' = [dev EXCEPT ![c] = y]
    BY <1>2, <1>4 DEF ClientInv, DevsTyped
  <2>2. /\ y \in Devices /\ y.peer = "refused" /\ y.owner = l /\ y.seq = dev[c].seq /\ y.st = dev[c].st
        /\ y.refs = dev[c].refs /\ y.tasks = dev[c].tasks /\ y.fdr = dev[c].fdr
    BY <1>2 DEF Devices, Peers
  <2> HIDE DEF y
  <2>3. Fine(y, FALSE, FALSE, "log", isDisposing[l], disp.at = "swap" /\ disp.l = l)
    BY <1>2, <2>2 DEF IsNew, Fine, B, Early
  <2> QED
    BY <1>3, <1>4, <2>1, <2>2, <2>3 DEF NoLoop
<1>5. CASE /\ HasRoom(l) /\ dev' = [dev EXCEPT ![c].peer = "open", ![c].st = "Initializing", ![c].refs = 1]
           /\ loop' = [loop EXCEPT ![l] = [at |-> "add", c |-> c]]
  <2> DEFINE y == [dev[c] EXCEPT !.peer = "open", !.st = "Initializing", !.refs = 1]
  <2>1. dev' = [dev EXCEPT ![c] = y]
    BY <1>2, <1>5 DEF ClientInv, DevsTyped
  <2>2. /\ y \in Devices /\ y.peer = "open" /\ y.owner = l /\ y.seq = dev[c].seq /\ y.st = "Initializing"
        /\ y.refs = 1 /\ y.tasks = dev[c].tasks /\ y.fdr = dev[c].fdr
    <3>1. "open" \in Peers /\ "Initializing" \in States /\ 1 \in Int
      BY DEF Peers, States
    <3> QED
      BY <1>2, <3>1 DEF Devices
  <2> HIDE DEF y
  <2>3. Fine(y, FALSE, FALSE, "add", isDisposing[l], disp.at = "swap" /\ disp.l = l)
    BY <1>2, <2>2 DEF IsNew, Fine, B, Early
  <2> QED
    BY <1>2, <1>3, <1>5, <2>1, <2>2, <2>3 DEF HasRoom, NotYet
<1> QED
  BY <1>1, <1>4, <1>5

(* The client is numbered and put in the list, after all that are there. *)
LEMMA ListGrows ==
  ASSUME ServerOK, ServerTyped, ClientInv, NEW l \in Listeners, AddToList(l)
  PROVE  ClientInv'
<1>0. PICK c \in Clients : c = loop[l].c
  BY DEF AddToList, ClientInv, Lists, ServerTyped, Accepting
<1> DEFINE n == NextSeq(l)
           y == [dev[c] EXCEPT !.seq = n]
           q == clients[l]
           u == Append(q, c)
<1>1. /\ dev[c] \in Devices /\ loop[l].at = "add" /\ LoopAt(c) = "add" /\ dev[c].owner = l /\ l # 0 /\ c # 0
      /\ UNCHANGED <<disp, isDisposing, misused>> /\ c \notin crossed
      /\ \A x \in Listeners : loop[x].c = c => x = l
  BY <1>0, ClientInLoop DEF AddToList, ClientInv, DevsTyped, serverVars, Listeners, Clients, Lists
<1>2. /\ dev' = [dev EXCEPT ![c] = y] /\ clients' = [clients EXCEPT ![l] = u]
      /\ crossed' = IF isDisposing[l] THEN crossed \cup {c} ELSE crossed
  BY <1>0, <1>1 DEF AddToList, ClientInv, DevsTyped
<1>3. loop'[l].at = "ref" /\ loop'[l].c = c /\ \A x \in Listeners : x # l => loop'[x] = loop[x]
  BY <1>0 DEF AddToList, ServerTyped
<1>4. q \in Seq(Clients) /\ BySeq(q, dev) /\ Len(q) < Capacity /\ Len(q) <= Capacity
  BY <1>1 DEF ClientInv, DevsTyped, Lists
<1>5. Fine(dev[c], In(q, c), In(disp.devs, c), "add", isDisposing[l], disp.at = "swap" /\ disp.l = l)
  BY <1>1 DEF ClientInv, AllKept, Kept
<1>6. ~In(q, c) /\ ~In(disp.devs, c) /\ dev[c].refs = 1 /\ dev[c].st = "Initializing" /\ dev[c].tasks = <<>> /\ ~dev[c].fdr
  BY <1>5 DEF Fine, B
<1>7. n \in Nat /\ \A i \in 1 .. Len(q) : dev[q[i]].seq < n
  <2>1. \A x \in Clients : dev[x].seq \in Nat
    BY DEF ClientInv, DevsTyped, Devices
  <2>2. CASE q = <<>>
    BY <2>2 DEF NextSeq
  <2>3. CASE q # <<>>
    <3>1. Len(q) \in Nat \ {0} /\ \A i \in 1 .. Len(q) : q[i] \in Clients
      BY <1>4, <2>3
    <3>2. n = dev[q[Len(q)]].seq + 1 /\ q[Len(q)] \in Clients
      BY <2>3, <3>1 DEF NextSeq, Last
    <3>3. ASSUME NEW i \in 1 .. Len(q) PROVE dev[q[i]].seq <= dev[q[Len(q)]].seq
      <4>1. CASE i = Len(q)
        BY <2>1, <3>1, <4>1
      <4>2. CASE i # Len(q)
        <5>1. i < Len(q) /\ Len(q) \in 1 .. Len(q)
          BY <3>1, <4>2
        <5>2. dev[q[i]].seq < dev[q[Len(q)]].seq
          BY <1>4, <5>1 DEF BySeq
        <5> QED
          BY <2>1, <3>1, <5>2
      <4> QED
        BY <4>1, <4>2
    <3> HIDE DEF n
    <3>4. dev[q[Len(q)]].seq \in Nat /\ \A i \in 1 .. Len(q) : dev[q[i]].seq \in Nat
      BY <2>1, <3>1, <3>2
    <3> QED
      BY SMTT(40), <3>2, <3>3, <3>4
  <2> QED
    BY <2>2, <2>3
<1> HIDE DEF n
<1>8. /\ y \in Devices /\ y.seq = n /\ y.owner = l /\ y.st = dev[c].st /\ y.refs = dev[c].refs /\ y.tasks = dev[c].tasks
      /\ y.fdr = dev[c].fdr /\ y.peer = dev[c].peer
  BY <1>1, <1>7 DEF Devices
<1> HIDE DEF y
<1>9. dev' \in [Clients -> Devices] /\ dev'[c] = y /\ \A x \in Clients : x # c => dev'[x] = dev[x]
  BY <1>2, <1>8, DevSet DEF ClientInv
<1>10. /\ u \in Seq(Clients) /\ Len(u) = Len(q) + 1 /\ \A x : In(u, x) <=> In(q, x) \/ x = c
       /\ u[Len(q) + 1] = c /\ \A i \in 1 .. Len(q) : u[i] = q[i]
  BY <1>4, AppendKeeps
<1> HIDE DEF u
<1>11. clients' \in [Listeners -> Seq(Clients)] /\ clients'[l] = u /\ \A x \in Listeners : x # l => clients'[x] = clients[x]
  BY <1>2, <1>10 DEF ClientInv, DevsTyped
<1>12. DevsTyped'
  BY <1>1, <1>2, <1>9, <1>11 DEF ClientInv, DevsTyped
<1>13. \A s \in Seq(Clients) : BySeq(s, dev) /\ ~In(s, c) => BySeq(s, dev')
  <2> SUFFICES ASSUME NEW s \in Seq(Clients), BySeq(s, dev), ~In(s, c) PROVE BySeq(s, dev')
    OBVIOUS
  <2>1. \A i \in 1 .. Len(s) : s[i] \in Clients /\ s[i] # c
    BY DEF In
  <2> QED
    BY <1>9, <2>1 DEF BySeq
<1>14. BySeq(u, dev')
  <2> SUFFICES ASSUME NEW i \in 1 .. Len(u), NEW j \in 1 .. Len(u), i < j PROVE dev'[u[i]].seq < dev'[u[j]].seq
    BY DEF BySeq
  <2>1. i \in 1 .. Len(q) /\ u[i] = q[i] /\ q[i] \in Clients /\ q[i] # c
    BY <1>4, <1>6, <1>10 DEF In
  <2>2. dev'[u[i]] = dev[q[i]]
    BY <1>9, <2>1
  <2>3. CASE j \in 1 .. Len(q)
    <3>1. u[j] = q[j] /\ q[j] \in Clients /\ q[j] # c
      BY <1>4, <1>6, <1>10, <2>3 DEF In
    <3> QED
      BY <1>4, <1>9, <2>1, <2>2, <2>3, <3>1 DEF BySeq
  <2>4. CASE j \notin 1 .. Len(q)
    <3>1. j = Len(q) + 1
      BY <1>4, <1>10, <2>4
    <3>2. dev'[u[j]].seq = n
      BY <1>8, <1>9, <1>10, <3>1
    <3> QED
      BY <1>7, <2>1, <2>2, <3>2
  <2> QED
    BY <2>3, <2>4
<1>15. \A x \in Clients : dev'[x].owner = dev[x].owner
  BY <1>1, <1>8, <1>9
<1>16. Lists'
  <2>1. \A x \in Listeners : x # l => ~In(clients[x], c)
    BY <1>1 DEF ClientInv, Lists
  <2>2. BySeq(disp'.devs, dev')
    BY <1>1, <1>6, <1>13 DEF ClientInv, Lists, ServerTyped
  <2>3. \A x \in Listeners : BySeq(clients'[x], dev')
    BY <1>11, <1>13, <1>14, <2>1 DEF ClientInv, Lists, DevsTyped
  <2>4. Len(u) <= Capacity
    BY <1>4, <1>10 DEF ServerOK
  <2>5. \A x \in Listeners : Len(clients'[x]) <= Capacity
    BY <1>11, <2>4 DEF ClientInv, Lists
  <2>6. /\ \A x \in Listeners, z \in Clients : In(clients'[x], z) => dev'[z].owner = x
        /\ \A z \in Clients : In(disp'.devs, z) =>
             disp'.l # 0 /\ dev'[z].owner = disp'.l /\ ~In(clients'[disp'.l], z)
    <3>1. disp.l # 0 => disp.l \in Listeners
      BY DEF ServerTyped, Owners
    <3>2. \A x \in Listeners, z \in Clients : In(clients[x], z) => dev[z].owner = x
      BY DEF ClientInv, Lists
    <3>3. \A x \in Listeners, z \in Clients : In(clients'[x], z) <=> In(clients[x], z) \/ (x = l /\ z = c)
      BY <1>10, <1>11
    <3>4. \A z \in Clients : In(disp.devs, z) =>
             z # c /\ disp.l # 0 /\ dev[z].owner = disp.l /\ ~In(clients[disp.l], z)
      BY <1>6 DEF ClientInv, Lists
    <3>5. \A z \in Clients : In(disp.devs, z) => ~In(clients'[disp.l], z)
      BY <3>1, <3>3, <3>4
    <3> QED
      BY <1>1, <1>15, <3>2, <3>3, <3>4, <3>5
  <2>7. \A x \in Listeners : loop[x].c # 0 => loop[x].c \in Clients
    BY DEF ServerTyped
  <2>8. \A x \in Listeners : (loop'[x].c # 0 <=> loop'[x].at \in Accepting) /\ (loop'[x].c # 0 => dev'[loop'[x].c].owner = x)
    BY <1>1, <1>3, <1>15, <2>7 DEF ClientInv, Lists, Accepting
  <2>9. \A x \in Listeners : loop'[x].at = "add" => loop'[x].c \notin crossed' /\ Len(clients'[x]) < Capacity
    BY <1>1, <1>2, <1>3, <1>11 DEF ClientInv, Lists
  <2> QED
    BY <2>2, <2>3, <2>5, <2>6, <2>8, <2>9 DEF Lists
<1>17. \A x \in Clients : x # c => StaysOut(x)
  BY <1>0, <1>1, <1>2, <1>3, <1>9, <1>10, <1>11 DEF StaysOut
<1>18. Known(c)'
  <2>1. dev[c].peer \notin NotYet
    BY <1>0 DEF ClientInv, News, Known, IsNew
  <2> QED
    BY <1>1, <1>8, <1>9, <2>1 DEF Known, NotYet
<1>19. c \in crossed' \/ Kept(c)'
  <2> SUFFICES ASSUME c \notin crossed' PROVE Kept(c)'
    OBVIOUS
  <2>1. ~isDisposing[l]
    BY <1>2
  <2>2. LoopAt(c)' = "ref" /\ In(clients'[l], c) = TRUE /\ In(disp'.devs, c) = FALSE
    <3>1. In(u, c) /\ ~In(disp'.devs, c)
      BY <1>1, <1>6, <1>10
    <3> QED
      BY <1>3, <1>8, <1>9, <1>11, <3>1 DEF LoopAt, In
  <2>3. Fine(y, TRUE, FALSE, "ref", isDisposing[l], disp.at = "swap" /\ disp.l = l)
    BY <1>6, <1>8, <2>1 DEF Fine, B, Early
  <2> QED
    BY <1>1, <1>8, <1>9, <2>2, <2>3 DEF Kept
<1> QED
  BY <1>12, <1>16, <1>17, <1>18, <1>19, OthersStay DEF ClientInv

-----------------------------------------------------------------------------
(* The invariant holds *)

(* One step, as far as the clients are concerned. *)
LEMMA ClientStep == ServerOK /\ Inv /\ [Next]_lsnVars => ClientInv'
<1> SUFFICES ASSUME ServerOK, Inv, [Next]_lsnVars PROVE ClientInv'
  OBVIOUS
<1>1. ServerTyped /\ InUse /\ ClientInv
  BY DEF Inv, ClientInv
<1>2. CASE Command \/ TimerReopens
  <2>1. UNCHANGED <<disp, clients, loop, isDisposing, dev, crossed, misused>>
    BY <1>2 DEF Command, TimerReopens, listenerVars
  <2> QED
    BY <1>1, <2>1, ClientsStay
<1>3. CASE Server
  BY <1>1, <1>3, DisposeBegins, ToldByNumber, ListIsTaken, OneIsTold, DisposeEnds DEF Server
<1>4. ASSUME NEW l \in Listeners, OnFdrEvent(l) \/ ListenError(l) \/ AcceptLoop(l) PROVE ClientInv'
  BY <1>1, <1>4, LoopLooks, SomeoneIsTaken, ListGrows, ListHolds, ClientIsOpened DEF AcceptLoop
<1>5. ASSUME NEW c \in Clients,
             Connects(c) \/ PeerCloses(c) \/ RunTask(c) \/ SocketError(c) \/ LastSent(c) \/ SessionCloses(c)
      PROVE  ClientInv'
  BY <1>1, <1>5, SomeoneConnects, PeerEnds, TaskRuns, SocketEnds, SessionEnds
<1>6. CASE UNCHANGED lsnVars
  <2>1. UNCHANGED <<disp, clients, loop, isDisposing, dev, crossed, misused>>
    BY <1>6 DEF lsnVars, serverVars, listenerVars
  <2> QED
    BY <1>1, <2>1, ClientsStay
<1> QED
  BY <1>2, <1>3, <1>4, <1>5, <1>6 DEF Next

(* At the start nobody listens and there is no device. *)
LEMMA InitIsRight == ServerOK /\ Init => Inv
<1> SUFFICES ASSUME ServerOK, Init PROVE Inv
  OBVIOUS
<1>0. <<>> \in Seq(Clients) /\ <<>> \in Seq(Ops) /\ <<>> \in Seq(Tasks) /\ Len(<<>>) = 0
  OBVIOUS
<1>1. ServerTyped
  BY <1>0 DEF Init, Quiet, NoLoop, ServerTyped, ServerStates, Owners
<1>2. InUse
  BY DEF Init, Quiet, NoLoop, InUse, Listeners, ServerOK
<1>3. \A l \in Listeners : ~Errs(l)
  BY <1>0 DEF Init, NoLoop, Errs
<1>4. Says
  BY <1>3 DEF Init, Says
<1>5. \A x : ~In(<<>>, x)
  BY DEF In
<1>6. NoDevice \in Devices
  BY <1>0 DEF NoDevice, Devices, States, Peers, Owners
<1>7. DevsTyped
  BY <1>0, <1>6 DEF Init, DevsTyped
<1>8. BySeq(<<>>, dev)
  BY DEF BySeq
<1>9. Lists
  BY <1>0, <1>5, <1>8 DEF Init, Quiet, NoLoop, Lists, Accepting, ServerOK
<1>10. News
  BY <1>5 DEF Init, Quiet, NoLoop, NoDevice, News, Known, IsNew, Clients
<1>11. AllKept
  BY DEF Init, NoDevice, AllKept, Kept
<1> QED
  BY <1>1, <1>2, <1>4, <1>7, <1>9, <1>10, <1>11 DEF Inv

(* The invariant holds whatever the server is told, whoever connects and in whatever
   order the accepting loop, the server's thread and the devices' threads run
   (TcpServerBase, FdrTcpListener, DeviceListener, DeviceAcceptedClient). *)
THEOREM ServerInvariant == ServerOK /\ Spec => []Inv
<1> SUFFICES ASSUME ServerOK PROVE Spec => []Inv
  OBVIOUS
<1>1. Init => Inv
  BY InitIsRight
<1>2. Inv /\ [Next]_lsnVars => Inv'
  BY ServerStep, ClientStep DEF Inv, ServerInv, ClientInv
<1> QED
  BY <1>1, <1>2, PTL DEF Spec

(* The list, from the invariant. *)
LEMMA ListIsExactNow == Inv => ListIsExact
<1> SUFFICES ASSUME Inv, NEW l \in Listeners
             PROVE  /\ \A i, j \in DOMAIN clients[l] : i < j => dev[clients[l][i]].seq < dev[clients[l][j]].seq
                    /\ ~isDisposing[l] =>
                         /\ Len(clients[l]) <= Capacity
                         /\ \A c \in Clients \ crossed : dev[c].owner = l /\ loop[l] # [at |-> "add", c |-> c]
                              => (c \in ToSet(clients[l]) <=> dev[c].st \in Early)
  BY DEF ListIsExact
<1>1. clients[l] \in Seq(Clients) /\ BySeq(clients[l], dev) /\ Len(clients[l]) <= Capacity
  BY DEF Inv, DevsTyped, Lists
<1>2. ASSUME ~isDisposing[l], NEW c \in Clients \ crossed, dev[c].owner = l, loop[l] # [at |-> "add", c |-> c]
      PROVE  c \in ToSet(clients[l]) <=> dev[c].st \in Early
  <2>1. loop[l] \in [at : {"idle", "accept", "error"} \cup Accepting, c : Clients \cup {0}]
    BY DEF Inv, ServerTyped
  <2>2. LoopAt(c) # "add"
    BY <1>2, <2>1 DEF LoopAt
  <2>3. Kept(c) /\ l # 0
    BY DEF Inv, AllKept, Listeners
  <2>4. In(clients[l], c) <=> dev[c].st \in Early
    BY <1>2, <2>2, <2>3 DEF Kept, Fine
  <2>5. c \in ToSet(clients[l]) <=> In(clients[l], c)
    BY <1>1 DEF ToSet, In
  <2> QED
    BY <2>4, <2>5
<1> QED
  BY <1>1, <1>2 DEF BySeq

(* The listener in use, from the invariant. *)
LEMMA OneListensNow == Inv /\ ServerOK => OneListens
<1> SUFFICES ASSUME Inv, ServerOK PROVE OneListens
  OBVIOUS
<1>1. 1 .. made \subseteq Listeners /\ made \in Nat /\ (current # 0 => current \in Listeners) /\ ops \in Seq(Ops)
  BY DEF Inv, ServerTyped, InUse, ServerOK, Listeners, Owners
<1>2. \A l \in 1 .. made : l # current => isDisposing[l]
  BY <1>1 DEF Inv, InUse
<1>3. current # 0 => ~isDisposing[current] /\ srvState \in {"Listening", "ListenBroken"}
  BY <1>1 DEF Inv, InUse, Says
<1>4. srvState = "Listening" /\ disp = Quiet /\ ~heard[current] => Errs(current)
  BY DEF Inv, Says, Quiet
<1>5. srvState = "ListenBroken" /\ disp = Quiet => ~heard[current]
  BY DEF Inv, Says, Quiet
<1>6. Errs(current) => loop[current].at = "error" \/ \E i \in DOMAIN ops : ops[i] = [k |-> "error", n |-> current]
  BY <1>1 DEF Errs
<1> QED
  BY <1>2, <1>3, <1>4, <1>5, <1>6 DEF OneListens

(* Who is up, from the invariant. *)
LEMMA NobodyIsLeftBehindNow == Inv => NobodyIsLeftBehind
<1> SUFFICES ASSUME Inv, NEW c \in Clients \ crossed, NEW l \in Owners, l = dev[c].owner,
                    l # 0, isDisposing[l], disp.l # l, dev[c].st \in Early, loop[l] # [at |-> "add", c |-> c]
             PROVE  \E i \in DOMAIN dev[c].tasks : dev[c].tasks[i] = "dispose"
  BY DEF NobodyIsLeftBehind, Inv, DevsTyped, Devices
<1>1. l \in Listeners /\ dev[c].tasks \in Seq(Tasks)
  BY DEF Owners, Inv, DevsTyped, Devices
<1>2. loop[l] \in [at : {"idle", "accept", "error"} \cup Accepting, c : Clients \cup {0}]
  BY <1>1 DEF Inv, ServerTyped
<1>3. LoopAt(c) # "add"
  BY <1>2 DEF LoopAt
<1>4. ~In(disp.devs, c)
  BY DEF Inv, Lists
<1>5. Kept(c)
  BY DEF Inv, AllKept
<1>6. In(dev[c].tasks, "dispose")
  BY <1>3, <1>4, <1>5 DEF Kept, Fine
<1> QED
  BY <1>1, <1>6 DEF In

(* A device that was freed, from the invariant. *)
LEMMA FreedWhenUnusedNow == Inv => FreedWhenUnused
<1> SUFFICES ASSUME Inv, NEW c \in Clients \ crossed, dev[c].st = "Destructing"
             PROVE  dev[c].tasks = <<>> /\ ~dev[c].fdr /\ \A l \in Listeners : c \notin ToSet(clients[l])
  BY DEF FreedWhenUnused, Inv, DevsTyped
<1>1. PICK o \in Owners : o = dev[c].owner
  BY DEF Inv, DevsTyped, Devices
<1>2. o \in Listeners
  BY <1>1 DEF Inv, News, Known, IsNew, NotYet, Owners
<1>3. Fine(dev[c], In(clients[o], c), In(disp.devs, c), LoopAt(c), isDisposing[o], disp.at = "swap" /\ disp.l = o)
  BY <1>1, <1>2 DEF Inv, AllKept, Kept, Listeners
<1>4. dev[c].tasks = <<>> /\ ~dev[c].fdr /\ ~In(clients[o], c)
  BY <1>3 DEF Fine, B
<1>5. ASSUME NEW l \in Listeners PROVE c \notin ToSet(clients[l])
  <2>1. clients[l] \in Seq(Clients) /\ ~In(clients[l], c)
    BY <1>1, <1>4 DEF Inv, DevsTyped, Lists
  <2> QED
    BY <2>1 DEF ToSet, In
<1> QED
  BY <1>4, <1>5

(* DeviceListener::AcceptedClients_ is in the order of the numbers, never longer than the
   capacity, and until the listener is disposed of has exactly its clients that neither
   are broken nor linger (AddAcceptedClient, RemoveAcceptedClient, OpImpl_StateChanged). *)
THEOREM ListIsAlwaysExact == ServerOK /\ Spec => []ListIsExact
BY ServerInvariant, ListIsExactNow, PTL

(* One listener at most was not disposed of, the server is Listening or ListenBroken when
   there is one, and it says which: a socket that failed is known or an error is on its
   way (OpImpl_DisposeListener, OpImpl_CreateListener, OnFdrEvent_Handling). *)
THEOREM OneAlwaysListens == ServerOK /\ Spec => []OneListens
<1> SUFFICES ASSUME ServerOK PROVE Spec => []OneListens
  OBVIOUS
<1>1. Inv => OneListens
  BY OneListensNow
<1>2. Spec => []Inv
  BY ServerInvariant
<1> QED
  BY <1>1, <1>2, PTL

(* A client that is up when its listener is gone has a dispose in its queue: who was in
   the list when Dispose took it was told, and who was not had left it itself. *)
THEOREM NobodyIsEverLeftBehind == ServerOK /\ Spec => []NobodyIsLeftBehind
BY ServerInvariant, NobodyIsLeftBehindNow, PTL

(* A device that was freed has no task to come, epoll does not know its socket, and it is
   in no list (intrusive_ptr_release, FreeDevice). *)
THEOREM FreedOnlyWhenUnused == ServerOK /\ Spec => []FreedWhenUnused
BY ServerInvariant, FreedWhenUnusedNow, PTL
=============================================================================
