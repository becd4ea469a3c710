----------------------------- MODULE TcpClient -----------------------------
(***************************************************************************)
(* The TCP client device on epoll: io::Device, io::SocketClientDevice and  *)
(* FdrTcpClient with its FdrSocket and SendBuffer.                         *)
(*                                                                         *)
(* Four kinds of threads meet in it: the op thread runs the tasks of the   *)
(* device's AQueue one at a time; a sender may use the socket in place     *)
(* while the queue allows it, else its data or a task is left behind; the  *)
(* fdr thread turns the events of the socket into receiving and sending in *)
(* place, or into tasks; the timer thread fires the CommonTimer_.  The     *)
(* queue itself is module AQueue: here it is its contract, that tasks run  *)
(* in order, never together with work in place of another thread.          *)
(*                                                                         *)
(* An action is a critical section of the queue, or a whole task.          *)
(***************************************************************************)
EXTENDS Naturals, Sequences, FiniteSets, SequencesExt

CONSTANTS Senders,   \* threads that send
          Fdr,       \* the fdr thread; its session may send while it receives
          Configs,   \* configurations a device is opened with
          Reopens,   \* the states whose reopen or retry interval is not 0
          MaxAddrs,  \* bound: addresses of a name that is found
          MaxLinks,  \* bound: sockets that are ever created
          MaxSends,  \* bound: messages accepted on a link
          MaxOps     \* bound: commands to the device

None == "none"

ASSUME ClientAssumption ==
  /\ Fdr \notin Senders /\ None \notin Senders \cup {Fdr}
  /\ Configs \subseteq {"bad", "none", "addr", "names"}
  /\ Reopens \subseteq {"LinkError", "LinkBroken", "Closed"}
  /\ {MaxAddrs, MaxLinks, MaxSends, MaxOps} \subseteq Nat

VARIABLES
  dev,     \* the SocketClientDevice, a record; its socket is in dev.sock
  tasks,   \* the queue of the AQueue
  batch,   \* the tasks the op thread has taken and not run yet
  taking,  \* the op thread is inside TakeCall()
  job,     \* the Send job in place: the thread and where it is
  fdr,     \* the fdr thread: idle, handling an event or in OnDevice_Recv()
  firing,  \* the CommonTimer_ was taken out of line to be called
  ops      \* commands so far

vars == <<dev, tasks, batch, taking, job, fdr, firing, ops>>

(* A link: its socket (FdrTcpClientImpl), the SendBuffer, the events that   *)
(* are enabled, whether epoll has it, and what waits for the fdr thread.    *)
(* acc counts the messages accepted on this link, wire has what was written.*)
NewSock(i) == [id |-> i, conn |-> "connecting", status |-> "Empty",
               sending |-> <<>>, queue |-> <<>>,
               bits |-> {"write"}, reg |-> TRUE, pend |-> {},
               acc |-> 0, wire |-> <<>>]
NoSock == [NewSock(0) EXCEPT !.bits = {}, !.reg = FALSE]

T(op, id, arg) == [op |-> op, id |-> id, arg |-> arg]
NoJob  == [by |-> None, at |-> "no"]
FdrIdle == [at |-> "idle", id |-> 0, ev |-> None, conn |-> None]

Init == \E config \in Configs :
  /\ dev = [st |-> "Initialized", config |-> None, dn |-> 0, next |-> 0, n |-> 0,
            timer |-> FALSE, links |-> 0, sock |-> NoSock]
  /\ tasks = <<T("open", 0, config)>> /\ batch = <<>> /\ taking = FALSE
  /\ job = NoJob /\ fdr = FdrIdle /\ firing = FALSE
  /\ ops = 0

Queued == ToSet(tasks) \cup ToSet(batch)
CanSend(st) == st \in {"LinkReady", "Lingering"}   \* IsAllowContinueSend()

-----------------------------------------------------------------------------
(* What the op thread does to the device; each operator gives the device    *)
(* after it, or the set of devices it may end as.                           *)

ResetImpl(d) == [d EXCEPT !.sock = NoSock]

(* Mutant: the index of the next address is not reset. *)
ClearLinkingKeepsIndex(d) == [ResetImpl(d) EXCEPT !.dn = 0, !.n = 0, !.timer = FALSE]

ClearLinking(d) == [ResetImpl(d) EXCEPT !.dn = 0, !.next = 0, !.n = 0, !.timer = FALSE]

(* SocketClientDevice::OpImpl_StateChanged(), already in the new state. *)
StateChanged(d, before) ==
  CASE CanSend(before) -> IF d.st = "Lingering" THEN d ELSE ResetImpl(d)
    [] before = "Linking" /\ d.st # "LinkReady" -> ClearLinking(d)
    [] OTHER -> d

(* Mutant: the timer is started before the derived class is told. *)
SetStateTimerFirst(d, st) ==
  CASE d.st = st -> [d EXCEPT !.timer = @ \/ st \in Reopens]
    [] d.st # st /\ d.st = "Disposing" -> d
    [] OTHER -> StateChanged([d EXCEPT !.st = st, !.timer = st \in Reopens], d.st)

(* Device::OpImpl_SetState(): the same state starts its timer again; a new  *)
(* one starts the timer or stops it, after the derived class was told.      *)
SetState(d, st) ==
  CASE d.st = st -> [d EXCEPT !.timer = @ \/ st \in Reopens]
    [] d.st # st /\ d.st = "Disposing" -> d
    [] OTHER -> [StateChanged([d EXCEPT !.st = st], d.st) EXCEPT !.timer = st \in Reopens]

(* A socket that cannot be made or refuses at once is the end of the        *)
(* attempt, whatever addresses are left.                                    *)
ConnectToNext(d) ==
  IF d.next >= d.n
     THEN {SetState([d EXCEPT !.next = 0],
                    IF d.st = "LinkReady" THEN "LinkBroken" ELSE "LinkError")}
     ELSE LET e == [d EXCEPT !.next = @ + 1]
              linking == [SetState(e, "Linking") EXCEPT !.timer = TRUE]
          IN {SetState(e, "LinkError"), SetState(linking, "LinkError")}
             \cup {[linking EXCEPT !.links = i, !.sock = NewSock(i)] :
                   i \in {d.links + 1} \cap 1..MaxLinks}

(* An id no answer under way has. *)
NewDnId == CHOOSE i \in 1..(Cardinality(Queued) + 1) :
              \A t \in Queued : t.op = "dn" => t.id # i

ReopenImpl(d) ==
  CASE d.config = "names" -> {[SetState(d, "Linking") EXCEPT !.timer = TRUE, !.dn = NewDnId]}
    [] d.config = "addr"  -> ConnectToNext([d EXCEPT !.n = 1])
    [] OTHER              -> {SetState(d, "ConfigError")}

OpImpl_Reopen(d) == ReopenImpl(ClearLinking(d))

OpImpl_Open(d, config) ==
  LET e == [SetState(ClearLinking(d), "Opening") EXCEPT !.config = config]
  IN IF config = "bad" THEN {SetState(e, "ConfigError")} ELSE ReopenImpl(e)

(* OpThr_Close(): from any state before Closing. *)
OpThr_Close(d) ==
  IF d.st \in {"Closed", "Disposing"} THEN d ELSE SetState(ClearLinking(d), "Closed")

OpThr_CheckLingerClose(d) ==
  IF d.st = "Lingering" /\ d.sock.status = "Empty" THEN OpThr_Close(d) ELSE d

(* Mutant: the buffer is not looked at when the device begins to linger. *)
LingerCloseLater(d) ==
  CASE d.st = "LinkReady" -> SetState(d, "Lingering")
    [] d.st \in {"Lingering", "Closed", "Disposing"} -> d
    [] OTHER -> OpThr_Close(d)

OpThr_LingerClose(d) ==
  CASE d.st = "LinkReady" -> OpThr_CheckLingerClose(SetState(d, "Lingering"))
    [] d.st \in {"Lingering", "Closed", "Disposing"} -> d
    [] OTHER -> OpThr_Close(d)

OpThr_SetBrokenState(d) ==
  CASE d.st = "Lingering"              -> OpThr_Close(d)
    [] d.st \in {"Opening", "Linking"} -> SetState(d, "LinkError")
    [] d.st = "LinkReady"              -> SetState(d, "LinkBroken")
    [] OTHER                           -> d

(* UpdateFdrEvent() when the enabled events change.  epoll follows at once   *)
(* here, as when the fdr thread has nothing else to do; it also brings back  *)
(* a handler whose removal is pending, for updates are done after removals.  *)
Update(s, bits) ==
  IF bits = s.bits THEN s
  ELSE [s EXCEPT !.bits = bits, !.reg = @ \/ bits # {},
                 !.pend = IF bits # {} THEN @ \ {"remove"} ELSE @]
EnableEventBit(s, b)  == Update(s, s.bits \cup {b})
DisableEventBit(s, b) == Update(s, s.bits \ {b})

-----------------------------------------------------------------------------
(* The queue: work in place needs an idle op thread and an empty queue, and *)
(* no other job of its kind; the op thread needs that nothing is in place.  *)

NoQueue == ~taking /\ tasks = <<>>

Push(t) == tasks' = Append(tasks, t)

OpTake == /\ ~taking /\ tasks # <<>> /\ job = NoJob /\ fdr.at # "recv"
          /\ taking' = TRUE /\ batch' = tasks /\ tasks' = <<>>
          /\ UNCHANGED <<dev, job, fdr, firing, ops>>

OpEnd == /\ taking /\ batch = <<>>
         /\ taking' = FALSE
         /\ UNCHANGED <<dev, tasks, batch, job, fdr, firing, ops>>

(* The op thread runs its next task, of kind op. *)
Task(op) == /\ taking /\ batch # <<>> /\ Head(batch).op = op
            /\ batch' = Tail(batch)
            /\ UNCHANGED <<taking, job, fdr, firing, ops>>
Arg == Head(batch).arg
Link == Head(batch).id
IsAlive == Link = dev.sock.id

(* OpThr_Open(). *)
OpOpen == /\ Task("open")
          /\ dev' \in CASE dev.st = "Disposing" -> {dev}
                        [] dev.st # "Disposing" /\ (dev.st = "Initialized" \/ Arg # None)
                             -> OpImpl_Open(dev, Arg)
                        [] dev.st \in {"LinkReady", "ConfigError"} /\ Arg = None -> {dev}
                        [] OTHER -> OpImpl_Reopen(dev)
          /\ UNCHANGED tasks

OpClose == Task("close") /\ dev' = OpThr_Close(dev) /\ UNCHANGED tasks

OpLingerClose == Task("lclose") /\ dev' = OpThr_LingerClose(dev) /\ UNCHANGED tasks

OpCheckLingerClose == Task("check") /\ dev' = OpThr_CheckLingerClose(dev) /\ UNCHANGED tasks

OpDispose == Task("dispose") /\ dev' = SetState(OpThr_Close(dev), "Disposing") /\ UNCHANGED tasks

(* Mutant: the state is not looked at again when the task runs. *)
OpReopenUnchecked == Task("reopen") /\ dev' \in OpImpl_Reopen(dev) /\ UNCHANGED tasks

(* The task of EmitOnCommonTimer() for a state that reopens. *)
OpReopen == /\ Task("reopen")
            /\ IF dev.st \in Reopens THEN dev' \in OpImpl_Reopen(dev) ELSE dev' = dev
            /\ UNCHANGED tasks

(* The task of SocketClientDevice::OnCommonTimer(). *)
OpTimeout == /\ Task("timeout")
             /\ CASE dev.dn # 0 -> dev' = OpThr_SetBrokenState([dev EXCEPT !.dn = 0])
                  [] dev.dn = 0 /\ dev.st = "Linking" -> dev' \in ConnectToNext(dev)
                  [] OTHER -> dev' = dev
             /\ UNCHANGED tasks

OpDnQueryDone == /\ Task("dn")
                 /\ IF dev.dn = Link
                       THEN dev' \in ConnectToNext([dev EXCEPT !.dn = 0, !.n = @ + Arg])
                       ELSE dev' = dev
                 /\ UNCHANGED tasks

(* Mutant: whose connection it is does not matter. *)
OpConnectedAny ==
  /\ Task("connected")
  /\ IF dev.st = "Linking"
       THEN \/ dev' = OpThr_SetBrokenState(dev)
            \/ /\ ~firing
               /\ LET d == SetState(dev, "LinkReady")
                  IN dev' = [d EXCEPT !.sock = EnableEventBit(d.sock, "read")]
       ELSE dev' = dev
  /\ UNCHANGED tasks

(* The task of OnSocketConnected(), with OpImpl_Connected() and             *)
(* OpThr_SetLinkReady(): it waits for a call of the timer that is running.  *)
OpConnected ==
  /\ Task("connected")
  /\ IF dev.st = "Linking" /\ IsAlive
       THEN \/ dev' = OpThr_SetBrokenState(dev)
            \/ /\ ~firing
               /\ LET d == SetState(dev, "LinkReady")
                  IN dev' = [d EXCEPT !.sock = EnableEventBit(d.sock, "read")]
       ELSE dev' = dev
  /\ UNCHANGED tasks

(* The task of OnSocketError(). *)
OpError == /\ Task("error")
           /\ IF IsAlive THEN dev' \in ConnectToNext(dev) ELSE dev' = dev
           /\ UNCHANGED tasks

(* Mutant: readable stays off after the event. *)
OpRecvOnce == Task("recv") /\ UNCHANGED <<dev, tasks>>

(* The task of DeviceRecvBufferReady(). *)
OpRecv == /\ Task("recv")
          /\ dev' = IF dev.st = "LinkReady" /\ IsAlive
                       THEN [dev EXCEPT !.sock = EnableEventBit(@, "read")] ELSE dev
          /\ UNCHANGED tasks

-----------------------------------------------------------------------------
(* Sending. *)

(* Mutant: what is left waits for nothing. *)
WriteAndForget(s, k) == [s EXCEPT !.wire = @ \o SubSeq(s.sending, 1, k),
                                  !.sending = SubSeq(@, k + 1, Len(@))]

(* FdrSocket::Sendv(): k chunks of sending are written; what is left waits  *)
(* for the socket to be writable.                                           *)
Write(s, k) == LET w == [s EXCEPT !.wire = @ \o SubSeq(s.sending, 1, k),
                                  !.sending = SubSeq(@, k + 1, Len(@))]
               IN IF w.sending = <<>> THEN w ELSE EnableEventBit(w, "write")

(* Mutant: the queue goes before what is being sent. *)
CheckSendQueueFirst(s) == [s EXCEPT !.sending = s.queue \o @, !.queue = <<>>,
                                    !.status = IF s.sending \o s.queue = <<>> THEN "Empty" ELSE "Sending"]

(* Mutant: the queue is left where it is. *)
CheckSendingOnly(s) == [s EXCEPT !.status = IF s.sending = <<>> THEN "Empty" ELSE "Sending"]

(* SendBuffer::OpImpl_CheckSendQueue(). *)
CheckSendQueue(s) == [s EXCEPT !.sending = @ \o s.queue, !.queue = <<>>,
                               !.status = IF s.sending \o s.queue = <<>> THEN "Empty" ELSE "Sending"]

(* SocketError(): the handler is to leave epoll; OnSocketError() leaves a   *)
(* task unless it can see that the link is an old one.                      *)
SocketError(i) ==
  /\ dev' = IF i = dev.sock.id THEN [dev EXCEPT !.sock.pend = @ \cup {"remove"}] ELSE dev
  /\ IF NoQueue /\ i # dev.sock.id THEN UNCHANGED tasks ELSE Push(T("error", i, None))

(* SendASAP() or DeviceContinueSend() in the op thread, for the socket s:   *)
(* everything is written, or a part, or there is an error.                  *)
OpSendv(s) ==
  \/ /\ dev' = [dev EXCEPT !.sock = [s EXCEPT !.wire = @ \o s.sending, !.sending = <<>>,
                                              !.status = "Empty"]]
     /\ IF dev.st = "Lingering" THEN Push(T("check", 0, None)) ELSE UNCHANGED tasks
  \/ /\ \E k \in 0..(Len(s.sending) - 1) : dev' = [dev EXCEPT !.sock = Write(s, k)]
     /\ UNCHANGED tasks
  \/ /\ dev' = [dev EXCEPT !.sock = [s EXCEPT !.pend = @ \cup {"remove"}]]
     /\ Push(T("error", s.id, None))

(* The task of AsyncSend(). *)
OpSend ==
  /\ Task("send")
  /\ CASE IsAlive /\ dev.st = "LinkReady" /\ dev.sock.status = "Empty" ->
            OpSendv([dev.sock EXCEPT !.status = "Sending", !.sending = <<Arg>>])
       [] IsAlive /\ dev.st = "LinkReady" /\ dev.sock.status = "Sending" ->
            dev' = [dev EXCEPT !.sock.queue = Append(@, Arg)] /\ UNCHANGED tasks
       [] OTHER -> UNCHANGED <<dev, tasks>>

(* The task of DeviceContinueSend(). *)
OpContinueSend ==
  /\ Task("continue")
  /\ LET s == CheckSendQueue(dev.sock)
     IN CASE CanSend(dev.st) /\ IsAlive /\ s.status = "Sending" -> OpSendv(s)
          [] CanSend(dev.st) /\ IsAlive /\ s.status = "Empty" ->
               dev' = OpThr_CheckLingerClose([dev EXCEPT !.sock = s]) /\ UNCHANGED tasks
          [] OTHER -> UNCHANGED <<dev, tasks>>

(* DeviceStartSend(): in place if nobody sends, else behind who sends, else *)
(* as a task. Sending in place has taken the Send flag and goes on unlocked.*)
Send(t, isASAP) ==
  /\ dev.sock.acc < MaxSends
  /\ job.by # t /\ (t = Fdr => fdr.at = "recv")
  /\ dev.st = "LinkReady"
  /\ LET s == [dev.sock EXCEPT !.acc = @ + 1]
         isInplace == NoQueue /\ job = NoJob
     IN CASE isInplace /\ s.status = "Empty" ->
               /\ dev' = [dev EXCEPT !.sock =
                            [s EXCEPT !.status = "Sending", !.sending = <<s.acc>>,
                                      !.pend = IF isASAP THEN @ ELSE @ \cup {"send"}]]
               /\ job' = [by |-> t, at |-> IF isASAP THEN "writing" ELSE "leave"]
               /\ UNCHANGED tasks
          [] (isInplace /\ s.status = "Sending") \/ job # NoJob ->
               /\ dev' = [dev EXCEPT !.sock = [s EXCEPT !.queue = Append(@, s.acc)]]
               /\ UNCHANGED <<job, tasks>>
          [] OTHER -> /\ dev' = [dev EXCEPT !.sock = s]
                      /\ Push(T("send", s.id, s.acc))
                      /\ UNCHANGED job
  /\ UNCHANGED <<batch, taking, fdr, firing, ops>>

(* The unlocked writing of the job in place. *)
JobWrite(k) ==
  /\ job.at = "writing" /\ k \in 0..Len(dev.sock.sending)
  /\ dev' = [dev EXCEPT !.sock = Write(@, k)]
  /\ job' = [job EXCEPT !.at = IF k = Len(dev.sock.sending) THEN "check" ELSE "leave"]
  /\ UNCHANGED <<tasks, batch, taking, fdr, firing, ops>>

JobWriteError == /\ job.at = "writing" /\ job' = [job EXCEPT !.at = "leave"]
                 /\ SocketError(dev.sock.id)
                 /\ UNCHANGED <<batch, taking, fdr, firing, ops>>

(* CheckSendQueueEmpty(), locked again; the lock is given up with the flag. *)
JobCheckSendQueueEmpty ==
  /\ job.at = "check" /\ job' = NoJob
  /\ LET s == CheckSendQueue(dev.sock)
     IN IF s.status = "Empty"
          THEN /\ dev' = [dev EXCEPT !.sock = s]
               /\ IF dev.st = "Lingering" THEN Push(T("check", 0, None)) ELSE UNCHANGED tasks
          ELSE dev' = [dev EXCEPT !.sock = [s EXCEPT !.pend = @ \cup {"send"}]] /\ UNCHANGED tasks
  /\ UNCHANGED <<batch, taking, fdr, firing, ops>>

JobLeave == /\ job.at = "leave" /\ job' = NoJob
            /\ UNCHANGED <<dev, tasks, batch, taking, fdr, firing, ops>>

-----------------------------------------------------------------------------
(* The fdr thread: between two waits it serves what is pending, then events.*)
(* It may be handling an event of a socket that is replaced meanwhile.      *)

FdrTakes(i, ev) == fdr' = [at |-> "handle", id |-> i, ev |-> ev,
                            conn |-> IF ev = "write" THEN dev.sock.conn ELSE None]
FdrReady == fdr = FdrIdle /\ job.by # Fdr
FdrHandles(evs) == fdr.at = "handle" /\ fdr.ev \in evs

(* ProcessPendings(): what is to be sent, and handlers that are to leave. *)
FdrPendingSend ==
  /\ FdrReady /\ "send" \in dev.sock.pend
  /\ dev' = [dev EXCEPT !.sock.pend = @ \ {"send"}]
  /\ FdrTakes(dev.sock.id, "send")
  /\ UNCHANGED <<tasks, batch, taking, job, firing, ops>>

FdrPendingRemove ==
  /\ FdrReady /\ "remove" \in dev.sock.pend
  /\ dev' = [dev EXCEPT !.sock.pend = @ \ {"remove"}, !.sock.reg = FALSE]
  /\ UNCHANGED <<tasks, batch, taking, job, fdr, firing, ops>>

(* epoll_wait() has an event; an error is reported whatever is enabled, and *)
(* the handler is to leave at once.                                         *)
FdrEvent(ev) ==
  /\ FdrReady /\ dev.sock.reg /\ "remove" \notin dev.sock.pend
  /\ ev = "error" \/ ev \in dev.sock.bits
  /\ FdrTakes(dev.sock.id, ev)
  /\ dev' = IF ev = "error" THEN [dev EXCEPT !.sock.pend = @ \cup {"remove"}] ELSE dev
  /\ UNCHANGED <<tasks, batch, taking, job, firing, ops>>

(* FdrEventProcessor(): writable while connecting, that is connected. *)
FdrConnected ==
  /\ FdrHandles({"write"}) /\ fdr.conn = "connecting" /\ fdr' = FdrIdle
  /\ dev' = IF fdr.id = dev.sock.id
               THEN [dev EXCEPT !.sock = [Update(@, {}) EXCEPT !.conn = "connected"]]
               ELSE dev
  /\ IF dev.st \in {"Initialized", "ConfigError", "Opening", "Linking", "LinkError"}
       THEN Push(T("connected", fdr.id, None)) ELSE UNCHANGED tasks
  /\ UNCHANGED <<batch, taking, job, firing, ops>>

(* DeviceContinueSend(), from a pending send or a writable socket. *)
FdrContinueSend ==
  /\ FdrHandles({"send", "write"}) /\ (fdr.ev = "write" => fdr.conn = "connected")
  /\ fdr' = FdrIdle
  /\ LET s == CheckSendQueue(dev.sock)
         isAlive == fdr.id = dev.sock.id
     IN CASE ~CanSend(dev.st) -> UNCHANGED <<dev, tasks, job>>
          [] CanSend(dev.st) /\ NoQueue /\ job = NoJob ->
               /\ dev' = IF isAlive THEN [dev EXCEPT !.sock = s] ELSE dev
               /\ job' = IF isAlive /\ s.status = "Sending"
                            THEN [by |-> Fdr, at |-> "writing"] ELSE job
               /\ IF isAlive /\ s.status = "Empty" /\ dev.st = "Lingering"
                    THEN Push(T("check", 0, None)) ELSE UNCHANGED tasks
          [] OTHER ->
               /\ dev' = IF isAlive THEN [dev EXCEPT !.sock = DisableEventBit(@, "write")] ELSE dev
               /\ Push(T("continue", fdr.id, None))
               /\ UNCHANGED job
  /\ UNCHANGED <<batch, taking, firing, ops>>

(* DeviceRecvBufferReady(): the event in place, or as a task with readable  *)
(* off until then; without a link the data is dropped.                      *)
FdrRecv ==
  /\ FdrHandles({"read"})
  /\ IF NoQueue
       THEN /\ fdr' = IF dev.st = "LinkReady" /\ fdr.id = dev.sock.id
                        THEN [FdrIdle EXCEPT !.at = "recv"] ELSE FdrIdle
            /\ UNCHANGED <<dev, tasks>>
       ELSE /\ fdr' = FdrIdle
            /\ dev' = IF fdr.id = dev.sock.id
                         THEN [dev EXCEPT !.sock = DisableEventBit(@, "read")] ELSE dev
            /\ Push(T("recv", fdr.id, None))
  /\ UNCHANGED <<batch, taking, job, firing, ops>>

FdrRecvEnd == /\ fdr.at = "recv" /\ job.by # Fdr /\ fdr' = FdrIdle
              /\ UNCHANGED <<dev, tasks, batch, taking, job, firing, ops>>

(* The peer has closed, a read has failed, or epoll has told an error. *)
FdrSocketError == /\ FdrHandles({"read", "error"}) /\ fdr' = FdrIdle
                  /\ SocketError(fdr.id)
                  /\ UNCHANGED <<batch, taking, job, firing, ops>>

-----------------------------------------------------------------------------
(* The timer thread, the resolver of names and the users of the device. *)

TimerFire == /\ dev.timer /\ ~firing
             /\ dev' = [dev EXCEPT !.timer = FALSE] /\ firing' = TRUE
             /\ UNCHANGED <<tasks, batch, taking, job, fdr, ops>>

(* EmitOnCommonTimer(), which reads the state without a lock. *)
TimerEmit == /\ firing /\ firing' = FALSE
             /\ CASE dev.st \in Reopens -> Push(T("reopen", 0, None))
                  [] dev.st \in {"Lingering", "Opening", "Linking"} -> Push(T("timeout", 0, None))
                  [] OTHER -> UNCHANGED tasks
             /\ UNCHANGED <<dev, batch, taking, job, fdr, ops>>

DnAnswer == /\ dev.dn # 0 /\ \A t \in Queued : t.op = "dn" => t.id # dev.dn
            /\ \E k \in {0, MaxAddrs} : Push(T("dn", dev.dn, k))
            /\ UNCHANGED <<dev, batch, taking, job, fdr, firing, ops>>

Ask == /\ ops < MaxOps /\ ops' = ops + 1
       /\ \/ \E arg \in Configs \cup {None} : Push(T("open", 0, arg))
          \/ \E op \in {"close", "lclose", "dispose"} : Push(T(op, 0, None))
       /\ UNCHANGED <<dev, batch, taking, job, fdr, firing>>

OpTask == \/ OpOpen \/ OpClose \/ OpLingerClose \/ OpCheckLingerClose \/ OpDispose
          \/ OpReopen \/ OpTimeout \/ OpDnQueryDone \/ OpConnected \/ OpError
          \/ OpRecv \/ OpSend \/ OpContinueSend
JobStep == (\E k \in 0..MaxSends : JobWrite(k)) \/ JobWriteError \/ JobCheckSendQueueEmpty \/ JobLeave
FdrHandle == FdrConnected \/ FdrContinueSend \/ FdrRecv \/ FdrRecvEnd \/ FdrSocketError

Next == \/ OpTake \/ OpEnd \/ OpTask \/ JobStep
        \/ \E t \in Senders \cup {Fdr}, isASAP \in BOOLEAN : Send(t, isASAP)
        \/ FdrPendingSend \/ FdrPendingRemove \/ (\E ev \in {"read", "write", "error"} : FdrEvent(ev))
        \/ FdrHandle
        \/ TimerFire \/ TimerEmit \/ DnAnswer \/ Ask

Spec == Init /\ [][Next]_vars

-----------------------------------------------------------------------------
States == {"Initialized", "ConfigError", "Opening", "Linking", "LinkError", "LinkReady",
           "LinkBroken", "Lingering", "Closed", "Disposing"}
Ops == {"open", "close", "lclose", "check", "dispose", "reopen", "timeout", "dn",
        "connected", "error", "recv", "send", "continue"}

TypeOK ==
  /\ dev.st \in States /\ dev.timer \in BOOLEAN
  /\ dev.sock.id \in 0..dev.links /\ dev.links <= MaxLinks /\ dev.next <= dev.n
  /\ dev.sock.bits \subseteq {"read", "write"}
  /\ dev.sock.pend \subseteq {"send", "remove"}
  /\ \A t \in Queued : t.op \in Ops
  /\ job.by \in Senders \cup {Fdr, None} /\ job.at \in {"no", "writing", "check", "leave"}
  /\ fdr.at \in {"idle", "handle", "recv"}

(* Whether a task of kind op for the present link is on its way. *)
Has(op) == \E t \in Queued : t.op = op /\ t.id = dev.sock.id
(* The link was told to have failed: what it still had to do does not matter.*)
IsFailing == Has("error") \/ (fdr.at = "handle" /\ fdr.ev = "error" /\ fdr.id = dev.sock.id)
Detects(b) == b \in dev.sock.bits /\ dev.sock.reg

(* The messages accepted on a link leave it in the order in which they were *)
(* accepted, each once and none skipped, whichever thread sends them.       *)
SentInOrder == dev.sock.wire = [i \in 1..Len(dev.sock.wire) |-> i]

(* A send buffer that is not empty has somebody who goes on with it: the    *)
(* job in place, the fdr thread, a task, or the socket when it is writable. *)
(* Nobody goes on with an empty one, so nothing is left behind in it, as    *)
(* OpImpl_CheckSendQueue() and GetQueueForPush() assert.                    *)
SomeoneWillSend ==
  /\ dev.sock.status = "Sending" =>
       \/ job # NoJob \/ "send" \in dev.sock.pend \/ Has("continue") \/ Detects("write") \/ IsFailing
       \/ fdr.at = "handle" /\ fdr.id = dev.sock.id /\ fdr.ev \in {"send", "write"}
  /\ dev.sock.status = "Empty" => dev.sock.sending = <<>> /\ dev.sock.queue = <<>> /\ job = NoJob

(* A ready link goes on receiving: readable is detected, or the task that   *)
(* will turn it on again is queued.                                         *)
SomeoneWillReceive ==
  dev.st = "LinkReady" => Detects("read") \/ Has("recv") \/ IsFailing

(* The device has a socket exactly while it links or is linked.             *)
SocketMatchesState ==
  /\ dev.sock.id # 0 => dev.st \in {"Linking", "LinkReady", "Lingering"}
  /\ CanSend(dev.st) => dev.sock.id # 0 /\ dev.sock.conn = "connected"
  /\ dev.st = "Linking" => (dev.sock.id # 0) # (dev.dn # 0)

(* Who waits is woken: a broken link with an interval is reopened, and an   *)
(* attempt to connect, or to resolve the name, times out.                   *)
SomeoneWillRetry ==
  /\ dev.st \in Reopens => dev.timer \/ firing \/ \E t \in Queued : t.op = "reopen"
  /\ dev.st = "Linking" => dev.timer \/ firing \/ \E t \in Queued : t.op = "timeout"

(* A device that lingers and has nothing left to send is going to see it:   *)
(* emptying the buffer in place leaves a task to close it.                  *)
SomeoneWillClose ==
  dev.st = "Lingering" /\ dev.sock.status = "Empty" => \E t \in Queued : t.op = "check"

(* The data of a link leaves it in order, and the link is that of the       *)
(* device's state.                                                         *)
SentOnItsSocket == SentInOrder /\ SocketMatchesState

(* Nothing is left to nobody: what is to be sent, received, retried or      *)
(* closed (DeviceStartSend, DeviceRecvBufferReady, EmitOnCommonTimer,       *)
(* OpThr_LingerClose).                                                      *)
SomeoneGoesOn == /\ SomeoneWillSend /\ SomeoneWillReceive
                 /\ SomeoneWillRetry /\ SomeoneWillClose

(* Nothing brings a disposed device back: no task that was left behind, no  *)
(* answer and no timer gives it a socket, a query or a retry again.         *)
DisposedForGood == [][dev.st = "Disposing" => /\ dev'.st = "Disposing" /\ dev'.sock = NoSock
                                              /\ dev'.dn = 0 /\ ~dev'.timer]_vars

=============================================================================
