------------------------------ MODULE LogFile ------------------------------
(***************************************************************************)
(* The log file (LogFileAppender over AsyncFileAppender, FileAppender,     *)
(* Appender, Worker, DcQueueList): threads append to a queue; one of them, *)
(* or a thread of the pool, takes the queue over and writes it; control    *)
(* nodes among the data open a new file or wake a thread.                  *)
(*                                                                         *)
(* Under the lock of the worker a step is atomic.  A node is written at    *)
(* once; a longer write is several steps.  `e' is what nodes that are used *)
(* up change: the files, the file name's time, the latches, and whether    *)
(* the thread that holds the lock waits for it.                            *)
(***************************************************************************)
EXTENDS Integers, SequencesExt

CONSTANTS Threads,
          FlushNodeCount, HighWaterLevelNodeCount,
          MaxFileSize,   \* 0: no limit
          OpenMayFail,   \* a new file may not be opened
          MaxLogs,       \* bound: messages of a thread
          MaxTime, MaxErrors, MaxFlushes \* bounds: times, write errors, calls of WaitFlushed

VARIABLES queue,   \* QueuingBuffer_
          work,    \* UnsafeWorkingBuffer_
          waiters, \* ConsumedWaiter_
          called,  \* waiters taken out of it, not yet called
          worker,  \* [st, async: IsAsyncTaking_, taker, phase, count: WorkingNodeCount_]
          pool,    \* calls in the thread pool
          life,    \* the object: "alive", "dying", "disposed", "notimer", "dead"
          thr,     \* thr[t]: [pc, tm, n, mark]
          chk,     \* RotateTimeChecker_
          e,       \* [files, rot, latch, stuck]
          now, lost, errors, flushes

logVars == <<queue, work, waiters, called, worker, pool, life, thr, chk, e, now, lost, errors, flushes>>

Nobody == "nobody"
Data(t) == [kind |-> "data", by |-> t, n |-> thr[t].n, tm |-> thr[t].tm]
Rotate(tm) == [kind |-> "rotate", tm |-> tm]
Waiter(t) == [kind |-> "wait", by |-> t]
IsData(node) == node.kind = "data"
DataOf(s) == SelectSeq(s, IsData)
Unlocked == ~e.stuck
Written == UNION {ToSet(e.files[i].data) : i \in DOMAIN e.files}

-----------------------------------------------------------------------------
(* Nodes that are used up *)

(* NodeCheckRotateTime: FileRotate looks at the time again; a file that cannot be
   opened is logged, which takes the lock, and the old one is kept. *)
CheckRotateTime(x, tm, locked) ==
  IF tm <= x.rot THEN {x}
  ELSE {[x EXCEPT !.rot = tm, !.files = Append(@, [tm |-> tm, data |-> <<>>])]}
       \cup (IF OpenMayFail THEN {[x EXCEPT !.rot = tm, !.stuck = locked]} ELSE {})

(* OnBufferConsumed, or OnBufferConsumedErr `times' times. *)
Consumed(x, node, times, locked) ==
  IF x.stuck THEN {x}
  ELSE CASE node.kind = "wait" -> {[x EXCEPT !.latch[node.by] = @ + times]}
         [] node.kind = "rotate" -> CheckRotateTime(x, node.tm, locked)
         [] OTHER -> {x}

ConsumedAll(xs, nodes, times, locked) ==
  FoldLeft(LAMBDA S, node : UNION {Consumed(x, node, times, locked) : x \in S}, xs, nodes)

Controls(s) == LET ends == {i \in DOMAIN s : IsData(s[i])} IN IF ends = {} THEN Len(s) ELSE Min(ends) - 1
Rest(s) == SubSeq(s, Controls(s) + 1, Len(s))
Front1(s) == SubSeq(s, 1, Controls(s))

-----------------------------------------------------------------------------
(* Calls of the worker *)

IsHighWaterLevel(q) == HighWaterLevelNodeCount > 0 /\ Len(q) + worker.count >= HighWaterLevelNodeCount

(* Mutant: a call that is under way is taken to be enough. *)
MakeCallNowUnlessWorking(w) ==
  /\ worker' = [w EXCEPT !.async = @ \/ w.st = "Sleeping"]
  /\ pool' = IF w.async \/ life # "alive" \/ w.st # "Sleeping" THEN pool ELSE pool + 1

(* AsyncFileAppender::MakeCallNow: one call in the pool; none once the last
   reference is gone. *)
MakeCallNow(w) == /\ worker' = [w EXCEPT !.async = TRUE]
                  /\ pool' = IF w.async \/ life # "alive" THEN pool ELSE pool + 1

(* MakeCallForWork, after something was put into the queue: wait at the high
   water level, call when there is much to write, else leave it to the timer. *)
MakeCallForWork(t, q, next) ==
  /\ queue' = q
  /\ IF IsHighWaterLevel(q)
     THEN /\ waiters' = Append(waiters, t) /\ MakeCallNow(worker)
          /\ thr' = [thr EXCEPT ![t] = [next EXCEPT !.pc = "consumed-" \o next.pc]]
          /\ e' = [e EXCEPT !.latch[t] = 0]
     ELSE /\ UNCHANGED <<waiters, e>> /\ thr' = [thr EXCEPT ![t] = next]
          /\ IF Len(q) > FlushNodeCount /\ worker.st = "Sleeping"
             THEN MakeCallNow([worker EXCEPT !.st = "Ringing"]) ELSE UNCHANGED <<worker, pool>>

(* Controller_.TakeCall up to its unlock: the queue goes behind the working buffer;
   control nodes in front of all data are used up at once. *)
Take(w, x) ==
  LET all == work \o queue
      at == IF work = <<>> THEN Controls(all) ELSE 0
  IN /\ queue' = <<>> /\ work' = SubSeq(all, at + 1, Len(all))
     /\ e' \in ConsumedAll({x}, SubSeq(all, 1, at), 1, TRUE)
     /\ worker' = [w EXCEPT !.phase = "write", !.count = Len(work')]

(* Worker::TakeCallLocked by a thread. *)
TakeCallLocked(w, by) ==
  IF w.st \in {"Working", "DisposeWorking"} THEN worker' = w /\ UNCHANGED <<queue, work, e>>
  ELSE Take([w EXCEPT !.st = IF @ = "Disposing" THEN "DisposeWorking" ELSE "Working", !.taker = by], e)

PoolCall == /\ pool > 0 /\ Unlocked /\ pool' = pool - 1
            /\ TakeCallLocked([worker EXCEPT !.async = FALSE], "pool")
            /\ UNCHANGED <<waiters, called, life, thr, chk, now, lost, errors, flushes>>

(* LogFileAppender::EmitOnTimer *)
EmitOnTimer == /\ life \in {"alive", "dying", "disposed"} /\ Unlocked
               /\ queue # <<>> /\ MakeCallNow(worker)
               /\ UNCHANGED <<queue, work, waiters, called, life, thr, chk, e, now, lost, errors, flushes>>

-----------------------------------------------------------------------------
(* Writing *)

(* File::Append: data, and the control nodes behind it (PopConsumed). *)
Write ==
  /\ worker.phase = "write" /\ work # <<>> /\ Unlocked
  /\ work' = Rest(Tail(work))
  /\ e' \in ConsumedAll({[e EXCEPT !.files[Len(e.files)].data = Append(@, Head(work))]}, Front1(Tail(work)), 1, FALSE)
  /\ UNCHANGED <<queue, waiters, called, worker, pool, life, thr, chk, now, lost, errors, flushes>>

(* Mutant: after an error the control nodes are removed unheard. *)
WriteErrorForgets ==
  /\ worker.phase = "write" /\ work # <<>> /\ errors < MaxErrors /\ errors' = errors + 1
  /\ lost' = lost \cup ToSet(DataOf(work)) /\ work' = <<>>
  /\ UNCHANGED <<queue, waiters, called, worker, pool, life, thr, chk, e, now, flushes>>

(* ConsumeErr: a node that is not the first is told twice. *)
WriteError ==
  /\ worker.phase = "write" /\ work # <<>> /\ errors < MaxErrors /\ errors' = errors + 1
  /\ lost' = lost \cup ToSet(DataOf(work)) /\ work' = <<>>
  /\ e' \in ConsumedAll({e}, Tail(work), 2, FALSE)
  /\ UNCHANGED <<queue, waiters, called, worker, pool, life, thr, chk, now, flushes>>

(* The size is looked at; the waiters are taken out of their list. *)
Decide(w, x) == IF queue = <<>> THEN /\ worker' = [w EXCEPT !.st = "Sleeping", !.taker = Nobody, !.phase = "none"]
                                     /\ e' = x /\ UNCHANGED <<queue, work>>
                ELSE Take(w, x)

WriteDone ==
  /\ worker.phase = "write" /\ work = <<>> /\ Unlocked
  /\ LET cur == e.files[Len(e.files)]
         full == MaxFileSize > 0 /\ Len(cur.data) >= MaxFileSize
         x == IF full THEN [e EXCEPT !.files = Append(@, [tm |-> cur.tm, data |-> <<>>])] ELSE e
     IN IF waiters = <<>> THEN Decide([worker EXCEPT !.count = 0], x) /\ UNCHANGED <<waiters, called>>
        ELSE /\ called' = waiters /\ waiters' = <<>> /\ e' = x
             /\ worker' = [worker EXCEPT !.phase = "call", !.count = 0] /\ UNCHANGED <<queue, work>>
  /\ UNCHANGED <<pool, life, thr, chk, now, lost, errors, flushes>>

CallWaiters ==
  /\ worker.phase = "call" /\ called # <<>> /\ called' = Tail(called)
  /\ e' = [e EXCEPT !.latch[Head(called)] = @ + 1]
  /\ UNCHANGED <<queue, work, waiters, worker, pool, life, thr, chk, now, lost, errors, flushes>>

(* Mutant: what came while the waiters were called is left to the next call. *)
WaitersCalledSleeps ==
  /\ worker.phase = "call" /\ called = <<>>
  /\ worker' = [worker EXCEPT !.st = "Sleeping", !.taker = Nobody, !.phase = "none"]
  /\ UNCHANGED <<queue, work, waiters, called, pool, life, thr, chk, e, now, lost, errors, flushes>>

WaitersCalled ==
  /\ worker.phase = "call" /\ called = <<>> /\ Decide(worker, e)
  /\ UNCHANGED <<waiters, called, pool, life, thr, chk, now, lost, errors, flushes>>

-----------------------------------------------------------------------------
(* Threads *)

Tick == /\ now < MaxTime /\ now' = now + 1
        /\ UNCHANGED <<queue, work, waiters, called, worker, pool, life, thr, chk, e, lost, errors, flushes>>

(* LogWriteToFile: the time of the message is taken, compared with the file's,
   which threads may do at once, and the node and the data are appended. *)
LogWrite(t) ==
  /\ thr[t].pc = "idle" /\ thr[t].n < MaxLogs /\ life = "alive"
  /\ thr' = [thr EXCEPT ![t] = [@ EXCEPT !.pc = "check", !.tm = now, !.n = @ + 1]]
  /\ UNCHANGED <<queue, work, waiters, called, worker, pool, life, chk, e, now, lost, errors, flushes>>

CheckTime(t) ==
  /\ thr[t].pc = "check"
  /\ \E isChanged \in {thr[t].tm > chk, thr[t].tm > chk \/ \E u \in Threads \ {t} : thr[u].pc = "node"} :
       /\ chk' = IF isChanged THEN thr[t].tm ELSE chk
       /\ thr' = [thr EXCEPT ![t].pc = IF isChanged THEN "node" ELSE "data"]
  /\ UNCHANGED <<queue, work, waiters, called, worker, pool, life, e, now, lost, errors, flushes>>

AppendNode(t) ==
  /\ thr[t].pc = "node" /\ Unlocked
  /\ MakeCallForWork(t, Append(queue, Rotate(thr[t].tm)), [thr[t] EXCEPT !.pc = "data"])
  /\ UNCHANGED <<work, called, life, chk, now, lost, errors, flushes>>

AppendData(t) ==
  /\ thr[t].pc = "data" /\ Unlocked
  /\ MakeCallForWork(t, Append(queue, Data(t)), [thr[t] EXCEPT !.pc = "idle"])
  /\ UNCHANGED <<work, called, life, chk, now, lost, errors, flushes>>

(* Awoken at the high water level: is it still that high? *)
Consume(t) ==
  \E pc \in {"data", "idle"} :
    /\ thr[t].pc = "consumed-" \o pc /\ e.latch[t] > 0 /\ Unlocked
    /\ IF IsHighWaterLevel(queue)
       THEN /\ waiters' = Append(waiters, t) /\ MakeCallNow(worker)
            /\ e' = [e EXCEPT !.latch[t] = 0] /\ UNCHANGED thr
       ELSE /\ thr' = [thr EXCEPT ![t].pc = pc] /\ UNCHANGED <<waiters, worker, pool, e>>
    /\ UNCHANGED <<queue, work, called, life, chk, now, lost, errors, flushes>>

WaitFlushed(t) ==
  /\ thr[t].pc = "idle" /\ flushes < MaxFlushes /\ flushes' = flushes + 1 /\ life = "alive"
  /\ thr' = [thr EXCEPT ![t].pc = "flush", ![t].mark = ToSet(DataOf(work \o queue))]
  /\ UNCHANGED <<queue, work, waiters, called, worker, pool, life, chk, e, now, lost, errors>>

(* Mutant: a worker that is writing the last of the queue is not waited for. *)
FlushLoopHasty(t) ==
  /\ thr[t].pc = "flush" /\ worker.taker # t /\ queue = <<>>
  /\ thr' = [thr EXCEPT ![t].pc = "flushed"]
  /\ UNCHANGED <<queue, work, waiters, called, worker, pool, life, chk, e, now, lost, errors, flushes>>

(* Appender::WaitFlushed: write, or wait for the thread that writes. *)
FlushLoop(t) ==
  /\ thr[t].pc = "flush" /\ worker.taker # t /\ Unlocked
  /\ IF worker.taker = Nobody
     THEN IF queue = <<>> THEN thr' = [thr EXCEPT ![t].pc = "flushed"] /\ UNCHANGED <<queue, work, worker, pool, e>>
          ELSE TakeCallLocked(worker, t) /\ UNCHANGED <<thr, pool>>
     ELSE /\ queue' = Append(queue, Waiter(t)) /\ MakeCallNow(worker)
          /\ thr' = [thr EXCEPT ![t].pc = "waitFlush"] /\ e' = [e EXCEPT !.latch[t] = 0]
          /\ UNCHANGED work
  /\ UNCHANGED <<waiters, called, life, chk, now, lost, errors, flushes>>

FlushWoken(t) ==
  /\ thr[t].pc = "waitFlush" /\ e.latch[t] > 0 /\ thr' = [thr EXCEPT ![t].pc = "flush"]
  /\ UNCHANGED <<queue, work, waiters, called, worker, pool, life, chk, e, now, lost, errors, flushes>>

Returned(t) ==
  /\ thr[t].pc = "flushed" /\ thr' = [thr EXCEPT ![t].pc = "idle", ![t].mark = {}]
  /\ UNCHANGED <<queue, work, waiters, called, worker, pool, life, chk, e, now, lost, errors, flushes>>

-----------------------------------------------------------------------------
(* The end: no thread and no call holds a reference any more. *)

Life(from, to) == life = from /\ life' = to /\ Unlocked

LastRelease == /\ Life("alive", "dying") /\ pool = 0 /\ worker.taker = Nobody
               /\ \A t \in Threads : thr[t].pc = "idle"
               /\ UNCHANGED <<queue, work, waiters, called, worker, pool, thr, chk, e, now, lost, errors, flushes>>
(* Worker_.Dispose *)
Dispose == /\ Life("dying", "disposed") /\ MakeCallNow([worker EXCEPT !.st = "Disposing"])
           /\ UNCHANGED <<queue, work, waiters, called, thr, chk, e, now, lost, errors, flushes>>
(* Timer_.DisposeAndWait *)
DisposeTimer == /\ Life("disposed", "notimer")
                /\ UNCHANGED <<queue, work, waiters, called, worker, pool, thr, chk, e, now, lost, errors, flushes>>

(* Mutant: what is left is not written. *)
DestructQuiet == /\ Life("notimer", "dead")
                 /\ UNCHANGED <<queue, work, waiters, called, worker, pool, thr, chk, e, now, lost, errors, flushes>>

(* ~FileAppender: what is left is written. *)
Destruct == /\ Life("notimer", "dead") /\ TakeCallLocked(worker, "owner")
            /\ UNCHANGED <<waiters, called, pool, thr, chk, now, lost, errors, flushes>>

-----------------------------------------------------------------------------
Init == /\ queue = <<>> /\ work = <<>> /\ waiters = <<>> /\ called = <<>>
        /\ worker = [st |-> "Sleeping", async |-> FALSE, taker |-> Nobody, phase |-> "none", count |-> 0]
        /\ pool = 0 /\ life = "alive" /\ chk = 0 /\ now = 0 /\ lost = {} /\ errors = 0 /\ flushes = 0
        /\ thr = [t \in Threads |-> [pc |-> "idle", tm |-> 0, n |-> 0, mark |-> {}]]
        /\ e = [files |-> <<[tm |-> 0, data |-> <<>>]>>, rot |-> 0, latch |-> [t \in Threads |-> 0], stuck |-> FALSE]

Writing == Write \/ WriteError \/ WriteDone \/ CallWaiters \/ WaitersCalled
Ending == Dispose \/ DisposeTimer \/ Destruct
Flushing(t) == FlushLoop(t) \/ FlushWoken(t)
Runs(t) == CheckTime(t) \/ AppendNode(t) \/ AppendData(t) \/ Consume(t) \/ Returned(t)

Next == \/ PoolCall \/ EmitOnTimer \/ Writing \/ Tick
        \/ LastRelease \/ Ending
        \/ \E t \in Threads : LogWrite(t) \/ Runs(t) \/ WaitFlushed(t) \/ Flushing(t)

(* Threads run on, the pool and the timer thread do what they are given. *)
Fairness == /\ WF_logVars(PoolCall) /\ WF_logVars(EmitOnTimer) /\ WF_logVars(Writing) /\ WF_logVars(Ending)
            /\ \A t \in Threads : WF_logVars(Runs(t)) /\ WF_logVars(Flushing(t))
Spec == Init /\ [][Next]_logVars
FairSpec == Spec /\ Fairness

-----------------------------------------------------------------------------
(* Properties *)

Waits(t) == thr[t].pc \in {"consumed-data", "consumed-idle", "waitFlush"} /\ e.latch[t] = 0
FilesData == FlattenSeq([i \in DOMAIN e.files |-> e.files[i].data])

(* Every message is at one place, and the messages of a thread are written in the
   order it logged them, over the files, whoever writes; also when the log file is
   destroyed nothing is left (Appender::TakeCall, ~FileAppender). *)
WrittenInOrder ==
  LET all == FilesData \o DataOf(work) \o DataOf(queue)
  IN /\ IsInjective(all) /\ ToSet(all) \cap lost = {}
     /\ \A i, j \in DOMAIN all : i < j /\ all[i].by = all[j].by => all[i].n < all[j].n
     /\ life = "dead" /\ worker.phase = "none" => queue = <<>> /\ work = <<>>

(* WaitFlushed: "what was appended before the call is written when it returns"
   (Appender.hpp), or was lost by an error. *)
FlushedIsWritten == \A t \in Threads : thr[t].pc = "flushed" => thr[t].mark \subseteq Written \cup lost

(* A thread that waits, for its data to be written or for the water to fall, is
   known to somebody who will wake it: the pool or the thread that writes. *)
WaitersAreKnown ==
  \A t \in Threads : Waits(t) =>
    /\ pool > 0 \/ worker.taker # Nobody
    /\ thr[t].pc = "waitFlush" => Contains(work \o queue, Waiter(t))

(* When nothing is under way any more the file is that of the latest message,
   though the threads compare the time without a lock ("the checker is right in
   the end", FileAppender.cpp). *)
FileCatchesUp ==
  (/\ \A t \in Threads : thr[t].pc = "idle"
   /\ queue = <<>> /\ work = <<>> /\ worker.phase = "none" /\ ~OpenMayFail) =>
     \A d \in Written \cup lost : d.tm <= Last(e.files).tm

(* A waiter is woken once: OnBufferConsumed or OnBufferConsumedErr, "then the node
   is removed" (BufferNode.hpp). *)
WokenOnce == \A t \in Threads : e.latch[t] <= 1

(* "UnsafeWorkingBuffer_ may only be used while TakeCall has unlocked"
   (Appender.hpp): no node that logs is used up under the lock. *)
NeverLocksTwice == ~e.stuck

(* A thread that waits is woken in the end.  (It may find the writer at work, or
   the water high, and wait again.) *)
WaitersAreWoken == \A t \in Threads : Waits(t) ~> ~Waits(t)

(* What is appended is written in the end, or lost by an error. *)
AllWritten == DataOf(queue) # <<>> ~> DataOf(queue) = <<>>
=============================================================================
