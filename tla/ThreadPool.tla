----------------------------- MODULE ThreadPool -----------------------------
(***************************************************************************)
(* A MessageQueue of tasks with its threads (ThreadController.hpp,         *)
(* MessageQueue.hpp), and how a program ends it: DefaultThreadPool's       *)
(* WaitDefaultThreadPoolQuit, which sends a barrier through the threads    *)
(* before it ends them, or the calls of MessageQueue itself.               *)
(*                                                                         *)
(* A step is one critical section of the queue's mutex, the handling of a  *)
(* task, or the arrival at the barrier. A notified thread is one that      *)
(* takes the mutex next ("ready"); a waiting one may wake by itself.       *)
(***************************************************************************)
EXTENDS Integers, Sequences, FiniteSets

CONSTANTS
  Threads,      \* the threads of the pool
  Ender,        \* the thread that ends the pool
  Tasks,        \* the tasks others may add, each once
  Rounds,       \* waitTimes of WaitDefaultThreadPoolQuit
  Timed,        \* the WakeupInterval at the start is not 0
  ExitHandler   \* OnWindowsMainExit_Notify may run in another thread

VARIABLES
  state,    \* ThreadController::State_
  queue,    \* the MessageQueue's container
  running,  \* RunningCount_
  at,       \* where each thread is
  hand,     \* the task each thread handles
  timed,    \* WakeupInterval_ > 0
  plan,     \* how the Ender ends the pool
  pc,       \* where the Ender is
  left,     \* barrier tasks the Ender has yet to add in this round
  rounds,   \* rounds left
  latch,    \* CyclicBarrier::WaitingCount_
  asked,    \* tasks handed to EmplaceMessage
  came,     \* messages that were accepted, in order
  took,     \* messages taken from the queue, in order
  done      \* tasks that were handled

poolVars == <<state, queue, running, at, hand, timed, plan, pc, left, rounds, latch, asked, came, took, done>>
endVars == <<timed, plan, pc, left, rounds>>

Barrier == "barrier"
Nothing == "nothing"
Open == {"Idle", "ExecutingOrWaiting"}

Init ==
  /\ state = "Idle" /\ queue = <<>> /\ running = 0
  /\ at = [x \in Threads \cup {Ender} |-> "ready"] /\ hand = [w \in Threads |-> Nothing]
  /\ timed = Timed /\ plan \in {"quit", "now", "workdone"} /\ pc = "begin"
  /\ left = 0 /\ rounds = Rounds /\ latch = 0
  /\ asked = {} /\ came = <<>> /\ took = <<>> /\ done = {}

-----------------------------------------------------------------------------
(* The controller *)

Waiting == {x \in DOMAIN at : at[x] = "wait"}
AllWoken == [x \in DOMAIN at |-> IF at[x] = "wait" THEN "ready" ELSE at[x]]

NotifyOne == IF timed \/ Waiting = {} THEN UNCHANGED at
             ELSE \E x \in Waiting : at' = [at EXCEPT ![x] = "ready"]

(* Mutant: a pool of several threads notifies for the first message only. *)
CheckNotifyFirst == IF queue = <<>> THEN NotifyOne ELSE UNCHANGED at

(* CheckNotify: one thread that finds messages left goes on by itself. *)
CheckNotify == IF running > 1 \/ queue = <<>> THEN NotifyOne ELSE UNCHANGED at

(* Mutant: messages are taken in while the pool ends. *)
EmplaceMessageAlways(x) ==
  /\ queue' = Append(queue, x) /\ came' = Append(came, x) /\ CheckNotify

EmplaceMessage(x) ==
  IF state \in Open
  THEN queue' = Append(queue, x) /\ came' = Append(came, x) /\ CheckNotify
  ELSE UNCHANGED <<queue, came, at>>

AddTask(t) ==
  /\ t \notin asked /\ asked' = asked \cup {t}
  /\ EmplaceMessage(t)
  /\ UNCHANGED <<state, running, hand, endVars, latch, took, done>>

StartThread ==
  /\ state = "Idle" /\ state' = "ExecutingOrWaiting" /\ running' = Cardinality(Threads)
  /\ UNCHANGED <<queue, at, hand, endVars, latch, asked, came, took, done>>

NotifyForEnd(st) == state' = IF state = "ExecutingOrWaiting" THEN st ELSE state

(* OnWindowsMainExit_Notify: NotifyForEndNow. *)
NotifyForEndNow ==
  /\ ExitHandler /\ state = "ExecutingOrWaiting"
  /\ NotifyForEnd("EndNow") /\ at' = AllWoken
  /\ UNCHANGED <<queue, running, hand, endVars, latch, asked, came, took, done>>

(* The end of a wait that nobody notified: time, or for no reason. *)
Wakes(x) ==
  /\ at[x] = "wait" /\ at' = [at EXCEPT ![x] = "ready"]
  /\ UNCHANGED <<state, queue, running, hand, endVars, latch, asked, came, took, done>>

-----------------------------------------------------------------------------
(* The threads *)

(* DoMessages takes the next message. *)
Take(w) ==
  /\ at[w] = "ready" /\ queue # <<>> /\ state \in {"ExecutingOrWaiting", "EndAfterWorkDone"}
  /\ hand' = [hand EXCEPT ![w] = Head(queue)] /\ at' = [at EXCEPT ![w] = "task"]
  /\ queue' = Tail(queue) /\ took' = Append(took, Head(queue))
  /\ UNCHANGED <<state, running, endVars, latch, asked, came, done>>

(* DoMessages finds the queue empty and the thread waits. *)
Wait(w) ==
  /\ at[w] = "ready" /\ queue = <<>> /\ state = "ExecutingOrWaiting"
  /\ at' = [at EXCEPT ![w] = "wait"]
  /\ UNCHANGED <<state, queue, running, hand, endVars, latch, asked, came, took, done>>

(* Mutant: the last thread to end notifies nobody. *)
EndThreadQuiet(w) ==
  /\ at[w] = "ready"
  /\ state = "EndNow" \/ (state = "EndAfterWorkDone" /\ queue = <<>>)
  /\ running' = running - 1
  /\ state' = IF running = 1 THEN "Terminated" ELSE state
  /\ at' = [at EXCEPT ![w] = "ended"]
  /\ UNCHANGED <<queue, hand, endVars, latch, asked, came, took, done>>

(* Mutant: a thread that is told to end after the work leaves the work to others. *)
EndThreadEarly(w) ==
  /\ at[w] = "ready" /\ state \in {"EndNow", "EndAfterWorkDone"}
  /\ running' = running - 1
  /\ state' = IF running = 1 THEN "Terminated" ELSE state
  /\ at' = [(IF running = 1 THEN AllWoken ELSE at) EXCEPT ![w] = "ended"]
  /\ UNCHANGED <<queue, hand, endVars, latch, asked, came, took, done>>

(* DoMessages returns and the thread ends; the last one tells who waits for it. *)
EndThread(w) ==
  /\ at[w] = "ready"
  /\ state = "EndNow" \/ (state = "EndAfterWorkDone" /\ queue = <<>>)
  /\ running' = running - 1
  /\ state' = IF running = 1 THEN "Terminated" ELSE state
  /\ at' = [(IF running = 1 THEN AllWoken ELSE at) EXCEPT ![w] = "ended"]
  /\ UNCHANGED <<queue, hand, endVars, latch, asked, came, took, done>>

(* CyclicBarrier::Wait, for the pool's threads and the one that waits for them. *)
Arrive(x) ==
  IF latch + 1 < Cardinality(Threads) + 1
  THEN latch' = latch + 1 /\ at' = [at EXCEPT ![x] = "barrier"]
  ELSE latch' = 0 /\ at' = [y \in DOMAIN at |-> IF y = x \/ at[y] = "barrier" THEN "ready" ELSE at[y]]

(* DefaultThreadTaskHandler::OnMessage *)
OnMessage(w) ==
  /\ at[w] = "task" /\ hand' = [hand EXCEPT ![w] = Nothing]
  /\ IF hand[w] = Barrier THEN Arrive(w) /\ UNCHANGED done
     ELSE at' = [at EXCEPT ![w] = "ready"] /\ done' = done \cup {hand[w]} /\ UNCHANGED latch
  /\ UNCHANGED <<state, queue, running, endVars, asked, came, took>>

-----------------------------------------------------------------------------
(* The end of the pool *)

EnderAt(p) == pc = p /\ at[Ender] = "ready"

(* WaitDefaultThreadPoolQuit begins with SetWakeupInterval(0); the others go on
   to their WaitForEnd. *)
BeginEnd ==
  /\ EnderAt("begin") /\ state # "Idle"
  /\ IF plan = "quit" THEN timed' = FALSE /\ at' = AllWoken /\ pc' = "state"
     ELSE pc' = "end" /\ UNCHANGED <<timed, at>>
  /\ UNCHANGED <<state, queue, running, hand, plan, left, rounds, latch, asked, came, took, done>>

NextRound(r) == /\ rounds' = r
                /\ IF r > 0 THEN pc' = "post" /\ left' = Cardinality(Threads)
                   ELSE pc' = "end" /\ UNCHANGED left

(* GetThreadState, whose lock is free again before the first round. *)
CheckState ==
  /\ EnderAt("state") /\ NextRound(IF state \in Open THEN rounds ELSE 0)
  /\ UNCHANGED <<state, queue, running, at, hand, timed, plan, latch, asked, came, took, done>>

(* A barrier task for each thread; whether it was taken in is not looked at. *)
PostBarrier ==
  /\ EnderAt("post") /\ left > 0 /\ left' = left - 1 /\ EmplaceMessage(Barrier)
  /\ UNCHANGED <<state, running, hand, timed, plan, pc, rounds, latch, asked, took, done>>

WaitBarrier ==
  /\ EnderAt("post") /\ left = 0 /\ Arrive(Ender) /\ pc' = "sleep"
  /\ UNCHANGED <<state, queue, running, hand, timed, plan, left, rounds, asked, came, took, done>>

(* tiSleep is over: every thread has left the barrier by then. *)
RoundEnds ==
  /\ EnderAt("sleep") /\ NextRound(rounds - 1)
  /\ UNCHANGED <<state, queue, running, at, hand, timed, plan, latch, asked, came, took, done>>

(* Mutant: the end of the pool wakes nobody. *)
WaitForEndQuiet ==
  /\ EnderAt("end") /\ NotifyForEnd(IF plan = "now" THEN "EndNow" ELSE "EndAfterWorkDone")
  /\ IF running = 0 THEN pc' = "join" /\ UNCHANGED at
     ELSE pc' = "waiting" /\ at' = [at EXCEPT ![Ender] = "wait"]
  /\ UNCHANGED <<queue, running, hand, timed, plan, left, rounds, latch, asked, came, took, done>>

(* ThreadController::WaitForEnd up to its first wait. *)
WaitForEnd ==
  /\ EnderAt("end") /\ NotifyForEnd(IF plan = "now" THEN "EndNow" ELSE "EndAfterWorkDone")
  /\ IF running = 0 THEN pc' = "join" /\ at' = AllWoken
     ELSE pc' = "waiting" /\ at' = [AllWoken EXCEPT ![Ender] = "wait"]
  /\ UNCHANGED <<queue, running, hand, timed, plan, left, rounds, latch, asked, came, took, done>>

WaitsOn ==
  /\ EnderAt("waiting")
  /\ IF running = 0 THEN pc' = "join" /\ UNCHANGED at ELSE at' = [at EXCEPT ![Ender] = "wait"] /\ UNCHANGED pc
  /\ UNCHANGED <<state, queue, running, hand, timed, plan, left, rounds, latch, asked, came, took, done>>

(* WaitThreadJoin; WaitForEndNow(handler) then handles what the threads left. *)
WaitThreadJoin ==
  /\ EnderAt("join") /\ \A w \in Threads : at[w] = "ended"
  /\ pc' = IF plan = "workdone" THEN "done" ELSE "rest"
  /\ UNCHANGED <<state, queue, running, at, hand, timed, plan, left, rounds, latch, asked, came, took, done>>

HandleRest ==
  /\ EnderAt("rest")
  /\ IF queue = <<>> THEN pc' = "done" /\ UNCHANGED <<queue, took, done>>
     ELSE /\ queue' = Tail(queue) /\ took' = Append(took, Head(queue)) /\ done' = done \cup {Head(queue)}
          /\ UNCHANGED pc
  /\ UNCHANGED <<state, running, at, hand, timed, plan, left, rounds, latch, asked, came>>

-----------------------------------------------------------------------------
Works(w) == Take(w) \/ Wait(w) \/ EndThread(w) \/ OnMessage(w)
Ends == \/ CheckState \/ PostBarrier \/ WaitBarrier \/ RoundEnds
        \/ WaitForEnd \/ WaitsOn \/ WaitThreadJoin \/ HandleRest

Next ==
  \/ StartThread
  \/ \E t \in Tasks : AddTask(t)
  \/ \E x \in Threads \cup {Ender} : Wakes(x)
  \/ \E w \in Threads : Works(w)
  \/ BeginEnd \/ Ends \/ NotifyForEndNow

Spec == Init /\ [][Next]_poolVars

(* The threads and the one that ends them are scheduled; a timed wait ends.
   Nobody has to end the pool, and no wake-up without a cause is promised. *)
TimesOut(w) == timed /\ Wakes(w)
Fairness == /\ WF_poolVars(StartThread) /\ WF_poolVars(Ends)
            /\ \A w \in Threads : WF_poolVars(Works(w)) /\ WF_poolVars(TimesOut(w))
FairSpec == Spec /\ Fairness

-----------------------------------------------------------------------------
Ready == {w \in Threads : at[w] = "ready"}
Accepted == {came[i] : i \in DOMAIN came} \ {Barrier}
InHand == {hand[w] : w \in Threads} \ {Nothing}

(* Messages are taken in the order in which they were accepted, each once, and
   what was taken is handled or in hand (MessageQueue::DoMessages). *)
TakenInOrder ==
  /\ came = took \o queue
  /\ \A i \in DOMAIN took : took[i] \in InHand \cup done \cup {Barrier}
  /\ \A v, w \in Threads : v # w /\ hand[v] \in Tasks => hand[v] # hand[w]
  /\ InHand \cap done = {}

(* While no interval wakes the threads, a message that waits has a thread of its
   own that comes to take it, unless none sleeps (CheckNotify: the notify is
   skipped when one thread runs and finds the queue not empty). *)
NobodySleepsBesideWork ==
  (~timed /\ state \in {"ExecutingOrWaiting", "EndAfterWorkDone"})
    => (Waiting \cap Threads = {} \/ Cardinality(Ready) >= Len(queue))

(* The one that ends the pool is not left asleep by the last thread, and nobody
   sleeps once the pool ends but it (OnBeforeThreadEnd, NotifyForEnd). *)
EnderIsTold ==
  /\ state = "Terminated" => (\A w \in Threads : at[w] = "ended") /\ at[Ender] # "wait"
  /\ state \notin Open => Waiting \subseteq {Ender}
  /\ state \notin Open /\ at[Ender] = "wait" => running > 0

(* When the end returns the threads are gone; every task that was accepted is done
   if what is left is handled after the end, or nobody told the pool to end at once. *)
DoneWhenEnded ==
  pc = "done" => /\ \A w \in Threads : at[w] = "ended"
                 /\ plan # "workdone" \/ ~ExitHandler => Accepted \subseteq done

PoolTypeOK ==
  /\ state \in Open \cup {"EndAfterWorkDone", "EndNow", "Terminated"}
  /\ running \in 0 .. Cardinality(Threads) /\ latch \in 0 .. Cardinality(Threads)
  /\ queue \in Seq(Tasks \cup {Barrier}) /\ took \in Seq(Tasks \cup {Barrier})

(* A task that was accepted is handled in the end (DefaultThreadPool). *)
TasksAreDone == \A t \in Tasks : (t \in Accepted) ~> (t \in done)

(* The call that ends the pool returns (WaitDefaultThreadPoolQuit, WaitForEnd). *)
EndReturns == pc # "begin" ~> pc = "done"
=============================================================================
