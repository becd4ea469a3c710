------------------------------- MODULE AQueue -------------------------------
(***************************************************************************)
(* fon9::AQueue ("as soon as possible task queue", fon9/AQueue.hpp): the   *)
(* serialiser of the operations of every io::Device and of the plugins     *)
(* manager.  One short critical section guards the worker state,   *)
(* the kinds of work now running in place and the queued tasks; the work   *)
(* itself runs outside it, in place in the caller's thread or, queued, in  *)
(* a thread of the default pool that was asked to TakeCall().              *)
(*                                                                         *)
(* One action is one critical section.  The step after it that matters     *)
(* runs unlocked and is an action of its own: posting the TakeCall()       *)
(* message (MakeCallForWork unlocks first), running a queued task, running *)
(* and leaving an in-place job, waiting on the latch.                      *)
(***************************************************************************)
EXTENDS Naturals, Sequences, FiniteSets

CONSTANTS Callers,    \* threads that use the queue
          Pool,       \* threads of the pool that run TakeCall()
          Kinds,      \* the AQueueTaskKind values in use, without Empty
          MaxTasks,   \* bound: how many tasks are ever queued
          MaxDirect   \* bound: TakeCall() calls that MakeCallForWork did not ask for

None == "none"

(* The bits of AQueueTaskKind: DenyGet contains Get, Set contains DenyGet. *)
KindBits(k) == CASE k = "Get"     -> {"get"}
                 [] k = "DenyGet" -> {"get", "deny"}
                 [] k = "Set"     -> {"get", "deny", "set"}
                 [] k = "Send"    -> {"send"}
                 [] k = "Recv"    -> {"recv"}
                 [] OTHER         -> {}

AllKinds == {"Get", "DenyGet", "Set", "Send", "Recv"}
AllBits  == {"get", "deny", "set", "send", "recv"}

ASSUME ConstantsAssumption ==
  /\ Kinds \subseteq AllKinds
  /\ IsFiniteSet(Callers)
  /\ None \notin Callers \cup Pool
  /\ Callers \cap Pool = {}
  /\ MaxTasks \in Nat /\ MaxDirect \in Nat

VARIABLES
  state,        \* WorkContentBase::State_
  taking,       \* WorkContentBase::TakingCallThreadId_, or None
  workingKind,  \* WorkContent::WorkingTaskKind_, as a set of bits
  countGetter,  \* WorkContent::CountGetter_
  tasks,        \* WorkContent::Tasks_
  batch,        \* the local `tasks' of the TakeCall() that is running
  calls,        \* TakeCall() messages now in the pool's queue
  direct,       \* how many of them MakeCallForWork() did not post, so far
  posting,      \* threads between the unlock and the post of MakeCallForWork
  inplace,      \* ALockers whose job runs in place: <<thread, kind>>
  waitFor,      \* the task a thread waits for in InplaceOrWait(), or 0
  done          \* history: the tasks that were run, in order

vars == <<state, taking, workingKind, countGetter, tasks, batch, calls,
          direct, posting, inplace, waitFor, done>>

Threads == Callers \cup Pool

(* How many tasks were queued so far; tasks are numbered as they are queued. *)
Added == Len(done) + Len(batch) + Len(tasks)

Init == /\ state = "Sleeping"
        /\ taking = None
        /\ workingKind = {}
        /\ countGetter = 0
        /\ tasks = <<>>
        /\ batch = <<>>
        /\ calls = 0
        /\ direct = 0
        /\ posting = {}
        /\ inplace = {}
        /\ waitFor = [t \in Callers |-> 0]
        /\ done = <<>>

-----------------------------------------------------------------------------
(* The parts of a critical section. *)

(* CheckAndSet() that lets queued tasks wait while the caller goes first. *)
CheckKindNoQueue(k) == /\ taking = None
                       /\ IF k = "Get" THEN ~(KindBits("DenyGet") \subseteq workingKind)
                                       ELSE workingKind \cap KindBits(k) = {}

(* WorkContent::CheckAndSet(): may a job of this kind run in place now? *)
CheckKind(k) == /\ taking = None
                /\ tasks = <<>>
                /\ IF k = "Get" THEN ~(KindBits("DenyGet") \subseteq workingKind)
                                ELSE workingKind \cap KindBits(k) = {}

(* CheckAndSet() that counts a getter only when another one is in. *)
SetKindUncounted(k) ==
  /\ countGetter' = IF k = "Get" /\ "get" \in workingKind
                       THEN countGetter + 1 ELSE countGetter
  /\ workingKind' = workingKind \cup KindBits(k)

SetKind(k) ==
  /\ countGetter' = IF k = "Get" THEN countGetter + 1 ELSE countGetter
  /\ workingKind' = IF k = "Get" /\ countGetter + 1 > 1
                       THEN workingKind
                       ELSE workingKind \cup KindBits(k)

(* ClearTaskKind() that forgets the other getters. *)
KindAfterFirstGetter(k) == workingKind \ KindBits(k)

(* ClearTaskKind(): the flags left when a job of this kind ends. *)
GettersAfter(k) == IF k = "Get" THEN countGetter - 1 ELSE countGetter
KindAfter(k) == IF k = "Get" /\ GettersAfter(k) > 0
                   THEN workingKind
                   ELSE workingKind \ KindBits(k)

(* AfterAddTask() without the test of WorkingTaskKind_. *)
AfterAddTaskAlways(t, kinds) ==
  IF state = "Sleeping"
     THEN state' = "Ringing" /\ posting' = posting \cup {t}
     ELSE UNCHANGED <<state, posting>>

(* AfterAddTask() that rings whatever the state of the worker. *)
AfterAddTaskAgain(t, kinds) ==
  IF kinds = {} THEN state' = "Ringing" /\ posting' = posting \cup {t}
                ELSE UNCHANGED <<state, posting>>

(* AfterAddTask(), in a thread t that holds the lock with these flags: ring *)
(* the worker if it sleeps; MakeCallForWork() unlocks before it posts.      *)
AfterAddTask(t, kinds) ==
  IF kinds = {} /\ state = "Sleeping"
     THEN state' = "Ringing" /\ posting' = posting \cup {t}
     ELSE UNCHANGED <<state, posting>>

Push == Added < MaxTasks /\ tasks' = Append(tasks, Added + 1)

(* A thread of the application that is not inside a call of the queue. *)
Free(t) == t \notin posting /\ waitFor[t] = 0

-----------------------------------------------------------------------------
(* Operations of the callers. *)

(* AddTask() in any thread, a thread with a job in place included. *)
AddTask(t) ==
  /\ Free(t)
  /\ Push
  /\ AfterAddTask(t, workingKind)
  /\ UNCHANGED <<taking, workingKind, countGetter, batch, calls, inplace,
                 waitFor, direct, done>>

(* ALockerForInplace: allowed, so the job starts in this thread, unlocked.  *)
(* A thread does not nest two getters; other kinds may nest (a Send inside  *)
(* a Recv event).                                                           *)
Enter(t, k) ==
  /\ Free(t)
  /\ CheckKind(k)
  /\ <<t, k>> \notin inplace
  /\ SetKind(k)
  /\ inplace' = inplace \cup {<<t, k>>}
  /\ UNCHANGED <<state, taking, tasks, batch, calls, posting, waitFor, direct, done>>

(* ~ALockerBase() of an in-place job. *)
Leave(t, k) ==
  /\ Free(t)
  /\ <<t, k>> \in inplace
  /\ inplace' = inplace \ {<<t, k>>}
  /\ countGetter' = GettersAfter(k)
  /\ workingKind' = KindAfter(k)
  /\ IF tasks # <<>> /\ ~(k = "Get" /\ GettersAfter(k) > 0) /\ KindAfter(k) = {}
        THEN AfterAddTask(t, {})
        ELSE UNCHANGED <<state, posting>>
  /\ UNCHANGED <<taking, tasks, batch, calls, waitFor, direct, done>>

(* An ALocker that is not allowed in place: AddAsyncTask(), then the        *)
(* destructor's AfterAddTask().                                             *)
EnqueueInstead(t, k) ==
  /\ Free(t)
  /\ ~CheckKind(k)
  /\ Push
  /\ AfterAddTask(t, workingKind)
  /\ UNCHANGED <<taking, workingKind, countGetter, batch, calls, inplace,
                 waitFor, direct, done>>

(* ALockerForAsyncTask that is allowed in place and queues a task while it  *)
(* still holds the lock: CheckAndSet(), AddAsyncTask(), then ~ALockerBase() *)
(* clears the flag again and rings if no other job is in place.             *)
EnqueueWhenAllowed(t, k) ==
  /\ Free(t)
  /\ CheckKind(k)
  /\ Push
  /\ AfterAddTask(t, workingKind)
  /\ UNCHANGED <<taking, workingKind, countGetter, batch, calls, inplace,
                 waitFor, direct, done>>

(* InplaceOrWait() that may not run in place: queue the task with a latch,  *)
(* then wait.  The caller holds nothing of the queue (Device.cpp 193: no    *)
(* lock may be held by the caller, because it may wait).                    *)
EnqueueAndWait(t, k) ==
  /\ Free(t)
  /\ \A p \in inplace : p[1] # t
  /\ ~CheckKind(k)
  /\ Push
  /\ AfterAddTask(t, workingKind)
  /\ waitFor' = [waitFor EXCEPT ![t] = Added + 1]
  /\ UNCHANGED <<taking, workingKind, countGetter, batch, calls, direct, inplace, done>>

(* A latch that does not keep its count: the wake-up is heard only until    *)
(* the next task has run.                                                   *)
WaitReturnMissed(t) ==
  /\ t \notin posting
  /\ waitFor[t] # 0 /\ done # <<>> /\ done[Len(done)] = waitFor[t]
  /\ waitFor' = [waitFor EXCEPT ![t] = 0]
  /\ UNCHANGED <<state, taking, workingKind, countGetter, tasks, batch, calls,
                 posting, direct, inplace, done>>

(* CountDownLatch::Wait() returns once the task ran ForceWakeUp(). *)
WaitReturn(t) ==
  /\ t \notin posting
  /\ \E i \in 1..Len(done) : done[i] = waitFor[t]
  /\ waitFor' = [waitFor EXCEPT ![t] = 0]
  /\ UNCHANGED <<state, taking, workingKind, countGetter, tasks, batch, calls,
                 posting, direct, inplace, done>>

(* The rest of MakeCallForWork(), unlocked: the message reaches the pool.   *)
PostCall(t) ==
  /\ t \in posting
  /\ posting' = posting \ {t}
  /\ calls' = calls + 1
  /\ UNCHANGED <<state, taking, workingKind, countGetter, tasks, batch,
                 inplace, waitFor, direct, done>>

-----------------------------------------------------------------------------
(* TakeCall() in a pool thread. *)

CanTakeCall(p) == calls > 0 /\ p \notin posting /\ taking # p

(* TakeCall() is public: the owner may call it unasked, as AQueue_UT.cpp    *)
(* does for the tasks a stopped pool left behind.                           *)
DirectCall ==
  /\ direct < MaxDirect
  /\ direct' = direct + 1
  /\ calls' = calls + 1
  /\ UNCHANGED <<state, taking, workingKind, countGetter, tasks, batch,
                 posting, inplace, waitFor, done>>

(* Another job is in place or another TakeCall() is running: return. *)
TakeCallReturn(p) ==
  /\ CanTakeCall(p)
  /\ workingKind # {} \/ taking # None
  /\ calls' = calls - 1
  /\ UNCHANGED <<state, taking, workingKind, countGetter, tasks, batch,
                 posting, inplace, waitFor, direct, done>>

(* TakeCall() that copies the queue instead of swapping it. *)
TakeCallBeginCopy(p) ==
  /\ CanTakeCall(p)
  /\ workingKind = {} /\ taking = None
  /\ calls' = calls - 1
  /\ batch' = tasks
  /\ tasks' = tasks
  /\ taking' = p
  /\ state' = "Working"
  /\ UNCHANGED <<workingKind, countGetter, posting, inplace, waitFor, direct, done>>

(* Take every queued task and start to run them. *)
TakeCallBegin(p) ==
  /\ CanTakeCall(p)
  /\ workingKind = {} /\ taking = None
  /\ calls' = calls - 1
  /\ batch' = tasks
  /\ tasks' = <<>>
  /\ taking' = p
  /\ state' = "Working"
  /\ UNCHANGED <<workingKind, countGetter, posting, inplace, waitFor, direct, done>>

(* Invoke() of the next task of the batch; a waiter's latch is released. *)
Invoke(p) ==
  /\ taking = p
  /\ batch # <<>>
  /\ done' = Append(done, Head(batch))
  /\ batch' = Tail(batch)
  /\ UNCHANGED <<state, taking, workingKind, countGetter, tasks, calls,
                 direct, posting, inplace, waitFor>>

(* The task being run queues another one: AddTask(), or an ALocker, which   *)
(* in this thread is always allowed and sets and clears no flag.            *)
OpAddTask(p) ==
  /\ taking = p
  /\ Push
  /\ AfterAddTask(p, workingKind)
  /\ UNCHANGED <<taking, workingKind, countGetter, batch, calls, inplace,
                 waitFor, direct, done>>

(* TakeCall() that goes on for as long as Tasks_ is not empty, without     *)
(* taking what was queued meanwhile.                                        *)
TakeCallEndWhenEmpty(p) ==
  /\ taking = p
  /\ batch = <<>> /\ tasks = <<>>
  /\ taking' = None
  /\ state' = "Sleeping"
  /\ UNCHANGED <<posting, workingKind, countGetter, tasks, batch, calls,
                 inplace, waitFor, direct, done>>

(* The batch is done: sleep, or ring again for what was queued meanwhile. *)
TakeCallEnd(p) ==
  /\ taking = p
  /\ batch = <<>>
  /\ taking' = None
  /\ IF tasks = <<>>
        THEN state' = "Sleeping" /\ UNCHANGED posting
        ELSE state' = "Ringing" /\ posting' = posting \cup {p}
  /\ UNCHANGED <<workingKind, countGetter, tasks, batch, calls, inplace,
                 waitFor, direct, done>>

-----------------------------------------------------------------------------
PoolStep(p) == \/ TakeCallReturn(p) \/ TakeCallBegin(p) \/ Invoke(p)
               \/ OpAddTask(p) \/ TakeCallEnd(p)

Next == \/ \E t \in Threads : PostCall(t)
        \/ \E t \in Callers : AddTask(t) \/ WaitReturn(t)
        \/ \E t \in Callers, k \in Kinds :
             \/ Enter(t, k) \/ Leave(t, k) \/ EnqueueInstead(t, k)
             \/ EnqueueWhenAllowed(t, k) \/ EnqueueAndWait(t, k)
        \/ DirectCall
        \/ \E p \in Pool : PoolStep(p)

Spec == Init /\ [][Next]_vars

(* Threads run: an in-place job ends, MakeCallForWork() posts, a woken      *)
(* waiter returns, the pool takes its messages and runs the batch.          *)
Fairness ==
  /\ \A t \in Threads : WF_vars(PostCall(t))
  /\ \A t \in Callers : WF_vars(WaitReturn(t))
  /\ \A t \in Callers, k \in Kinds : WF_vars(Leave(t, k))
  /\ \A p \in Pool : WF_vars(TakeCallReturn(p) \/ TakeCallBegin(p))
                     /\ WF_vars(Invoke(p)) /\ WF_vars(TakeCallEnd(p))

FairSpec == Spec /\ Fairness

-----------------------------------------------------------------------------
TypeOK == /\ state \in {"Sleeping", "Ringing", "Working"}
          /\ taking \in Pool \cup {None}
          /\ workingKind \in SUBSET AllBits
          /\ countGetter \in Nat
          /\ tasks \in Seq(Nat) /\ batch \in Seq(Nat) /\ done \in Seq(Nat)
          /\ calls \in Nat /\ direct \in Nat
          /\ posting \in SUBSET Threads
          /\ inplace \in SUBSET (Callers \X Kinds)
          /\ waitFor \in [Callers -> Nat]

(* Two in-place kinds exclude each other unless both only read (Get) or     *)
(* they use different bits (Send and Recv, Get and Send).                   *)
Excludes(j, k) == ~(j = "Get" /\ k = "Get") /\ KindBits(j) \cap KindBits(k) # {}

(* Op safety, the reason AQueue exists: while the pool runs queued tasks    *)
(* no job runs in place in any other thread, and jobs that run in place     *)
(* together never exclude each other (a Set with a Get, two Sends).         *)
OpSafe == /\ taking # None => inplace = {}
          /\ \A p, q \in inplace : p # q => ~Excludes(p[2], q[2])

(* No lost wake-up: if a task is queued, the pool is running a batch, or a  *)
(* job is in place whose destructor will ring, or a TakeCall() message is   *)
(* posted or about to be, and the TakeCall() it leads to cannot be the one  *)
(* that returns early because a job is in place.                            *)
NoLostWakeup == tasks # <<>> =>
                  \/ taking # None
                  \/ inplace # {}
                  \/ /\ workingKind = {}
                     /\ calls > 0 \/ posting # {}

(* The worker is rung at most once per batch: MakeCallForWork() never       *)
(* floods the pool however many tasks are added while it is being woken     *)
(* (calls the owner makes unasked come on top).                             *)
OneCallInFlight == calls + Cardinality(posting) <= 1 + direct

(* Tasks run once each, in the order in which they were queued, across      *)
(* batches, re-rings and tasks queued by tasks.                             *)
RunInOrder == \A i \in 1..Added : (done \o batch \o tasks)[i] = i

(* Every queued task is eventually run and the queue falls asleep.          *)
EventuallyDrained == (tasks # <<>>) ~> (tasks = <<>> /\ batch = <<>>)

(* InplaceOrWait() always returns.                                          *)
WaiterReturns == \A t \in Callers : (waitFor[t] # 0) ~> (waitFor[t] = 0)

(* No caller is forgotten: the tasks queued by AddTask() are run, and who    *)
(* waits in InplaceOrWait() goes on.                                        *)
CallersAreServed == EventuallyDrained /\ WaiterReturns

Ops == INSTANCE SerialOps WITH pending <- batch \o tasks, executed <- done,
                               opBusy <- taking # None

(* AQueue implements SerialOps: with the queue seen as the batch followed   *)
(* by Tasks_, every step of the flags, the worker state and the wake-up is  *)
(* a step of the promise or invisible in it.                                *)
ImplementsSerialOps == Ops!SafeSpec
=============================================================================
