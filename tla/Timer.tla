------------------------------- MODULE Timer -------------------------------
(***************************************************************************)
(* TimerThread and its TimerEntry objects.  Clients start, stop and        *)
(* dispose timers while one thread sleeps until the first is due and calls *)
(* it outside the lock; a timer's call may start or stop timers itself.    *)
(*                                                                         *)
(* Every operation is one critical section, so one action; the functions   *)
(* that wait (StopAndWait, DisposeAndWait) take it again and again, and    *)
(* RunAfter reads the clock before it takes it.  A call that returns at    *)
(* once changes nothing and is not a step.                                 *)
(***************************************************************************)
EXTENDS Integers, FiniteSets

CONSTANTS Timers, Clients,
          Intervals,    \* what RunAfter is called with
          OneBehind,    \* whether RunAt is called for exactly one second ago
          MaxTime,      \* bound: the clock
          MaxRuns,      \* bound: starts of timers
          Ends          \* whether the thread is ended

ASSUME TimerAssumption ==
  /\ Intervals \subseteq Nat /\ OneBehind \in BOOLEAN
  /\ MaxTime \in Nat /\ MaxRuns \in Nat /\ Ends \in BOOLEAN

TimerThr == "TimerThr"
Callers == Clients \cup {TimerThr}

NoWaiting == 0
Disposed == 1
WaitInLine == 2
Forever == -1     \* CvWaitSecs_ of a thread with nothing to wait for, in seconds

VARIABLES now,
          key,       \* Key_ of a timer: [emit, seq]
          line,      \* Timers_: [emit, seq, timer]
          lastSeq,   \* LastSeqNo_
          cv,        \* CvWaitSecs_
          thr,       \* the thread: "run", "wait", "emit", "ended"
          wakeAt,    \* when its wait is over, or Forever
          notified,  \* it was notified
          curr,      \* CurrEntry_: {t} or {}
          state,     \* State_ of the controller
          call,      \* call[c]: a call that c is in
          stopped    \* history: StopAndWait of the timer has returned and it was not started since

timerVars == <<now, key, line, lastSeq, cv, thr, wakeAt, notified, curr, state, call, stopped>>
threadVars == <<cv, thr, wakeAt, notified, curr, state>>

-----------------------------------------------------------------------------
IsTimerWaitInLine(seq) == seq >= WaitInLine
IsThreadEnding == state # "ExecutingOrWaiting"

Idle == [op |-> "idle"]
Free(c) == call[c] = Idle /\ (c = TimerThr => thr = "emit")

Entry(t) == [emit |-> key[t].emit, seq |-> key[t].seq, timer |-> t]
Erased(t) == line \ {Entry(t)}

(* The entry at the end of Timers_, the first to be called. *)
Before(e, f) == e.emit < f.emit \/ (e.emit = f.emit /\ e.seq < f.seq)
IsFirst(e, l) == \A f \in l \ {e} : Before(e, f)

(* Mutant: the thread is notified only when it would sleep longer. *)
SetupRunNoNotify(t, at, wsecs) ==
  /\ ~IsThreadEnding /\ key[t].seq # Disposed /\ lastSeq < WaitInLine + MaxRuns
  /\ lastSeq' = lastSeq + 1
  /\ key' = [key EXCEPT ![t] = [emit |-> at, seq |-> lastSeq + 1]]
  /\ line' = Erased(t) \cup {[emit |-> at, seq |-> lastSeq + 1, timer |-> t]}
  /\ IF IsFirst([emit |-> at, seq |-> lastSeq + 1, timer |-> t], line') /\ cv > wsecs
     THEN cv' = wsecs /\ notified' = (notified \/ thr = "wait")
     ELSE UNCHANGED <<cv, notified>>
  /\ stopped' = stopped \ {t}
  /\ UNCHANGED <<now, thr, wakeAt, curr, state>>

(* The timer goes in line; the thread is notified when it comes first and the
   thread would not sleep just as long. *)
SetupRun(t, at, wsecs) ==
  /\ ~IsThreadEnding /\ key[t].seq # Disposed /\ lastSeq < WaitInLine + MaxRuns
  /\ lastSeq' = lastSeq + 1
  /\ key' = [key EXCEPT ![t] = [emit |-> at, seq |-> lastSeq + 1]]
  /\ line' = Erased(t) \cup {[emit |-> at, seq |-> lastSeq + 1, timer |-> t]}
  /\ IF IsFirst([emit |-> at, seq |-> lastSeq + 1, timer |-> t], line') /\ cv # wsecs
     THEN cv' = wsecs /\ notified' = (notified \/ thr = "wait")
     ELSE UNCHANGED <<cv, notified>>
  /\ stopped' = stopped \ {t}
  /\ UNCHANGED <<now, thr, wakeAt, curr, state>>

(* RunAt: how long to sleep is reckoned under the lock. *)
RunAt(c, t, at) == /\ Free(c) /\ (at - now = -1 => OneBehind)
                   /\ SetupRun(t, at, at - now)
                   /\ UNCHANGED call

(* Mutant: the interval is added once more by the caller. *)
RunAfterTwice(c, t, d) ==
  /\ Free(c) /\ now + d <= MaxTime /\ lastSeq < WaitInLine + MaxRuns
  /\ call' = [call EXCEPT ![c] = [op |-> "run", timer |-> t, at |-> now + d + d, after |-> d]]
  /\ UNCHANGED <<now, key, line, lastSeq, threadVars, stopped>>

(* RunAfter: the clock is read first. *)
RunAfter(c, t, d) ==
  /\ Free(c) /\ now + d <= MaxTime /\ lastSeq < WaitInLine + MaxRuns
  /\ call' = [call EXCEPT ![c] = [op |-> "run", timer |-> t, at |-> now + d, after |-> d]]
  /\ UNCHANGED <<now, key, line, lastSeq, threadVars, stopped>>

RunAfterLocked(c) ==
  /\ call[c].op = "run"
  /\ call' = [call EXCEPT ![c] = Idle]
  /\ \/ SetupRun(call[c].timer, call[c].at, call[c].after)
     \/ /\ IsThreadEnding \/ key[call[c].timer].seq = Disposed \/ lastSeq >= WaitInLine + MaxRuns
        /\ UNCHANGED <<now, key, line, lastSeq, threadVars, stopped>>

(* Mutant: the key is reset first, so that Erase finds nothing. *)
StopNoWaitResetFirst(c, t) ==
  /\ Free(c) /\ ~IsThreadEnding /\ IsTimerWaitInLine(key[t].seq)
  /\ key' = [key EXCEPT ![t].seq = NoWaiting]
  /\ UNCHANGED <<now, line, lastSeq, threadVars, call, stopped>>

StopNoWait(c, t) ==
  /\ Free(c) /\ ~IsThreadEnding /\ IsTimerWaitInLine(key[t].seq)
  /\ line' = Erased(t)
  /\ key' = [key EXCEPT ![t].seq = NoWaiting]
  /\ UNCHANGED <<now, lastSeq, threadVars, call, stopped>>

DisposeNoWait(c, t) ==
  /\ Free(c) /\ ~IsThreadEnding
  /\ line' = Erased(t)
  /\ key' = [key EXCEPT ![t].seq = Disposed]
  /\ UNCHANGED <<now, lastSeq, threadVars, call, stopped>>

(* StopAndWait and DisposeAndWait: the call begins ... *)
WaitBegin(c, t, op) ==
  /\ Free(c) /\ op \in {"stop", "dispose"}
  /\ call' = [call EXCEPT ![c] = [op |-> op, timer |-> t]]
  /\ UNCHANGED <<now, key, line, lastSeq, threadVars, stopped>>

(* Mutant: a timer's call waits for its own end. *)
CheckCurrEmitSelf(c, t) == t \in curr

(* ... and goes round while the thread is in the timer's call, unless it is
   that thread that waits. *)
CheckCurrEmit(c, t) == t \in curr /\ c # TimerThr

Return(c) == call' = [call EXCEPT ![c] = Idle]

StopReturns(c) == /\ Return(c)
                  /\ stopped' = stopped \cup (IF c = TimerThr THEN {} ELSE {call[c].timer})

(* Mutant: a disposed timer is stopped like any other. *)
StopAndWaitDisposed(c) ==
  LET t == call[c].timer IN
  /\ call[c].op = "stop"
  /\ IF IsThreadEnding
     THEN StopReturns(c) /\ UNCHANGED <<key, line>>
     ELSE /\ line' = Erased(t)
          /\ key' = [key EXCEPT ![t] = [emit |-> 0, seq |-> NoWaiting]]
          /\ IF CheckCurrEmit(c, t) THEN UNCHANGED <<call, stopped>> ELSE StopReturns(c)
  /\ UNCHANGED <<now, lastSeq, threadVars>>

(* Mutant: the timer is taken out of the line by the first turn only, when it
   was there. *)
StopAndWaitOnce(c) ==
  LET t == call[c].timer IN
  /\ call[c].op = "stop"
  /\ IF IsThreadEnding \/ key[t].seq = Disposed
     THEN StopReturns(c) /\ UNCHANGED <<key, line>>
     ELSE /\ IF t \in curr THEN UNCHANGED <<key, line>>
             ELSE /\ line' = Erased(t)
                  /\ key' = [key EXCEPT ![t] = [emit |-> 0, seq |-> NoWaiting]]
          /\ StopReturns(c)
  /\ UNCHANGED <<now, lastSeq, threadVars>>

(* One turn of StopAndWait. *)
StopAndWait(c) ==
  LET t == call[c].timer IN
  /\ call[c].op = "stop"
  /\ IF IsThreadEnding \/ key[t].seq = Disposed
     THEN StopReturns(c) /\ UNCHANGED <<key, line>>
     ELSE /\ line' = Erased(t)
          /\ key' = [key EXCEPT ![t] = [emit |-> 0, seq |-> NoWaiting]]
          /\ IF CheckCurrEmit(c, t) THEN UNCHANGED <<call, stopped>> ELSE StopReturns(c)
  /\ UNCHANGED <<now, lastSeq, threadVars>>

(* One turn of DisposeAndWait. *)
DisposeAndWait(c) ==
  LET t == call[c].timer IN
  /\ call[c].op = "dispose"
  /\ IF IsThreadEnding THEN Return(c) /\ UNCHANGED <<key, line>>
     ELSE /\ IF IsTimerWaitInLine(key[t].seq)
             THEN line' = Erased(t) /\ key' = [key EXCEPT ![t] = [emit |-> 0, seq |-> Disposed]]
             ELSE UNCHANGED <<key, line>>
          /\ IF CheckCurrEmit(c, t) THEN UNCHANGED call
             ELSE Return(c)
  /\ UNCHANGED <<now, lastSeq, threadVars, stopped>>

-----------------------------------------------------------------------------
(* Mutant: the thread ends when there is nothing to wait for. *)
RunTimerEndsIdle ==
  /\ thr = "run" /\ ~IsThreadEnding /\ notified' = FALSE
  /\ \/ /\ line = {} /\ thr' = "ended"
        /\ UNCHANGED <<key, line, curr, cv, wakeAt>>
     \/ \E e \in line :
          /\ IsFirst(e, line)
          /\ IF e.emit > now
             THEN /\ cv' = e.emit - now /\ wakeAt' = e.emit /\ thr' = "wait"
                  /\ UNCHANGED <<key, line, curr>>
             ELSE /\ key' = [key EXCEPT ![e.timer].seq = NoWaiting]
                  /\ line' = line \ {e} /\ curr' = {e.timer} /\ thr' = "emit"
                  /\ UNCHANGED <<cv, wakeAt>>
  /\ UNCHANGED <<now, lastSeq, state, call, stopped>>

(* One round of RunTimer, under the lock. *)
RunTimer ==
  /\ thr = "run" /\ ~IsThreadEnding /\ notified' = FALSE
  /\ \/ /\ line = {}
        /\ cv' = Forever /\ wakeAt' = Forever /\ thr' = "wait"
        /\ UNCHANGED <<key, line, curr>>
     \/ \E e \in line :
          /\ IsFirst(e, line)
          /\ IF e.emit > now
             THEN /\ cv' = e.emit - now /\ wakeAt' = e.emit /\ thr' = "wait"
                  /\ UNCHANGED <<key, line, curr>>
             ELSE /\ key' = [key EXCEPT ![e.timer].seq = NoWaiting]
                  /\ line' = line \ {e} /\ curr' = {e.timer} /\ thr' = "emit"
                  /\ UNCHANGED <<cv, wakeAt>>
  /\ UNCHANGED <<now, lastSeq, state, call, stopped>>

(* EmitOnTimer returns. *)
EmitEnd == /\ thr = "emit" /\ call[TimerThr] = Idle
           /\ curr' = {} /\ thr' = "run"
           /\ UNCHANGED <<now, key, line, lastSeq, cv, wakeAt, notified, state, call, stopped>>

(* The thread wakes: notified, or in time ... *)
Wake == /\ thr = "wait" /\ (notified \/ (wakeAt # Forever /\ now >= wakeAt))
        /\ thr' = "run"
        /\ UNCHANGED <<now, key, line, lastSeq, cv, wakeAt, notified, curr, state, call, stopped>>

(* ... or for no reason, as a condition variable may. *)
SpuriousWake == /\ thr = "wait" /\ thr' = "run"
                /\ UNCHANGED <<now, key, line, lastSeq, cv, wakeAt, notified, curr, state, call, stopped>>

(* NotifyForEndNow. *)
NotifyForEndNow == /\ Ends /\ ~IsThreadEnding
                   /\ state' = "EndNow" /\ notified' = (notified \/ thr = "wait")
                   /\ UNCHANGED <<now, key, line, lastSeq, cv, thr, wakeAt, curr, call, stopped>>

OnBeforeThreadEnd == /\ thr = "run" /\ state = "EndNow"
                     /\ state' = "Terminated" /\ thr' = "ended"
                     /\ UNCHANGED <<now, key, line, lastSeq, cv, wakeAt, notified, curr, call, stopped>>

(* WaitForEndNow, when the thread has ended. *)
WaitForEndNow == /\ state = "Terminated" /\ line # {} /\ line' = {}
                 /\ UNCHANGED <<now, key, lastSeq, threadVars, call, stopped>>

Tick == /\ now < MaxTime /\ now' = now + 1
        /\ UNCHANGED <<key, line, lastSeq, threadVars, call, stopped>>

TimerInit == /\ now = 0 /\ key = [t \in Timers |-> [emit |-> 0, seq |-> NoWaiting]]
        /\ line = {} /\ lastSeq = WaitInLine
        /\ cv = 0 /\ thr = "run" /\ wakeAt = Forever /\ notified = FALSE /\ curr = {}
        /\ state = "ExecutingOrWaiting"
        /\ call = [c \in Callers |-> Idle] /\ stopped = {}

TimerNext == \/ \E c \in Callers, t \in Timers :
              \/ \E at \in (now - 2)..MaxTime : RunAt(c, t, at)
              \/ \E d \in Intervals : RunAfter(c, t, d)
              \/ StopNoWait(c, t) \/ DisposeNoWait(c, t)
              \/ \E op \in {"stop", "dispose"} : WaitBegin(c, t, op)
        \/ \E c \in Callers : RunAfterLocked(c) \/ StopAndWait(c) \/ DisposeAndWait(c)
        \/ RunTimer \/ EmitEnd \/ Wake \/ SpuriousWake
        \/ NotifyForEndNow \/ OnBeforeThreadEnd \/ WaitForEndNow
        \/ Tick

(* The threads run, the clock goes on and a timer's call, whatever it starts
   and stops, returns. *)
Fairness == /\ WF_timerVars(RunTimer) /\ SF_timerVars(EmitEnd) /\ WF_timerVars(Wake) /\ WF_timerVars(Tick)
            /\ WF_timerVars(OnBeforeThreadEnd)
            /\ \A c \in Callers : WF_timerVars(RunAfterLocked(c) \/ StopAndWait(c) \/ DisposeAndWait(c))

TimerSpec == TimerInit /\ [][TimerNext]_timerVars
FairTimerSpec == TimerSpec /\ Fairness

-----------------------------------------------------------------------------
(* Properties *)

(* The types of the state. *)
TimerTypeOK ==
  /\ now \in 0..MaxTime /\ key \in [Timers -> [emit : (-2)..MaxTime, seq : Nat]]
  /\ line \subseteq [emit : (-2)..MaxTime, seq : Nat, timer : Timers] /\ lastSeq \in Nat
  /\ cv \in Int /\ thr \in {"run", "wait", "emit", "ended"} /\ wakeAt \in Int
  /\ notified \in BOOLEAN /\ curr \subseteq Timers
  /\ state \in {"ExecutingOrWaiting", "EndNow", "Terminated"}
  /\ DOMAIN call = Callers /\ stopped \subseteq Timers

(* The line holds just the timers whose key says so, under that key: Erase
   finds what SetupRun put there. *)
LineMatchesKeys ==
  state # "Terminated" => line = {Entry(t) : t \in {u \in Timers : IsTimerWaitInLine(key[u].seq)}}

(* "the thread sleeps for the nearest timer's time - now" (Timer.hpp): it never
   sleeps without end over a timer in line. *)
NeverSleepsOverATimer ==
  thr = "wait" /\ ~notified /\ line # {} => wakeAt # Forever

(* When StopAndWait of a timer that is not disposed has returned, the timer's
   call is not running, and until someone starts it again it is not called.
   (Once the thread is told to end, StopAndWait does not wait.) *)
StoppedIsQuiet ==
  ~IsThreadEnding => \A t \in stopped : key[t].seq # Disposed => t \notin curr /\ ~IsTimerWaitInLine(key[t].seq)

(* "waits until OnTimer() has ended before it returns" (StopAndWait, Timer.hpp),
   of any timer. *)
StopWaits == \A t \in stopped : t \notin curr

(* A timer marked Disposed stays so. *)
DisposedForGood ==
  [][\A t \in Timers : key[t].seq = Disposed => key'[t].seq = Disposed]_timerVars

(* A timer in line is called or taken out in the end, unless the thread is
   ended; and whoever waits for a timer returns. *)
TimersAreCalled == \A t \in Timers : IsTimerWaitInLine(key[t].seq) ~>
                                        ~IsTimerWaitInLine(key[t].seq) \/ IsThreadEnding
WaitersReturn == \A c \in Callers : call[c] # Idle ~> call[c] = Idle

(* What a timer and its clients are promised, together (TimerThread::RunTimer,
   CheckCurrEmit). *)
TimerPromises == TimersAreCalled /\ WaitersReturn
=============================================================================
