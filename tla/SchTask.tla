------------------------------ MODULE SchTask ------------------------------
(***************************************************************************)
(* A schedule (SchConfig, SchTask.cpp): which times of the week are in     *)
(* schedule, when to look again, and the task that tells its owner when    *)
(* the schedule begins and ends. The timer thread calls EmitOnTimer; one   *)
(* thread starts, restarts and stops the task.                             *)
(*                                                                         *)
(* Time is counted in seconds of a short week. A day's end may be missing: *)
(* then what began lasts. The timer itself is in module Timer.             *)
(***************************************************************************)
EXTENDS Integers, FiniteSets

CONSTANTS
  WeekdayCount,  \* kWeekdayCount
  DaySeconds,    \* seconds of a day
  Delays,        \* the intervals given to Restart
  MaxTime,       \* bound: the last second that is looked at
  MaxCalls       \* bound: how often the task is started, restarted or stopped

VARIABLES
  now,    \* the clock
  cfg,    \* Config_
  schSt,  \* SchSt_
  due,    \* when Timer_ calls, 0: not armed
  emit,   \* where the timer thread is in EmitOnTimer, and with which time or news
  call,   \* the call that the owner is in, and the time it read
  calls,  \* how many there were
  told,   \* the last OnSchTask_StateChanged since the task was stopped
  again   \* whether that call and the one before it said the same for no reason

schVars == <<now, cfg, schSt, due, emit, call, calls, told, again>>

NoEndTime == DaySeconds + 1
Configs == [Weekdays : SUBSET (0 .. WeekdayCount - 1), Start : 0 .. DaySeconds - 1,
            End : 0 .. DaySeconds - 1 \cup {NoEndTime}]

-----------------------------------------------------------------------------
(* SchConfig *)

DayOf(t) == t \div DaySeconds
SecOf(t) == t % DaySeconds
IsOn(c, day) == (day + WeekdayCount) % WeekdayCount \in c.Weekdays

(* Mutant: a day that is not in the schedule is not looked at. *)
EndsNextDayAny(c, t, before) ==
  IF c.Start <= SecOf(t) THEN IsOn(c, DayOf(t)) ELSE SecOf(t) <= c.End

(* Check, of a schedule that ends on the day after it began. *)
EndsNextDay(c, t, before) ==
  IF c.Start <= SecOf(t) THEN IsOn(c, DayOf(t)) ELSE SecOf(t) <= c.End /\ IsOn(c, DayOf(t) - 1)

(* Check, of a schedule that ends on its day, or not at all. *)
EndsToday(c, t, before) ==
  \/ c.End = NoEndTime /\ before = "InSch"
  \/ IsOn(c, DayOf(t)) /\ c.Start <= SecOf(t) /\ SecOf(t) <= c.End

IsIn(c, t, before) == IF c.Start < c.End THEN EndsToday(c, t, before) ELSE EndsNextDay(c, t, before)

NextStart(c, day) ==
  LET on == {d \in day .. day + WeekdayCount - 1 : IsOn(c, d)}
  IN (CHOOSE d \in on : \A e \in on : d <= e) * DaySeconds + c.Start

(* Mutant: before the start of the day the next day's is taken. *)
NextCheckTomorrow(c, t, before) ==
  LET day == DayOf(t)
      goesOn == c.Start >= c.End /\ c.Start <= SecOf(t)
      over == goesOn \/ c.Start < c.End
  IN IF IsIn(c, t, before)
     THEN IF c.End = NoEndTime THEN 0 ELSE (IF goesOn THEN day + 1 ELSE day) * DaySeconds + c.End + 1
     ELSE IF c.Weekdays = {} THEN 0 ELSE NextStart(c, IF over THEN day + 1 ELSE day)

(* When to look again: after the end, or at the next start; 0: never. *)
NextCheck(c, t, before) ==
  LET day == DayOf(t)
      goesOn == c.Start >= c.End /\ c.Start <= SecOf(t)
      over == goesOn \/ (c.Start < c.End /\ c.End < SecOf(t))
  IN IF IsIn(c, t, before)
     THEN IF c.End = NoEndTime THEN 0 ELSE (IF goesOn THEN day + 1 ELSE day) * DaySeconds + c.End + 1
     ELSE IF c.Weekdays = {} THEN 0 ELSE NextStart(c, IF over THEN day + 1 ELSE day)

IsChanged(c, t, before) == (before = "InSch") # IsIn(c, t, before)

-----------------------------------------------------------------------------
(* SchTask *)

Idle == [at |-> "idle"]

SchInit ==
  /\ now = 0 /\ cfg \in Configs /\ schSt = "Unknown" /\ due = 0
  /\ emit = Idle /\ call = Idle /\ calls = 0 /\ told = "none" /\ again = FALSE

Tick == now < MaxTime /\ now' = now + 1
        /\ UNCHANGED <<cfg, schSt, due, emit, call, calls, told, again>>

(* The timer thread takes the timer that is due, and calls. *)
TimerCalls ==
  /\ emit = Idle /\ due # 0 /\ due <= now /\ due' = 0 /\ emit' = [at |-> "called", time |-> now]
  /\ UNCHANGED <<now, cfg, schSt, call, calls, told, again>>

(* Mutant: the timer is set again only when there is something to tell. *)
EmitOnTimerOnce ==
  /\ emit.at = "called"
  /\ IF schSt \in {"Stopping", "Disposing"} THEN emit' = Idle /\ UNCHANGED <<due, schSt>>
     ELSE LET next == NextCheck(cfg, emit.time, schSt)
              sch == IF IsIn(cfg, emit.time, schSt) THEN "InSch" ELSE "OutSch"
          IN IF IsChanged(cfg, emit.time, schSt) \/ schSt = "Restart"
             THEN /\ schSt' = sch /\ emit' = [at |-> "tell", sch |-> sch, restart |-> schSt = "Restart"]
                  /\ due' = IF next = 0 THEN due ELSE next
             ELSE emit' = Idle /\ UNCHANGED <<due, schSt>>
  /\ UNCHANGED <<now, cfg, call, calls, told, again>>

(* EmitOnTimer under the lock. *)
EmitOnTimer ==
  /\ emit.at = "called"
  /\ IF schSt \in {"Stopping", "Disposing"} THEN emit' = Idle /\ UNCHANGED <<due, schSt>>
     ELSE LET next == NextCheck(cfg, emit.time, schSt)
              sch == IF IsIn(cfg, emit.time, schSt) THEN "InSch" ELSE "OutSch"
          IN /\ due' = IF next = 0 THEN due ELSE next
             /\ IF IsChanged(cfg, emit.time, schSt) \/ schSt = "Restart"
                THEN /\ schSt' = sch
                     /\ emit' = [at |-> "tell", sch |-> sch, restart |-> schSt = "Restart"]
                ELSE emit' = Idle /\ UNCHANGED schSt
  /\ UNCHANGED <<now, cfg, call, calls, told, again>>

(* OnSchTask_StateChanged, with nothing locked. *)
OnStateChanged ==
  /\ emit.at = "tell" /\ emit' = Idle /\ told' = emit.sch
  /\ again' = (~emit.restart /\ (told = emit.sch \/ (told = "none" /\ emit.sch = "OutSch")))
  /\ UNCHANGED <<now, cfg, schSt, due, call, calls>>

NextCall == call = Idle /\ calls < MaxCalls /\ calls' = calls + 1

(* Start reads the clock before it locks. (Bound: the configuration that it
   brings has other days, or is the one there was.) *)
StartCalled ==
  /\ NextCall /\ \E days \in SUBSET (0 .. WeekdayCount - 1) :
       call' = [at |-> "start", time |-> now, config |-> [cfg EXCEPT !.Weekdays = days]]
  /\ UNCHANGED <<now, cfg, schSt, due, emit, told, again>>

(* Mutant: a start takes back the Restart that waits. *)
StartAnyState ==
  /\ call.at = "start" /\ call' = Idle /\ cfg' = call.config
  /\ schSt' = IF schSt = "Unknown" THEN "Stopped" ELSE schSt
  /\ due' = IF schSt = "Disposing" THEN due
            ELSE IF IsChanged(call.config, call.time, schSt) THEN call.time + 1
            ELSE NextCheck(call.config, call.time, schSt)
  /\ UNCHANGED <<now, emit, calls, told, again>>

(* Start under the lock. *)
Start ==
  /\ call.at = "start" /\ call' = Idle /\ cfg' = call.config
  /\ schSt' = IF schSt = "Unknown" THEN "Stopped" ELSE schSt
  /\ due' = IF schSt \in {"Disposing", "Restart"} THEN due
            ELSE IF IsChanged(call.config, call.time, schSt) THEN call.time + 1
            ELSE NextCheck(call.config, call.time, schSt)
  /\ UNCHANGED <<now, emit, calls, told, again>>

Restart ==
  /\ NextCall /\ schSt \notin {"Stopping", "Disposing"} /\ schSt' = "Restart"
  /\ \E d \in Delays : due' = now + d
  /\ UNCHANGED <<now, cfg, emit, call, told, again>>

(* StopAndWait, DisposeAndWait: no timer is set once the state is. *)
StopCalled ==
  /\ NextCall /\ schSt # "Disposing"
  /\ \E st \in {"Stopping", "Disposing"} : schSt' = st /\ call' = [at |-> "stop"]
  /\ UNCHANGED <<now, cfg, due, emit, told, again>>

(* Mutant: the call of the timer thread is not waited for. *)
StopNoWait ==
  /\ call.at = "stop" /\ call' = Idle /\ due' = 0 /\ told' = "none"
  /\ schSt' = IF schSt = "Disposing" THEN schSt ELSE "Stopped"
  /\ UNCHANGED <<now, cfg, emit, calls, again>>

(* Timer_.StopAndWait: the timer is taken out, and its call waited for. *)
StopWaits ==
  /\ call.at = "stop" /\ emit = Idle /\ call' = Idle /\ due' = 0 /\ told' = "none"
  /\ schSt' = IF schSt = "Disposing" THEN schSt ELSE "Stopped"
  /\ UNCHANGED <<now, cfg, emit, calls, again>>

-----------------------------------------------------------------------------
TimerThread == TimerCalls \/ EmitOnTimer \/ OnStateChanged
Owner == Start \/ StopWaits

SchNext == Tick \/ TimerThread \/ Owner \/ StartCalled \/ Restart \/ StopCalled
SchSpec == SchInit /\ [][SchNext]_schVars

(* Time goes on, the timer thread runs, a call that was begun is carried out. *)
SchFairSpec == SchSpec /\ WF_schVars(Tick) /\ WF_schVars(TimerThread) /\ WF_schVars(Owner)

-----------------------------------------------------------------------------
SchTypeOK ==
  /\ cfg \in Configs /\ now \in 0 .. MaxTime /\ due \in Nat
  /\ schSt \in {"Unknown", "Restart", "Stopped", "Stopping", "InSch", "OutSch", "Disposing"}
  /\ told \in {"none", "InSch", "OutSch"} /\ emit.at \in {"idle", "called", "tell"}

(* What SchConfig says of itself: from the start of a day that is on up to and
   with its end, on the same day or the next. The second at which a schedule
   of whole days ends belongs to the next. *)
Lasts(c, day) == day * DaySeconds + c.Start ..
                 (IF c.Start < c.End THEN day * DaySeconds + (IF c.End = NoEndTime THEN DaySeconds - 1 ELSE c.End)
                  ELSE (day + 1) * DaySeconds + (IF c.End = c.Start THEN c.End - 1 ELSE c.End))
InSchedule(c, t) == \E day \in DayOf(t) - 1 .. DayOf(t) : IsOn(c, day) /\ t \in Lasts(c, day)

(* Check tells whether a time is in schedule, and nothing changes before the next
   time to look, but for the last second of a schedule of whole days, which
   belongs to the next day and is looked at one late (SchConfig::Check). Only a
   schedule without days, or one that lasts, needs no next look. *)
ChecksRight(c, t) ==
  LET next == NextCheck(c, t, "OutSch")
      late == IF c.Start = c.End /\ InSchedule(c, t) THEN 2 ELSE 1
      until == IF next = 0 THEN t + WeekdayCount * DaySeconds ELSE next - late
  IN /\ IsIn(c, t, "OutSch") = InSchedule(c, t)
     /\ next # 0 => next > t
     /\ next = 0 => c.Weekdays = {} \/ (InSchedule(c, t) /\ c.End = NoEndTime)
     /\ c.End # NoEndTime \/ ~InSchedule(c, t)
          => \A u \in t .. until : InSchedule(c, u) = InSchedule(c, t)

CheckIsRight == ChecksRight(cfg, now)

(* With nothing under way, the owner was told what the schedule says: nothing is
   forgotten by a timer that is not set or a configuration that changes. *)
ToldWhatIs ==
  (schSt \notin {"Unknown", "Restart", "Stopping", "Disposing"} /\ emit = Idle /\ call = Idle
    /\ (due = 0 \/ due > now + 1) /\ ~(schSt = "Stopped" /\ due = 0 /\ told = "none"))
   => /\ InSchedule(cfg, now) => told = "InSch"
      /\ told = "InSch" => InSchedule(cfg, now) \/ cfg.End = NoEndTime

(* The owner is told of changes only, and first of a beginning, but for a Restart
   (SchTask.hpp: the first event after a stop is that of a beginning). *)
ToldOfChanges == ~again

(* A task that was stopped calls nobody (StopAndWait, DisposeAndWait). *)
StoppedIsQuiet ==
  (call = Idle /\ schSt = "Disposing") => emit = Idle /\ due = 0 /\ told = "none"

(* A Restart is carried out, when its time comes before the model's end. *)
RestartTells == (schSt = "Restart") ~> (schSt # "Restart" \/ due > MaxTime)
=============================================================================
