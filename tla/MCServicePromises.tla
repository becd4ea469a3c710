---------------------------- MODULE MCServicePromises ----------------------------
(***************************************************************************)
(* What the components of the framework promise will happen, one component at *)
(* a time.                                                                 *)
(***************************************************************************)
EXTENDS Integers, Sequences, FiniteSets

VARIABLE part  \* the component that runs

(* What the administrator may set. *)
Policies == {[max |-> 1, act |-> "RejectOld"], [max |-> 1, act |-> "RejectNew"]}

VARIABLES log_queue, log_work, log_waiters, log_called, log_worker, log_pool,
          log_life, log_thr, log_chk, log_e, log_now, log_lost, log_errors,
          log_flushes
logVars == <<log_queue, log_work, log_waiters, log_called, log_worker, log_pool,
             log_life, log_thr, log_chk, log_e, log_now, log_lost, log_errors,
             log_flushes>>
Log == INSTANCE LogFile WITH
       Threads <- {"t1", "t2"}, FlushNodeCount <- 1, HighWaterLevelNodeCount <- 3,
       MaxFileSize <- 0, OpenMayFail <- FALSE, MaxLogs <- 1, MaxTime <- 0,
       MaxErrors <- 1, MaxFlushes <- 1, queue <- log_queue, work <- log_work,
       waiters <- log_waiters, called <- log_called, worker <- log_worker,
       pool <- log_pool, life <- log_life, thr <- log_thr, chk <- log_chk,
       e <- log_e, now <- log_now, lost <- log_lost, errors <- log_errors,
       flushes <- log_flushes

VARIABLES feed_nextSeq, feed_received, feed_lost, feed_pks, feed_inLine,
          feed_emitting, feed_feeder, feed_clearing, feed_clears, feed_arrived,
          feed_given
feedVars == <<feed_nextSeq, feed_received, feed_lost, feed_pks, feed_inLine,
              feed_emitting, feed_feeder, feed_clearing, feed_clears, feed_arrived,
              feed_given>>
Feed == INSTANCE PkCont WITH
       MaxSeqNo <- 9, FirstSeqNoAfterOverflow <- 1, StartSeq <- 2, Places <- 4,
       Copies <- 2, Window <- 2, Feeders <- {"f1", "f2"}, WaitInterval <- 5,
       MaxClears <- 1, TimerFires <- TRUE, nextSeq <- feed_nextSeq,
       received <- feed_received, lost <- feed_lost, pks <- feed_pks,
       inLine <- feed_inLine, emitting <- feed_emitting, feeder <- feed_feeder,
       clearing <- feed_clearing, clears <- feed_clears, arrived <- feed_arrived,
       given <- feed_given

VARIABLES pool_state, pool_queue, pool_running, pool_at, pool_hand, pool_timed,
          pool_plan, pool_pc, pool_left, pool_rounds, pool_latch, pool_asked,
          pool_came, pool_took, pool_done
poolVars == <<pool_state, pool_queue, pool_running, pool_at, pool_hand, pool_timed,
              pool_plan, pool_pc, pool_left, pool_rounds, pool_latch, pool_asked,
              pool_came, pool_took, pool_done>>
Pool == INSTANCE ThreadPool WITH
       Threads <- {"w1", "w2"}, Ender <- "e", Tasks <- {"x1"}, Rounds <- 2,
       Timed <- TRUE, ExitHandler <- FALSE, state <- pool_state,
       queue <- pool_queue, running <- pool_running, at <- pool_at,
       hand <- pool_hand, timed <- pool_timed, plan <- pool_plan, pc <- pool_pc,
       left <- pool_left, rounds <- pool_rounds, latch <- pool_latch,
       asked <- pool_asked, came <- pool_came, took <- pool_took, done <- pool_done

VARIABLES sch_now, sch_cfg, sch_schSt, sch_due, sch_emit, sch_call, sch_calls,
          sch_told, sch_again
schVars == <<sch_now, sch_cfg, sch_schSt, sch_due, sch_emit, sch_call, sch_calls,
             sch_told, sch_again>>
Sch == INSTANCE SchTask WITH
       WeekdayCount <- 1, DaySeconds <- 2, Delays <- {1}, MaxTime <- 3,
       MaxCalls <- 2, now <- sch_now, cfg <- sch_cfg, schSt <- sch_schSt,
       due <- sch_due, emit <- sch_emit, call <- sch_call, calls <- sch_calls,
       told <- sch_told, again <- sch_again

VARIABLES rc_link, rc_closing, rc_st, rc_proto, rc_note, rc_online, rc_policy,
          rc_changes, rc_limit, rc_table, rc_count, rc_kicks, rc_pc, rc_verdict,
          rc_served
rcVars == <<rc_link, rc_closing, rc_st, rc_proto, rc_note, rc_online, rc_policy,
            rc_changes, rc_limit, rc_table, rc_count, rc_kicks, rc_pc, rc_verdict,
            rc_served>>
Rc == INSTANCE RcLogon WITH
       Sessions <- {"s1", "s2"}, MaxChanges <- 0, Policies <- Policies,
       link <- rc_link, closing <- rc_closing, st <- rc_st, proto <- rc_proto,
       note <- rc_note, online <- rc_online, policy <- rc_policy,
       changes <- rc_changes, limit <- rc_limit, table <- rc_table,
       count <- rc_count, kicks <- rc_kicks, pc <- rc_pc, verdict <- rc_verdict,
       served <- rc_served

VARIABLES lsn_srvState, lsn_ops, lsn_current, lsn_made, lsn_disp, lsn_isDisposing,
          lsn_heard, lsn_clients, lsn_loop, lsn_dev, lsn_asked, lsn_crossed,
          lsn_misused
lsnVars == <<lsn_srvState, lsn_ops, lsn_current, lsn_made, lsn_disp,
             lsn_isDisposing, lsn_heard, lsn_clients, lsn_loop, lsn_dev, lsn_asked,
             lsn_crossed, lsn_misused>>
Lsn == INSTANCE Listener WITH
       MaxClients <- 1, Capacity <- 1, MaxListeners <- 1, MaxOps <- 2,
       CloseBySeq <- FALSE, srvState <- lsn_srvState, ops <- lsn_ops,
       current <- lsn_current, made <- lsn_made, disp <- lsn_disp,
       isDisposing <- lsn_isDisposing, heard <- lsn_heard, clients <- lsn_clients,
       loop <- lsn_loop, dev <- lsn_dev, asked <- lsn_asked,
       crossed <- lsn_crossed, misused <- lsn_misused

VARIABLES sub_cUp, sub_layout, sub_pend, sub_objs, sub_free, sub_seedIdx,
          sub_asked, sub_c2s, sub_s2c, sub_sUp, sub_since, sub_list, sub_left,
          sub_regs, sub_runners, sub_unsubs, sub_resets, sub_subjs, sub_gone,
          sub_treeOk, sub_others, sub_changes, sub_breaks, sub_kicked
subVars == <<sub_cUp, sub_layout, sub_pend, sub_objs, sub_free, sub_seedIdx,
             sub_asked, sub_c2s, sub_s2c, sub_sUp, sub_since, sub_list, sub_left,
             sub_regs, sub_runners, sub_unsubs, sub_resets, sub_subjs, sub_gone,
             sub_treeOk, sub_others, sub_changes, sub_breaks, sub_kicked>>
Sub == INSTANCE RcSubscribe WITH
       Keys <- {"k1"}, BadTab <- {}, MaxSubrCount <- 2, Skip <- 100, MaxAsks <- 2,
       MaxData <- 0, MaxBreaks <- 1, Readded <- FALSE, MaxOthers <- 0,
       cUp <- sub_cUp, layout <- sub_layout, pend <- sub_pend, objs <- sub_objs,
       free <- sub_free, seedIdx <- sub_seedIdx, asked <- sub_asked,
       c2s <- sub_c2s, s2c <- sub_s2c, sUp <- sub_sUp, since <- sub_since,
       list <- sub_list, left <- sub_left, regs <- sub_regs,
       runners <- sub_runners, unsubs <- sub_unsubs, resets <- sub_resets,
       subjs <- sub_subjs, gone <- sub_gone, treeOk <- sub_treeOk,
       others <- sub_others, changes <- sub_changes, breaks <- sub_breaks,
       kicked <- sub_kicked

unionVars == <<part, logVars, feedVars, poolVars, schVars, rcVars, lsnVars, subVars>>

(* A component that does not run stands at one of its initial states. *)
Init == /\ part \in {"log", "feed", "pool", "sch", "rc", "listen", "subscribe"}
        /\ Log!Init
        /\ Feed!Init
        /\ Pool!Init
        /\ Sch!SchInit
        /\ Rc!Init
        /\ Lsn!Init
        /\ Sub!Init
        /\ part = "pool" \/ pool_plan = "quit"
        /\ part = "sch" \/ sch_cfg = [Weekdays |-> {}, Start |-> 0, End |-> 0]
        /\ part = "subscribe" \/ sub_treeOk
        /\ part = "rc" \/ rc_policy.act = "RejectNew"

OnlyLog(A) == part = "log" /\ A /\ UNCHANGED <<part, feedVars, poolVars, schVars, rcVars, lsnVars, subVars>>
OnlyFeed(A) == part = "feed" /\ A /\ UNCHANGED <<part, logVars, poolVars, schVars, rcVars, lsnVars, subVars>>
OnlyPool(A) == part = "pool" /\ A /\ UNCHANGED <<part, logVars, feedVars, schVars, rcVars, lsnVars, subVars>>
OnlySch(A) == part = "sch" /\ A /\ UNCHANGED <<part, logVars, feedVars, poolVars, rcVars, lsnVars, subVars>>
OnlyRc(A) == part = "rc" /\ A /\ UNCHANGED <<part, logVars, feedVars, poolVars, schVars, lsnVars, subVars>>
OnlyLsn(A) == part = "listen" /\ A /\ UNCHANGED <<part, logVars, feedVars, poolVars, schVars, rcVars, subVars>>
OnlySub(A) == part = "subscribe" /\ A /\ UNCHANGED <<part, logVars, feedVars, poolVars, schVars, rcVars, lsnVars>>

Next == \/ OnlyLog(Log!Next)
        \/ OnlyFeed(Feed!Next)
        \/ OnlyPool(Pool!Next)
        \/ OnlySch(Sch!SchNext)
        \/ OnlyRc(Rc!Next)
        \/ OnlyLsn(Lsn!Next)
        \/ OnlySub(Sub!Next)

Spec == Init /\ [][Next]_unionVars

(* One component runs for ever: each has its own disjunct of every condition. *)
Fairness == /\ WF_unionVars(\/ OnlyLog(Log!PoolCall)
                            \/ OnlyFeed(Feed!RunAfter("f1"))
                            \/ OnlyPool(Pool!StartThread)
                            \/ OnlySch(Sch!Tick)
                            \/ OnlyRc(Rc!Goes("s1"))
                            \/ OnlyLsn(Lsn!Server)
                            \/ OnlySub(Sub!ClientReceives))
            /\ WF_unionVars(\/ OnlyLog(Log!EmitOnTimer)
                            \/ OnlyFeed(Feed!RunAfter("f2"))
                            \/ OnlyPool(Pool!Ends)
                            \/ OnlySch(Sch!TimerThread)
                            \/ OnlyRc(Rc!Goes("s2"))
                            \/ OnlyLsn(Lsn!OnFdrEvent(1))
                            \/ OnlySub(Sub!ServerReceives))
            /\ WF_unionVars(\/ OnlyLog(Log!Writing)
                            \/ OnlyFeed(Feed!Emit)
                            \/ OnlyPool(Pool!Works("w1"))
                            \/ OnlySch(Sch!Owner)
                            \/ OnlyRc(Rc!Closes("s1"))
                            \/ OnlyLsn(Lsn!AcceptLoop(1))
                            \/ OnlySub(Sub!Runners))
            /\ WF_unionVars(\/ OnlyLog(Log!Ending)
                            \/ OnlyFeed(Feed!PkContOnTimer)
                            \/ OnlyPool(Pool!Works("w2"))
                            \/ OnlyRc(Rc!Closes("s2"))
                            \/ OnlyLsn(Lsn!RunTask(1))
                            \/ OnlySub(Sub!UnsubscribeLeft))
            /\ WF_unionVars(\/ OnlyLog(Log!Runs("t1"))
                            \/ OnlyFeed(Feed!EmitEnd)
                            \/ OnlyPool(Pool!TimesOut("w1"))
                            \/ OnlyRc(Rc!LogonTimeout("s1"))
                            \/ OnlyLsn(Lsn!SocketError(1)))
            /\ WF_unionVars(\/ OnlyLog(Log!Runs("t2"))
                            \/ OnlyFeed(Feed!ClearLocked)
                            \/ OnlyPool(Pool!TimesOut("w2"))
                            \/ OnlyRc(Rc!LogonTimeout("s2"))
                            \/ OnlyLsn(Lsn!PeerIsTold(1)))
            /\ WF_unionVars(OnlyLog(Log!Flushing("t1")))
            /\ WF_unionVars(OnlyLog(Log!Flushing("t2")))
FairSpec == Spec /\ Fairness

-----------------------------------------------------------------------------
(* A packet that waits for one before it is given in the end, or cleared (PkContFeeder). *)
PendingsAreGiven == Feed!PendingsGiven

(* A message that is logged is written, a thread that waits for the file is woken
   (Appender, LogFileAppender). *)
LogWrittenAndWoken == Log!AllWritten /\ Log!WaitersAreWoken

(* A task that was accepted is handled and the end of the pool returns, if nobody else
   ends it too (DefaultThreadPool); a Restart is carried out when its time comes
   (SchTask::Restart). *)
AskedIsDone == Pool!TasksAreDone /\ Pool!EndReturns /\ Sch!RestartTells

(* Who is told to go loses the link, and no logon lasts for ever, whether a new one is
   refused or an old one has to go (PoDupLogonTree, RcSession). Who connects to a server is
   answered, and the clients of a listener that is disposed of are freed (FdrTcpListener). *)
LogonsAndLinksEnd == Lsn!ConnectsAreAnswered /\ Lsn!ListenersDisappear /\ Rc!ToldGoes /\ Rc!LogonEnds

(* Who subscribes is answered, and who gives it up told of the end, as long as the link
   lasts (RcSvsSubscribeRunner, RcSvsUnsubRunnerSP). *)
SubscribersAreTold == Sub!EveryoneIsTold

=============================================================================
