---------------------------- MODULE MCServices ----------------------------
(***************************************************************************)
(* The services of the framework side by side, one at a time: each is checked *)
(* by itself in a part of the state space of its own.                      *)
(***************************************************************************)
EXTENDS Integers, Sequences, FiniteSets

VARIABLE part  \* the component that runs

(* What the administrator may set. *)
Policies == {[max |-> 2, act |-> "RejectOld"], [max |-> 1, act |-> "RejectOld"], [max |-> 1, act |-> "RejectNew"]}

VARIABLES trade_lines, trade_queue, trade_flow, trade_loop, trade_working,
          trade_notices, trade_lineSt, trade_tell, trade_fate, trade_by,
          trade_came, trade_unheard, trade_breaks
tradeVars == <<trade_lines, trade_queue, trade_flow, trade_loop, trade_working,
               trade_notices, trade_lineSt, trade_tell, trade_fate, trade_by,
               trade_came, trade_unheard, trade_breaks>>
Trade == INSTANCE TradingLine WITH
       Mgrs <- {"a", "o"}, Lines <- {"a1", "o1"},
       MgrOf <- [l \in {"a1", "o1"} |-> IF l = "a1" THEN "a" ELSE "o"],
       OfferOf <- [m \in {"a", "o"} |-> IF m = "a" THEN "o" ELSE "none"],
       NoMgr <- "none", NoLine <- "none", NoRequest <- "none",
       Requests <- {"r1", "r2", "r3"}, Deletes <- {"r3"}, Bad <- {"r2"},
       NotFor <- {}, MaxBreaks <- 2, lines <- trade_lines, queue <- trade_queue,
       flow <- trade_flow, loop <- trade_loop, working <- trade_working,
       notices <- trade_notices, lineSt <- trade_lineSt, tell <- trade_tell,
       fate <- trade_fate, by <- trade_by, came <- trade_came,
       unheard <- trade_unheard, breaks <- trade_breaks

VARIABLES log_queue, log_work, log_waiters, log_called, log_worker, log_pool,
          log_life, log_thr, log_chk, log_e, log_now, log_lost, log_errors,
          log_flushes
logVars == <<log_queue, log_work, log_waiters, log_called, log_worker, log_pool,
             log_life, log_thr, log_chk, log_e, log_now, log_lost, log_errors,
             log_flushes>>
Log == INSTANCE LogFile WITH
       Threads <- {"t1", "t2"}, FlushNodeCount <- 1, HighWaterLevelNodeCount <- 3,
       MaxFileSize <- 2, OpenMayFail <- FALSE, MaxLogs <- 1, MaxTime <- 1,
       MaxErrors <- 1, MaxFlushes <- 1, queue <- log_queue, work <- log_work,
       waiters <- log_waiters, called <- log_called, worker <- log_worker,
       pool <- log_pool, life <- log_life, thr <- log_thr, chk <- log_chk,
       e <- log_e, now <- log_now, lost <- log_lost, errors <- log_errors,
       flushes <- log_flushes

VARIABLES replay_file, replay_nextSend, replay_isReplayingAll, replay_line,
          replay_pc, replay_begin, replay_pos, replay_sendBuf, replay_from,
          replay_hidden, replay_replays
replayVars == <<replay_file, replay_nextSend, replay_isReplayingAll, replay_line,
                replay_pc, replay_begin, replay_pos, replay_sendBuf, replay_from,
                replay_hidden, replay_replays>>
Replay == INSTANCE FixReplay WITH
       MaxSent <- 4, MaxReplays <- 2, file <- replay_file,
       nextSend <- replay_nextSend, isReplayingAll <- replay_isReplayingAll,
       line <- replay_line, pc <- replay_pc, begin <- replay_begin,
       pos <- replay_pos, sendBuf <- replay_sendBuf, from <- replay_from,
       hidden <- replay_hidden, replays <- replay_replays

VARIABLES workers_state, workers_queue, workers_running, workers_at, workers_hand,
          workers_timed, workers_plan, workers_pc, workers_left, workers_rounds,
          workers_latch, workers_asked, workers_came, workers_took, workers_done
workersVars == <<workers_state, workers_queue, workers_running, workers_at,
                 workers_hand, workers_timed, workers_plan, workers_pc,
                 workers_left, workers_rounds, workers_latch, workers_asked,
                 workers_came, workers_took, workers_done>>
Workers == INSTANCE ThreadPool WITH
       Threads <- {"w1", "w2", "w3"}, Ender <- "e", Tasks <- {"x1", "x2"},
       Rounds <- 1, Timed <- FALSE, ExitHandler <- TRUE, state <- workers_state,
       queue <- workers_queue, running <- workers_running, at <- workers_at,
       hand <- workers_hand, timed <- workers_timed, plan <- workers_plan,
       pc <- workers_pc, left <- workers_left, rounds <- workers_rounds,
       latch <- workers_latch, asked <- workers_asked, came <- workers_came,
       took <- workers_took, done <- workers_done

VARIABLES sch_now, sch_cfg, sch_schSt, sch_due, sch_emit, sch_call, sch_calls,
          sch_told, sch_again
schVars == <<sch_now, sch_cfg, sch_schSt, sch_due, sch_emit, sch_call, sch_calls,
             sch_told, sch_again>>
Sch == INSTANCE SchTask WITH
       WeekdayCount <- 2, DaySeconds <- 3, Delays <- {1, 3}, MaxTime <- 6,
       MaxCalls <- 2, now <- sch_now, cfg <- sch_cfg, schSt <- sch_schSt,
       due <- sch_due, emit <- sch_emit, call <- sch_call, calls <- sch_calls,
       told <- sch_told, again <- sch_again

VARIABLES rc_link, rc_closing, rc_st, rc_proto, rc_note, rc_online, rc_policy,
          rc_changes, rc_limit, rc_table, rc_count, rc_kicks, rc_pc, rc_verdict,
          rc_served
rcVars == <<rc_link, rc_closing, rc_st, rc_proto, rc_note, rc_online, rc_policy,
            rc_changes, rc_limit, rc_table, rc_count, rc_kicks, rc_pc, rc_verdict,
            rc_served>>
Rc == INSTANCE RcLogon WITH
       Sessions <- {"s1", "s2"}, MaxChanges <- 1, Policies <- Policies,
       link <- rc_link, closing <- rc_closing, st <- rc_st, proto <- rc_proto,
       note <- rc_note, online <- rc_online, policy <- rc_policy,
       changes <- rc_changes, limit <- rc_limit, table <- rc_table,
       count <- rc_count, kicks <- rc_kicks, pc <- rc_pc, verdict <- rc_verdict,
       served <- rc_served

VARIABLES lsn_srvState, lsn_ops, lsn_current, lsn_made, lsn_disp, lsn_isDisposing,
          lsn_heard, lsn_clients, lsn_loop, lsn_dev, lsn_asked, lsn_crossed,
          lsn_misused
lsnVars == <<lsn_srvState, lsn_ops, lsn_current, lsn_made, lsn_disp,
             lsn_isDisposing, lsn_heard, lsn_clients, lsn_loop, lsn_dev, lsn_asked,
             lsn_crossed, lsn_misused>>
Lsn == INSTANCE Listener WITH
       MaxClients <- 2, Capacity <- 1, MaxListeners <- 2, MaxOps <- 2,
       CloseBySeq <- TRUE, srvState <- lsn_srvState, ops <- lsn_ops,
       current <- lsn_current, made <- lsn_made, disp <- lsn_disp,
       isDisposing <- lsn_isDisposing, heard <- lsn_heard, clients <- lsn_clients,
       loop <- lsn_loop, dev <- lsn_dev, asked <- lsn_asked,
       crossed <- lsn_crossed, misused <- lsn_misused

(* On the variables of Lsn. *)
Many == INSTANCE Listener WITH
       MaxClients <- 3, Capacity <- 2, MaxListeners <- 1, MaxOps <- 1,
       CloseBySeq <- FALSE, srvState <- lsn_srvState, ops <- lsn_ops,
       current <- lsn_current, made <- lsn_made, disp <- lsn_disp,
       isDisposing <- lsn_isDisposing, heard <- lsn_heard, clients <- lsn_clients,
       loop <- lsn_loop, dev <- lsn_dev, asked <- lsn_asked,
       crossed <- lsn_crossed, misused <- lsn_misused

(* On the variables of Lsn. *)
Err == INSTANCE Listener WITH
       MaxClients <- 1, Capacity <- 1, MaxListeners <- 2, MaxOps <- 3,
       CloseBySeq <- FALSE, srvState <- lsn_srvState, ops <- lsn_ops,
       current <- lsn_current, made <- lsn_made, disp <- lsn_disp,
       isDisposing <- lsn_isDisposing, heard <- lsn_heard, clients <- lsn_clients,
       loop <- lsn_loop, dev <- lsn_dev, asked <- lsn_asked,
       crossed <- lsn_crossed, misused <- lsn_misused

VARIABLES sub_cUp, sub_layout, sub_pend, sub_objs, sub_free, sub_seedIdx,
          sub_asked, sub_c2s, sub_s2c, sub_sUp, sub_since, sub_list, sub_left,
          sub_regs, sub_runners, sub_unsubs, sub_resets, sub_subjs, sub_gone,
          sub_treeOk, sub_others, sub_changes, sub_breaks, sub_kicked
subVars == <<sub_cUp, sub_layout, sub_pend, sub_objs, sub_free, sub_seedIdx,
             sub_asked, sub_c2s, sub_s2c, sub_sUp, sub_since, sub_list, sub_left,
             sub_regs, sub_runners, sub_unsubs, sub_resets, sub_subjs, sub_gone,
             sub_treeOk, sub_others, sub_changes, sub_breaks, sub_kicked>>
Sub == INSTANCE RcSubscribe WITH
       Keys <- {"k1"}, BadTab <- {}, MaxSubrCount <- 0, Skip <- 1, MaxAsks <- 4,
       MaxData <- 1, MaxBreaks <- 0, Readded <- FALSE, MaxOthers <- 0,
       cUp <- sub_cUp, layout <- sub_layout, pend <- sub_pend, objs <- sub_objs,
       free <- sub_free, seedIdx <- sub_seedIdx, asked <- sub_asked,
       c2s <- sub_c2s, s2c <- sub_s2c, sUp <- sub_sUp, since <- sub_since,
       list <- sub_list, left <- sub_left, regs <- sub_regs,
       runners <- sub_runners, unsubs <- sub_unsubs, resets <- sub_resets,
       subjs <- sub_subjs, gone <- sub_gone, treeOk <- sub_treeOk,
       others <- sub_others, changes <- sub_changes, breaks <- sub_breaks,
       kicked <- sub_kicked

(* On the variables of Sub. *)
Share == INSTANCE RcSubscribe WITH
       Keys <- {"k1", "k2"}, BadTab <- {"k2"}, MaxSubrCount <- 2, Skip <- 100,
       MaxAsks <- 2, MaxData <- 1, MaxBreaks <- 1, Readded <- FALSE,
       MaxOthers <- 1, cUp <- sub_cUp, layout <- sub_layout, pend <- sub_pend,
       objs <- sub_objs, free <- sub_free, seedIdx <- sub_seedIdx,
       asked <- sub_asked, c2s <- sub_c2s, s2c <- sub_s2c, sUp <- sub_sUp,
       since <- sub_since, list <- sub_list, left <- sub_left, regs <- sub_regs,
       runners <- sub_runners, unsubs <- sub_unsubs, resets <- sub_resets,
       subjs <- sub_subjs, gone <- sub_gone, treeOk <- sub_treeOk,
       others <- sub_others, changes <- sub_changes, breaks <- sub_breaks,
       kicked <- sub_kicked

VARIABLES apf_rooms, apf_exHeader, apf_life, apf_lives, apf_reads, apf_open,
          apf_changed, apf_todo, apf_upd, apf_info, apf_saved, apf_recorded,
          apf_pend, apf_flag, apf_op, apf_at, apf_total
apfVars == <<apf_rooms, apf_exHeader, apf_life, apf_lives, apf_reads, apf_open,
             apf_changed, apf_todo, apf_upd, apf_info, apf_saved, apf_recorded,
             apf_pend, apf_flag, apf_op, apf_at, apf_total>>
Apf == INSTANCE InnApf WITH
       Keys <- {"k1"}, Appenders <- {"a"}, Directs <- {}, Readers <- {"r"},
       RoomSize <- 2, MaxItems <- 3, MaxReads <- 1, MaxLives <- 2,
       rooms <- apf_rooms, exHeader <- apf_exHeader, life <- apf_life,
       lives <- apf_lives, reads <- apf_reads, open <- apf_open,
       changed <- apf_changed, todo <- apf_todo, upd <- apf_upd, info <- apf_info,
       saved <- apf_saved, recorded <- apf_recorded, pend <- apf_pend,
       flag <- apf_flag, op <- apf_op, at <- apf_at, total <- apf_total

(* On the variables of Apf. *)
Direct == INSTANCE InnApf WITH
       Keys <- {"k1", "k2"}, Appenders <- {}, Directs <- {"d"}, Readers <- {},
       RoomSize <- 1, MaxItems <- 2, MaxReads <- 0, MaxLives <- 1,
       rooms <- apf_rooms, exHeader <- apf_exHeader, life <- apf_life,
       lives <- apf_lives, reads <- apf_reads, open <- apf_open,
       changed <- apf_changed, todo <- apf_todo, upd <- apf_upd, info <- apf_info,
       saved <- apf_saved, recorded <- apf_recorded, pend <- apf_pend,
       flag <- apf_flag, op <- apf_op, at <- apf_at, total <- apf_total

VARIABLES nested_subrs, nested_next, nested_frames, nested_made, nested_count
nestedVars == <<nested_subrs, nested_next, nested_frames, nested_made, nested_count>>
Nested == INSTANCE Subject WITH
       Subscribers <- {"p", "q"}, Removals <- {"conn", "clear"}, MaxConn <- 3,
       MaxSubs <- 4, MaxPublish <- 3, MaxDepth <- 2, subrs <- nested_subrs,
       next <- nested_next, frames <- nested_frames, made <- nested_made,
       count <- nested_count

(* On the variables of Nested. *)
All == INSTANCE Subject WITH
       Subscribers <- {"p", "q"}, Removals <- {"conn", "all"}, MaxConn <- 3,
       MaxSubs <- 4, MaxPublish <- 3, MaxDepth <- 1, subrs <- nested_subrs,
       next <- nested_next, frames <- nested_frames, made <- nested_made,
       count <- nested_count

unionVars == <<part, tradeVars, logVars, replayVars, workersVars, schVars, rcVars, lsnVars, subVars, apfVars, nestedVars>>

(* A component that does not run stands at one of its initial states. *)
Init == /\ part \in {"trading", "log", "replay", "pool", "sch", "rc", "listen", "accept", "errors", "subscribe", "share", "apf", "direct", "nested", "all"}
        /\ Trade!TradeInit
        /\ Log!Init
        /\ Replay!Init
        /\ Workers!Init
        /\ Sch!SchInit
        /\ Rc!Init
        /\ \/ part = "accept" /\ Many!Init
           \/ part = "errors" /\ Err!Init
           \/ part \notin {"accept", "errors"} /\ Lsn!Init
        /\ \/ part = "share" /\ Share!Init
           \/ part # "share" /\ Sub!Init
        /\ \/ part = "direct" /\ Direct!Init
           \/ part # "direct" /\ Apf!Init
        /\ \/ part = "all" /\ All!Init
           \/ part # "all" /\ Nested!Init
        /\ part = "pool" \/ workers_plan = "quit"
        /\ part = "sch" \/ sch_cfg = [Weekdays |-> {}, Start |-> 0, End |-> 0]
        /\ part \in {"subscribe", "share"} \/ sub_treeOk
        /\ part = "rc" \/ rc_policy.max = 2

OnlyTrade(A) == part = "trading" /\ A /\ UNCHANGED <<part, logVars, replayVars, workersVars, schVars, rcVars, lsnVars, subVars, apfVars, nestedVars>>
OnlyLog(A) == part = "log" /\ A /\ UNCHANGED <<part, tradeVars, replayVars, workersVars, schVars, rcVars, lsnVars, subVars, apfVars, nestedVars>>
OnlyReplay(A) == part = "replay" /\ A /\ UNCHANGED <<part, tradeVars, logVars, workersVars, schVars, rcVars, lsnVars, subVars, apfVars, nestedVars>>
OnlyWorkers(A) == part = "pool" /\ A /\ UNCHANGED <<part, tradeVars, logVars, replayVars, schVars, rcVars, lsnVars, subVars, apfVars, nestedVars>>
OnlySch(A) == part = "sch" /\ A /\ UNCHANGED <<part, tradeVars, logVars, replayVars, workersVars, rcVars, lsnVars, subVars, apfVars, nestedVars>>
OnlyRc(A) == part = "rc" /\ A /\ UNCHANGED <<part, tradeVars, logVars, replayVars, workersVars, schVars, lsnVars, subVars, apfVars, nestedVars>>
OnlyLsn(A) == part = "listen" /\ A /\ UNCHANGED <<part, tradeVars, logVars, replayVars, workersVars, schVars, rcVars, subVars, apfVars, nestedVars>>
OnlyMany(A) == part = "accept" /\ A /\ UNCHANGED <<part, tradeVars, logVars, replayVars, workersVars, schVars, rcVars, subVars, apfVars, nestedVars>>
OnlyErr(A) == part = "errors" /\ A /\ UNCHANGED <<part, tradeVars, logVars, replayVars, workersVars, schVars, rcVars, subVars, apfVars, nestedVars>>
OnlySub(A) == part = "subscribe" /\ A /\ UNCHANGED <<part, tradeVars, logVars, replayVars, workersVars, schVars, rcVars, lsnVars, apfVars, nestedVars>>
OnlyShare(A) == part = "share" /\ A /\ UNCHANGED <<part, tradeVars, logVars, replayVars, workersVars, schVars, rcVars, lsnVars, apfVars, nestedVars>>
OnlyApf(A) == part = "apf" /\ A /\ UNCHANGED <<part, tradeVars, logVars, replayVars, workersVars, schVars, rcVars, lsnVars, subVars, nestedVars>>
OnlyDirect(A) == part = "direct" /\ A /\ UNCHANGED <<part, tradeVars, logVars, replayVars, workersVars, schVars, rcVars, lsnVars, subVars, nestedVars>>
OnlyNested(A) == part = "nested" /\ A /\ UNCHANGED <<part, tradeVars, logVars, replayVars, workersVars, schVars, rcVars, lsnVars, subVars, apfVars>>
OnlyAll(A) == part = "all" /\ A /\ UNCHANGED <<part, tradeVars, logVars, replayVars, workersVars, schVars, rcVars, lsnVars, subVars, apfVars>>

Next == \/ OnlyTrade(Trade!TradeNext)
        \/ OnlyLog(Log!Next)
        \/ OnlyReplay(Replay!Next)
        \/ OnlyWorkers(Workers!Next)
        \/ OnlySch(Sch!SchNext)
        \/ OnlyRc(Rc!Next)
        \/ OnlyLsn(Lsn!Next)
        \/ OnlyMany(Many!Next)
        \/ OnlyErr(Err!Next)
        \/ OnlySub(Sub!Next)
        \/ OnlyShare(Share!Next)
        \/ OnlyApf(Apf!Next)
        \/ OnlyDirect(Direct!Next)
        \/ OnlyNested(Nested!Next)
        \/ OnlyAll(All!Next)

Spec == Init /\ [][Next]_unionVars

-----------------------------------------------------------------------------
(* A request is at one place and is not overtaken while it waits; a queue is never left
   with nobody to send it, unless the offer dropped a line unheard (TradingLineManager,
   LocalHelper). *)
TradingOnceInOrder ==
  part = "trading" => Trade!EachAtOnePlace /\ Trade!InOrder /\ Trade!SomeoneWillSend

(* An offer sends for others one request at a time (LocalHelpOfferEvHandler1). *)
TradingHelpsOne == [][Trade!HelpsOne]_tradeVars

(* Every message is written at one place in order, and before a flush returns; the file
   is that of the latest message in the end; a thread that waits for it is known to
   somebody who will wake it (AsyncFileAppender, LogFileAppender, Appender::WaitFlushed).
   A stream of an InnApf is what was appended, in order; its file can be read again after
   a stop at any point; what waits has somebody who will write it (InnStream, InnApf). *)
FilesWritten ==
  /\ part = "log" => Log!WrittenInOrder /\ Log!FlushedIsWritten /\ Log!FileCatchesUp
                    /\ Log!WaitersAreKnown
  /\ part = "apf" => Apf!AppendedInOrder /\ Apf!FileIsReadable
                    /\ Apf!SomeoneWillUpdate
  /\ part = "direct" => Direct!AppendedInOrder /\ Direct!FileIsReadable
                       /\ Direct!SomeoneWillUpdate

(* From the first message of a replay on, the line has neither a gap nor an overlap
   (FixSender::Replay with senders in other threads). *)
ReplayLeavesNoGap == part = "replay" => Replay!NoGapOnTheLine

(* Messages are taken in order, each once; none waits beside threads that all sleep;
   the one that ends the pool is told, and nothing accepted is forgotten (MessageQueue,
   ThreadController, WaitDefaultThreadPoolQuit). *)
PoolTakesAll ==
  part = "pool" => Workers!TakenInOrder /\ Workers!NobodySleepsBesideWork
                  /\ Workers!EnderIsTold /\ Workers!DoneWhenEnded

(* The schedule looks again at every change; its owner was told what it says, of changes
   only, and nothing after a stop (SchConfig::Check, SchTask). *)
SchTellsRight ==
  part = "sch" => Sch!CheckIsRight /\ Sch!ToldWhatIs /\ Sch!ToldOfChanges
                 /\ Sch!StoppedIsQuiet

(* A user has as many sessions online as the policy allowed, each with its place; a
   session that is gone has none, and calls are served for those that were allowed only
   (PoDupLogonTree, RcSession, RcFuncConnServer). *)
RcPlacesKept ==
  part = "rc" => Rc!PlacesAreCounted /\ Rc!NoPlaceForTheGone /\ Rc!OnlineHasAPlace
                /\ Rc!ServedIfAllowed

(* A listener's list is that of its clients, in the order of their numbers and within the
   capacity; one listener is in use, and the server says whether it hears; who is in the
   list when it is disposed of is told to go, and no device is used after it was freed
   (TcpServerBase, FdrTcpListener, DeviceListener). *)
ServerKeepsItsClients ==
  /\ part = "listen" => Lsn!ListIsExact /\ Lsn!OneListens /\ Lsn!NobodyIsLeftBehind
                       /\ Lsn!FreedWhenUnused
  /\ part = "accept" => Many!ListIsExact /\ Many!NobodyIsLeftBehind
                       /\ Many!FreedWhenUnused
  /\ part = "errors" => Err!ListIsExact /\ Err!OneListens /\ Err!NobodyIsLeftBehind

(* Data, answers and ends come to the subscription that has their index now; a client is
   not logged out by the server's rules for indices; with nothing under way both sides
   and the seeds agree, over broken links too, and no other session loses what it has
   subscribed (RcSvcReqSubr, RcSeedVisitorServerNote, RcSvsTicket). A Publish calls each
   subscriber once, whatever it does to the others, and a SubConn is found (Subject). *)
SubscriptionsAgree ==
  /\ part = "subscribe" => Sub!ToItsSubscriber /\ Sub!IndicesAreKept
                          /\ Sub!NeverKicked /\ Sub!BothAgree
  /\ part = "share" => Share!ToItsSubscriber /\ Share!IndicesAreKept
                      /\ Share!NeverKicked /\ Share!BothAgree /\ Share!OthersStay
  /\ part = "nested" => Nested!ConnsFound /\ Nested!EachIsCalledOnce
  /\ part = "all" => All!ConnsFound /\ All!EachIsCalledOnce /\ All!IndexIsInside

=============================================================================
