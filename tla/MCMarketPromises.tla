---------------------------- MODULE MCMarketPromises ----------------------------
(***************************************************************************)
(* What the components of the markets promise will happen, one component at a *)
(* time.                                                                   *)
(***************************************************************************)
EXTENDS Integers, Sequences, FiniteSets

VARIABLE part  \* the component that runs

VARIABLES mr_ch, mr_sent, mr_inLine, mr_called, mr_recovers, mr_st, mr_ready,
          mr_asked, mr_todo, mr_suspended, mr_orphaned, mr_breaks, mr_errors,
          mr_others
mrVars == <<mr_ch, mr_sent, mr_inLine, mr_called, mr_recovers, mr_st, mr_ready,
            mr_asked, mr_todo, mr_suspended, mr_orphaned, mr_breaks, mr_errors,
            mr_others>>
Mr == INSTANCE McRecover WITH
       Sessions <- {"p1", "s1"}, Primaries <- {"p1"}, kMaxRecoverNum <- 2,
       Packets <- 3, MaxBreaks <- 1, MaxErrors <- 1, MaxOthers <- 1, ch <- mr_ch,
       sent <- mr_sent, inLine <- mr_inLine, called <- mr_called,
       recovers <- mr_recovers, st <- mr_st, ready <- mr_ready, asked <- mr_asked,
       todo <- mr_todo, suspended <- mr_suspended, orphaned <- mr_orphaned,
       breaks <- mr_breaks, errors <- mr_errors, others <- mr_others

VARIABLES trade_lines, trade_queue, trade_flow, trade_loop, trade_working,
          trade_notices, trade_lineSt, trade_tell, trade_fate, trade_by,
          trade_came, trade_unheard, trade_breaks
tradeVars == <<trade_lines, trade_queue, trade_flow, trade_loop, trade_working,
               trade_notices, trade_lineSt, trade_tell, trade_fate, trade_by,
               trade_came, trade_unheard, trade_breaks>>
Trade == INSTANCE TradingLine WITH
       Mgrs <- {"a", "o"}, Lines <- {"a1", "o1"},
       MgrOf <- [l \in {"a1", "o1"} |-> IF l = "a1" THEN "a" ELSE "o"],
       OfferOf <- [m \in {"a", "o"} |-> IF m = "a" THEN "o" ELSE "none"],
       NoMgr <- "none", NoLine <- "none", NoRequest <- "none",
       Requests <- {"r1", "r2"}, Deletes <- {"r2"}, Bad <- {}, NotFor <- {},
       MaxBreaks <- 1, lines <- trade_lines, queue <- trade_queue,
       flow <- trade_flow, loop <- trade_loop, working <- trade_working,
       notices <- trade_notices, lineSt <- trade_lineSt, tell <- trade_tell,
       fate <- trade_fate, by <- trade_by, came <- trade_came,
       unheard <- trade_unheard, breaks <- trade_breaks

VARIABLES tmp_exg, tmp_pipe, tmp_said, tmp_line, tmp_log, tmp_given, tmp_orders,
          tmp_cut, tmp_excused, tmp_links, tmp_crashes, tmp_gaps, tmp_losses
tmpVars == <<tmp_exg, tmp_pipe, tmp_said, tmp_line, tmp_log, tmp_given, tmp_orders,
             tmp_cut, tmp_excused, tmp_links, tmp_crashes, tmp_gaps, tmp_losses>>
Tmp == INSTANCE TmpLine WITH
       MaxReports <- 2, MaxOrders <- 0, MaxLinks <- 3, MaxCrashes <- 1,
       MaxGaps <- 1, MaxLosses <- 0, exg <- tmp_exg, pipe <- tmp_pipe,
       said <- tmp_said, line <- tmp_line, log <- tmp_log, given <- tmp_given,
       orders <- tmp_orders, cut <- tmp_cut, excused <- tmp_excused,
       links <- tmp_links, crashes <- tmp_crashes, gaps <- tmp_gaps,
       losses <- tmp_losses

unionVars == <<part, mrVars, tradeVars, tmpVars>>

Init == /\ part \in {"recover", "trading", "tmp"}
        /\ Mr!Init
        /\ Trade!TradeInit
        /\ Tmp!Init

OnlyMr(A) == part = "recover" /\ A /\ UNCHANGED <<part, tradeVars, tmpVars>>
OnlyTrade(A) == part = "trading" /\ A /\ UNCHANGED <<part, mrVars, tmpVars>>
OnlyTmp(A) == part = "tmp" /\ A /\ UNCHANGED <<part, mrVars, tradeVars>>

Next == \/ OnlyMr(Mr!Next)
        \/ OnlyTrade(Trade!TradeNext)
        \/ OnlyTmp(Tmp!Next)

Spec == Init /\ [][Next]_unionVars

(* One component runs for ever: each has its own disjunct of every condition. *)
Fairness == /\ WF_unionVars(\/ OnlyMr(Mr!Emit)
                            \/ OnlyTrade(Trade!SendFront("a"))
                            \/ OnlyTmp(Tmp!Goes))
            /\ WF_unionVars(\/ OnlyMr(Mr!Goes("p1"))
                            \/ OnlyTrade(Trade!SendFront("o"))
                            \/ OnlyTmp(tmp_line.closing /\ Tmp!LinkEnds))
            /\ WF_unionVars(OnlyMr(Mr!Goes("s1")))
            /\ SF_unionVars(\/ OnlyMr(Mr!PkContOnTimer)
                            \/ OnlyTrade(Trade!EmitOnTimer("a"))
                            \/ OnlyTmp(Tmp!LinkReady))
            /\ SF_unionVars(OnlyTrade(Trade!EmitOnTimer("o")))
            /\ SF_unionVars(OnlyTrade(Trade!SendReqQueue("a")))
            /\ SF_unionVars(OnlyTrade(Trade!SendReqQueue("o")))
            /\ SF_unionVars(OnlyTrade(Trade!OnWorkingRequestDone("a")))
            /\ SF_unionVars(OnlyTrade(Trade!OnWorkingRequestDone("o")))
            /\ SF_unionVars(OnlyTrade(Trade!Tells("a1")))
            /\ SF_unionVars(OnlyTrade(Trade!Tells("o1")))
FairSpec == Spec /\ Fairness

-----------------------------------------------------------------------------
(* What waits for a lost packet is given in the end, recovered or not (ExgMcChannel). *)
PendingsAreRecovered == Mr!PendingsRecovered

(* A queue of requests is sent or rejected in the end (TradingLineManager, LocalHelper);
   the reports the exchange sends again are all handled (ExgLineTmpSession). *)
OrdersAndReportsDone == Trade!QueueDrained /\ Tmp!AllReportsHandled

=============================================================================
