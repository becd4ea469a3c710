---------------------------- MODULE MCMarket ----------------------------
(***************************************************************************)
(* The components of the markets side by side, one at a time: each is checked *)
(* by itself in a part of the state space of its own.                      *)
(***************************************************************************)
EXTENDS Integers, Sequences, FiniteSets

VARIABLE part  \* the component that runs

VARIABLES feed_nextSeq, feed_received, feed_lost, feed_pks, feed_inLine,
          feed_emitting, feed_feeder, feed_clearing, feed_clears, feed_arrived,
          feed_given
feedVars == <<feed_nextSeq, feed_received, feed_lost, feed_pks, feed_inLine,
              feed_emitting, feed_feeder, feed_clearing, feed_clears, feed_arrived,
              feed_given>>
Feed == INSTANCE PkCont WITH
       MaxSeqNo <- 9, FirstSeqNoAfterOverflow <- 1, StartSeq <- 2, Places <- 6,
       Copies <- 2, Window <- 2, Feeders <- {"f1", "f2"}, WaitInterval <- 5,
       MaxClears <- 1, TimerFires <- TRUE, nextSeq <- feed_nextSeq,
       received <- feed_received, lost <- feed_lost, pks <- feed_pks,
       inLine <- feed_inLine, emitting <- feed_emitting, feeder <- feed_feeder,
       clearing <- feed_clearing, clears <- feed_clears, arrived <- feed_arrived,
       given <- feed_given

VARIABLES cont_nextSeq, cont_received, cont_lost, cont_pks, cont_inLine,
          cont_emitting, cont_feeder, cont_clearing, cont_clears, cont_arrived,
          cont_given
contVars == <<cont_nextSeq, cont_received, cont_lost, cont_pks, cont_inLine,
              cont_emitting, cont_feeder, cont_clearing, cont_clears, cont_arrived,
              cont_given>>
Cont == INSTANCE PkCont WITH
       MaxSeqNo <- 9, FirstSeqNoAfterOverflow <- 1, StartSeq <- 7, Places <- 7,
       Copies <- 2, Window <- 1, Feeders <- {"f1", "f2"}, WaitInterval <- 5,
       MaxClears <- 0, TimerFires <- FALSE, nextSeq <- cont_nextSeq,
       received <- cont_received, lost <- cont_lost, pks <- cont_pks,
       inLine <- cont_inLine, emitting <- cont_emitting, feeder <- cont_feeder,
       clearing <- cont_clearing, clears <- cont_clears, arrived <- cont_arrived,
       given <- cont_given

VARIABLES mr_ch, mr_sent, mr_inLine, mr_called, mr_recovers, mr_st, mr_ready,
          mr_asked, mr_todo, mr_suspended, mr_orphaned, mr_breaks, mr_errors,
          mr_others
mrVars == <<mr_ch, mr_sent, mr_inLine, mr_called, mr_recovers, mr_st, mr_ready,
            mr_asked, mr_todo, mr_suspended, mr_orphaned, mr_breaks, mr_errors,
            mr_others>>
Mr == INSTANCE McRecover WITH
       Sessions <- {"p1", "s1"}, Primaries <- {"p1"}, kMaxRecoverNum <- 2,
       Packets <- 4, MaxBreaks <- 1, MaxErrors <- 1, MaxOthers <- 1, ch <- mr_ch,
       sent <- mr_sent, inLine <- mr_inLine, called <- mr_called,
       recovers <- mr_recovers, st <- mr_st, ready <- mr_ready, asked <- mr_asked,
       todo <- mr_todo, suspended <- mr_suspended, orphaned <- mr_orphaned,
       breaks <- mr_breaks, errors <- mr_errors, others <- mr_others

VARIABLES snap_rt, snap_basic, snap_ss, snap_out, snap_net
snapVars == <<snap_rt, snap_basic, snap_ss, snap_out, snap_net>>
Snap == INSTANCE McSnapshot WITH
       RoundLen <- 4, Before <- 1, MaxRt <- 3, MaxBasic <- 3, MaxRounds <- 2,
       FirstArrives <- TRUE, RoundsApart <- TRUE, OneThread <- TRUE, rt <- snap_rt,
       basic <- snap_basic, ss <- snap_ss, out <- snap_out, net <- snap_net

VARIABLES tmp_exg, tmp_pipe, tmp_said, tmp_line, tmp_log, tmp_given, tmp_orders,
          tmp_cut, tmp_excused, tmp_links, tmp_crashes, tmp_gaps, tmp_losses
tmpVars == <<tmp_exg, tmp_pipe, tmp_said, tmp_line, tmp_log, tmp_given, tmp_orders,
             tmp_cut, tmp_excused, tmp_links, tmp_crashes, tmp_gaps, tmp_losses>>
Tmp == INSTANCE TmpLine WITH
       MaxReports <- 3, MaxOrders <- 1, MaxLinks <- 3, MaxCrashes <- 1,
       MaxGaps <- 1, MaxLosses <- 1, exg <- tmp_exg, pipe <- tmp_pipe,
       said <- tmp_said, line <- tmp_line, log <- tmp_log, given <- tmp_given,
       orders <- tmp_orders, cut <- tmp_cut, excused <- tmp_excused,
       links <- tmp_links, crashes <- tmp_crashes, gaps <- tmp_gaps,
       losses <- tmp_losses

unionVars == <<part, feedVars, contVars, mrVars, snapVars, tmpVars>>

Init == /\ part \in {"feed", "overflow", "recover", "snapshot", "tmp"}
        /\ Feed!Init
        /\ Cont!Init
        /\ Mr!Init
        /\ Snap!Init
        /\ Tmp!Init

OnlyFeed(A) == part = "feed" /\ A /\ UNCHANGED <<part, contVars, mrVars, snapVars, tmpVars>>
OnlyCont(A) == part = "overflow" /\ A /\ UNCHANGED <<part, feedVars, mrVars, snapVars, tmpVars>>
OnlyMr(A) == part = "recover" /\ A /\ UNCHANGED <<part, feedVars, contVars, snapVars, tmpVars>>
OnlySnap(A) == part = "snapshot" /\ A /\ UNCHANGED <<part, feedVars, contVars, mrVars, tmpVars>>
OnlyTmp(A) == part = "tmp" /\ A /\ UNCHANGED <<part, feedVars, contVars, mrVars, snapVars>>

Next == \/ OnlyFeed(Feed!Next)
        \/ OnlyCont(Cont!Next)
        \/ OnlyMr(Mr!Next)
        \/ OnlySnap(Snap!Next)
        \/ OnlyTmp(Tmp!Next)

Spec == Init /\ [][Next]_unionVars

-----------------------------------------------------------------------------
(* Packets are given in order and what is left out is counted; a packet that waits has a
   timer or somebody who will start it.  Across the overflow of the numbers nothing is left
   out and each packet is given with its own number (PkContFeeder::FeedPacket, PkContOnTimer). *)
FeedInOrder ==
  /\ part = "feed" => Feed!GivenAndCounted /\ Feed!SomeoneWillLook
  /\ part = "overflow" => Cont!AllGiven

(* A channel gives its packets in order and counts what it leaves out; a session counts
   as asked exactly while something asked is open; packets that wait are never left with
   nobody to recover them or to give them up, unless a session that was not the first left
   with the request (ExgMcChannel, ExgMrRecoverSession). *)
RecoverGoesOn ==
  part = "recover" => Mr!InOrderAndCounted /\ Mr!RequestsMatch
                     /\ Mr!SomeoneWillRecover

(* Real-time packets reach the symbols in order and without a gap, behind a snapshot that
   is whole, after the basic info has gone round (ExgMcChannel, ExgMcChannelMgr). *)
SnapshotThenRealTime ==
  part = "snapshot" => Snap!BookIsContinuous /\ Snap!SnapshotFirst
                      /\ Snap!BasicInfoWhole

(* No report of the exchange is skipped by the number a line goes on from; without a
   crash no report and no order number is used twice over links and processes, and the log
   can always be opened (ExgLineTmpSession, ExgLineTmpLog). *)
TmpNumbersGoOn ==
  part = "tmp" => Tmp!NothingSkipped /\ Tmp!NumbersGoOn /\ Tmp!LogCanBeOpened

=============================================================================
