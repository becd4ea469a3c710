-------------------------- MODULE MCServicesProofs --------------------------
(***************************************************************************)
(* What the modules of proofs say of any instance holds of the instances   *)
(* that are checked side by side in MCServices. A component is one thing   *)
(* and the instance of the module that proves about it another, of the     *)
(* same variables: first, that they are the same.                          *)
(***************************************************************************)
EXTENDS MCServices, FiniteSetTheorems, TLAPS

-----------------------------------------------------------------------------

(* The part that runs is the one that was chosen. *)
LEMMA PartStays == [Next]_unionVars => part' = part
BY DEF Next, unionVars,
       OnlyTrade, OnlyLog, OnlyReplay, OnlyWorkers, OnlySch, OnlyRc, OnlyLsn, OnlyMany,
       OnlyErr, OnlySub, OnlyShare, OnlyApf, OnlyDirect, OnlyNested, OnlyAll

-----------------------------------------------------------------------------
(* The trading lines *)

(* The queue of operations, of which the same module proves, is not among the
   parts: it has no caller and stands still. *)
TradeP == INSTANCE QueueProofs WITH
       Mgrs <- {"a", "o"}, Lines <- {"a1", "o1"},
       MgrOf <- [l \in {"a1", "o1"} |-> IF l = "a1" THEN "a" ELSE "o"],
       OfferOf <- [m \in {"a", "o"} |-> IF m = "a" THEN "o" ELSE "none"],
       NoMgr <- "none", NoLine <- "none", NoRequest <- "none",
       Requests <- {"r1", "r2", "r3"}, Deletes <- {"r3"}, Bad <- {"r2"},
       NotFor <- {}, MaxBreaks <- 2, lines <- trade_lines, queue <- trade_queue,
       flow <- trade_flow, loop <- trade_loop, working <- trade_working,
       notices <- trade_notices, lineSt <- trade_lineSt, tell <- trade_tell,
       fate <- trade_fate, by <- trade_by, came <- trade_came,
       unheard <- trade_unheard, breaks <- trade_breaks,
       Callers <- {}, Pool <- {}, Kinds <- {}, MaxTasks <- 0, MaxDirect <- 0,
       state <- "Sleeping", taking <- "none", workingKind <- {}, countGetter <- 0,
       tasks <- <<>>, batch <- <<>>, calls <- 0, direct <- 0, posting <- {},
       inplace <- {}, waitFor <- <<>>, done <- <<>>

(* In the queue of requests nothing is renamed. *)
LEMMA SameTrade ==
  /\ Trade!TradeInit = TradeP!TradeInit
  /\ Trade!TradeNext = TradeP!TradeNext
  /\ Trade!tradeVars = TradeP!tradeVars
  /\ Trade!EachAtOnePlace = TradeP!EachAtOnePlace
  /\ Trade!InOrder = TradeP!InOrder
  /\ Trade!SomeoneWillSend = TradeP!SomeoneWillSend
  /\ Trade!HelpsOne = TradeP!HelpsOne
BY DEF Trade!TradeInit, TradeP!TradeInit, Trade!TradeNext, TradeP!TradeNext, Trade!tradeVars,
       TradeP!tradeVars, Trade!EachAtOnePlace, TradeP!EachAtOnePlace, Trade!InOrder,
       TradeP!InOrder, Trade!SomeoneWillSend, TradeP!SomeoneWillSend, Trade!HelpsOne,
       TradeP!HelpsOne, Trade!Goes, TradeP!Goes, Trade!SendRequest, TradeP!SendRequest,
       Trade!Tells, TradeP!Tells, Trade!Connect, TradeP!Connect, Trade!Break, TradeP!Break,
       Trade!Reject, TradeP!Reject, Trade!lineVars, TradeP!lineVars, Trade!ToSet, TradeP!ToSet,
       Trade!IsInjective, TradeP!IsInjective, Trade!OwnLineCalls, TradeP!OwnLineCalls,
       Trade!OfferCalls, TradeP!OfferCalls, Trade!SendFront, TradeP!SendFront,
       Trade!EmitOnTimer, TradeP!EmitOnTimer, Trade!SendReqQueue, TradeP!SendReqQueue,
       Trade!OnWorkingRequestDone, TradeP!OnWorkingRequestDone, Trade!Unlocked,
       TradeP!Unlocked, Trade!ByLinesOrHelper, TradeP!ByLinesOrHelper, Trade!Applied,
       TradeP!Applied, Trade!Fate, TradeP!Fate, Trade!Without, TradeP!Without,
       Trade!OnTradingLineReady, TradeP!OnTradingLineReady, Trade!OnTradingLineBroken,
       TradeP!OnTradingLineBroken, Trade!BusyEnds, TradeP!BusyEnds, Trade!FlowEnds,
       TradeP!FlowEnds, Trade!LineStep, TradeP!LineStep, Trade!LoopEnds, TradeP!LoopEnds,
       Trade!NewLineReady, TradeP!NewLineReady, Trade!Notify, TradeP!Notify, Trade!NotAsked,
       TradeP!NotAsked, Trade!AskFor, TradeP!AskFor, Trade!Joined, TradeP!Joined,
       Trade!ByLinesOnly, TradeP!ByLinesOnly, Trade!RemoveAt, TradeP!RemoveAt,
       Trade!IsSendable, TradeP!IsSendable, Trade!ClearReqQueue, TradeP!ClearReqQueue,
       Trade!Askers, TradeP!Askers, Trade!Outcome, TradeP!Outcome, Trade!Verdict,
       TradeP!Verdict

(* In its part the queue of requests is at work. *)
LEMMA OnlyTradeWorks ==
  /\ (part = "trading") /\ Init => TradeP!TradeInit
  /\ (part = "trading") /\ [Next]_unionVars => [TradeP!TradeNext]_(TradeP!tradeVars) /\ (part = "trading")'
  /\ ~(part = "trading") /\ [Next]_unionVars => (~(part = "trading"))'
<1>1. (part = "trading") /\ Init => TradeP!TradeInit
  BY SameTrade DEF Init
<1>2. (part = "trading") /\ Next => TradeP!TradeNext
  BY SameTrade DEF Next,
         OnlyTrade, OnlyLog, OnlyReplay, OnlyWorkers, OnlySch, OnlyRc, OnlyLsn, OnlyMany,
         OnlyErr, OnlySub, OnlyShare, OnlyApf, OnlyDirect, OnlyNested, OnlyAll
<1>3. UNCHANGED unionVars => UNCHANGED TradeP!tradeVars
  BY DEF unionVars, tradeVars, TradeP!tradeVars, TradeP!lineVars
<1> QED
  BY <1>1, <1>2, <1>3, PartStays

(* The queue that stands still has nobody, and each of the two managers has a line. *)
LEMMA TradersAreOK == TradeP!ConstantsAssumption /\ TradeP!TradeOK
<1>1. IsFiniteSet({})
  BY FS_EmptySet
<1>2. TradeP!IsFiniteSet({})
  BY <1>1 DEF IsFiniteSet, TradeP!IsFiniteSet
<1>3. TradeP!ConstantsAssumption
  BY <1>2 DEF TradeP!ConstantsAssumption
<1>4. TradeP!TradeOK
  BY DEF TradeP!TradeOK
<1> QED
  BY <1>3, <1>4

(* A request to trade is at one place and is not overtaken while it waits; a queue is
   never left with nobody to send it, unless the offer dropped a line unheard
   (TradingLineManager, LocalHelper). *)
THEOREM TradingAlwaysInOrder == Spec => []TradingOnceInOrder
<1>1. TradeP!TradeSpec => []TradeP!EachAtOnePlace /\ []TradeP!InOrder /\ []TradeP!SomeoneWillSend
  BY TradersAreOK, TradeP!RequestsAtOnePlace, TradeP!RequestsInOrder, TradeP!SomeoneAlwaysSends
<1>2. (part = "trading") /\ TradeP!EachAtOnePlace /\ TradeP!InOrder /\ TradeP!SomeoneWillSend => TradingOnceInOrder
  BY SameTrade DEF TradingOnceInOrder
<1>3. ~(part = "trading") => TradingOnceInOrder
  BY DEF TradingOnceInOrder
<1> QED
  BY <1>1, <1>2, <1>3, OnlyTradeWorks, PTL DEF Spec, TradeP!TradeSpec

(* An offer sends for others one request at a time (LocalHelpOfferEvHandler1). *)
THEOREM TradingAlwaysHelpsOne == Spec => TradingHelpsOne
<1>1. TradeP!TradeSpec => [][TradeP!HelpsOne]_(TradeP!tradeVars)
  BY TradersAreOK, TradeP!HelpsOneRequest
<1>2. [TradeP!HelpsOne]_(TradeP!tradeVars) => [Trade!HelpsOne]_tradeVars
  BY SameTrade DEF tradeVars, TradeP!tradeVars, TradeP!lineVars
<1>3. ~(part = "trading") /\ [Next]_unionVars => [Trade!HelpsOne]_tradeVars
  BY DEF Next, unionVars,
         OnlyTrade, OnlyLog, OnlyReplay, OnlyWorkers, OnlySch, OnlyRc, OnlyLsn, OnlyMany,
         OnlyErr, OnlySub, OnlyShare, OnlyApf, OnlyDirect, OnlyNested, OnlyAll
<1> QED
  BY <1>1, <1>2, <1>3, OnlyTradeWorks, PTL DEF Spec, TradingHelpsOne, TradeP!TradeSpec

-----------------------------------------------------------------------------
(* The replay of FIX messages *)

(* The recorder, of which the same module proves, is not among the parts: it
   stands still, in a state of no matter. *)
ReplayP == INSTANCE FixRecordProofs WITH
       MaxSent <- 4, MaxReplays <- 2, file <- replay_file,
       nextSend <- replay_nextSend, isReplayingAll <- replay_isReplayingAll,
       line <- replay_line, pc <- replay_pc, begin <- replay_begin,
       pos <- replay_pos, sendBuf <- replay_sendBuf, from <- replay_from,
       hidden <- replay_hidden, replays <- replay_replays,
       MaxSeq <- 1, MaxLines <- 0, MaxStarts <- 0, disk <- <<>>, queue <- <<>>,
       nextSendSeq <- 1, nextRecvSeq <- 1, up <- FALSE, sending <- 0, onLine <- {},
       starts <- 0

(* In the replay of FIX messages nothing is renamed. *)
LEMMA SameReplay ==
  /\ Replay!Init = ReplayP!Init
  /\ Replay!Next = ReplayP!Next
  /\ Replay!vars = ReplayP!vars
  /\ Replay!NoGapOnTheLine = ReplayP!NoGapOnTheLine
BY DEF Replay!Init, ReplayP!Init, Replay!Next, ReplayP!Next, Replay!vars, ReplayP!vars,
       Replay!NoGapOnTheLine, ReplayP!NoGapOnTheLine, Replay!Types, ReplayP!Types,
       Replay!AppSend, ReplayP!AppSend, Replay!SequenceReset, ReplayP!SequenceReset,
       Replay!ReplayStart, ReplayP!ReplayStart, Replay!ReloadStart, ReplayP!ReloadStart,
       Replay!ReloadNext, ReplayP!ReloadNext, Replay!ReplayEnd, ReplayP!ReplayEnd,
       Replay!LineComplete, ReplayP!LineComplete, Replay!Send, ReplayP!Send, Replay!Found,
       ReplayP!Found, Replay!Reload, ReplayP!Reload, Replay!Min, ReplayP!Min, Replay!Sent,
       ReplayP!Sent, Replay!Joined, ReplayP!Joined, Replay!ExpectedAt, ReplayP!ExpectedAt,
       Replay!Max, ReplayP!Max

(* In its part the replay of FIX messages is at work. *)
LEMMA OnlyReplayWorks ==
  /\ (part = "replay") /\ Init => ReplayP!Init
  /\ (part = "replay") /\ [Next]_unionVars => [ReplayP!Next]_(ReplayP!vars) /\ (part = "replay")'
  /\ ~(part = "replay") /\ [Next]_unionVars => (~(part = "replay"))'
<1>1. (part = "replay") /\ Init => ReplayP!Init
  BY SameReplay DEF Init
<1>2. (part = "replay") /\ Next => ReplayP!Next
  BY SameReplay DEF Next,
         OnlyTrade, OnlyLog, OnlyReplay, OnlyWorkers, OnlySch, OnlyRc, OnlyLsn, OnlyMany,
         OnlyErr, OnlySub, OnlyShare, OnlyApf, OnlyDirect, OnlyNested, OnlyAll
<1>3. UNCHANGED unionVars => UNCHANGED ReplayP!vars
  BY DEF unionVars, replayVars, ReplayP!vars
<1> QED
  BY <1>1, <1>2, <1>3, PartStays

(* The bounds of a recorder are numbers. *)
LEMMA RecorderIsOK == ReplayP!RecorderAssumption
BY DEF ReplayP!RecorderAssumption

(* From the first message of a replay on, the line has neither a gap nor an overlap
   (FixSender::Replay with senders in other threads). *)
THEOREM LineHasNoGap == Spec => []ReplayLeavesNoGap
<1>1. ReplayP!Spec => []ReplayP!NoGapOnTheLine
  BY RecorderIsOK, ReplayP!LineHasNoGap
<1>2. (part = "replay") /\ ReplayP!NoGapOnTheLine => ReplayLeavesNoGap
  BY SameReplay DEF ReplayLeavesNoGap
<1>3. ~(part = "replay") => ReplayLeavesNoGap
  BY DEF ReplayLeavesNoGap
<1> QED
  BY <1>1, <1>2, <1>3, OnlyReplayWorks, PTL DEF Spec, ReplayP!Spec

-----------------------------------------------------------------------------
(* The sessions of the rc server *)

RcP == INSTANCE RcLogonProofs WITH
       Sessions <- {"s1", "s2"}, MaxChanges <- 1, Policies <- Policies,
       link <- rc_link, closing <- rc_closing, st <- rc_st, proto <- rc_proto,
       note <- rc_note, online <- rc_online, policy <- rc_policy,
       changes <- rc_changes, limit <- rc_limit, table <- rc_table,
       count <- rc_count, kicks <- rc_kicks, pc <- rc_pc, verdict <- rc_verdict,
       served <- rc_served

(* In the sessions of the rc server nothing is renamed. *)
LEMMA SameRc ==
  /\ Rc!Init = RcP!Init
  /\ Rc!Next = RcP!Next
  /\ Rc!rcVars = RcP!rcVars
  /\ Rc!PlacesAreCounted = RcP!PlacesAreCounted
  /\ Rc!NoPlaceForTheGone = RcP!NoPlaceForTheGone
  /\ Rc!OnlineHasAPlace = RcP!OnlineHasAPlace
  /\ Rc!ServedIfAllowed = RcP!ServedIfAllowed
BY DEF Rc!Init, RcP!Init, Rc!Next, RcP!Next, Rc!rcVars, RcP!rcVars, Rc!PlacesAreCounted,
       RcP!PlacesAreCounted, Rc!NoPlaceForTheGone, RcP!NoPlaceForTheGone, Rc!OnlineHasAPlace,
       RcP!OnlineHasAPlace, Rc!ServedIfAllowed, RcP!ServedIfAllowed, Rc!ChangePolicy,
       RcP!ChangePolicy, Rc!OnDeviceLinkReady, RcP!OnDeviceLinkReady, Rc!Receives,
       RcP!Receives, Rc!OnCommonTimer, RcP!OnCommonTimer, Rc!Goes, RcP!Goes, Rc!Reject,
       RcP!Reject, Rc!LinkBroken, RcP!LinkBroken, Rc!Cardinality, RcP!Cardinality, Rc!Places,
       RcP!Places, Rc!Leaving, RcP!Leaving, Rc!SetSt, RcP!SetSt, Rc!tableVars, RcP!tableVars,
       Rc!CheckProtocolVersion, RcP!CheckProtocolVersion, Rc!NotReady, RcP!NotReady,
       Rc!RecvConnection, RcP!RecvConnection, Rc!RecvLogout, RcP!RecvLogout, Rc!RecvCall,
       RcP!RecvCall, Rc!RecvSaslFirst, RcP!RecvSaslFirst, Rc!RecvSaslNext, RcP!RecvSaslNext,
       Rc!Idle, RcP!Idle, Rc!ForceLogout, RcP!ForceLogout, Rc!CheckLogon, RcP!CheckLogon,
       Rc!ForceLogoutOld, RcP!ForceLogoutOld, Rc!OnSaslDone, RcP!OnSaslDone,
       Rc!OnLogonClientClosed, RcP!OnLogonClientClosed, Rc!ToSet, RcP!ToSet, Rc!policyVars,
       RcP!policyVars, Rc!Hears, RcP!Hears, Rc!Below, RcP!Below, Rc!Deafen, RcP!Deafen,
       Rc!Parsed, RcP!Parsed, Rc!Challenge, RcP!Challenge, Rc!SaslFails, RcP!SaslFails,
       Rc!TooMany, RcP!TooMany, Rc!MakePlace, RcP!MakePlace, Rc!SaslSt, RcP!SaslSt,
       Rc!RemoveAt, RcP!RemoveAt, Rc!Rank, RcP!Rank, Rc!States, RcP!States

(* In its part the sessions of the rc server is at work. *)
LEMMA OnlyRcWorks ==
  /\ (part = "rc") /\ Init => RcP!Init
  /\ (part = "rc") /\ [Next]_unionVars => [RcP!Next]_(RcP!rcVars) /\ (part = "rc")'
  /\ ~(part = "rc") /\ [Next]_unionVars => (~(part = "rc"))'
<1>1. (part = "rc") /\ Init => RcP!Init
  BY SameRc DEF Init
<1>2. (part = "rc") /\ Next => RcP!Next
  BY SameRc DEF Next,
         OnlyTrade, OnlyLog, OnlyReplay, OnlyWorkers, OnlySch, OnlyRc, OnlyLsn, OnlyMany,
         OnlyErr, OnlySub, OnlyShare, OnlyApf, OnlyDirect, OnlyNested, OnlyAll
<1>3. UNCHANGED unionVars => UNCHANGED RcP!rcVars
  BY DEF unionVars, rcVars, RcP!rcVars, RcP!policyVars, RcP!tableVars
<1> QED
  BY <1>1, <1>2, <1>3, PartStays

(* The policies are some that an administrator may set. *)
LEMMA PoliciesAreOK == RcP!PoliciesOK
BY DEF RcP!PoliciesOK, Policies

(* A user has as many sessions online as the policy allowed, each with its place; one
   that is gone has none, and calls are served for those that were allowed only
   (PoDupLogonTree, RcSession, RcFuncConnServer). *)
THEOREM RcPlacesAlwaysKept == Spec => []RcPlacesKept
<1>1. RcP!Spec => []RcP!PlacesAreCounted /\ []RcP!NoPlaceForTheGone /\ []RcP!OnlineHasAPlace /\ []RcP!ServedIfAllowed
  BY PoliciesAreOK, RcP!PlacesAreCountedAlways, RcP!NoPlaceForTheGoneAlways, RcP!OnlineHasAPlaceAlways, RcP!ServedIfAllowedAlways
<1>2. (part = "rc") /\ RcP!PlacesAreCounted /\ RcP!NoPlaceForTheGone /\ RcP!OnlineHasAPlace /\ RcP!ServedIfAllowed => RcPlacesKept
  BY SameRc DEF RcPlacesKept
<1>3. ~(part = "rc") => RcPlacesKept
  BY DEF RcPlacesKept
<1> QED
  BY <1>1, <1>2, <1>3, OnlyRcWorks, PTL DEF Spec, RcP!Spec

-----------------------------------------------------------------------------
(* The pool of threads *)

(* The pool and the schedule have one module of proofs. *)
ThreadP == INSTANCE ThreadProofs WITH
       Threads <- {"w1", "w2", "w3"}, Ender <- "e", Tasks <- {"x1", "x2"},
       Rounds <- 1, Timed <- FALSE, ExitHandler <- TRUE, state <- workers_state,
       queue <- workers_queue, running <- workers_running, at <- workers_at,
       hand <- workers_hand, timed <- workers_timed, plan <- workers_plan,
       pc <- workers_pc, left <- workers_left, rounds <- workers_rounds,
       latch <- workers_latch, asked <- workers_asked, came <- workers_came,
       took <- workers_took, done <- workers_done,
       WeekdayCount <- 2, DaySeconds <- 3, Delays <- {1, 3}, MaxTime <- 6,
       MaxCalls <- 2, now <- sch_now, cfg <- sch_cfg, schSt <- sch_schSt,
       due <- sch_due, emit <- sch_emit, call <- sch_call, calls <- sch_calls,
       told <- sch_told, again <- sch_again

(* In the pool of threads nothing is renamed. *)
LEMMA SameWorkers ==
  /\ Workers!Init = ThreadP!Init
  /\ Workers!Next = ThreadP!Next
  /\ Workers!poolVars = ThreadP!poolVars
  /\ Workers!TakenInOrder = ThreadP!TakenInOrder
  /\ Workers!NobodySleepsBesideWork = ThreadP!NobodySleepsBesideWork
  /\ Workers!EnderIsTold = ThreadP!EnderIsTold
  /\ Workers!DoneWhenEnded = ThreadP!DoneWhenEnded
BY DEF Workers!Init, ThreadP!Init, Workers!Next, ThreadP!Next, Workers!poolVars,
       ThreadP!poolVars, Workers!TakenInOrder, ThreadP!TakenInOrder,
       Workers!NobodySleepsBesideWork, ThreadP!NobodySleepsBesideWork, Workers!EnderIsTold,
       ThreadP!EnderIsTold, Workers!DoneWhenEnded, ThreadP!DoneWhenEnded, Workers!Nothing,
       ThreadP!Nothing, Workers!StartThread, ThreadP!StartThread, Workers!AddTask,
       ThreadP!AddTask, Workers!Wakes, ThreadP!Wakes, Workers!Works, ThreadP!Works,
       Workers!BeginEnd, ThreadP!BeginEnd, Workers!Ends, ThreadP!Ends, Workers!NotifyForEndNow,
       ThreadP!NotifyForEndNow, Workers!InHand, ThreadP!InHand, Workers!Barrier,
       ThreadP!Barrier, Workers!Waiting, ThreadP!Waiting, Workers!Cardinality,
       ThreadP!Cardinality, Workers!Ready, ThreadP!Ready, Workers!Open, ThreadP!Open,
       Workers!Accepted, ThreadP!Accepted, Workers!endVars, ThreadP!endVars,
       Workers!EmplaceMessage, ThreadP!EmplaceMessage, Workers!Take, ThreadP!Take,
       Workers!Wait, ThreadP!Wait, Workers!EndThread, ThreadP!EndThread, Workers!OnMessage,
       ThreadP!OnMessage, Workers!EnderAt, ThreadP!EnderAt, Workers!AllWoken, ThreadP!AllWoken,
       Workers!CheckState, ThreadP!CheckState, Workers!PostBarrier, ThreadP!PostBarrier,
       Workers!WaitBarrier, ThreadP!WaitBarrier, Workers!RoundEnds, ThreadP!RoundEnds,
       Workers!WaitForEnd, ThreadP!WaitForEnd, Workers!WaitsOn, ThreadP!WaitsOn,
       Workers!WaitThreadJoin, ThreadP!WaitThreadJoin, Workers!HandleRest, ThreadP!HandleRest,
       Workers!NotifyForEnd, ThreadP!NotifyForEnd, Workers!CheckNotify, ThreadP!CheckNotify,
       Workers!Arrive, ThreadP!Arrive, Workers!NextRound, ThreadP!NextRound, Workers!NotifyOne,
       ThreadP!NotifyOne

(* In its part the pool of threads is at work. *)
LEMMA OnlyWorkersWorks ==
  /\ (part = "pool") /\ Init => ThreadP!Init
  /\ (part = "pool") /\ [Next]_unionVars => [ThreadP!Next]_(ThreadP!poolVars) /\ (part = "pool")'
  /\ ~(part = "pool") /\ [Next]_unionVars => (~(part = "pool"))'
<1>1. (part = "pool") /\ Init => ThreadP!Init
  BY SameWorkers DEF Init
<1>2. (part = "pool") /\ Next => ThreadP!Next
  BY SameWorkers DEF Next,
         OnlyTrade, OnlyLog, OnlyReplay, OnlyWorkers, OnlySch, OnlyRc, OnlyLsn, OnlyMany,
         OnlyErr, OnlySub, OnlyShare, OnlyApf, OnlyDirect, OnlyNested, OnlyAll
<1>3. UNCHANGED unionVars => UNCHANGED ThreadP!poolVars
  BY DEF unionVars, workersVars, ThreadP!poolVars
<1> QED
  BY <1>1, <1>2, <1>3, PartStays

(* The pool has three threads, and none of them ends it. *)
LEMMA PoolIsOK == ThreadP!PoolOK
<1>1. IsFiniteSet({"w1", "w2", "w3"})
  <2>1. IsFiniteSet({"w1"})
    BY FS_Singleton
  <2>2. IsFiniteSet({"w1"} \cup {"w2"})
    BY <2>1, FS_AddElement
  <2>3. IsFiniteSet(({"w1"} \cup {"w2"}) \cup {"w3"})
    BY <2>2, FS_AddElement
  <2>4. ({"w1"} \cup {"w2"}) \cup {"w3"} = {"w1", "w2", "w3"}
    OBVIOUS
  <2> QED
    BY <2>3, <2>4
<1>2. ThreadP!IsFiniteSet({"w1", "w2", "w3"})
  BY <1>1 DEF IsFiniteSet, ThreadP!IsFiniteSet
<1> QED
  BY <1>2 DEF ThreadP!PoolOK, ThreadP!Barrier, ThreadP!Nothing

(* Messages are taken in order, each once; none waits beside threads that all sleep;
   the one that ends the pool is told, and nothing accepted is forgotten (MessageQueue,
   ThreadController, WaitDefaultThreadPoolQuit). *)
THEOREM PoolAlwaysTakesAll == Spec => []PoolTakesAll
<1>1. ThreadP!Spec => []ThreadP!TakenInOrder /\ []ThreadP!NobodySleepsBesideWork /\ []ThreadP!EnderIsTold /\ []ThreadP!DoneWhenEnded
  BY PoolIsOK, ThreadP!MessagesInOrder, ThreadP!WorkHasAThread, ThreadP!EnderIsAlwaysTold, ThreadP!AcceptedIsDone
<1>2. (part = "pool") /\ ThreadP!TakenInOrder /\ ThreadP!NobodySleepsBesideWork /\ ThreadP!EnderIsTold /\ ThreadP!DoneWhenEnded => PoolTakesAll
  BY SameWorkers DEF PoolTakesAll
<1>3. ~(part = "pool") => PoolTakesAll
  BY DEF PoolTakesAll
<1> QED
  BY <1>1, <1>2, <1>3, OnlyWorkersWorks, PTL DEF Spec, ThreadP!Spec

-----------------------------------------------------------------------------
(* The schedule *)

(* In the schedule nothing is renamed. *)
LEMMA SameSch ==
  /\ Sch!SchInit = ThreadP!SchInit
  /\ Sch!SchNext = ThreadP!SchNext
  /\ Sch!schVars = ThreadP!schVars
  /\ Sch!CheckIsRight = ThreadP!CheckIsRight
  /\ Sch!ToldWhatIs = ThreadP!ToldWhatIs
  /\ Sch!ToldOfChanges = ThreadP!ToldOfChanges
  /\ Sch!StoppedIsQuiet = ThreadP!StoppedIsQuiet
BY DEF Sch!SchInit, ThreadP!SchInit, Sch!SchNext, ThreadP!SchNext, Sch!schVars,
       ThreadP!schVars, Sch!CheckIsRight, ThreadP!CheckIsRight, Sch!ToldWhatIs,
       ThreadP!ToldWhatIs, Sch!ToldOfChanges, ThreadP!ToldOfChanges, Sch!StoppedIsQuiet,
       ThreadP!StoppedIsQuiet, Sch!Configs, ThreadP!Configs, Sch!Idle, ThreadP!Idle, Sch!Tick,
       ThreadP!Tick, Sch!TimerThread, ThreadP!TimerThread, Sch!Owner, ThreadP!Owner,
       Sch!StartCalled, ThreadP!StartCalled, Sch!Restart, ThreadP!Restart, Sch!StopCalled,
       ThreadP!StopCalled, Sch!ChecksRight, ThreadP!ChecksRight, Sch!InSchedule,
       ThreadP!InSchedule, Sch!NoEndTime, ThreadP!NoEndTime, Sch!Start, ThreadP!Start,
       Sch!TimerCalls, ThreadP!TimerCalls, Sch!EmitOnTimer, ThreadP!EmitOnTimer,
       Sch!OnStateChanged, ThreadP!OnStateChanged, Sch!StopWaits, ThreadP!StopWaits,
       Sch!NextCall, ThreadP!NextCall, Sch!NextCheck, ThreadP!NextCheck, Sch!IsIn,
       ThreadP!IsIn, Sch!DayOf, ThreadP!DayOf, Sch!IsOn, ThreadP!IsOn, Sch!Lasts,
       ThreadP!Lasts, Sch!IsChanged, ThreadP!IsChanged, Sch!SecOf, ThreadP!SecOf,
       Sch!NextStart, ThreadP!NextStart, Sch!EndsToday, ThreadP!EndsToday, Sch!EndsNextDay,
       ThreadP!EndsNextDay

(* In its part the schedule is at work. *)
LEMMA OnlySchWorks ==
  /\ (part = "sch") /\ Init => ThreadP!SchInit
  /\ (part = "sch") /\ [Next]_unionVars => [ThreadP!SchNext]_(ThreadP!schVars) /\ (part = "sch")'
  /\ ~(part = "sch") /\ [Next]_unionVars => (~(part = "sch"))'
<1>1. (part = "sch") /\ Init => ThreadP!SchInit
  BY SameSch DEF Init
<1>2. (part = "sch") /\ Next => ThreadP!SchNext
  BY SameSch DEF Next,
         OnlyTrade, OnlyLog, OnlyReplay, OnlyWorkers, OnlySch, OnlyRc, OnlyLsn, OnlyMany,
         OnlyErr, OnlySub, OnlyShare, OnlyApf, OnlyDirect, OnlyNested, OnlyAll
<1>3. UNCHANGED unionVars => UNCHANGED ThreadP!schVars
  BY DEF unionVars, schVars, ThreadP!schVars
<1> QED
  BY <1>1, <1>2, <1>3, PartStays

(* The week has days and the days have seconds. *)
LEMMA WeekIsOK == ThreadP!WeekOK
BY DEF ThreadP!WeekOK

(* The schedule looks again at every change, and its owner was told what it says, of
   changes only, and nothing after a stop (SchConfig::Check, SchTask). *)
THEOREM SchAlwaysTellsRight == Spec => []SchTellsRight
<1>1. ThreadP!SchSpec => []ThreadP!CheckIsRight /\ []ThreadP!ToldWhatIs /\ []ThreadP!ToldOfChanges /\ []ThreadP!StoppedIsQuiet
  BY WeekIsOK, ThreadP!CheckIsAlwaysRight, ThreadP!OwnerIsToldWhatIs, ThreadP!OnlyChangesAreTold, ThreadP!StoppedStaysQuiet
<1>2. (part = "sch") /\ ThreadP!CheckIsRight /\ ThreadP!ToldWhatIs /\ ThreadP!ToldOfChanges /\ ThreadP!StoppedIsQuiet => SchTellsRight
  BY SameSch DEF SchTellsRight
<1>3. ~(part = "sch") => SchTellsRight
  BY DEF SchTellsRight
<1> QED
  BY <1>1, <1>2, <1>3, OnlySchWorks, PTL DEF Spec, ThreadP!SchSpec

-----------------------------------------------------------------------------
(* The server *)

LsnP == INSTANCE ListenerProofs WITH
       MaxClients <- 2, Capacity <- 1, MaxListeners <- 2, MaxOps <- 2,
       CloseBySeq <- TRUE, srvState <- lsn_srvState, ops <- lsn_ops,
       current <- lsn_current, made <- lsn_made, disp <- lsn_disp,
       isDisposing <- lsn_isDisposing, heard <- lsn_heard, clients <- lsn_clients,
       loop <- lsn_loop, dev <- lsn_dev, asked <- lsn_asked,
       crossed <- lsn_crossed, misused <- lsn_misused

(* In the server with two listeners nothing is renamed. *)
LEMMA SameLsn ==
  /\ Lsn!Init = LsnP!Init
  /\ Lsn!Next = LsnP!Next
  /\ Lsn!lsnVars = LsnP!lsnVars
  /\ Lsn!ListIsExact = LsnP!ListIsExact
  /\ Lsn!OneListens = LsnP!OneListens
  /\ Lsn!NobodyIsLeftBehind = LsnP!NobodyIsLeftBehind
  /\ Lsn!FreedWhenUnused = LsnP!FreedWhenUnused
BY DEF Lsn!Init, LsnP!Init, Lsn!Next, LsnP!Next, Lsn!lsnVars, LsnP!lsnVars, Lsn!ListIsExact,
       LsnP!ListIsExact, Lsn!OneListens, LsnP!OneListens, Lsn!NobodyIsLeftBehind,
       LsnP!NobodyIsLeftBehind, Lsn!FreedWhenUnused, LsnP!FreedWhenUnused, Lsn!Quiet,
       LsnP!Quiet, Lsn!Listeners, LsnP!Listeners, Lsn!NoLoop, LsnP!NoLoop, Lsn!Clients,
       LsnP!Clients, Lsn!NoDevice, LsnP!NoDevice, Lsn!Command, LsnP!Command, Lsn!TimerReopens,
       LsnP!TimerReopens, Lsn!Server, LsnP!Server, Lsn!OnFdrEvent, LsnP!OnFdrEvent,
       Lsn!ListenError, LsnP!ListenError, Lsn!AcceptLoop, LsnP!AcceptLoop, Lsn!Connects,
       LsnP!Connects, Lsn!PeerCloses, LsnP!PeerCloses, Lsn!RunTask, LsnP!RunTask,
       Lsn!SocketError, LsnP!SocketError, Lsn!LastSent, LsnP!LastSent, Lsn!SessionCloses,
       LsnP!SessionCloses, Lsn!serverVars, LsnP!serverVars, Lsn!listenerVars,
       LsnP!listenerVars, Lsn!ToSet, LsnP!ToSet, Lsn!Early, LsnP!Early, Lsn!Commands,
       LsnP!Commands, Lsn!Opens, LsnP!Opens, Lsn!OtherTask, LsnP!OtherTask, Lsn!SwapClients,
       LsnP!SwapClients, Lsn!DisposeEach, LsnP!DisposeEach, Lsn!AfterDispose,
       LsnP!AfterDispose, Lsn!Waiting, LsnP!Waiting, Lsn!Accept, LsnP!Accept, Lsn!AddToList,
       LsnP!AddToList, Lsn!AddRef, LsnP!AddRef, Lsn!InitializeAndOpen, LsnP!InitializeAndOpen,
       Lsn!LogAccepted, LsnP!LogAccepted, Lsn!TellError, LsnP!TellError, Lsn!Alive, LsnP!Alive,
       Lsn!After, LsnP!After, Lsn!Released, LsnP!Released, Lsn!Leaves, LsnP!Leaves,
       Lsn!RemoveAcceptedClient, LsnP!RemoveAcceptedClient, Lsn!Posted, LsnP!Posted, Lsn!Post,
       LsnP!Post, Lsn!DisposesFor, LsnP!DisposesFor, Lsn!DisposeListener, LsnP!DisposeListener,
       Lsn!SetBroken, LsnP!SetBroken, Lsn!BeingAccepted, LsnP!BeingAccepted, Lsn!HasRoom,
       LsnP!HasRoom, Lsn!NextSeq, LsnP!NextSeq, Lsn!Found, LsnP!Found, Lsn!RemoveAt,
       LsnP!RemoveAt, Lsn!Last, LsnP!Last

(* In its part the server with two listeners is at work. *)
LEMMA OnlyLsnWorks ==
  /\ (part = "listen") /\ Init => LsnP!Init
  /\ (part = "listen") /\ [Next]_unionVars => [LsnP!Next]_(LsnP!lsnVars) /\ (part = "listen")'
  /\ ~(part = "listen") /\ [Next]_unionVars => (~(part = "listen"))'
<1>1. (part = "listen") /\ Init => LsnP!Init
  BY SameLsn DEF Init
<1>2. (part = "listen") /\ Next => LsnP!Next
  BY SameLsn DEF Next,
         OnlyTrade, OnlyLog, OnlyReplay, OnlyWorkers, OnlySch, OnlyRc, OnlyLsn, OnlyMany,
         OnlyErr, OnlySub, OnlyShare, OnlyApf, OnlyDirect, OnlyNested, OnlyAll
<1>3. UNCHANGED unionVars => UNCHANGED LsnP!lsnVars
  BY DEF unionVars, lsnVars, LsnP!lsnVars, LsnP!serverVars, LsnP!listenerVars
<1> QED
  BY <1>1, <1>2, <1>3, PartStays

ManyP == INSTANCE ListenerProofs WITH
       MaxClients <- 3, Capacity <- 2, MaxListeners <- 1, MaxOps <- 1,
       CloseBySeq <- FALSE, srvState <- lsn_srvState, ops <- lsn_ops,
       current <- lsn_current, made <- lsn_made, disp <- lsn_disp,
       isDisposing <- lsn_isDisposing, heard <- lsn_heard, clients <- lsn_clients,
       loop <- lsn_loop, dev <- lsn_dev, asked <- lsn_asked,
       crossed <- lsn_crossed, misused <- lsn_misused

(* In the server with three clients nothing is renamed. *)
LEMMA SameMany ==
  /\ Many!Init = ManyP!Init
  /\ Many!Next = ManyP!Next
  /\ Many!lsnVars = ManyP!lsnVars
  /\ Many!ListIsExact = ManyP!ListIsExact
  /\ Many!NobodyIsLeftBehind = ManyP!NobodyIsLeftBehind
  /\ Many!FreedWhenUnused = ManyP!FreedWhenUnused
BY DEF Many!Init, ManyP!Init, Many!Next, ManyP!Next, Many!lsnVars, ManyP!lsnVars,
       Many!ListIsExact, ManyP!ListIsExact, Many!NobodyIsLeftBehind, ManyP!NobodyIsLeftBehind,
       Many!FreedWhenUnused, ManyP!FreedWhenUnused, Many!Quiet, ManyP!Quiet, Many!Listeners,
       ManyP!Listeners, Many!NoLoop, ManyP!NoLoop, Many!Clients, ManyP!Clients, Many!NoDevice,
       ManyP!NoDevice, Many!Command, ManyP!Command, Many!TimerReopens, ManyP!TimerReopens,
       Many!Server, ManyP!Server, Many!OnFdrEvent, ManyP!OnFdrEvent, Many!ListenError,
       ManyP!ListenError, Many!AcceptLoop, ManyP!AcceptLoop, Many!Connects, ManyP!Connects,
       Many!PeerCloses, ManyP!PeerCloses, Many!RunTask, ManyP!RunTask, Many!SocketError,
       ManyP!SocketError, Many!LastSent, ManyP!LastSent, Many!SessionCloses,
       ManyP!SessionCloses, Many!serverVars, ManyP!serverVars, Many!listenerVars,
       ManyP!listenerVars, Many!ToSet, ManyP!ToSet, Many!Early, ManyP!Early, Many!Commands,
       ManyP!Commands, Many!Opens, ManyP!Opens, Many!OtherTask, ManyP!OtherTask,
       Many!SwapClients, ManyP!SwapClients, Many!DisposeEach, ManyP!DisposeEach,
       Many!AfterDispose, ManyP!AfterDispose, Many!Waiting, ManyP!Waiting, Many!Accept,
       ManyP!Accept, Many!AddToList, ManyP!AddToList, Many!AddRef, ManyP!AddRef,
       Many!InitializeAndOpen, ManyP!InitializeAndOpen, Many!LogAccepted, ManyP!LogAccepted,
       Many!TellError, ManyP!TellError, Many!Alive, ManyP!Alive, Many!After, ManyP!After,
       Many!Released, ManyP!Released, Many!Leaves, ManyP!Leaves, Many!RemoveAcceptedClient,
       ManyP!RemoveAcceptedClient, Many!Posted, ManyP!Posted, Many!Post, ManyP!Post,
       Many!DisposesFor, ManyP!DisposesFor, Many!DisposeListener, ManyP!DisposeListener,
       Many!SetBroken, ManyP!SetBroken, Many!BeingAccepted, ManyP!BeingAccepted, Many!HasRoom,
       ManyP!HasRoom, Many!NextSeq, ManyP!NextSeq, Many!Found, ManyP!Found, Many!RemoveAt,
       ManyP!RemoveAt, Many!Last, ManyP!Last

(* In its part the server with three clients is at work. *)
LEMMA OnlyManyWorks ==
  /\ (part = "accept") /\ Init => ManyP!Init
  /\ (part = "accept") /\ [Next]_unionVars => [ManyP!Next]_(ManyP!lsnVars) /\ (part = "accept")'
  /\ ~(part = "accept") /\ [Next]_unionVars => (~(part = "accept"))'
<1>1. (part = "accept") /\ Init => ManyP!Init
  BY SameMany DEF Init
<1>2. (part = "accept") /\ Next => ManyP!Next
  BY SameMany DEF Next,
         OnlyTrade, OnlyLog, OnlyReplay, OnlyWorkers, OnlySch, OnlyRc, OnlyLsn, OnlyMany,
         OnlyErr, OnlySub, OnlyShare, OnlyApf, OnlyDirect, OnlyNested, OnlyAll
<1>3. UNCHANGED unionVars => UNCHANGED ManyP!lsnVars
  BY DEF unionVars, lsnVars, ManyP!lsnVars, ManyP!serverVars, ManyP!listenerVars
<1> QED
  BY <1>1, <1>2, <1>3, PartStays

ErrP == INSTANCE ListenerProofs WITH
       MaxClients <- 1, Capacity <- 1, MaxListeners <- 2, MaxOps <- 3,
       CloseBySeq <- FALSE, srvState <- lsn_srvState, ops <- lsn_ops,
       current <- lsn_current, made <- lsn_made, disp <- lsn_disp,
       isDisposing <- lsn_isDisposing, heard <- lsn_heard, clients <- lsn_clients,
       loop <- lsn_loop, dev <- lsn_dev, asked <- lsn_asked,
       crossed <- lsn_crossed, misused <- lsn_misused

(* In the server with more errors nothing is renamed. *)
LEMMA SameErr ==
  /\ Err!Init = ErrP!Init
  /\ Err!Next = ErrP!Next
  /\ Err!lsnVars = ErrP!lsnVars
  /\ Err!ListIsExact = ErrP!ListIsExact
  /\ Err!OneListens = ErrP!OneListens
  /\ Err!NobodyIsLeftBehind = ErrP!NobodyIsLeftBehind
BY DEF Err!Init, ErrP!Init, Err!Next, ErrP!Next, Err!lsnVars, ErrP!lsnVars, Err!ListIsExact,
       ErrP!ListIsExact, Err!OneListens, ErrP!OneListens, Err!NobodyIsLeftBehind,
       ErrP!NobodyIsLeftBehind, Err!Quiet, ErrP!Quiet, Err!Listeners, ErrP!Listeners,
       Err!NoLoop, ErrP!NoLoop, Err!Clients, ErrP!Clients, Err!NoDevice, ErrP!NoDevice,
       Err!Command, ErrP!Command, Err!TimerReopens, ErrP!TimerReopens, Err!Server, ErrP!Server,
       Err!OnFdrEvent, ErrP!OnFdrEvent, Err!ListenError, ErrP!ListenError, Err!AcceptLoop,
       ErrP!AcceptLoop, Err!Connects, ErrP!Connects, Err!PeerCloses, ErrP!PeerCloses,
       Err!RunTask, ErrP!RunTask, Err!SocketError, ErrP!SocketError, Err!LastSent,
       ErrP!LastSent, Err!SessionCloses, ErrP!SessionCloses, Err!serverVars, ErrP!serverVars,
       Err!listenerVars, ErrP!listenerVars, Err!ToSet, ErrP!ToSet, Err!Early, ErrP!Early,
       Err!Commands, ErrP!Commands, Err!Opens, ErrP!Opens, Err!OtherTask, ErrP!OtherTask,
       Err!SwapClients, ErrP!SwapClients, Err!DisposeEach, ErrP!DisposeEach, Err!AfterDispose,
       ErrP!AfterDispose, Err!Waiting, ErrP!Waiting, Err!Accept, ErrP!Accept, Err!AddToList,
       ErrP!AddToList, Err!AddRef, ErrP!AddRef, Err!InitializeAndOpen, ErrP!InitializeAndOpen,
       Err!LogAccepted, ErrP!LogAccepted, Err!TellError, ErrP!TellError, Err!Alive, ErrP!Alive,
       Err!After, ErrP!After, Err!Released, ErrP!Released, Err!Leaves, ErrP!Leaves,
       Err!RemoveAcceptedClient, ErrP!RemoveAcceptedClient, Err!Posted, ErrP!Posted, Err!Post,
       ErrP!Post, Err!DisposesFor, ErrP!DisposesFor, Err!DisposeListener, ErrP!DisposeListener,
       Err!SetBroken, ErrP!SetBroken, Err!BeingAccepted, ErrP!BeingAccepted, Err!HasRoom,
       ErrP!HasRoom, Err!NextSeq, ErrP!NextSeq, Err!Found, ErrP!Found, Err!RemoveAt,
       ErrP!RemoveAt, Err!Last, ErrP!Last

(* In its part the server with more errors is at work. *)
LEMMA OnlyErrWorks ==
  /\ (part = "errors") /\ Init => ErrP!Init
  /\ (part = "errors") /\ [Next]_unionVars => [ErrP!Next]_(ErrP!lsnVars) /\ (part = "errors")'
  /\ ~(part = "errors") /\ [Next]_unionVars => (~(part = "errors"))'
<1>1. (part = "errors") /\ Init => ErrP!Init
  BY SameErr DEF Init
<1>2. (part = "errors") /\ Next => ErrP!Next
  BY SameErr DEF Next,
         OnlyTrade, OnlyLog, OnlyReplay, OnlyWorkers, OnlySch, OnlyRc, OnlyLsn, OnlyMany,
         OnlyErr, OnlySub, OnlyShare, OnlyApf, OnlyDirect, OnlyNested, OnlyAll
<1>3. UNCHANGED unionVars => UNCHANGED ErrP!lsnVars
  BY DEF unionVars, lsnVars, ErrP!lsnVars, ErrP!serverVars, ErrP!listenerVars
<1> QED
  BY <1>1, <1>2, <1>3, PartStays

(* The bounds of the servers are numbers. *)
LEMMA ServersAreOK == LsnP!ServerOK /\ ManyP!ServerOK /\ ErrP!ServerOK
BY DEF LsnP!ServerOK, ManyP!ServerOK, ErrP!ServerOK

(* A listener's list is that of its clients, in the order of their numbers and within the
   capacity; one listener is in use, and the server says whether it hears; who is in the
   list when it is disposed of is told to go, and no device is used after it was freed
   (TcpServerBase, FdrTcpListener, DeviceListener). *)
THEOREM ServerAlwaysKeepsItsClients == Spec => []ServerKeepsItsClients
<1>1. LsnP!Spec => []LsnP!ListIsExact /\ []LsnP!OneListens /\ []LsnP!NobodyIsLeftBehind /\ []LsnP!FreedWhenUnused
  BY ServersAreOK, LsnP!ListIsAlwaysExact, LsnP!OneAlwaysListens, LsnP!NobodyIsEverLeftBehind, LsnP!FreedOnlyWhenUnused
<1>2. ManyP!Spec => []ManyP!ListIsExact /\ []ManyP!NobodyIsLeftBehind /\ []ManyP!FreedWhenUnused
  BY ServersAreOK, ManyP!ListIsAlwaysExact, ManyP!NobodyIsEverLeftBehind, ManyP!FreedOnlyWhenUnused
<1>3. ErrP!Spec => []ErrP!ListIsExact /\ []ErrP!OneListens /\ []ErrP!NobodyIsLeftBehind
  BY ServersAreOK, ErrP!ListIsAlwaysExact, ErrP!OneAlwaysListens, ErrP!NobodyIsEverLeftBehind
<1>4. /\ ((part = "listen") => LsnP!ListIsExact /\ LsnP!OneListens /\ LsnP!NobodyIsLeftBehind /\ LsnP!FreedWhenUnused)
      /\ ((part = "accept") => ManyP!ListIsExact /\ ManyP!NobodyIsLeftBehind /\ ManyP!FreedWhenUnused)
      /\ ((part = "errors") => ErrP!ListIsExact /\ ErrP!OneListens /\ ErrP!NobodyIsLeftBehind)
      => ServerKeepsItsClients
  BY SameLsn, SameMany, SameErr DEF ServerKeepsItsClients
<1>5. Spec => []((part = "listen") => LsnP!ListIsExact /\ LsnP!OneListens /\ LsnP!NobodyIsLeftBehind /\ LsnP!FreedWhenUnused)
  BY <1>1, OnlyLsnWorks, PTL DEF Spec, LsnP!Spec
<1>6. Spec => []((part = "accept") => ManyP!ListIsExact /\ ManyP!NobodyIsLeftBehind /\ ManyP!FreedWhenUnused)
  BY <1>2, OnlyManyWorks, PTL DEF Spec, ManyP!Spec
<1>7. Spec => []((part = "errors") => ErrP!ListIsExact /\ ErrP!OneListens /\ ErrP!NobodyIsLeftBehind)
  BY <1>3, OnlyErrWorks, PTL DEF Spec, ErrP!Spec
<1> QED
  BY <1>4, <1>5, <1>6, <1>7, PTL
=============================================================================
