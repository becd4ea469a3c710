---------------------------- MODULE TradingLine ----------------------------
(***************************************************************************)
(* The managers of trading lines (fmkt::TradingLineManager): a request for *)
(* the exchange is sent by a line that is free, kept in the manager's      *)
(* queue while lines are busy or over their flow, or rejected when there   *)
(* is no line; a manager may ask another one of the same host, its offer,  *)
(* to send for it (LocalHelper, LocalHelpOfferEvHandler1).                 *)
(*                                                                         *)
(* Each step is taken under the lock of its manager; the loop over the     *)
(* queue is one step per request, with the lock held between them.  Which  *)
(* of several free lines is taken (LastIndex_, TryLastLine,                *)
(* SelectPreferNextLine) is left open: the lines of a manager are a set.   *)
(***************************************************************************)
EXTENDS Integers, SequencesExt

CONSTANTS Mgrs, Lines,
          MgrOf,     \* MgrOf[l]: the manager of line l
          OfferOf,   \* OfferOf[m]: the manager that helps m, or NoMgr
          NoMgr,
          NoLine,
          Requests,
          Deletes,   \* requests that may be done with one in the queue (PreOpQueuingRequest)
          Bad,       \* requests whose contents a line rejects
          NotFor,    \* <<l, r>>: line l does not support request r
          NoRequest,
          MaxBreaks  \* bound: lines that break

VARIABLES lines,    \* lines[m]: Lines_
          queue,    \* queue[m]: ReqQueue_
          flow,     \* flow[m]: the line FlowControlTimer_ waits for, or NoLine
          loop,     \* loop[m]: in SendReqQueue, with what comes after it
          working,  \* working[m]: WorkingRequest_ of the offer m
          notices,  \* askers whose SendReqQueue has been asked for
          lineSt,   \* lineSt[l]: what the line itself knows
          tell,     \* tell[l]: the call the line is about to make
          fate,     \* fate[r]
          by,       \* by[r]: the line that sent r
          came,     \* history: came[m]: requests in the order they came to m
          unheard,  \* history: managers that dropped a line without telling their handler
          breaks

lineVars == <<lineSt, tell, breaks>>
tradeVars == <<lines, queue, flow, loop, working, notices, lineVars, fate, by, came, unheard>>

Askers(o) == {m \in Mgrs : OfferOf[m] = o}
Unlocked(m) == m # NoMgr => loop[m] = "none"

-----------------------------------------------------------------------------
(* Sending by lines *)

(* TradingLine::SendRequest of a line, by what it knows of its link. *)
Verdict(l, r) == IF lineSt[l] = "broken" THEN "Broken"
                 ELSE IF <<l, r>> \in NotFor THEN "NotSupport"
                 ELSE IF lineSt[l] = "busy" THEN "Busy"
                 ELSE IF lineSt[l] = "full" THEN "FlowControl"
                 ELSE IF r \in Bad THEN "RejectRequest" ELSE "Sent"

Outcome(res, line, gone, wait) == [res |-> res, line |-> line, gone |-> gone, wait |-> wait]
NotAsked == Outcome("NoReadyLine", NoLine, {}, NoLine)

(* Mutant: a flow-controlled line is taken for a busy one, which calls by itself. *)
ByLinesOnlyNoTimer(m, r) ==
  LET of(v) == {l \in lines[m] : Verdict(l, r) = v}
      takers == of("Sent") \cup of("RejectRequest")
  IN IF takers # {} THEN {Outcome(Verdict(l, r), l, g, NoLine) : l \in takers, g \in SUBSET of("Broken")}
     ELSE {Outcome(IF of("Busy") \cup of("FlowControl") # {} THEN "Queuing" ELSE "NoReadyLine",
                   NoLine, of("Broken"), NoLine)}

(* SendRequest_ByLinesOnly: a line that takes the request, those found broken
   before it leave; if none does, the least of the flow controls is waited for,
   or a busy line's own call. *)
ByLinesOnly(m, r) ==
  LET of(v) == {l \in lines[m] : Verdict(l, r) = v}
      takers == of("Sent") \cup of("RejectRequest")
  IN IF takers # {} THEN {Outcome(Verdict(l, r), l, g, NoLine) : l \in takers, g \in SUBSET of("Broken")}
     ELSE IF of("FlowControl") # {} THEN {Outcome("Queuing", NoLine, of("Broken"), l) : l \in of("FlowControl")}
     ELSE {Outcome(IF of("Busy") # {} THEN "Queuing" ELSE "NoReadyLine", NoLine, of("Broken"), NoLine)}

(* Mutant: several requests of others are sent at a time, the last is remembered. *)
AskForEager(o, r) == IF lines[o] = {} THEN {NotAsked} ELSE ByLinesOnly(o, r)

(* LocalHelpOfferEvHandler1::OnAskFor_SendRequest: not behind the offer's own
   queue, and one request of others at a time. *)
AskFor(o, r) ==
  IF lines[o] = {} THEN {NotAsked}
  ELSE IF working[o] # NoRequest \/ queue[o] # <<>> THEN {[NotAsked EXCEPT !.res = "Queuing"]}
  ELSE ByLinesOnly(o, r)

(* OnAskFor_BeforeQueue and OnAskFor_NoReadyLine: what comes of the manager's own
   result and its offer's. *)
Joined(mine, theirs) == IF theirs \in {"Sent", "RejectRequest"} THEN theirs
                        ELSE IF "Queuing" \in {mine, theirs} THEN "Queuing" ELSE "NoReadyLine"

(* SendRequest_ByLinesOrHelper: what may come of it, by the manager's own lines
   or by those of its offer. *)
ByLinesOrHelper(m, r) ==
  LET taken(o) == o.res \in {"Sent", "RejectRequest"}
      asked(mine) == IF OfferOf[m] = NoMgr \/ taken(mine) THEN {NotAsked} ELSE AskFor(OfferOf[m], r)
      both(mine, theirs) ==
        [res |-> IF taken(mine) THEN mine.res ELSE Joined(mine.res, theirs.res),
         line |-> IF mine.line # NoLine THEN mine.line ELSE theirs.line,
         gone |-> mine.gone \cup theirs.gone,
         wait |-> [x \in Mgrs |-> IF x = m THEN mine.wait ELSE IF x = OfferOf[m] THEN theirs.wait ELSE NoLine],
         helped |-> theirs.res = "Sent"]
  IN UNION {{both(mine, theirs) : theirs \in asked(mine)} : mine \in ByLinesOnly(m, r)}

(* The state after it, but for the queue of the caller. *)
Applied(m, r, o) ==
  /\ Unlocked(OfferOf[m])
  /\ lines' = [x \in Mgrs |-> lines[x] \ o.gone]
  /\ unheard' = unheard \cup {MgrOf[l] : l \in o.gone}
  /\ flow' = [x \in Mgrs |-> IF o.wait[x] # NoLine THEN o.wait[x] ELSE flow[x]]
  /\ working' = IF o.helped THEN [working EXCEPT ![OfferOf[m]] = r] ELSE working
  /\ by' = IF o.res = "Sent" THEN [by EXCEPT ![r] = o.line] ELSE by
  /\ \E after \in IF o.res = "Sent" THEN {"ready", "busy", "full"} ELSE {"same"} :
       lineSt' = IF after = "same" THEN lineSt ELSE [lineSt EXCEPT ![o.line] = after]

Fate(res) == CASE res = "Sent" -> "sent" [] res = "Queuing" -> "queued" [] OTHER -> "rejected"

(* NotifyToAsker: the askers' SendReqQueue, in the one thread that sends, unless
   a request of theirs is still being sent. *)
Notify(o, busy) == notices' = IF busy THEN notices ELSE notices \cup Askers(o)

-----------------------------------------------------------------------------
(* Requests *)

Without(q, i) == RemoveAt(q, i)

(* Mutant: a request that comes while others wait is tried at once. *)
SendRequestAtOnce(m, r) ==
  /\ fate[r] = "new" /\ Unlocked(m)
  /\ came' = [came EXCEPT ![m] = Append(@, r)]
  /\ \E o \in ByLinesOrHelper(m, r) :
       /\ Applied(m, r, o)
       /\ fate' = [fate EXCEPT ![r] = Fate(o.res)]
       /\ queue' = IF o.res = "Queuing" THEN [queue EXCEPT ![m] = Append(@, r)] ELSE queue
  /\ UNCHANGED <<loop, notices, tell, breaks>>

(* SendRequest: only a request that finds the queue empty is tried; another may
   be done together with one in the queue (CheckOpQueuingRequest), or waits. *)
SendRequest(m, r) ==
  /\ fate[r] = "new" /\ Unlocked(m)
  /\ came' = [came EXCEPT ![m] = Append(@, r)]
  /\ IF queue[m] = <<>>
     THEN \E o \in ByLinesOrHelper(m, r) :
            /\ Applied(m, r, o)
            /\ fate' = [fate EXCEPT ![r] = Fate(o.res)]
            /\ queue' = IF o.res = "Queuing" THEN [queue EXCEPT ![m] = Append(@, r)] ELSE queue
     ELSE /\ \/ /\ queue' = [queue EXCEPT ![m] = Append(@, r)]
                /\ fate' = [fate EXCEPT ![r] = "queued"]
             \/ r \in Deletes /\ \E i \in DOMAIN queue[m] :
                  LET target == queue[m][i]
                  IN \/ fate' = [fate EXCEPT ![r] = "ended"] /\ UNCHANGED queue
                     \/ /\ fate' = [fate EXCEPT ![r] = "ended", ![target] = "ended"]
                        /\ queue' = [queue EXCEPT ![m] = Without(@, i)]
                     \/ /\ fate' = [fate EXCEPT ![r] = "queued", ![target] = "ended"]
                        /\ queue' = [queue EXCEPT ![m] = Append(Without(@, i), r)]
          /\ UNCHANGED <<lines, unheard, flow, working, by, lineSt>>
  /\ UNCHANGED <<loop, notices, tell, breaks>>

(* What follows the loop: with an empty queue the offer tells its askers. *)
LoopEnds(m, now, emptied, busy) ==
  /\ loop' = [loop EXCEPT ![m] = "none"]
  /\ IF emptied \/ (loop[m] = "ready" /\ now = <<>>) THEN Notify(m, busy) ELSE UNCHANGED notices

(* Mutant: the offer does not tell its askers that its queue is empty. *)
SendFrontQuiet(m) ==
  /\ loop[m] # "none" /\ queue[m] # <<>>
  /\ LET r == Head(queue[m])
     IN \E o \in ByLinesOrHelper(m, r) :
          /\ Applied(m, r, o)
          /\ fate' = [fate EXCEPT ![r] = Fate(o.res)]
          /\ queue' = IF o.res = "Queuing" THEN queue ELSE [queue EXCEPT ![m] = Tail(@)]
          /\ IF o.res = "Queuing" \/ queue'[m] = <<>>
             THEN loop' = [loop EXCEPT ![m] = "none"] /\ UNCHANGED notices
             ELSE UNCHANGED <<loop, notices>>
  /\ UNCHANGED <<tell, breaks, came>>

(* TradingSvrImpl::SendReqQueue: the front is tried, and the next one unless it waits. *)
SendFront(m) ==
  /\ loop[m] # "none" /\ queue[m] # <<>>
  /\ LET r == Head(queue[m])
     IN \E o \in ByLinesOrHelper(m, r) :
          /\ Applied(m, r, o)
          /\ fate' = [fate EXCEPT ![r] = Fate(o.res)]
          /\ queue' = IF o.res = "Queuing" THEN queue ELSE [queue EXCEPT ![m] = Tail(@)]
          /\ IF o.res = "Queuing" \/ queue'[m] = <<>>
             THEN LoopEnds(m, queue'[m], o.res \notin {"Queuing", "NoReadyLine"}, working'[m] # NoRequest)
             ELSE UNCHANGED <<loop, notices>>
  /\ UNCHANGED <<tell, breaks, came>>

(* OnNewTradingLineReady, with the queue to be sent first. *)
NewLineReady(m) ==
  IF queue[m] = <<>> THEN Notify(m, working[m] # NoRequest) /\ UNCHANGED loop
  ELSE loop' = [loop EXCEPT ![m] = "ready"] /\ UNCHANGED notices

(* FlowControlTimer::EmitOnTimer, when the line's time has passed. *)
EmitOnTimer(m) ==
  /\ flow[m] # NoLine /\ lineSt[flow[m]] # "full" /\ Unlocked(m)
  /\ flow' = [flow EXCEPT ![m] = NoLine]
  /\ IF lines[m] = {} THEN UNCHANGED <<loop, notices>> ELSE NewLineReady(m)
  /\ UNCHANGED <<lines, queue, working, lineVars, fate, by, came, unheard>>

(* The asker's SendReqQueue that its offer asked for. *)
SendReqQueue(m) ==
  /\ m \in notices /\ Unlocked(m) /\ notices' = notices \ {m}
  /\ loop' = IF queue[m] = <<>> THEN loop ELSE [loop EXCEPT ![m] = "asked"]
  /\ UNCHANGED <<lines, queue, flow, working, lineVars, fate, by, came, unheard>>

(* OnWorkingRequestDone: the answer to the request sent for an asker has come. *)
OnWorkingRequestDone(o) ==
  /\ working[o] # NoRequest /\ lineSt[by[working[o]]] \notin {"off", "broken"} /\ Unlocked(o)
  /\ working' = [working EXCEPT ![o] = NoRequest] /\ Notify(o, FALSE)
  /\ UNCHANGED <<lines, queue, flow, loop, lineVars, fate, by, came, unheard>>

-----------------------------------------------------------------------------
(* Lines *)

OnTradingLineReady(l) ==
  LET m == MgrOf[l]
  IN /\ tell[l] = "ready" /\ Unlocked(m) /\ tell' = [tell EXCEPT ![l] = "nothing"]
     /\ lines' = [lines EXCEPT ![m] = @ \cup {l}]
     /\ NewLineReady(m)
     /\ UNCHANGED <<queue, flow, working, lineSt, breaks, fate, by, came, unheard>>

(* Mutant: the queue is copied, not moved out. *)
ClearReqQueueCopy(m) ==
  /\ fate' = [r \in Requests |-> IF r \in ToSet(queue[m]) THEN "leaving" ELSE fate[r]]
  /\ UNCHANGED queue

(* ClearReqQueue: the requests leave the queue and are rejected after unlocking. *)
ClearReqQueue(m) ==
  /\ queue' = [queue EXCEPT ![m] = <<>>]
  /\ fate' = [r \in Requests |-> IF r \in ToSet(queue[m]) THEN "leaving" ELSE fate[r]]

IsSendable(m, own) == own # {} \/ (OfferOf[m] # NoMgr /\ lines[OfferOf[m]] # {})

(* Mutant: the request being sent for an asker is kept when its line breaks. *)
OnTradingLineBrokenKeeps(l) ==
  LET m == MgrOf[l]
      own == lines[m] \ {l}
  IN /\ tell[l] = "broken" /\ Unlocked(m) /\ Unlocked(OfferOf[m])
     /\ tell' = [tell EXCEPT ![l] = "nothing"] /\ lineSt' = [lineSt EXCEPT ![l] = "off"]
     /\ lines' = [lines EXCEPT ![m] = own]
     /\ IF l \notin lines[m] THEN UNCHANGED <<queue, fate, notices>>
        ELSE /\ Notify(m, working[m] # NoRequest)
             /\ IF IsSendable(m, own) THEN UNCHANGED <<queue, fate>> ELSE ClearReqQueue(m)
     /\ UNCHANGED <<flow, working, loop, breaks, by, came, unheard>>

(* OnTradingLineBroken: the offer is free again and tells its askers; a manager
   with nobody to send for it rejects its queue.  A line that SendRequest has
   found broken before is not among the lines any more: nothing is done. *)
OnTradingLineBroken(l) ==
  LET m == MgrOf[l]
      own == lines[m] \ {l}
  IN /\ tell[l] = "broken" /\ Unlocked(m) /\ Unlocked(OfferOf[m])
     /\ tell' = [tell EXCEPT ![l] = "nothing"] /\ lineSt' = [lineSt EXCEPT ![l] = "off"]
     /\ lines' = [lines EXCEPT ![m] = own]
     /\ IF l \notin lines[m] THEN UNCHANGED <<queue, fate, working, notices>>
        ELSE /\ working' = [working EXCEPT ![m] = NoRequest] /\ Notify(m, FALSE)
             /\ IF IsSendable(m, own) THEN UNCHANGED <<queue, fate>> ELSE ClearReqQueue(m)
     /\ UNCHANGED <<flow, loop, breaks, by, came, unheard>>

(* NoReadyLineReject of the requests that left the queue. *)
Reject(r) == /\ fate[r] = "leaving" /\ fate' = [fate EXCEPT ![r] = "rejected"]
             /\ UNCHANGED <<lines, queue, flow, loop, working, notices, lineVars, by, came, unheard>>

(* The link of a line: connected, free again, its flow's time over, broken. *)
LineStep(l, from, to, call) ==
  /\ tell[l] = "nothing" /\ lineSt[l] \in from /\ lineSt' = [lineSt EXCEPT ![l] = to]
  /\ tell' = [tell EXCEPT ![l] = call]
  /\ UNCHANGED <<lines, queue, flow, loop, working, notices, fate, by, came, unheard>>
Connect(l) == LineStep(l, {"off"}, "ready", "ready") /\ UNCHANGED breaks
BusyEnds(l) == LineStep(l, {"busy"}, "ready", "ready") /\ UNCHANGED breaks
FlowEnds(l) == LineStep(l, {"full"}, "ready", "nothing") /\ UNCHANGED breaks
Break(l) == /\ breaks < MaxBreaks /\ breaks' = breaks + 1
            /\ LineStep(l, {"ready", "busy", "full"}, "broken", "broken")

-----------------------------------------------------------------------------
TradeInit ==
        /\ lines = [m \in Mgrs |-> {}] /\ queue = [m \in Mgrs |-> <<>>]
        /\ flow = [m \in Mgrs |-> NoLine] /\ loop = [m \in Mgrs |-> "none"]
        /\ working = [m \in Mgrs |-> NoRequest] /\ notices = {}
        /\ lineSt = [l \in Lines |-> "off"] /\ tell = [l \in Lines |-> "nothing"]
        /\ fate = [r \in Requests |-> "new"] /\ by = [r \in Requests |-> NoLine]
        /\ came = [m \in Mgrs |-> <<>>] /\ unheard = {} /\ breaks = 0

Goes(m) == SendFront(m) \/ EmitOnTimer(m) \/ SendReqQueue(m) \/ OnWorkingRequestDone(m)
Tells(l) == OnTradingLineReady(l) \/ OnTradingLineBroken(l) \/ BusyEnds(l) \/ FlowEnds(l)

TradeNext ==
        \/ \E m \in Mgrs : Goes(m) \/ \E r \in Requests : SendRequest(m, r)
        \/ \E l \in Lines : Tells(l) \/ Connect(l) \/ Break(l)
        \/ \E r \in Requests : Reject(r)

(* Locks are released, timers go off, busy lines and requests are answered by
   the exchange or their links break. *)
TradeFairness ==
            /\ \A m \in Mgrs : WF_tradeVars(SendFront(m)) /\ SF_tradeVars(EmitOnTimer(m))
                              /\ SF_tradeVars(SendReqQueue(m)) /\ SF_tradeVars(OnWorkingRequestDone(m))
            /\ \A l \in Lines : SF_tradeVars(Tells(l))
TradeSpec == TradeInit /\ [][TradeNext]_tradeVars
TradeFairSpec == TradeSpec /\ TradeFairness

-----------------------------------------------------------------------------
(* Properties *)

(* A request is at one place: in one queue once, with one line, or with the
   caller that rejects it; a request sent for an asker is with the offer's line
   (RequestPushToQueue, SendReqQueue's pop_front, ClearReqQueue,
   CheckOpQueuingRequest, WorkingRequest_). *)
EachAtOnePlace ==
  /\ \A r \in Requests :
       /\ (fate[r] = "queued") <=> \E m \in Mgrs : r \in ToSet(queue[m])
       /\ (fate[r] = "sent") <=> by[r] # NoLine
  /\ \A m \in Mgrs : IsInjective(queue[m])
  /\ \A m, n \in Mgrs : m # n => ToSet(queue[m]) \cap ToSet(queue[n]) = {}
  /\ \A m \in Mgrs : working[m] # NoRequest => fate[working[m]] = "sent" /\ MgrOf[by[working[m]]] = m

(* Requests of a manager are sent in the order they came: one that waits is not
   overtaken by a later one, whether a line, a timer, a broken line or an offer
   takes up the queue again, except by one that was done inside the queue. *)
InOrder ==
  \A m \in Mgrs : \A i, j \in DOMAIN came[m] :
    i < j /\ fate[came[m][i]] = "queued" => fate[came[m][j]] \in {"queued", "ended"}

(* An offer sends for others one request at a time (LocalHelpOfferEvHandler1):
   while its line has not answered, no second request of an asker goes out by
   the offer's lines. *)
HelpsOne == \A o \in Mgrs : working[o] # NoRequest /\ working'[o] # working[o] => working'[o] = NoRequest
HelpsOneAtATime == [][HelpsOne]_tradeVars

(* Somebody will take up the manager's queue: a loop, a timer, a line that is
   about to call, a busy line. *)
OwnLineCalls(m) == \/ loop[m] # "none" \/ flow[m] # NoLine
                   \/ \E l \in Lines : MgrOf[l] = m /\ (tell[l] # "nothing" \/ (l \in lines[m] /\ lineSt[l] = "busy"))
OfferCalls(m) == \/ m \in notices
                 \/ OfferOf[m] # NoMgr /\ (OwnLineCalls(OfferOf[m]) \/ working[OfferOf[m]] # NoRequest)

(* A queue that is not empty is never left with nobody to send it, after any
   sequence of lines that get busy, free, full or broken and of help that is
   given or refused (OnTradingLineReady, OnTradingLineBroken, EmitOnTimer,
   NotifyToAsker); unless the offer dropped a line unheard. *)
SomeoneWillSend == \A m \in Mgrs : queue[m] # <<>> => OwnLineCalls(m) \/ OfferCalls(m) \/ OfferOf[m] \in unheard

(* The same of every queue: an offer that loses the line of WorkingRequest_ is
   free again and tells its asker. *)
SomeoneWillAlwaysSend == \A m \in Mgrs : queue[m] # <<>> => OwnLineCalls(m) \/ OfferCalls(m)

(* A request that waits is sent, rejected or done in the end, when busy lines
   get free or break, and timers go off; unless an offer dropped a line unheard. *)
QueueDrained == LET queued == {r \in Requests : fate[r] = "queued"}
                IN queued # {} ~> (queued = {} \/ unheard # {})
=============================================================================
