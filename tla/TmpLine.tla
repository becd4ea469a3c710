------------------------------ MODULE TmpLine ------------------------------
(***************************************************************************)
(* An order line of the futures exchange (ExgLineTmpSession, TMP protocol) *)
(* with the log its sequence numbers are recovered from (ExgLineTmpLog on  *)
(* a LogFileAppender).  The exchange numbers its reports; at each logon    *)
(* the line asks for those after the last it has handled.  The process may *)
(* crash: what the appender has not written yet is lost.                   *)
(*                                                                         *)
(* A packet is received in two steps: it goes into the log, then it is     *)
(* handled; orders are sent by other threads meanwhile.  Only what bears a *)
(* sequence number is kept of the log.                                     *)
(***************************************************************************)
EXTENDS Integers, SequencesExt

CONSTANTS MaxReports, MaxOrders, MaxLinks,  \* bounds: reports made, orders sent, links
          MaxCrashes, MaxGaps, MaxLosses    \* bounds: crashes, reports the exchange leaves out, or loses

VARIABLES exg,    \* the exchange: [out: its reports, made, upto: sent on this link, online]
          pipe,   \* packets to the line
          said,   \* packets to the exchange
          line,   \* the session: [alive, link, closing, st, rx, tx, hand]
          log,    \* the log: [file, buf, head]
          given,  \* history: reports given to OnExgTmp_ApPacket
          orders, \* history: numbers of the orders sent
          cut,    \* history: reports in hand when the process crashed
          excused,\* history: the numbers on disk are ahead of what was handled
          links, crashes, gaps, losses

counts == <<links, crashes, gaps, losses>>
tmpVars == <<exg, pipe, said, line, log, given, orders, cut, excused, counts>>

Nothing == [type |-> "none"]
L(type) == [type |-> type]

-----------------------------------------------------------------------------
(* ExgLineTmpLog *)

Entry(kind, no) == [kind |-> kind, no |-> no]
AppendLog(g, e) == [g EXCEPT !.buf = Append(@, e)]
Flushed(g) == [g EXCEPT !.file = @ \o g.buf, !.buf = <<>>]

(* Mutant: the size is taken with what is not written yet. *)
UpdateLogHeaderEarly(g, ln) ==
  [g EXCEPT !.head = [size |-> Len(g.file) + Len(g.buf), rx |-> ln.rx, tx |-> ln.tx]]

(* Mutant: the last number received is not taken over. *)
UpdateLogHeaderStale(g, ln) == [Flushed(g) EXCEPT !.head = [size |-> Len(g.file) + Len(g.buf), rx |-> g.head.rx, tx |-> ln.tx]]

(* UpdateLogHeader: GetFileSize waits until all is written. *)
UpdateLogHeader(g, ln) == [Flushed(g) EXCEPT !.head = [size |-> Len(g.file) + Len(g.buf), rx |-> ln.rx, tx |-> ln.tx]]

(* Open: the numbers of the header, and of the entries written behind it. *)
LastNo(g, kind) ==
  LET tail == SelectSeq(SubSeq(g.file, g.head.size + 1, Len(g.file)), LAMBDA e : e.kind = kind)
  IN IF tail = <<>> THEN IF kind = "rx" THEN g.head.rx ELSE g.head.tx ELSE Last(tail).no

(* A report may get a number the line, or its log, has already passed. *)
Passed(no) == no <= IF line.alive THEN line.rx ELSE LastNo(log, "rx")

-----------------------------------------------------------------------------
(* The exchange *)

MakeReport ==
  /\ exg.made < MaxReports
  /\ exg' = [exg EXCEPT !.made = @ + 1, !.out = Append(@, exg.made + 1)]
  /\ excused' = (excused \/ Passed(Len(exg.out) + 1))
  /\ UNCHANGED <<pipe, said, line, log, given, orders, cut, counts>>

(* A host that takes over has not got the last report. *)
LoseReport ==
  /\ losses < MaxLosses /\ losses' = losses + 1 /\ ~line.link /\ exg.out # <<>>
  /\ exg' = [exg EXCEPT !.out = Front(@)]
  /\ UNCHANGED <<pipe, said, line, log, given, orders, cut, excused, links, crashes, gaps>>

Report(no) == [no |-> no, id |-> exg.out[no]]

(* The next report, or the one after it. *)
SendReport ==
  /\ exg.online /\ line.link
  /\ \E next \in {exg.upto + 1, exg.upto + 2} \cap 1..Len(exg.out) :
       /\ gaps' = gaps + next - exg.upto - 1 /\ gaps' <= MaxGaps
       /\ pipe' = Append(pipe, [type |-> "R", report |-> Report(next)])
       /\ exg' = [exg EXCEPT !.upto = next]
  /\ UNCHANGED <<said, line, log, given, orders, cut, excused, links, crashes, losses>>

(* The logon: L10 by L10, L20 by L30, L40 by L41 or L50, L42 by L50. *)
ExgAnswers ==
  /\ said # <<>> /\ said' = Tail(said)
  /\ LET m == Head(said)
         end == exg.upto
     IN CASE m.type = "L10" -> pipe' = Append(pipe, L("L10")) /\ UNCHANGED exg
          [] m.type = "L20" -> /\ pipe' = Append(pipe, [type |-> "L30", end |-> Len(exg.out)])
                               /\ exg' = [exg EXCEPT !.upto = Len(exg.out)]
          [] m.type = "L40" -> /\ UNCHANGED exg
                               /\ pipe' = Append(pipe, IF m.start >= end THEN L("L50")
                                    ELSE [type |-> "L41", reports |-> [i \in 1..(end - m.start) |-> Report(m.start + i)]])
          [] m.type = "L42" -> pipe' = Append(pipe, L("L50")) /\ UNCHANGED exg
          [] m.type = "L60" -> exg' = [exg EXCEPT !.online = TRUE] /\ UNCHANGED pipe
  /\ UNCHANGED <<line, log, given, orders, cut, excused, counts>>

-----------------------------------------------------------------------------
(* The session *)

LinkReady ==
  /\ line.alive /\ ~line.link /\ links < MaxLinks /\ links' = links + 1
  /\ line' = [line EXCEPT !.link = TRUE, !.closing = FALSE]
  /\ said' = <<L("L10")>> /\ pipe' = <<>> /\ exg' = [exg EXCEPT !.online = FALSE]
  /\ UNCHANGED <<log, given, orders, cut, excused, crashes, gaps, losses>>

(* CheckApBroken: leaving ApReady saves the numbers. *)
ApBroken(g, ln) == IF ln.st = "ApReady" THEN UpdateLogHeader(g, ln) ELSE g

(* The link breaks or has been closed (OnDevice_StateChanged). *)
LinkEnds ==
  /\ line.link /\ line.hand = Nothing
  /\ log' = ApBroken(log, line)
  /\ line' = [line EXCEPT !.link = FALSE, !.st = IF @ = "ApReady" THEN "ApBroken" ELSE @]
  /\ pipe' = <<>> /\ said' = <<>> /\ exg' = [exg EXCEPT !.online = FALSE]
  /\ UNCHANGED <<given, orders, cut, excused, counts>>

(* OnDevice_Recv: the packet goes into the log. *)
RecvToLog ==
  /\ line.link /\ ~line.closing /\ line.hand = Nothing /\ pipe # <<>>
  /\ LET m == Head(pipe)
     IN /\ line' = [line EXCEPT !.hand = m]
        /\ log' = IF m.type = "R" THEN AppendLog(log, Entry("rx", m.report.no)) ELSE log
  /\ pipe' = Tail(pipe)
  /\ UNCHANGED <<exg, said, given, orders, cut, excused, counts>>

Done(ln) == [ln EXCEPT !.hand = Nothing]
Say(ms) == said' = said \o ms

(* AsyncClose. *)
Close == /\ log' = ApBroken(log, line) /\ Say(<<>>)
         /\ line' = [Done(line) EXCEPT !.closing = TRUE, !.st = IF @ = "ApReady" THEN "DevClose" ELSE @]

(* Mutant: a gap is given up, the link stays. *)
OnApPacketStays ==
  /\ line.hand.type = "R" /\ line.st = "ApReady"
  /\ IF line.hand.report.no = line.rx + 1
     THEN /\ line' = [Done(line) EXCEPT !.rx = line.hand.report.no]
          /\ given' = Append(given, line.hand.report.id)
     ELSE line' = Done(line) /\ UNCHANGED given
  /\ UNCHANGED <<exg, pipe, said, log, orders, cut, excused, counts>>

(* Mutant: a gap is not minded. *)
NextReportAny(report) == report.no > line.rx

(* CheckSetRxSeqNum. *)
NextReport(report) == report.no = line.rx + 1

OnApPacket ==
  /\ line.hand.type = "R" /\ line.st = "ApReady"
  /\ LET report == line.hand.report
     IN IF NextReport(report)
        THEN /\ line' = [Done(line) EXCEPT !.rx = report.no]
             /\ given' = Append(given, report.id) /\ UNCHANGED <<said, log>>
        ELSE Close /\ UNCHANGED given
  /\ UNCHANGED <<exg, pipe, orders, cut, excused, counts>>

(* CheckL30_EndOutBoundNum: never more than the exchange has. *)
CheckL30(end) == IF line.rx > end THEN end ELSE line.rx

(* OnRecvTmpLinkSys *)
OnLinkSys ==
  /\ LET m == line.hand
     IN CASE m.type = "L10" -> line' = Done(line) /\ Say(<<L("L20")>>) /\ UNCHANGED <<log, given>>
          [] m.type = "L30" -> /\ line' = [Done(line) EXCEPT !.rx = CheckL30(m.end)]
                               /\ Say(<<[type |-> "L40", start |-> CheckL30(m.end)]>>)
                               /\ UNCHANGED <<log, given>>
          [] m.type = "L41" -> /\ line' = [Done(line) EXCEPT !.rx = Last(m.reports).no]
                               /\ given' = given \o [i \in DOMAIN m.reports |-> m.reports[i].id]
                               /\ Say(<<L("L42")>>) /\ log' = UpdateLogHeader(log, line')
          [] m.type = "L50" -> line' = [Done(line) EXCEPT !.st = "ApReady"] /\ Say(<<L("L60")>>) /\ UNCHANGED <<log, given>>
          [] OTHER -> FALSE
  /\ UNCHANGED <<exg, pipe, orders, cut, excused, counts>>

(* SendTmpAddSeqNum, by the thread that holds the lines. *)
SendOrder ==
  /\ line.st = "ApReady" /\ Len(orders) < MaxOrders
  /\ line' = [line EXCEPT !.tx = @ + 1]
  /\ log' = AppendLog(log, Entry("tx", line.tx + 1)) /\ orders' = Append(orders, line.tx + 1)
  /\ UNCHANGED <<exg, pipe, said, given, cut, excused, counts>>

(* OnDevice_CommonTimer, which saves the numbers, or closes a line that is silent. *)
OnTimer ==
  /\ line.link /\ line.hand = Nothing /\ ~line.closing
  /\ \/ log' = UpdateLogHeader(log, line) /\ UNCHANGED <<line, said>>
     \/ Close
  /\ UNCHANGED <<exg, pipe, given, orders, cut, excused, counts>>

FlushTimer == /\ log.buf # <<>> /\ log' = Flushed(log)
              /\ UNCHANGED <<exg, pipe, said, line, given, orders, cut, excused, counts>>

-----------------------------------------------------------------------------
(* The process *)

Stopped == [line EXCEPT !.alive = FALSE, !.link = FALSE, !.st = "DevClose", !.hand = Nothing]

(* ~ExgLineTmpSession saves the numbers. *)
Stop == /\ line.alive /\ ~line.link
        /\ log' = UpdateLogHeader(log, line) /\ line' = Stopped
        /\ UNCHANGED <<exg, pipe, said, given, orders, cut, excused, counts>>

InHand == line.hand.type = "R" /\ NextReport(line.hand.report)

Crash ==
  /\ line.alive /\ crashes < MaxCrashes /\ crashes' = crashes + 1
  /\ line' = Stopped /\ log' = [log EXCEPT !.buf = <<>>]
  /\ cut' = IF InHand THEN cut \cup {line.hand.report.id} ELSE cut
  /\ excused' = (excused \/ LastNo(log, "rx") > line.rx + (IF InHand THEN 1 ELSE 0))
  /\ pipe' = <<>> /\ said' = <<>> /\ exg' = [exg EXCEPT !.online = FALSE]
  /\ UNCHANGED <<given, orders, links, gaps, losses>>

(* ExgLineTmpFactory: the log is opened and the session made. *)
Start == /\ ~line.alive
         /\ line' = [line EXCEPT !.alive = TRUE, !.rx = LastNo(log, "rx"), !.tx = LastNo(log, "tx")]
         /\ UNCHANGED <<exg, pipe, said, log, given, orders, cut, excused, counts>>

-----------------------------------------------------------------------------
Init ==
  /\ exg = [out |-> <<>>, made |-> 0, upto |-> 0, online |-> FALSE]
  /\ pipe = <<>> /\ said = <<>>
  /\ line = [alive |-> TRUE, link |-> FALSE, closing |-> FALSE, st |-> "DevClose", rx |-> 0, tx |-> 0, hand |-> Nothing]
  /\ log = [file |-> <<>>, buf |-> <<>>, head |-> [size |-> 0, rx |-> 0, tx |-> 0]]
  /\ given = <<>> /\ orders = <<>> /\ cut = {} /\ excused = FALSE
  /\ links = 0 /\ crashes = 0 /\ gaps = 0 /\ losses = 0

Goes == ExgAnswers \/ SendReport \/ RecvToLog \/ OnApPacket \/ OnLinkSys \/ Start
Next == \/ Goes \/ MakeReport \/ LoseReport \/ LinkReady \/ LinkEnds \/ SendOrder
        \/ OnTimer \/ FlushTimer \/ Stop \/ Crash

(* The exchange answers, packets are handled, a closed link ends, a link is made
   again (the device's ClosedReopen) and a process started. *)
Fairness == WF_tmpVars(Goes) /\ SF_tmpVars(LinkReady) /\ WF_tmpVars(line.closing /\ LinkEnds)
FairSpec == Init /\ [][Next]_tmpVars /\ Fairness

-----------------------------------------------------------------------------
(* Properties *)

(* Every report up to the number the line goes on from has been handled, over any
   sequence of gaps, logons, crashes and restarts: L40 never asks from behind a
   report that was not handled (CheckSetRxSeqNum, Open, UpdateLogHeader).  The one
   in hand at a crash may be in the log though it was not handled; a log that is
   ahead of the session at a crash, and a number used twice by the exchange,
   cannot be told. *)
NothingSkipped ==
  line.alive /\ ~excused =>
    \A n \in 1..Len(exg.out) : n <= line.rx => exg.out[n] \in ToSet(given) \cup cut

(* Without a crash no report is handled twice and no order number is used twice,
   over any sequence of links and of processes that end and open the log again. *)
NumbersGoOn == crashes = 0 => IsInjective(given) /\ IsInjective(orders)

(* The log can be opened: its header never counts more than is written. *)
LogCanBeOpened == log.head.size <= Len(log.file)

(* Every report of the exchange is handled in the end, however many links, gaps
   and crashes there are before (at the bound of the links nothing is asked any
   more): a gap closes the link, and the next logon asks for what is missing. *)
AllReportsHandled ==
  \A id \in 1..MaxReports :
    (id \in ToSet(exg.out)) ~> (id \in ToSet(given) \cup cut \/ excused \/ id \notin ToSet(exg.out) \/ links = MaxLinks)
=============================================================================
