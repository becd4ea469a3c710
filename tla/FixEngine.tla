----------------------------- MODULE FixEngine -----------------------------
(***************************************************************************)
(* One FIX engine of fon9/fix: FixRecorder (the two sequence numbers and   *)
(* the log of sent messages), FixSender (Send, Replay, GapFill,            *)
(* SequenceReset), FixReceiver (gap detection, the keeper, ResendRequest)  *)
(* and FixSession (logon, tests, logout, timer).                           *)
(*                                                                         *)
(* A handler of the code calls one function after another, each of which   *)
(* changes the engine and may send; so an operator here takes an engine    *)
(* (a record) and returns the engine after the call.  What it sends is     *)
(* appended to the field `out', which the module that composes two engines *)
(* moves to the channel.                                                   *)
(*                                                                         *)
(* A message is its type, sequence number, PossDupFlag and up to two       *)
(* numbers (NewSeqNo, or BeginSeqNo and EndSeqNo).  Two types of           *)
(* application message stand for all of them: a Report never expires       *)
(* (IsInfiniteTTL: it is kept over a gap and replayed), an Order has a     *)
(* time to live, so a replay may find it expired.                          *)
(***************************************************************************)
EXTENDS Naturals, Sequences

CONSTANTS NoReplaySides,     \* engines whose FixConfig has IsNoReplay_
          ForeignSides,      \* engines of another vendor (see NoPreRecord and Rest)
          MaxLogonTestCount, \* FixConfig::MaxLogonTestCount_
          HbTestRequestCount \* FixConfig::HbTestRequestCount_

ASSUME ConfigAssumption == /\ MaxLogonTestCount \in Nat \ {0}
                           /\ HbTestRequestCount \in Nat \ {0}

(* FixSessionSt, in its order. *)
Disconnected    == 0
Connected       == 1
LogonSent       == 2
LogonRecovering == 3
LogonTest       == 4
ApReady         == 5
LogoutPending   == 6

AppTypes   == {"Report", "Order"}
AdminTypes == {"Logon", "Logout", "Heartbeat", "TestRequest", "ResendRequest",
               "GapFill", "Reset", "Reject"}

(* Mutant: a Heartbeat is taken whatever its number is. *)
SeqAllowHeartbeat(type) == IF type \in {"Logon", "Heartbeat"} THEN {"TooHigh"}
                           ELSE IF type \in {"Report", "Order"} THEN {} ELSE {"TooHigh", "TooLow"}

(* Mutant: an Order is handled over a gap. *)
SeqAllowOrder(type) ==
  CASE type \in {"GapFill", "Reset", "ResendRequest", "Logout"} -> {"TooHigh", "TooLow"}
    [] type \in {"Logon", "Order"} -> {"TooHigh"}
    [] OTHER -> {}

(* FixMsgTypeConfig::FixSeqAllow_: the states of the sequence number, other
   than Conform, in which the handler of a message type is called. *)
SeqAllow(type) ==
  CASE type \in {"GapFill", "Reset", "ResendRequest", "Logout"} -> {"TooHigh", "TooLow"}
    [] type = "Logon" -> {"TooHigh"}
    [] OTHER -> {}

(* The types configured with FixSeqSt::NoPreRecord, which their handlers have
   to record.  A foreign engine counts a ResendRequest like any other message. *)
NoPreRecord(s) == IF s \in ForeignSides THEN {"GapFill", "Reset"}
                  ELSE {"GapFill", "Reset", "ResendRequest"}

IsInfiniteTTL(type) == type = "Report"

CompareFixSeqNum(rx, expect) == IF rx = expect THEN "Conform"
                                ELSE IF rx < expect THEN "TooLow" ELSE "TooHigh"

Msg(type, seq, dup, a, b) == [type |-> type, seq |-> seq, dup |-> dup, a |-> a, b |-> b]

(* An engine before its first connection; a new recorder starts both
   numbers at 1 (FixRecorder::Initialize). *)
NewEngine ==
  [ nextSend  |-> 1,            \* FixRecorder::NextSendSeq_
    nextRecv  |-> 1,            \* FixRecorder::NextRecvSeq_
    log       |-> <<>>,         \* the "S" lines since the last RST of the sent numbers
    keeper    |-> <<>>,         \* FixReceiver::MsgKeeper_
    resendEnd |-> 0,            \* FixReceiver::ResendRequestEndSeqNo_
    lastGap   |-> 0,            \* FixReceiver::LastGapSeqNo_
    st        |-> Disconnected, \* FixSession::RunSt_.FixSt_
    rcvd      |-> FALSE,        \* RunSt_.MsgReceivedCount_ > 0
    hbTest    |-> 0,            \* RunSt_.HbTestCount_
    sender    |-> FALSE,        \* FixSession::FixSender_ is set
    resetSend |-> 0,            \* FixSession::ResetNextSendSeq_
    resetRecv |-> 0,            \* FixSession::ResetNextRecvSeq_
    closing   |-> FALSE,        \* CloseFixSession() was called
    tooLow    |-> FALSE,        \* history: a number too low without PossDupFlag came in
    got       |-> <<>>,         \* history: the application messages handled
    out       |-> <<>> ]        \* what the current call sends

-----------------------------------------------------------------------------
(* FixSender *)

(* Send: the message takes the next number, goes out, and then it is
   recorded (WriteAfterSend).  A SequenceReset (next > 0) also writes a RST
   line, which hides every earlier sent message from ReloadSent. *)
SendAndSet(e, type, a, b, next) ==
  [e EXCEPT !.out = Append(@, Msg(type, e.nextSend, FALSE, a, b)),
            !.log = IF next = 0 THEN Append(@, [seq |-> e.nextSend, type |-> type]) ELSE <<>>,
            !.nextSend = IF next = 0 THEN @ + 1 ELSE next]

Send(e, type, a, b) == SendAndSet(e, type, a, b, 0)

(* SequenceReset(newSeqNo). *)
SequenceReset(e, newSeqNo) == SendAndSet(e, "Reset", newSeqNo, 0, newSeqNo)

(* FixSender::ResetNextSendSeq: a RST line, and no message. *)
ResetNextSendSeq(e, n) == IF n = 0 THEN e ELSE [e EXCEPT !.log = <<>>, !.nextSend = n]

(* The messages that fill the numbers [begin, end), all with PossDupFlag. *)
GapFillMsg(begin, end) == <<Msg("GapFill", begin, TRUE, end, 0)>>

(* Replayer::Reload takes the lines of the log one after the other, here the
   line x: a message of the range [begin, end] that is still worth replaying
   goes out again, behind a GapFill for those that were passed over since the
   last one.  `live' are the Orders whose time to live has not passed. *)
ReloadStep(acc, x, begin, end, live) ==
  LET InRange  == x.seq >= begin /\ (end = 0 \/ x.seq <= end)
      Required == IsInfiniteTTL(x.type) \/ (x.type = "Order" /\ x.seq \in live)
  IN IF ~(InRange /\ Required) THEN acc
     ELSE [begin |-> x.seq + 1,
           buf |-> acc.buf \o (IF acc.begin < x.seq THEN GapFillMsg(acc.begin, x.seq) ELSE <<>>)
                           \o <<Msg(x.type, x.seq, TRUE, 0, 0)>>]

Reload(e, begin, end, live) ==
  LET start == [begin |-> begin, buf |-> <<>>]
      after[i \in 0..Len(e.log)] ==
        IF i = 0 THEN start ELSE ReloadStep(after[i - 1], e.log[i], begin, end, live)
  IN IF begin = 0 \/ e.nextSend <= begin THEN start ELSE after[Len(e.log)]

(* Is there a rest of the range to fill?  A foreign engine fills the range to
   its end, as the protocol has it; this code does not fill a last number. *)
Rest(s, begin, end) == IF s \in ForeignSides THEN begin <= end ELSE begin < end

(* Mutant: the last GapFill of a replay reaches one number too far. *)
ReplayEndTooFar(e, s, begin, end) == IF Rest(s, begin, end) THEN GapFillMsg(begin, end + 2) ELSE <<>>

(* What ends a replay that the range [begin, end] left at `begin'. *)
ReplayEnd(e, s, begin, end) ==
  IF end = 0
  THEN IF begin = e.nextSend THEN <<>>
       ELSE <<Msg(IF begin < e.nextSend THEN "GapFill" ELSE "Reset", begin, TRUE, e.nextSend, 0)>>
  ELSE IF Rest(s, begin, end) THEN GapFillMsg(begin, end + 1) ELSE <<>>

(* Replayer::Run, and the output of its SendBuf_. *)
ReplayRun(e, s, begin, end, live) ==
  LET r == Reload(e, begin, end, live)
  IN [e EXCEPT !.out = @ \o r.buf \o ReplayEnd(e, s, r.begin, end)]

(* FixSender::GapFill, for an engine that does not replay. *)
GapFillOnly(e, s, begin, end) ==
  LET msgs == IF end = 0
              THEN <<Msg(IF begin < e.nextSend THEN "GapFill" ELSE "Reset", begin, TRUE, e.nextSend, 0)>>
              ELSE IF Rest(s, begin, end) THEN GapFillMsg(begin, end + 1) ELSE <<>>
  IN [e EXCEPT !.out = @ \o msgs]

(* FixSender::Replay. *)
Replay(e, s, begin, end, live) == IF s \in NoReplaySides THEN GapFillOnly(e, s, begin, end)
                                  ELSE ReplayRun(e, s, begin, end, live)

-----------------------------------------------------------------------------
(* FixRecorder: the numbers of received messages. *)

WriteInputConform(e) == [e EXCEPT !.nextRecv = @ + 1]
WriteInputSeqReset(e, newSeqNo) == [e EXCEPT !.nextRecv = newSeqNo]
ForceResetRecvSeq(e, newSeqNo) == [e EXCEPT !.nextRecv = newSeqNo]

-----------------------------------------------------------------------------
(* FixSession: the parts that FixReceiver calls back. *)

CloseFixSession(e) == [e EXCEPT !.closing = TRUE]

(* SendLogout, and the reply without a sender: a Logout numbered 0. *)
SendLogout(e) ==
  IF ~e.sender
  THEN CloseFixSession([e EXCEPT !.st = Disconnected,
                                 !.out = Append(@, Msg("Logout", 0, FALSE, 0, 0))])
  ELSE IF e.st = LogoutPending THEN e
  ELSE Send([e EXCEPT !.st = LogoutPending], "Logout", 0, 0)

SendLogonTestRequest(e) ==
  IF e.st \in LogonSent..LogonTest THEN Send([e EXCEPT !.st = LogonTest], "TestRequest", 0, 0)
  ELSE e

SetApReadySt(e) ==
  IF e.st >= ApReady THEN e
  ELSE IF e.sender THEN [e EXCEPT !.hbTest = 0, !.st = ApReady]
  ELSE CloseFixSession(e)

-----------------------------------------------------------------------------
(* FixReceiver *)

(* Mutant: the kept messages survive. *)
ClearRecvKeeperButMsgs(e) == [e EXCEPT !.resendEnd = 0, !.lastGap = 0]

ClearRecvKeeper(e) == [e EXCEPT !.keeper = <<>>, !.resendEnd = 0, !.lastGap = 0]

OnRecoverDone(e) == SendLogonTestRequest([e EXCEPT !.resendEnd = 0, !.lastGap = 0])

SendResendRequest(e, begin, end) ==
  Send([e EXCEPT !.resendEnd = end], "ResendRequest", begin, end)

OnMsgSeqNumTooLow(e, m) == IF m.dup THEN e ELSE SendLogout([e EXCEPT !.tooLow = TRUE])

(* A number above the expected one: a message in the range that is being
   recovered is dropped; otherwise it is the new end of the gap, kept if it
   never expires, and the gap is requested unless a request is outstanding. *)
OnGap(e, m, keep) ==
  LET e1   == [e EXCEPT !.lastGap = m.seq,
                        !.keeper  = IF keep THEN Append(@, m) ELSE @]
      last == IF keep THEN m.seq - 1 ELSE m.seq
  IN IF m.seq <= e.lastGap THEN e
     ELSE IF e.resendEnd > 0 THEN e1
     ELSE SendResendRequest(e1, e.nextRecv, last)

OnMsgSeqNumNotExpected(e, m, seqSt, keep) ==
  CASE seqSt = "Conform" -> e
    [] seqSt = "TooLow"  -> OnMsgSeqNumTooLow(e, m)
    [] seqSt = "TooHigh" -> OnGap(e, m, keep)

(* Mutant: a kept message is handled and not recorded. *)
DispatchKeptUnrecorded(e, m) == [e EXCEPT !.got = Append(@, m)]

(* A kept message dispatched again: it is an application message. *)
DispatchKept(e, m) ==
  LET seqSt == CompareFixSeqNum(m.seq, e.nextRecv)
  IN IF seqSt = "Conform" THEN [WriteInputConform(e) EXCEPT !.got = Append(@, m)]
     ELSE OnMsgSeqNumNotExpected(e, m, seqSt, TRUE)

(* One turn of CheckMsgKeeper's loop, for the message at the front. *)
KeeperStep(acc, m) ==
  IF acc.stop THEN acc
  ELSE IF acc.next < m.seq
  THEN [acc EXCEPT !.stop = TRUE, !.e = SendResendRequest(@, acc.next, m.seq - 1)]
  ELSE LET e1 == IF acc.next = m.seq THEN DispatchKept(acc.e, m) ELSE acc.e
       IN [stop |-> FALSE,
           next |-> IF acc.next = m.seq THEN acc.next + 1 ELSE acc.next,
           e    |-> [e1 EXCEPT !.keeper = Tail(@)]]

(* A request is answered up to newSeqNo - 1: take the kept messages that
   follow, request the gap before the next one or before the last message
   that was dropped, or declare the recovery done. *)
CheckMsgKeeper(e, newSeqNo) ==
  LET after[i \in 0..Len(e.keeper)] ==
        IF i = 0 THEN [e |-> e, next |-> newSeqNo, stop |-> FALSE]
        ELSE KeeperStep(after[i - 1], e.keeper[i])
      r == after[Len(e.keeper)]
  IN IF r.stop THEN r.e
     ELSE IF r.next < r.e.lastGap THEN SendResendRequest(r.e, r.next, r.e.lastGap)
     ELSE OnRecoverDone(r.e)

OnMessageProcessed(e, seq) ==
  IF e.resendEnd > 0 /\ seq = e.resendEnd THEN CheckMsgKeeper(e, seq + 1) ELSE e

(* The handlers of FixReceiver. *)
OnRecvResendRequest(e, s, m, seqSt, live) ==
  OnMsgSeqNumNotExpected(Replay(e, s, m.a, m.b, live), m, seqSt, FALSE)

OnRecvGapFill(e, m, seqSt) ==
  IF seqSt # "Conform" THEN OnMsgSeqNumNotExpected(e, m, seqSt, FALSE)
  ELSE IF m.a < m.seq THEN Send(WriteInputConform(e), "Reject", 0, 0)
  ELSE LET e1 == WriteInputSeqReset(e, m.a)
       IN IF e1.resendEnd < m.a THEN CheckMsgKeeper([e1 EXCEPT !.resendEnd = 0], m.a) ELSE e1

(* Mutant: a SequenceReset may not lower the number. *)
OnRecvResetUp(e, m) == IF m.a < e.nextRecv THEN e
                       ELSE OnRecoverDone(WriteInputSeqReset(ClearRecvKeeper(e), m.a))

OnRecvReset(e, m) == OnRecoverDone(WriteInputSeqReset(ClearRecvKeeper(e), m.a))

-----------------------------------------------------------------------------
(* FixSession *)

(* A Logon that was answered, or is the answer. *)
OnLogonResponsed(e, m, seqSt) ==
  IF seqSt = "Conform" THEN SendLogonTestRequest(e)
  ELSE OnMsgSeqNumNotExpected([e EXCEPT !.st = LogonRecovering, !.rcvd = FALSE], m, seqSt, FALSE)

OnRecvLogonResponse(e, m, seqSt) == IF e.st = LogonSent THEN OnLogonResponsed(e, m, seqSt)
                                    ELSE Send(e, "Reject", 0, 0)

OnRecvLogout(e, m, seqSt) ==
  IF seqSt = "TooLow" THEN OnMsgSeqNumNotExpected(e, m, seqSt, FALSE)
  ELSE OnMsgSeqNumNotExpected(IF e.st = ApReady THEN SendLogout(e) ELSE e, m, seqSt, FALSE)

(* FixMsgTypeConfig::FixMsgHandler_, as FixSession::InitFixConfig sets it. *)
FixMsgHandler(e, s, m, seqSt, live) ==
  CASE m.type = "Heartbeat"     -> SetApReadySt(e)
    [] m.type = "TestRequest"   -> SetApReadySt(Send(e, "Heartbeat", 0, 0))
    [] m.type = "ResendRequest" -> OnRecvResendRequest(e, s, m, seqSt, live)
    [] m.type = "GapFill"       -> OnRecvGapFill(e, m, seqSt)
    [] m.type = "Reset"         -> OnRecvReset(e, m)
    [] m.type = "Logon"         -> OnRecvLogonResponse(e, m, seqSt)
    [] m.type = "Logout"        -> OnRecvLogout(e, m, seqSt)
    [] m.type = "Reject"        -> e
    [] m.type \in AppTypes      -> [e EXCEPT !.got = Append(@, m)]

(* FixReceiver::DispatchFixMessage. *)
DispatchFixMessage(e, s, m, live) ==
  LET seqSt == CompareFixSeqNum(m.seq, e.nextRecv)
      e1    == IF m.type \in NoPreRecord(s) THEN e ELSE WriteInputConform(e)
  IN CASE seqSt = "Conform" ->
            OnMessageProcessed(FixMsgHandler(e1, s, m, seqSt, live), m.seq)
       [] seqSt \in SeqAllow(m.type) -> FixMsgHandler(e, s, m, seqSt, live)
       [] OTHER -> OnMsgSeqNumNotExpected(e, m, seqSt, IsInfiniteTTL(m.type))

(* Mutant: the number to receive is reset even if no reset is pending. *)
SendLogonAlwaysReset(e) ==
  LET e1 == ForceResetRecvSeq([e EXCEPT !.st = LogonSent, !.resetSend = 0, !.resetRecv = 0],
                              e.resetRecv)
  IN [Send(e1, "Logon", 0, 0) EXCEPT !.sender = TRUE]

(* The initiator's SendLogon, and the acceptor's in SendLogonResponse: the
   numbers an operator left to be reset are reset first. *)
SendLogon(e) ==
  LET e1 == ResetNextSendSeq([e EXCEPT !.st = LogonSent, !.resetSend = 0], e.resetSend)
      e2 == IF e.resetRecv = 0 THEN e1
            ELSE ForceResetRecvSeq([e1 EXCEPT !.resetRecv = 0], e.resetRecv)
  IN [Send(e2, "Logon", 0, 0) EXCEPT !.sender = TRUE]

(* IoFixManager::OnLogonAccepted. *)
OnLogonAccepted(e, m) ==
  LET seqSt == CompareFixSeqNum(m.seq, e.nextRecv)
  IN IF seqSt = "TooLow" THEN SendLogout([e EXCEPT !.tooLow = TRUE])
     ELSE OnLogonResponsed(SendLogon(IF seqSt = "Conform" THEN WriteInputConform(e) ELSE e),
                           m, seqSt)

(* OnFixMessageParsed: the first message of a connection must be a Logon. *)
OnFixMessageParsed(e0, s, m, live) ==
  LET e == [e0 EXCEPT !.rcvd = TRUE]
  IN CASE e.st = Disconnected -> e
       [] e.st = Connected    -> IF m.type = "Logon" THEN OnLogonAccepted(e, m)
                                 ELSE CloseFixSession(e)
       [] e.st = LogonSent /\ m.type # "Logon" -> CloseFixSession(e)
       [] OTHER -> DispatchFixMessage(e, s, m, live)

ClearFixSession(e, st) == ClearRecvKeeper([e EXCEPT !.st = st, !.rcvd = FALSE, !.hbTest = 0])

OnFixSessionConnected(e) == [ClearFixSession(e, Connected) EXCEPT !.closing = FALSE]

OnFixSessionDisconnected(e) == [ClearFixSession(e, Disconnected) EXCEPT !.sender = FALSE]

(* FixSessionOnTimer: nothing came in between two timers, or something did. *)
OnTimerTest(e) == [e EXCEPT !.hbTest = IF e.rcvd THEN 0 ELSE @ + 1, !.rcvd = FALSE]

(* Mutant: the recovery timer is set again without a look at what came in. *)
FixSessionOnTimerPatient(e) ==
  IF e.st = LogonRecovering THEN [e EXCEPT !.rcvd = FALSE]
  ELSE IF e.st \in {Connected, LogonSent, LogoutPending} THEN CloseFixSession(e) ELSE e

FixSessionOnTimer(e) ==
  LET quiet == OnTimerTest(e)
  IN CASE e.st = Disconnected -> e
       [] e.st \in {Connected, LogonSent, LogoutPending} -> CloseFixSession(e)
       [] e.st = LogonRecovering -> IF e.rcvd THEN [e EXCEPT !.rcvd = FALSE] ELSE CloseFixSession(e)
       [] e.st = LogonTest -> IF quiet.hbTest >= MaxLogonTestCount THEN CloseFixSession(quiet)
                              ELSE SendLogonTestRequest(quiet)
       [] e.st = ApReady -> IF quiet.hbTest >= HbTestRequestCount + 1 THEN CloseFixSession(quiet)
                            ELSE IF quiet.hbTest >= HbTestRequestCount
                            THEN Send(quiet, "TestRequest", 0, 0)
                            ELSE Send(quiet, "Heartbeat", 0, 0)

(* The operator's snext and rnext commands. *)
CommandSnext(e, n) == IF e.st = ApReady THEN SequenceReset([e EXCEPT !.resetSend = 0], n)
                      ELSE [e EXCEPT !.resetSend = n]

CommandRnext(e, n) == IF e.sender THEN ForceResetRecvSeq([e EXCEPT !.resetRecv = 0], n)
                      ELSE [e EXCEPT !.resetRecv = n]
=============================================================================
