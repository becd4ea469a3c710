------------------------------ MODULE FixLink ------------------------------
(***************************************************************************)
(* Two FixEngines, the initiator "I" and the acceptor "A", over a link     *)
(* that keeps the order of messages while it is up and loses what is in    *)
(* flight when it breaks.  Each engine processes one event at a time:      *)
(* a received message, its timer, a message of the application, an         *)
(* operator's command.                                                     *)
(***************************************************************************)
EXTENDS FixEngine, FiniteSets

CONSTANTS AppSides,    \* the engines whose application sends
          AppKinds,    \* the types it sends
          AppStates,   \* the session states in which it sends
          MaxSeq,      \* bound: the sequence numbers an engine may use
          MaxApp,      \* bound: application messages sent, all by one side
          MaxLinks,    \* bound: connections made
          MaxTicks,    \* bound: timer events
          MaxCommands, \* bound: operator commands
          ResetTo      \* the numbers an operator may set

ASSUME LinkAssumption ==
  /\ AppSides \subseteq {"I", "A"} /\ NoReplaySides \subseteq {"I", "A"} /\ ForeignSides \subseteq {"I", "A"}
  /\ AppKinds \subseteq AppTypes /\ AppStates \subseteq Disconnected..LogoutPending
  /\ MaxSeq \in Nat /\ MaxApp \in Nat /\ MaxLinks \in Nat /\ MaxTicks \in Nat
  /\ MaxCommands \in Nat /\ ResetTo \subseteq Nat \ {0}

Sides == {"I", "A"}
Peer(s) == IF s = "I" THEN "A" ELSE "I"

VARIABLES eng,      \* the engine of each side
          chan,     \* chan[s]: the messages in flight from s to its peer
          links,    \* how many connections were made
          apps,     \* how many application messages each side sent
          ticks,    \* timer events so far
          commands  \* operator commands so far

vars == <<eng, chan, links, apps, ticks, commands>>

Init == /\ eng = [s \in Sides |-> NewEngine]
        /\ chan = [s \in Sides |-> <<>>]
        /\ links = 0
        /\ apps = [s \in Sides |-> 0]
        /\ ticks = 0
        /\ commands = 0

(* A link is up from Connect to Disconnect. *)
LinkUp == links % 2 = 1

(* Side s becomes e, and what e sends goes out while its FixSender has the
   device (from the Logon it sends to the end of the link). *)
Become(s, e) ==
  /\ e.nextSend <= MaxSeq + 1
  /\ eng' = [eng EXCEPT ![s] = [e EXCEPT !.out = <<>>]]
  /\ chan' = [chan EXCEPT ![s] = IF e.sender THEN @ \o e.out ELSE @]

(* The Orders of s whose time to live may not have passed. *)
Orders(s) == {eng[s].log[i].seq : i \in {j \in DOMAIN eng[s].log : eng[s].log[j].type = "Order"}}

(* The link comes up: both sides are Connected and the initiator logs on. *)
Connect == /\ ~LinkUp /\ links < 2 * MaxLinks
           /\ links' = links + 1
           /\ LET i == SendLogon(OnFixSessionConnected(eng["I"]))
              IN /\ i.nextSend <= MaxSeq + 1
                 /\ eng' = [I |-> [i EXCEPT !.out = <<>>], A |-> OnFixSessionConnected(eng["A"])]
                 /\ chan' = [I |-> i.out, A |-> <<>>]
           /\ UNCHANGED <<apps, ticks, commands>>

(* The link breaks, or one side closes it: what is in flight is lost. *)
Disconnect == /\ LinkUp
              /\ links' = links + 1
              /\ eng' = [s \in Sides |-> OnFixSessionDisconnected(eng[s])]
              /\ chan' = [s \in Sides |-> <<>>]
              /\ UNCHANGED <<apps, ticks, commands>>

(* Side s takes the next message of its peer. *)
Receive(s) == /\ chan[Peer(s)] # <<>>
              /\ \E live \in SUBSET Orders(s) :
                   LET e == OnFixMessageParsed(eng[s], s, Head(chan[Peer(s)]), live)
                   IN /\ e.nextSend <= MaxSeq + 1
                      /\ eng' = [eng EXCEPT ![s] = [e EXCEPT !.out = <<>>]]
                      /\ chan' = [chan EXCEPT ![s] = @ \o e.out, ![Peer(s)] = Tail(@)]
              /\ UNCHANGED <<links, apps, ticks, commands>>

(* The application of s uses its FixSender, in one of the states AppStates of
   the session: the message is numbered and recorded in any case, and goes out
   if the sender has a device.  (Bound: one application sends, either one.) *)
AppSend(s) == /\ s \in AppSides /\ eng[s].st \in AppStates /\ apps[s] < MaxApp
              /\ apps[Peer(s)] = 0
              /\ apps' = [apps EXCEPT ![s] = @ + 1]
              /\ \E type \in AppKinds : Become(s, Send(eng[s], type, 0, 0))
              /\ UNCHANGED <<links, ticks, commands>>

(* The timer of s; a bounded number of times it sends something. *)
OnTimer(s) == /\ eng[s].st # Disconnected /\ ~eng[s].closing
              /\ LET e == FixSessionOnTimer(eng[s])
                 IN /\ Become(s, e)
                    /\ ticks' = IF e.out = <<>> THEN ticks ELSE ticks + 1
                    /\ ticks' <= MaxTicks
              /\ UNCHANGED <<links, apps, commands>>

Snext(s) == /\ commands < MaxCommands
            /\ commands' = commands + 1
            /\ \E n \in ResetTo : Become(s, CommandSnext(eng[s], n))
            /\ UNCHANGED <<links, apps, ticks>>

Rnext(s) == /\ commands < MaxCommands
            /\ commands' = commands + 1
            /\ \E n \in ResetTo : Become(s, CommandRnext(eng[s], n))
            /\ UNCHANGED <<links, apps, ticks>>

Next == \/ Connect
        \/ Disconnect
        \/ \E s \in Sides : Receive(s) \/ AppSend(s) \/ OnTimer(s) \/ Snext(s) \/ Rnext(s)

Spec == Init /\ [][Next]_vars

(* Every engine's receiver and timer run again and again, and a close that
   was asked for (AsyncLingerClose) is done. *)
Close == (\E s \in Sides : eng[s].closing) /\ Disconnect

FairSpec == /\ Spec
            /\ \A s \in Sides : WF_vars(Receive(s)) /\ WF_vars(OnTimer(s))
            /\ WF_vars(Close)

-----------------------------------------------------------------------------
(* Properties *)

(* Both numbers of a recorder stay positive and below the bound, and a call
   leaves nothing unsent. *)
TypeOK ==
  /\ \A s \in Sides :
       /\ eng[s].nextSend \in 1..(MaxSeq + 1) /\ eng[s].nextRecv \in Nat \ {0}
       /\ eng[s].st \in Disconnected..LogoutPending
       /\ eng[s].out = <<>>
  /\ links \in 0..(2 * MaxLinks) /\ ticks \in 0..MaxTicks

(* No application message, not even one that may expire, is handled twice
   or after one that was sent later. *)
HandledInOrder ==
  \A s \in Sides : \A i, j \in DOMAIN eng[s].got :
    i < j => eng[s].got[i].seq < eng[s].got[j].seq

(* Exactly once, in order: over every loss and replay, the Reports handed to
   the application of s are the Reports its peer sent below the number s
   expects, each once (FixReceiver::DispatchFixMessage, CheckMsgKeeper and
   FixSender::Replay together), among the other messages in their order. *)
ReportsExactlyOnce ==
  /\ HandledInOrder
  /\ \A s \in Sides :
       LET sent == eng[Peer(s)].log
           got  == eng[s].got
       IN {got[i].seq : i \in {j \in DOMAIN got : got[j].type = "Report"}}
          = {sent[i].seq : i \in {j \in DOMAIN sent : /\ sent[j].type = "Report"
                                                      /\ sent[j].seq < eng[s].nextRecv}}

(* No receiver expects, has seen or asks for a number its peer did not use: a
   GapFill never takes it past what was sent.  And without an operator's
   command no engine sees a number too low that is not a possible duplicate,
   which would log the session out: no number is used twice. *)
NeverAhead ==
  \A s \in Sides :
    LET e == eng[s] p == eng[Peer(s)]
    IN /\ e.nextRecv <= p.nextSend /\ e.lastGap < p.nextSend /\ e.resendEnd < p.nextSend
       /\ ~e.tooLow

(* The keeper holds messages above the expected number and above the range
   under request, in order and at most up to the last gap: so CheckMsgKeeper
   never dispatches a kept message whose number does not conform, and never
   calls itself through OnMessageProcessed. *)
KeeperInOrder ==
  \A s \in Sides :
    LET e == eng[s]
    IN /\ \A i \in DOMAIN e.keeper : /\ e.keeper[i].seq > e.nextRecv
                                     /\ e.keeper[i].seq > e.resendEnd
                                     /\ e.keeper[i].seq <= e.lastGap
       /\ \A i, j \in DOMAIN e.keeper : i < j => e.keeper[i].seq < e.keeper[j].seq

(* Exactly once and in order, kept messages included (FixReceiver). *)
ReportsOnceInOrder == ReportsExactlyOnce /\ KeeperInOrder

(* Both sessions are ready, nothing is in flight and no request is
   outstanding. *)
Quiet == /\ LinkUp
         /\ \A s \in Sides : chan[s] = <<>> /\ eng[s].st = ApReady /\ eng[s].resendEnd = 0

(* A side enters ApReady, where it sends to its peer's application, only with
   its own recovery behind it: no request outstanding and no message kept
   (SetApReadySt is called for a conform Heartbeat or TestRequest only). *)
ReadyAfterRecovery ==
  [][\A s \in Sides : eng[s].st # ApReady /\ eng'[s].st = ApReady
       => eng'[s].resendEnd = 0 /\ eng'[s].keeper = <<>>]_vars

(* After an operator reset a number (SequenceReset to a ready peer, or at the
   next logon) and the link is quiet again, no receiver expects more than its
   peer will send next. *)
QuietAgree ==
  Quiet => \A s \in Sides : eng[s].nextRecv <= eng[Peer(s)].nextSend

(* A session does not recover for ever: the timer ends it if the answer to
   its ResendRequest stops coming. *)
RecoveringEnds == \A s \in Sides : eng[s].st = LogonRecovering ~> eng[s].st # LogonRecovering

-----------------------------------------------------------------------------
(* What the repository says of the code, and the code does not do. *)

(* "resend, including beginSeqNo and endSeqNo" (FixSender.hpp): while a
   request is outstanding either it or the rest of its answer is in flight. *)
RequestIsAnswered ==
  \A s \in Sides : eng[s].resendEnd > 0 =>
    \/ \E i \in DOMAIN chan[s] :
         chan[s][i].type = "ResendRequest" /\ chan[s][i].b = eng[s].resendEnd
    \/ \E i \in DOMAIN chan[Peer(s)] :
         chan[Peer(s)][i].dup /\ chan[Peer(s)][i].seq >= eng[s].nextRecv

(* The handler of a NoPreRecord type "should call WriteInputConform(rxargs)
   so that the received number is handled correctly" (FixConfig.hpp): a
   message with the expected number moves that number on. *)
ConformIsCounted ==
  [][\A s \in Sides :
       LET in == chan[Peer(s)]
       IN in # <<>> /\ chan'[Peer(s)] = Tail(in) /\ LinkUp'
          /\ eng[s].st > LogonSent /\ Head(in).seq = eng[s].nextRecv
          => eng'[s].nextRecv > Head(in).seq]_vars

(* "all is made up for" (FixReceiver.cpp, CheckMsgKeeper): a recovery that
   is done leaves no message of the gap behind. *)
DoneMeansCaughtUp ==
  [][\A s \in Sides : eng[s].lastGap > 0 /\ eng'[s].lastGap = 0 /\ LinkUp'
       => eng'[s].nextRecv > eng[s].lastGap]_vars
=============================================================================
