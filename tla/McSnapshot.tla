----------------------------- MODULE McSnapshot -----------------------------
(***************************************************************************)
(* Three channels of one market of the futures exchange (ExgMcChannel,     *)
(* ExgMcChannelMgr): real-time (1 or 2), basic info (3 or 4), snapshot (13 *)
(* or 14).  Real-time packets are kept in a log until the basic info has   *)
(* gone round once and a snapshot has been received whole; then the        *)
(* symbols are given the snapshot and the real-time packets behind it.     *)
(*                                                                         *)
(* Packets are lost by the multicast; a real-time packet may be recovered  *)
(* later (McRecover).  A snapshot round is the messages 1 (A, Refresh      *)
(* Begin), 2, ..., RoundLen (Z, Refresh Complete), of which A and Z carry  *)
(* the number of the last real-time packet it covers.                      *)
(***************************************************************************)
EXTENDS Integers, SequencesExt

CONSTANTS RoundLen,     \* messages of a snapshot round
          Before,       \* real-time packets that were sent before the start
          MaxRt, MaxBasic, MaxRounds, \* bounds: packets and rounds sent
          FirstArrives, \* the first real-time packet sent after the start is not lost
          RoundsApart,  \* a round begins when WaitInterval has passed since the last one
          OneThread     \* one thread receives for the three channels

VARIABLES rt,     \* the real-time channel
          basic,  \* the channel of basic info
          ss,     \* the snapshot channel
          out,    \* what DispatchMcMessage gave the symbols: of snapshots and of real time
          net     \* the exchange and the network

snapVars == <<rt, basic, ss, out, net>>

(* ExgMcChannelState *)
Running == 1
Waiting == 2
Cycled == 3
CanBeClosed == 4

Sorted(S) == SetToSortSeq(S, LAMBDA m, n : m < n)
Gaps(next, S) == Max(S) + 1 - next - Cardinality(S)

-----------------------------------------------------------------------------
(* Real-time channel *)

RtOut(seqs) == [i \in DOMAIN seqs |-> [of |-> "rt", round |-> 0, seq |-> seqs[i]]]

(* Packets that PkContOnReceived is given: dispatched unless the channel waits, and logged. *)
RtGive(lost, seqs) ==
  /\ rt' = [rt EXCEPT !.log = @ \o Sorted(seqs), !.next = Max(seqs) + 1, !.pks = @ \ seqs,
                      !.lost = @ + lost, !.pk1st = IF @ = 0 THEN Min(seqs) ELSE @]
  /\ out' = IF rt.state = Waiting THEN out ELSE out \o RtOut(Sorted(seqs))

RtFeed(n) ==
  IF n = rt.next \/ rt.log = <<>>
  THEN RtGive(0, {n} \cup {p \in rt.pks : (n + 1)..p \subseteq rt.pks})
  ELSE IF n < rt.next THEN UNCHANGED <<rt, out>>
  ELSE rt' = [rt EXCEPT !.pks = @ \cup {n}] /\ UNCHANGED out

RtPacket ==
  /\ net.rt < MaxRt
  /\ \/ RtFeed(net.rt + 1) /\ net' = [net EXCEPT !.rt = @ + 1]
     \/ /\ FirstArrives => rt.log # <<>>
        /\ net' = [net EXCEPT !.rt = @ + 1, !.missing = @ \cup {net.rt + 1}]
        /\ UNCHANGED <<rt, out>>
  /\ UNCHANGED <<basic, ss>>

RtRecovered == \E n \in net.missing : /\ rt.pks # {} /\ RtFeed(n)
                                      /\ net' = [net EXCEPT !.missing = @ \ {n}]
                                      /\ UNCHANGED <<basic, ss>>

(* The timer, when there is nobody to ask. *)
RtGiveUp == /\ rt.pks # {} /\ RtGive(Gaps(rt.next, rt.pks), rt.pks)
            /\ UNCHANGED <<basic, ss, net>>

(* A heartbeat carries the number of the last packet; it is logged. *)
RtHb == /\ rt.pk1st = 0 /\ net.rt > 0
        /\ rt' = [rt EXCEPT !.pk1st = net.rt]
        /\ UNCHANGED <<basic, ss, out, net>>

-----------------------------------------------------------------------------
(* Snapshot channel; a = [ss, rt, out] is what a message changes. *)

SsOut(p) == [of |-> "ss", round |-> p.round, seq |-> p.seq]

(* Mutant: the packet behind the snapshot is left out. *)
RtSnapshotDoneLate(a, lastRtSeq) ==
  IF a.rt.state # Waiting THEN a
  ELSE [a EXCEPT !.rt.state = Running,
                 !.out = @ \o RtOut(SelectSeq(a.rt.log, LAMBDA n : n > lastRtSeq + 1))]

(* ExgMcChannel::OnSnapshotDone of the real-time channel: ReloadDispatch. *)
RtSnapshotDone(a, lastRtSeq) ==
  IF a.rt.state # Waiting THEN a
  ELSE [a EXCEPT !.rt.state = Running,
                 !.out = @ \o RtOut(SelectSeq(a.rt.log, LAMBDA n : n >= lastRtSeq + 1))]

(* Mutant: the log is not begun anew. *)
SsBeginAppend(a, lastRtSeq) ==
  [a EXCEPT !.ss.skip = FALSE, !.ss.cycleStart = lastRtSeq, !.ss.cycleBefore = a.ss.lost]

(* A: a new round, from which the log begins. *)
SsBegin(a, lastRtSeq) ==
  [a EXCEPT !.ss.skip = FALSE, !.ss.cycleStart = lastRtSeq, !.ss.cycleBefore = a.ss.lost, !.ss.log = <<>>]

(* Mutant: a round is whole whatever was lost of it. *)
SsWholeLossy(a, lastRtSeq) ==
  lastRtSeq = a.ss.cycleStart /\ (a.rt.pk1st = 1 \/ a.rt.pk1st <= lastRtSeq)

(* Z: is the round whole and do the real-time packets go on from it? *)
SsWhole(a, lastRtSeq) ==
  /\ lastRtSeq = a.ss.cycleStart /\ a.ss.lost = a.ss.cycleBefore
  /\ a.rt.pk1st = 1 \/ a.rt.pk1st <= lastRtSeq

SsComplete(a, lastRtSeq) ==
  IF ~SsWhole(a, lastRtSeq) THEN a
  ELSE LET b == [a EXCEPT !.ss.state = CanBeClosed]
       IN IF basic.state >= Cycled THEN RtSnapshotDone(b, lastRtSeq) ELSE b

(* The message is dispatched, unless the channel waits, and logged. *)
SsAccept(a, p) == [a EXCEPT !.ss.log = Append(@, p),
                            !.out = IF a.ss.state = Waiting THEN @ ELSE Append(@, SsOut(p))]

(* PkContOnReceived with OnPkContSnapshot. *)
SsReceive(a, p) ==
  LET lastRtSeq == net.last[p.round]
      b == [a EXCEPT !.ss.next = p.seq + 1, !.ss.any = TRUE]
  IN CASE a.ss.state = CanBeClosed -> b
       [] a.ss.state # CanBeClosed /\ p.seq = 1 ->
            IF a.ss.skip /\ a.rt.pk1st > lastRtSeq THEN b ELSE SsAccept(SsBegin(b, lastRtSeq), p)
       [] a.ss.state # CanBeClosed /\ p.seq = RoundLen ->
            IF a.ss.skip THEN [b EXCEPT !.ss.next = 0]
            ELSE LET c == SsAccept(SsComplete(b, lastRtSeq), p)
                 IN IF c.ss.state = CanBeClosed THEN c ELSE [c EXCEPT !.ss.next = 0]
       [] OTHER -> IF a.ss.skip THEN b ELSE SsAccept(b, p)

SsState == [ss |-> ss, rt |-> rt, out |-> out]
SetSsState(a) == ss' = a.ss /\ rt' = a.rt /\ out' = a.out

SsPending == SetToSortSeq(ss.pks, LAMBDA p, q : p.seq < q.seq)

(* FeedPacket; message 1 always continues (OnPkReceived). *)
SsFeed(p) ==
  LET next == IF p.seq = 1 THEN 1 ELSE ss.next
      Continue(a, q) == IF q.seq = a.ss.next
                        THEN [SsReceive(a, q) EXCEPT !.ss.pks = @ \ {q}] ELSE a
  IN IF p.seq = next \/ ~ss.any
     THEN SetSsState(FoldLeft(Continue, SsReceive(SsState, p), SsPending))
     ELSE /\ ss' = IF p.seq < next \/ \E q \in ss.pks : q.seq = p.seq THEN ss
                   ELSE [ss EXCEPT !.pks = @ \cup {p}]
          /\ UNCHANGED <<rt, out>>

(* The exchange begins a round when it has sent the last one. *)
SsRound == /\ net.pos = RoundLen /\ Len(net.last) < MaxRounds
           /\ RoundsApart => ss.pks = {}
           /\ net' = [net EXCEPT !.pos = 0, !.last = Append(@, net.rt)]
           /\ UNCHANGED <<rt, basic, ss, out>>

SsPacket == /\ net.pos < RoundLen /\ net' = [net EXCEPT !.pos = @ + 1]
            /\ OneThread => basic.doing = "idle"
            /\ \/ SsFeed([round |-> Len(net.last), seq |-> net.pos + 1])
               \/ UNCHANGED <<rt, ss, out>>
            /\ UNCHANGED basic

(* The timer gives all pendings. *)
SsGiveUp ==
  /\ ss.pks # {}
  /\ SetSsState(FoldLeft(LAMBDA a, p : SsReceive([a EXCEPT !.ss.lost = @ + p.seq - a.ss.next], p),
                         [SsState EXCEPT !.ss.pks = {}], SsPending))
  /\ UNCHANGED <<basic, net>>

-----------------------------------------------------------------------------
(* Basic info: dispatched at once in any order; PkContFeeder only tells what is
   missing. *)

BasicGive(lost, seqs) == basic' = [basic EXCEPT !.next = Max(seqs) + 1, !.pks = @ \ seqs, !.lost = @ + lost,
                                                !.got = @ \cup seqs]

BasicFeed(n) ==
  IF n = basic.next \/ basic.got = {}
  THEN BasicGive(0, {n} \cup {p \in basic.pks : (n + 1)..p \subseteq basic.pks})
  ELSE basic' = [basic EXCEPT !.pks = @ \cup {n}]

BasicPacket == /\ net.basic < MaxBasic /\ net' = [net EXCEPT !.basic = @ + 1]
               /\ basic.doing = "idle"
               /\ BasicFeed(net.basic + 1) \/ UNCHANGED basic
               /\ UNCHANGED <<rt, ss, out>>

BasicGiveUp == /\ basic.pks # {} /\ BasicGive(Gaps(basic.next, basic.pks), basic.pks)
               /\ UNCHANGED <<rt, ss, out, net>>

OnCycleStart(b, seq) == [b EXCEPT !.cycleStart = seq, !.cycleBefore = b.lost]

(* Mutant: losses of the time before the cycle began do not matter, nor do later ones. *)
BasicHbLossy ==
  /\ net.basic > 0 /\ basic.doing = "idle"
  /\ basic.next = net.basic + 1 /\ basic.cycleStart # net.basic + 1
  /\ LET b == [basic EXCEPT !.hbs = @ \cup {net.basic}]
     IN basic' = IF b.cycleStart # 0 /\ b.state < Cycled
                 THEN [b EXCEPT !.state = Cycled, !.doing = "cycled"]
                 ELSE OnCycleStart(b, net.basic + 1)
  /\ UNCHANGED <<rt, ss, out, net>>

(* OnPkHb: a heartbeat with the right number; the second one with nothing lost
   since the first ends the cycle: ChannelCycled ... *)
BasicHb ==
  /\ net.basic > 0 /\ basic.doing = "idle"
  /\ basic.next = net.basic + 1 /\ basic.cycleStart # net.basic + 1
  /\ LET b == [basic EXCEPT !.hbs = @ \cup {net.basic}]
     IN basic' = IF b.cycleStart # 0 /\ b.state < Cycled /\ b.lost = b.cycleBefore
                 THEN [b EXCEPT !.state = Cycled, !.doing = "cycled"]
                 ELSE OnCycleStart(b, net.basic + 1)
  /\ UNCHANGED <<rt, ss, out, net>>

(* Mutant: what was logged before is not dispatched. *)
SsReloadNone == /\ basic.doing = "cycled" /\ basic' = [basic EXCEPT !.doing = "done"]
                /\ ss' = IF ss.state < Cycled THEN [ss EXCEPT !.state = Running] ELSE ss
                /\ UNCHANGED <<rt, net, out>>

(* ... the snapshot channel dispatches its log, and waits no more ... *)
SsReload == /\ basic.doing = "cycled" /\ basic' = [basic EXCEPT !.doing = "done"]
            /\ out' = out \o [i \in DOMAIN ss.log |-> SsOut(ss.log[i])]
            /\ ss' = IF ss.state < Cycled THEN [ss EXCEPT !.state = Running] ELSE ss
            /\ UNCHANGED <<rt, net>>

(* ... and if the snapshot is done, so is the waiting of the real-time channel. *)
CycledDone == /\ basic.doing = "done"
              /\ basic' = OnCycleStart([basic EXCEPT !.doing = "idle"], basic.next)
              /\ SetSsState(IF ss.state = CanBeClosed THEN RtSnapshotDone(SsState, ss.cycleStart) ELSE SsState)
              /\ UNCHANGED net

-----------------------------------------------------------------------------
(* StartupChannel *)
Init == /\ rt = [state |-> Waiting, next |-> 0, pks |-> {}, lost |-> 0, pk1st |-> 0, log |-> <<>>]
        /\ basic = [state |-> Running, next |-> 0, pks |-> {}, lost |-> 0, cycleStart |-> 0, cycleBefore |-> 0,
                    got |-> {}, hbs |-> {}, doing |-> "idle"]
        /\ ss = [state |-> Waiting, next |-> 0, any |-> FALSE, pks |-> {}, lost |-> 0, cycleStart |-> 0,
                 cycleBefore |-> 0, skip |-> TRUE, log |-> <<>>]
        /\ out = <<>>
        /\ net = [rt |-> Before, missing |-> {}, basic |-> 0, last |-> <<>>, pos |-> RoundLen]

Next == \/ RtPacket \/ RtRecovered \/ RtGiveUp \/ RtHb
        \/ SsRound \/ SsPacket \/ SsGiveUp
        \/ BasicPacket \/ BasicGiveUp \/ BasicHb \/ SsReload \/ CycledDone

Spec == Init /\ [][Next]_snapVars

-----------------------------------------------------------------------------
(* Properties *)

RtGiven == {i \in DOMAIN out : out[i].of = "rt"}

(* Once the real-time channel waits no more, the symbols have been given every
   packet behind the snapshot, each once and in order, but for those counted as
   lost, whichever of basic info and snapshot was complete first. *)
BookIsContinuous ==
  rt.state = Running =>
    /\ \A i, j \in RtGiven : i < j => out[i].seq < out[j].seq
    /\ Cardinality(((ss.cycleStart + 1)..(rt.next - 1)) \ {out[i].seq : i \in RtGiven}) <= rt.lost

(* "Discard the kept real-time packets up to the last number of the snapshot"
   (ExgMcChannel.cpp): the symbols are not given what the snapshot has already. *)
SnapshotIsNewer == rt.state = Running => \A i \in RtGiven : out[i].seq > ss.cycleStart

(* Before the first real-time packet the symbols have been given all messages of
   a snapshot, in order and of one state of the market, after the basic info has
   gone round; and no other snapshot afterwards. *)
SnapshotFirst ==
  rt.state = Running =>
    /\ basic.state >= Cycled
    /\ LET data == {i \in DOMAIN out : out[i].of = "ss" /\ out[i].seq < RoundLen}
           whole == {i \in data : \A k \in 1..(RoundLen - 1) :
                                    /\ i + k - 1 \in data /\ out[i + k - 1].seq = k
                                    /\ net.last[out[i + k - 1].round] = ss.cycleStart}
       IN /\ whole # {} /\ Max(whole) + RoundLen - 2 = Max(data)
          /\ \A i \in RtGiven : i > Max(data)

(* The basic info counts as gone round only when everything between two
   heartbeats was received (OnPkHb). *)
BasicInfoWhole ==
  basic.state >= Cycled => \E m, n \in basic.hbs : m < n /\ (m + 1)..n \subseteq basic.got
=============================================================================
