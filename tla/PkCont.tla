------------------------------- MODULE PkCont -------------------------------
(***************************************************************************)
(* PkContFeeder: puts the packets of a numbered stream in order.  Several  *)
(* receivers feed the same stream; packets are lost, duplicated and        *)
(* reordered on the way.  A packet that is ahead waits among the pendings  *)
(* until the gap is filled or a timer gives the gap up.  Numbers go from   *)
(* MaxSeqNo back to FirstSeqNoAfterOverflow.                               *)
(*                                                                         *)
(* A packet is known by its place in the stream (1, 2, ...), of which the  *)
(* code only sees the number Wire(place).                                  *)
(***************************************************************************)
EXTENDS Integers, SequencesExt

CONSTANTS MaxSeqNo, FirstSeqNoAfterOverflow,
          StartSeq,    \* number of the first packet of the stream
          Places,      \* bound: packets of the stream
          Copies,      \* bound: how often a packet arrives
          Window,      \* bound: how many packets may overtake one
          Feeders,     \* threads that feed
          WaitInterval, \* 0: gaps are not waited for
          MaxClears,   \* bound: calls of Clear
          TimerFires   \* FALSE: gaps are always filled in time

(* The number a packet carries. *)
Wire(place) == LET n == StartSeq + place - 1
               IN IF n <= MaxSeqNo THEN n ELSE n - MaxSeqNo - 1 + FirstSeqNoAfterOverflow

kMaxGapAllow == MaxSeqNo \div 2

VARIABLES nextSeq,   \* NextSeq_
          received,  \* ReceivedCount_
          lost,      \* LostCount_
          pks,       \* PkPendings_: [seq, place], no two with the same seq
          inLine,    \* the timer waits in the timer thread
          emitting,  \* the timer thread calls EmitOnTimer: "no", "called", "done"
          feeder,    \* feeder[f] = "run": f unlocked the pendings and will call RunAfter
          clearing,  \* Clear has stopped the timer and waits for the lock
          clears,    \* calls of Clear
          arrived,   \* arrived[p]: how often the packet p arrived
          given      \* history: what PkContOnReceived was given, [place, seq]

vars == <<nextSeq, received, lost, pks, inLine, emitting, feeder, clearing, clears, arrived, given>>
timerVars == <<inLine, emitting>>

-----------------------------------------------------------------------------
(* What a call of CallOnReceived changes; g is [next, received, lost, given]. *)
Feed == [next |-> nextSeq, received |-> received, lost |-> lost, given |-> given]

(* Mutant: the next number is the packet's own. *)
AfterSeqSame(seq) == seq

AfterSeq(seq) == IF seq + 1 <= MaxSeqNo THEN seq + 1
                 ELSE LET n == seq + 1 - MaxSeqNo
                      IN IF n = 1 THEN FirstSeqNoAfterOverflow ELSE n

(* Mutant: the number after MaxSeqNo is MaxSeqNo + 1. *)
CallOnReceivedNoWrap(g, place, seq) ==
  [g EXCEPT !.next = seq + 1, !.received = @ + 1,
            !.given = Append(@, [place |-> place, seq |-> seq])]

CallOnReceived(g, place, seq) ==
  [g EXCEPT !.next = AfterSeq(seq), !.received = @ + 1,
            !.given = Append(@, [place |-> place, seq |-> seq])]

SetFeed(g) == nextSeq' = g.next /\ received' = g.received /\ lost' = g.lost /\ given' = g.given

Sorted(pending) == SetToSortSeq(pending, LAMBDA p, q : p.seq < q.seq)
Unwrapped(seq) == IF seq > MaxSeqNo THEN seq - (MaxSeqNo + 1) ELSE seq

(* Mutant: the number is compared as it should and given as it was kept. *)
ContinueUnadjusted(g, pending) ==
  FoldLeft(LAMBDA a, p : IF a.left # {} \/ Unwrapped(p.seq) # a.g.next
                         THEN [a EXCEPT !.left = @ \cup {p}]
                         ELSE [a EXCEPT !.g = CallOnReceived(@, p.place, p.seq)],
           [g |-> g, left |-> {}], Sorted(pending))

(* The pendings that continue the packet just given, as far as they go. *)
Continue(g, pending) ==
  FoldLeft(LAMBDA a, p : IF a.left # {} \/ Unwrapped(p.seq) # a.g.next
                         THEN [a EXCEPT !.left = @ \cup {p}]
                         ELSE [a EXCEPT !.g = CallOnReceived(@, p.place, Unwrapped(p.seq))],
           [g |-> g, left |-> {}], Sorted(pending))

(* Mutant: what was given is not erased. *)
ReceiveNoErase(place, seq) == LET a == Continue(CallOnReceived(Feed, place, seq), pks)
                              IN SetFeed(a.g) /\ UNCHANGED <<pks, feeder>>

Receive(place, seq) == LET a == Continue(CallOnReceived(Feed, place, seq), pks)
                       IN SetFeed(a.g) /\ pks' = a.left /\ UNCHANGED feeder

(* The packet waits; whoever puts the first one there starts the timer. *)
Pend(f, place, seq) ==
  /\ UNCHANGED <<nextSeq, received, lost, given>>
  /\ IF \E p \in pks : p.seq = seq
     THEN UNCHANGED <<pks, feeder>>
     ELSE /\ pks' = pks \cup {[place |-> place, seq |-> seq]}
          /\ feeder' = [feeder EXCEPT ![f] = IF pks = {} THEN "run" ELSE "idle"]

Drop == UNCHANGED <<nextSeq, received, lost, given, pks, feeder>>

(* The network: a packet arrives not too far from the foremost one. *)
InWindow(place) == LET seen == {p \in DOMAIN arrived : arrived[p] > 0}
                   IN seen # {} => place \in (Max(seen) - Window)..(Max(seen) + Window + 1)

(* A packet arrives at f. *)
FeedPacket(f, place) ==
  LET seq == Wire(place) IN
  /\ feeder[f] = "idle" /\ arrived[place] < Copies
  /\ InWindow(place)
  /\ arrived' = [arrived EXCEPT ![place] = @ + 1]
  /\ \/ seq = nextSeq /\ Receive(place, seq)
     \/ /\ seq < nextSeq
        /\ IF seq + MaxSeqNo - nextSeq < kMaxGapAllow
           THEN Pend(f, place, seq + MaxSeqNo + 1)
           ELSE Drop
     \/ /\ seq > nextSeq
        /\ IF nextSeq = 0 /\ received = 0 THEN Receive(place, seq)
           ELSE IF seq - nextSeq > kMaxGapAllow THEN Drop
           ELSE IF WaitInterval = 0 THEN Receive(place, seq)
           ELSE Pend(f, place, seq)
  /\ UNCHANGED <<timerVars, clearing, clears>>

(* Mutant: the timer is started only when it is not being called. *)
RunAfterUnlessEmitting(f) ==
  /\ feeder[f] = "run"
  /\ feeder' = [feeder EXCEPT ![f] = "idle"]
  /\ inLine' = (inLine \/ emitting = "no")
  /\ UNCHANGED <<nextSeq, received, lost, pks, emitting, clearing, clears, arrived, given>>

(* The end of FeedPacket, when the pendings are unlocked. *)
RunAfter(f) == /\ feeder[f] = "run"
               /\ feeder' = [feeder EXCEPT ![f] = "idle"]
               /\ inLine' = TRUE
               /\ UNCHANGED <<nextSeq, received, lost, pks, emitting, clearing, clears, arrived, given>>

(* The timer thread takes the timer and calls EmitOnTimer ... *)
Emit == /\ TimerFires /\ inLine /\ emitting = "no"
        /\ inLine' = FALSE /\ emitting' = "called"
        /\ UNCHANGED <<nextSeq, received, lost, pks, feeder, clearing, clears, arrived, given>>

(* Mutant: the gaps are not counted. *)
PkContOnTimerNoLost ==
  /\ emitting = "called"
  /\ SetFeed(FoldLeft(LAMBDA g, p : CallOnReceived(g, p.place, p.seq), Feed, Sorted(pks)))
  /\ pks' = {} /\ emitting' = "done"
  /\ UNCHANGED <<inLine, feeder, clearing, clears, arrived>>

(* Mutant: while one packet is missing the timer is started once more. *)
PkContOnTimerPatient ==
  /\ emitting = "called" /\ emitting' = "done"
  /\ IF \E p \in pks : p.seq = nextSeq + 1
     THEN inLine' = TRUE /\ UNCHANGED <<nextSeq, received, lost, given, pks>>
     ELSE /\ SetFeed(FoldLeft(LAMBDA g, p : CallOnReceived([g EXCEPT !.lost = @ + p.seq - g.next], p.place, p.seq),
                             Feed, Sorted(pks)))
          /\ pks' = {} /\ UNCHANGED inLine
  /\ UNCHANGED <<feeder, clearing, clears, arrived>>

(* ... which locks the pendings and gives all of them. *)
PkContOnTimer ==
  /\ emitting = "called"
  /\ SetFeed(FoldLeft(LAMBDA g, p : CallOnReceived([g EXCEPT !.lost = @ + p.seq - g.next], p.place, p.seq),
                      Feed, Sorted(pks)))
  /\ pks' = {} /\ emitting' = "done"
  /\ UNCHANGED <<inLine, feeder, clearing, clears, arrived>>

EmitEnd == /\ emitting = "done" /\ emitting' = "no"
           /\ UNCHANGED <<nextSeq, received, lost, pks, inLine, feeder, clearing, clears, arrived, given>>

(* Clear: the timer is stopped and its call waited for; then the lock. *)
ClearStop == /\ ~clearing /\ clears < MaxClears /\ emitting = "no"
             /\ inLine' = FALSE /\ clearing' = TRUE /\ clears' = clears + 1
             /\ UNCHANGED <<nextSeq, received, lost, pks, emitting, feeder, arrived, given>>

ClearLocked == /\ clearing /\ clearing' = FALSE
               /\ pks' = {} /\ received' = 0 /\ lost' = 0 /\ nextSeq' = 0 /\ given' = <<>>
               /\ UNCHANGED <<timerVars, feeder, clears, arrived>>

Init == /\ nextSeq = 0 /\ received = 0 /\ lost = 0 /\ pks = {} /\ given = <<>>
        /\ inLine = FALSE /\ emitting = "no" /\ clearing = FALSE /\ clears = 0
        /\ feeder = [f \in Feeders |-> "idle"]
        /\ arrived = [p \in 1..Places |-> 0]

Next == \/ \E f \in Feeders, p \in 1..Places : FeedPacket(f, p)
        \/ \E f \in Feeders : RunAfter(f)
        \/ Emit \/ PkContOnTimer \/ EmitEnd
        \/ ClearStop \/ ClearLocked

(* The timer thread and the feeders go on; nothing makes a packet arrive. *)
Fairness == /\ \A f \in Feeders : WF_vars(RunAfter(f))
            /\ WF_vars(Emit) /\ WF_vars(PkContOnTimer) /\ WF_vars(EmitEnd) /\ WF_vars(ClearLocked)

Spec == Init /\ [][Next]_vars
FairSpec == Spec /\ Fairness

-----------------------------------------------------------------------------
(* Properties *)

(* The types of the state: the pendings are packets that arrived, each behind
   the number waited for and within the gap allowed (FeedPacket). *)
TypeOK ==
  /\ nextSeq \in 0..(2 * MaxSeqNo + 1) /\ received \in Nat /\ lost \in Nat
  /\ \A p \in pks : p.seq > nextSeq /\ p.place \in 1..Places /\ arrived[p.place] > 0 /\ Unwrapped(p.seq) = Wire(p.place)
  /\ inLine \in BOOLEAN /\ emitting \in {"no", "called", "done"} /\ clearing \in BOOLEAN
  /\ feeder \in [Feeders -> {"idle", "run"}]

(* The packets given are those of the stream, in its order and each once,
   whatever arrives twice, late or early at whichever feeder. *)
GivenInOrder ==
  \A i, j \in DOMAIN given : i < j => given[i].place < given[j].place

(* No packet is given twice: "duplicates are dropped" (PkCont.hpp). *)
GivenOnce ==
  \A i, j \in DOMAIN given : given[i].place = given[j].place => i = j

(* PkContOnReceived is given the number that the packet carries. *)
GivenAsNumbered == \A i \in DOMAIN given : given[i].seq = Wire(given[i].place)

(* What is counted as lost is what was left out between the first packet and
   the last. *)
LostIsCounted ==
  given # <<>> => received = Len(given)
               /\ given[Len(given)].place - given[1].place + 1 = received + lost

(* What is given is in order, and what is not given is counted (FeedPacket,
   CallOnReceived, PkContOnTimer). *)
GivenAndCounted == GivenInOrder /\ LostIsCounted

(* A packet does not wait for ever: there is a timer, or someone about to start
   it, or a Clear about to take it away. *)
SomeoneWillLook ==
  pks # {} => inLine \/ emitting = "called" \/ clearing \/ \E f \in Feeders : feeder[f] = "run"

(* When no gap is waited for in vain, nothing is left out, across the overflow
   too: once every packet has arrived every packet from the first on was given,
   in order; and each that is given is given with the number it carries. *)
AllGiven ==
  /\ GivenAsNumbered
  /\ (\A p \in 1..Places : arrived[p] > 0) =>
       /\ given[Len(given)].place = Places
       /\ \A i \in 2..Len(given) : given[i].place = given[i-1].place + 1

(* A packet that waits is given in the end (or cleared). *)
PendingsGiven == pks # {} ~> pks = {}
=============================================================================
