----------------------------- MODULE SessionProofs -----------------------------
(***************************************************************************)
(* Proofs about a FIX link (FixLink) and about the timers (Timer).         *)
(*                                                                         *)
(* The link, for any peers, bounds and states in which the applications    *)
(* send, while no operator sets a number and every engine replays.  What   *)
(* must not happen is that a Report is lost or given twice; what makes it  *)
(* so is spread over the two engines and what is in flight between them,   *)
(* so the inductive invariant (LinkInv) has a part for each:               *)
(*   Own      an engine's record has its numbers, in order;                *)
(*   Flow     what is in flight is on record, leaves out no Report and, as *)
(*            far as it is sent for the first time, is behind the rest and *)
(*            beyond all that the receiver has counted;                    *)
(*   Handled  what the application was given are the Reports below the     *)
(*            expected number;                                             *)
(*   Kept, Asked   what is kept over a gap is beyond what was asked for.   *)
(* A call may break Asked until it has asked again (Midway) and may have   *)
(* sent more than is in the channel (Sending, Good).  The two loops, over  *)
(* the kept messages and over the record, are functions of the turn; their *)
(* invariants (Turned, Reloaded) go by induction over a set of numbers.    *)
(***************************************************************************)
EXTENDS FixLink, Timer, SequenceTheorems, WellFoundedInduction, TLAPS

(* The types of a message ... *)
Types == AppTypes \cup AdminTypes
(* ... a message ... *)
Message == [type : Types, seq : Nat, dup : BOOLEAN, a : Nat, b : Nat]
(* ... a line of the record (FixRecorder) ... *)
Line == [seq : Nat, type : Types]
(* ... and the state of an engine (FixSender, FixReceiver, FixSession). *)
Engine == [nextSend : Nat, nextRecv : Nat, log : Seq(Line), keeper : Seq(Message),
           resendEnd : Nat, lastGap : Nat, st : 0..6, rcvd : BOOLEAN,
           hbTest : Nat, sender : BOOLEAN, resetSend : Nat, resetRecv : Nat,
           closing : BOOLEAN, tooLow : BOOLEAN, got : Seq(Message), out : Seq(Message)]

(* The sending part: the next number is one more than the record is long, and the record
   has the numbers in order; no operator has reset a number. *)
Own(e) ==
  /\ e \in Engine
  /\ e.resetSend = 0 /\ e.resetRecv = 0
  /\ e.st = ApReady => e.sender
  /\ e.nextSend = Len(e.log) + 1
  /\ \A i \in 1..Len(e.log) : e.log[i].seq = i

(* A message m in flight from e to p is one that e has recorded, under that number and of
   that type, first sent or sent again; a GapFill leaves out no Report; a ResendRequest
   asks for numbers that p has used. *)
Valid(m, e, p) ==
  /\ m \in Message
  /\ m.type # "Reset" /\ m.seq \in 1..(e.nextSend - 1)
  /\ m.type = "GapFill" => /\ m.dup /\ m.seq < m.a /\ m.a <= e.nextSend
                           /\ \A n \in m.seq..(m.a - 1) : e.log[n].type # "Report"
  /\ m.type # "GapFill" => e.log[m.seq].type = m.type /\ (m.dup => m.type \in AppTypes)
  /\ m.type = "ResendRequest" => 1 <= m.a /\ m.a <= m.b /\ m.b < p.nextSend

(* The number that is expected behind m. *)
Covers(m) == IF m.type = "GapFill" THEN m.a ELSE m.seq + 1

(* A message sent for the first time is beyond what the receiver has counted, and beyond
   the last message that it found over a gap. *)
Beyond(m, e) == ~m.dup => m.seq >= e.nextRecv /\ m.seq > e.lastGap

(* What is behind m in the channel and sent for the first time has a number beyond m: a
   message sent again may repeat, a new one may not. *)
Behind(m, n) == ~n.dup => Covers(m) <= n.seq

(* What is in flight from e to p, in its order. *)
Flow(c, e, p) ==
  /\ c \in Seq(Message)
  /\ \A i \in 1..Len(c) : Valid(c[i], e, p) /\ Beyond(c[i], p)
  /\ \A i, j \in 1..Len(c) : i < j => Behind(c[i], c[j])

(* The application of e was given each Report of p below the expected number, once and in
   the order of the numbers (FixReceiver::DispatchFixMessage). *)
Handled(e, p) ==
  /\ 1 <= e.nextRecv /\ e.nextRecv <= p.nextSend /\ ~e.tooLow
  /\ \A i \in 1..Len(e.got) : 1 <= e.got[i].seq /\ e.got[i].seq < e.nextRecv
  /\ \A i, j \in 1..Len(e.got) : i < j => e.got[i].seq < e.got[j].seq
  /\ \A n \in 1..(e.nextRecv - 1) :
       p.log[n].type = "Report" <=> \E i \in 1..Len(e.got) : e.got[i].seq = n /\ e.got[i].type = "Report"

(* What e keeps over a gap are Reports that p has recorded, in order, up to the last number
   seen (MsgKeeper_). *)
Kept(e, p) ==
  /\ \A i \in 1..Len(e.keeper) :
       /\ e.keeper[i].type = "Report" /\ 1 <= e.keeper[i].seq /\ e.keeper[i].seq <= e.lastGap
       /\ p.log[e.keeper[i].seq].type = "Report"
  /\ \A i, j \in 1..Len(e.keeper) : i < j => e.keeper[i].seq < e.keeper[j].seq
  /\ e.lastGap < p.nextSend

(* A gap is open just when e has asked for something; what it asked for ends before what
   it keeps (FixReceiver::SendResendRequest). *)
Asked(e) ==
  /\ e.resendEnd = 0 <=> e.lastGap = 0
  /\ e.resendEnd <= e.lastGap
  /\ e.resendEnd > 0 => e.nextRecv <= e.resendEnd
  /\ \A i \in 1..Len(e.keeper) : e.keeper[i].seq > e.resendEnd

(* The receiving part of e, against the sending part of p. *)
Heard(e, p) == Handled(e, p) /\ Kept(e, p) /\ Asked(e)

(* The sending part of e, with c in flight and e.out on its way behind it. *)
Sending(c, e, p) == c \in Seq(Message) /\ Own(e) /\ Own(p) /\ Heard(p, e) /\ Flow(c \o e.out, e, p)

(* Both directions, as they are during a call of e. *)
Good(c, d, e, p) == Sending(c, e, p) /\ Heard(e, p) /\ Flow(d, p, e)

(* What a call may leave alone: the sending part ... *)
SameSend(e, f) == f.nextSend = e.nextSend /\ f.log = e.log /\ f.out = e.out
(* ... the receiving part ... *)
SameRecv(e, f) == /\ f.nextRecv = e.nextRecv /\ f.keeper = e.keeper /\ f.resendEnd = e.resendEnd
                  /\ f.lastGap = e.lastGap /\ f.tooLow = e.tooLow /\ f.got = e.got
(* ... the numbers to be reset ... *)
SameReset(e, f) == f.resetSend = e.resetSend /\ f.resetRecv = e.resetRecv
(* ... and the session. *)
SameSession(e, f) == f.st = e.st /\ f.sender = e.sender
(* The log of f is that of e, or longer. *)
Grows(e, f) == /\ f.nextSend >= e.nextSend /\ Len(f.log) >= Len(e.log)
               /\ \A i \in 1..Len(e.log) : f.log[i] = e.log[i]

(* One message is sent: numbered, recorded and put behind what goes out. *)
Sends(e, f, type, a, b) ==
  /\ f.nextSend = e.nextSend + 1
  /\ f.log = Append(e.log, [seq |-> e.nextSend, type |-> type])
  /\ f.out = Append(e.out, Msg(type, e.nextSend, FALSE, a, b))

-----------------------------------------------------------------------------
(* FixSender::Send changes the sending part only. *)
LEMMA SendFields ==
  ASSUME NEW e \in Engine, NEW type \in Types, NEW a \in Nat, NEW b \in Nat,
         NEW f, f = Send(e, type, a, b)
  PROVE  f \in Engine /\ Sends(e, f, type, a, b) /\ SameRecv(e, f) /\ SameReset(e, f) /\ SameSession(e, f)
<1> DEFINE m == Msg(type, e.nextSend, FALSE, a, b)
           l == [seq |-> e.nextSend, type |-> type]
<1>1. m \in Message /\ l \in Line
  BY DEF Msg, Message, Line, Engine
<1> HIDE DEF m, l
<1>2. Append(e.out, m) \in Seq(Message) /\ Append(e.log, l) \in Seq(Line) /\ e.nextSend + 1 \in Nat
  BY <1>1 DEF Engine
<1>3. f = [e EXCEPT !.out = Append(e.out, m), !.log = Append(e.log, l), !.nextSend = e.nextSend + 1]
  BY DEF Send, SendAndSet, m, l
<1>4. f \in Engine
  BY <1>2, <1>3 DEF Engine
<1>5. /\ f.nextSend = e.nextSend + 1 /\ f.log = Append(e.log, l) /\ f.out = Append(e.out, m)
      /\ SameRecv(e, f) /\ SameReset(e, f) /\ SameSession(e, f)
  BY <1>3 DEF Engine, SameRecv, SameReset, SameSession
<1> QED
  BY <1>4, <1>5 DEF Sends, m, l

(* The types of an engine's parts. *)
LEMMA EngineFields ==
  ASSUME NEW e \in Engine
  PROVE  /\ e.nextSend \in Nat /\ e.nextRecv \in Nat /\ e.resendEnd \in Nat /\ e.lastGap \in Nat
         /\ e.log \in Seq(Line) /\ e.keeper \in Seq(Message) /\ e.got \in Seq(Message)
         /\ e.out \in Seq(Message) /\ e.st \in 0..6 /\ e.sender \in BOOLEAN /\ e.tooLow \in BOOLEAN
BY DEF Engine

(* The types of the parts of an engine whose numbers are in order. *)
LEMMA OwnFields ==
  ASSUME NEW e, Own(e)
  PROVE  /\ e \in Engine /\ Len(e.log) \in Nat /\ e.nextSend = Len(e.log) + 1
         /\ e.nextSend \in Nat /\ e.nextRecv \in Nat /\ e.resendEnd \in Nat /\ e.lastGap \in Nat
         /\ e.log \in Seq(Line) /\ e.keeper \in Seq(Message) /\ e.got \in Seq(Message)
         /\ e.out \in Seq(Message)
<1>1. e \in Engine /\ e.nextSend = Len(e.log) + 1
  BY DEF Own
<1>2. e.log \in Seq(Line)
  BY <1>1, EngineFields
<1> QED
  BY <1>1, <1>2, EngineFields

(* The types of a message's parts. *)
LEMMA MessageFields ==
  ASSUME NEW m \in Message
  PROVE  /\ m.type \in Types /\ m.seq \in Nat /\ m.dup \in BOOLEAN /\ m.a \in Nat /\ m.b \in Nat
BY DEF Message

(* A longer record does not make a message in flight wrong ... *)
LEMMA ValidGrows ==
  ASSUME NEW e, NEW f, NEW p, NEW q, NEW m, Own(e), Own(f), Own(p), Own(q), Grows(e, f), Grows(p, q),
         Valid(m, e, p)
  PROVE  Valid(m, f, q)
<1>1. /\ Len(e.log) \in Nat /\ Len(f.log) \in Nat /\ p.nextSend \in Nat /\ q.nextSend \in Nat
      /\ e.nextSend = Len(e.log) + 1 /\ f.nextSend = Len(f.log) + 1
      /\ Len(e.log) <= Len(f.log) /\ p.nextSend <= q.nextSend
      /\ \A i \in 1..Len(e.log) : f.log[i] = e.log[i]
  BY OwnFields DEF Grows
<1>2. m.seq \in Nat /\ m.a \in Nat /\ m.b \in Nat
  BY MessageFields DEF Valid
<1>3. m.seq \in 1..(f.nextSend - 1) /\ (m.type = "ResendRequest" => 1 <= m.a /\ m.a <= m.b /\ m.b < q.nextSend)
  BY <1>1, <1>2 DEF Valid
<1>4. m.type # "GapFill" => f.log[m.seq].type = m.type
  BY <1>1, <1>2 DEF Valid
<1>5. m.type = "GapFill" => m.seq < m.a /\ m.a <= f.nextSend
  BY <1>1, <1>2 DEF Valid
<1>6. ASSUME m.type = "GapFill", NEW n \in m.seq..(m.a - 1)
      PROVE  f.log[n].type # "Report"
  <2>1. m.seq >= 1 /\ m.a <= e.nextSend /\ e.log[n].type # "Report"
    BY <1>6 DEF Valid
  <2>2. n \in 1..Len(e.log)
    BY <1>1, <1>2, <2>1
  <2> QED
    BY <1>1, <2>1, <2>2
<1> QED
  BY <1>3, <1>4, <1>5, <1>6 DEF Valid

(* ... nor what was heard ... *)
LEMMA HeardGrows ==
  ASSUME NEW e, NEW p, NEW q, Own(e), Own(p), Own(q), Grows(p, q), Heard(e, p)
  PROVE  Heard(e, q)
<1>0. /\ Len(p.log) \in Nat /\ Len(q.log) \in Nat /\ p.nextSend \in Nat /\ q.nextSend \in Nat
      /\ p.nextSend = Len(p.log) + 1 /\ q.nextSend = Len(q.log) + 1
      /\ Len(p.log) <= Len(q.log) /\ p.nextSend <= q.nextSend
      /\ \A i \in 1..Len(p.log) : q.log[i] = p.log[i]
      /\ e.nextRecv \in Nat /\ e.lastGap \in Nat
  BY OwnFields DEF Grows
<1>1. Handled(e, q)
  <2>1. 1 <= e.nextRecv /\ e.nextRecv <= q.nextSend /\ Handled(e, p)
    BY <1>0 DEF Heard, Handled
  <2>2. ASSUME NEW n \in 1..(e.nextRecv - 1)
        PROVE  q.log[n] = p.log[n]
    BY <1>0, <2>1 DEF Handled
  <2> QED
    BY <2>1, <2>2 DEF Handled
<1>2. Kept(e, q)
  <2>1. \A i \in 1..Len(e.keeper) : e.keeper[i] \in Message
    BY OwnFields
  <2>2. \A i \in 1..Len(e.keeper) : e.keeper[i].seq \in 1..Len(p.log)
    BY <1>0, <2>1, MessageFields DEF Heard, Kept
  <2>3. e.lastGap < q.nextSend /\ Kept(e, p)
    BY <1>0 DEF Heard, Kept
  <2>4. \A i \in 1..Len(e.keeper) : q.log[e.keeper[i].seq] = p.log[e.keeper[i].seq]
    BY <1>0, <2>2
  <2> QED
    BY <2>3, <2>4 DEF Kept
<1> QED
  BY <1>1, <1>2 DEF Heard

(* ... nor what is in flight, as long as nothing more is counted. *)
LEMMA FlowGrows ==
  ASSUME NEW c, NEW e, NEW f, NEW p, NEW q, Own(e), Own(f), Own(p), Own(q), Grows(e, f), Grows(p, q),
         q.nextRecv <= p.nextRecv, q.lastGap <= p.lastGap,
         Flow(c, e, p)
  PROVE  Flow(c, f, q)
<1>1. ASSUME NEW i \in 1..Len(c) PROVE Valid(c[i], f, q)
  BY ValidGrows DEF Flow
<1>2. ASSUME NEW i \in 1..Len(c) PROVE Beyond(c[i], q)
  <2>1. c[i] \in Message /\ Beyond(c[i], p)
    BY DEF Flow
  <2> QED
    BY <2>1, MessageFields, OwnFields DEF Beyond
<1> QED
  BY <1>1, <1>2 DEF Flow

(* A message behind all that is in flight. *)
LEMMA FlowAppend ==
  ASSUME NEW c, NEW e, NEW p, NEW m, Flow(c, e, p), Valid(m, e, p), Beyond(m, p),
         \A i \in 1..Len(c) : Behind(c[i], m)
  PROVE  Flow(Append(c, m), e, p)
<1>1. c \in Seq(Message) /\ m \in Message
  BY DEF Flow, Valid
<1>2. Append(c, m) \in Seq(Message) /\ Len(Append(c, m)) = Len(c) + 1
      /\ \A i \in 1..(Len(c) + 1) : Append(c, m)[i] = IF i = Len(c) + 1 THEN m ELSE c[i]
  BY <1>1
<1> QED
  BY <1>1, <1>2 DEF Flow

(* What is sent goes behind the rest. *)
LEMMA ConcatAppend ==
  ASSUME NEW c \in Seq(Message), NEW o \in Seq(Message), NEW m \in Message
  PROVE  c \o Append(o, m) = Append(c \o o, m)
OBVIOUS

(* What was sent ends at or below the next number to send. *)
LEMMA CoversBelow ==
  ASSUME NEW e, NEW p, NEW m, Own(e), Valid(m, e, p)
  PROVE  Covers(m) \in Nat /\ m.seq < Covers(m) /\ Covers(m) <= e.nextSend
<1>1. m \in Message /\ m.seq \in Nat /\ m.a \in Nat /\ e.nextSend \in Nat
  BY OwnFields, MessageFields DEF Valid
<1>2. CASE m.type = "GapFill"
  BY <1>1, <1>2 DEF Valid, Covers
<1>3. CASE m.type # "GapFill"
  BY <1>1, <1>3 DEF Valid, Covers
<1> QED
  BY <1>2, <1>3

(* FixSender::Send keeps the numbers in order. *)
LEMMA SendOwn ==
  ASSUME NEW e, Own(e), NEW type \in Types, NEW a \in Nat, NEW b \in Nat,
         NEW f, f = Send(e, type, a, b)
  PROVE  /\ Own(f) /\ Grows(e, f) /\ Sends(e, f, type, a, b) /\ SameRecv(e, f) /\ SameSession(e, f)
         /\ f.log[e.nextSend].type = type
<1>1. e \in Engine /\ e.log \in Seq(Line) /\ Len(e.log) \in Nat /\ e.nextSend = Len(e.log) + 1
  BY OwnFields
<1>2. f \in Engine /\ Sends(e, f, type, a, b) /\ SameRecv(e, f) /\ SameReset(e, f) /\ SameSession(e, f)
  BY <1>1, SendFields
<1> DEFINE l == [seq |-> e.nextSend, type |-> type]
<1>3. l \in Line /\ l.seq = e.nextSend /\ l.type = type /\ f.log = Append(e.log, l)
  BY <1>1, <1>2 DEF Sends, Line
<1> HIDE DEF l
<1>4. Len(f.log) = Len(e.log) + 1 /\ f.log[Len(e.log) + 1] = l /\ \A i \in 1..Len(e.log) : f.log[i] = e.log[i]
  BY <1>1, <1>3
<1>5. Grows(e, f)
  BY <1>1, <1>2, <1>4 DEF Grows, Sends
<1>6. f.nextSend = Len(f.log) + 1
  BY <1>1, <1>2, <1>4 DEF Sends
<1>7. \A i \in 1..Len(f.log) : f.log[i].seq = i
  BY <1>1, <1>3, <1>4 DEF Own
<1>8. f.resetSend = 0 /\ f.resetRecv = 0 /\ (f.st = ApReady => f.sender)
  BY <1>2 DEF Own, SameReset, SameSession
<1> QED
  BY <1>1, <1>2, <1>3, <1>4, <1>5, <1>6, <1>7, <1>8 DEF Own

(* A new message is behind all that is in flight and beyond all that was counted. *)
LEMMA SendSending ==
  ASSUME NEW c, NEW e, NEW p, Sending(c, e, p),
         NEW type \in Types \ {"GapFill", "Reset"}, NEW a \in Nat, NEW b \in Nat,
         type = "ResendRequest" => 1 <= a /\ a <= b /\ b < p.nextSend,
         NEW f, f = Send(e, type, a, b)
  PROVE  /\ Sending(c, f, p) /\ SameRecv(e, f) /\ SameSession(e, f) /\ Grows(e, f)
<1>0. Own(e) /\ type \in Types
  BY DEF Sending
<1>2. Own(f) /\ Grows(e, f) /\ Sends(e, f, type, a, b) /\ SameRecv(e, f) /\ SameSession(e, f)
      /\ f.log[e.nextSend].type = type
  BY <1>0, SendOwn
<1> DEFINE m == Msg(type, e.nextSend, FALSE, a, b)
           o == c \o e.out
<1>1. Own(e) /\ Own(p) /\ Heard(p, e) /\ Flow(o, e, p) /\ c \in Seq(Message)
  BY DEF Sending
<1>3. /\ m \in Message /\ m.type = type /\ m.seq = e.nextSend /\ ~m.dup /\ m.a = a /\ m.b = b
  BY <1>1, OwnFields DEF Msg, Message
<1>4. c \o f.out = Append(o, m)
  <2>1. f.out = Append(e.out, m)
    BY <1>2 DEF Sends
  <2> HIDE DEF m
  <2> QED
    BY ZenonT(40), <2>1, <1>1, <1>3, OwnFields, ConcatAppend
<1> HIDE DEF m, o
<1>5. Flow(o, f, p)
  <2>1. Grows(p, p)
    BY <1>1, OwnFields DEF Grows
  <2>2. p.nextRecv <= p.nextRecv /\ p.lastGap <= p.lastGap
    BY <1>1, OwnFields
  <2> QED
    BY <1>1, <1>2, <2>1, <2>2, FlowGrows
<1>6. Valid(m, f, p)
  <2>1. e.nextSend \in 1..(f.nextSend - 1)
    BY <1>1, <1>2, OwnFields DEF Sends
  <2> QED
    BY <1>2, <1>3, <2>1 DEF Valid
<1>7. Beyond(m, p)
  BY <1>1, <1>3, OwnFields DEF Beyond, Heard, Handled, Kept
<1>8. \A i \in 1..Len(o) : Behind(o[i], m)
  BY <1>1, <1>3, CoversBelow DEF Behind, Flow
<1>9. Flow(c \o f.out, f, p)
  BY <1>4, <1>5, <1>6, <1>7, <1>8, FlowAppend
<1>10. Heard(p, f)
  BY <1>1, <1>2, HeardGrows
<1> QED
  BY <1>1, <1>2, <1>9, <1>10 DEF Sending

(* An unchanged record has grown ... *)
LEMMA GrowsItself ==
  ASSUME NEW e, NEW f, Own(e), SameSend(e, f)
  PROVE  Grows(e, f)
BY OwnFields DEF SameSend, Grows

(* ... and a record grows from call to call. *)
LEMMA GrowsOn ==
  ASSUME NEW e, NEW f, NEW g, Own(e), Own(f), Own(g), Grows(e, f), Grows(f, g)
  PROVE  Grows(e, g)
<1>1. /\ Len(e.log) \in Nat /\ Len(f.log) \in Nat /\ Len(g.log) \in Nat
      /\ e.nextSend \in Nat /\ f.nextSend \in Nat /\ g.nextSend \in Nat
  BY OwnFields
<1> QED
  BY <1>1 DEF Grows

(* What is in flight to e stays right while it is beyond what e has counted. *)
LEMMA FlowRecv ==
  ASSUME NEW d, NEW e, NEW f, NEW p, Own(e), Own(f), Own(p), Grows(e, f), Flow(d, p, e),
         \A i \in 1..Len(d) : Beyond(d[i], f)
  PROVE  Flow(d, p, f)
<1>1. Grows(p, p)
  BY OwnFields DEF Grows
<1>2. ASSUME NEW i \in 1..Len(d) PROVE Valid(d[i], p, f)
  BY <1>1, ValidGrows DEF Flow
<1> QED
  BY <1>2 DEF Flow

(* The receiving part or the session of e changes, and nothing is sent. *)
LEMMA OtherOwn ==
  ASSUME NEW e, NEW f \in Engine, Own(e), SameSend(e, f), SameReset(e, f), f.st = ApReady => f.sender
  PROVE  Own(f) /\ Grows(e, f)
<1>1. Own(f)
  BY DEF Own, SameSend, SameReset
<1> QED
  BY <1>1, GrowsItself

(* The same, with what is in flight ... *)
LEMMA OtherSending ==
  ASSUME NEW c, NEW e, NEW p, NEW f \in Engine, Sending(c, e, p),
         SameSend(e, f), SameReset(e, f), f.st = ApReady => f.sender
  PROVE  Sending(c, f, p) /\ Grows(e, f)
<1>1. Own(e) /\ Own(p) /\ Heard(p, e)
  BY DEF Sending
<1>2. Own(f) /\ Grows(e, f)
  BY <1>1, OtherOwn
<1>3. Heard(p, f)
  BY <1>1, <1>2, HeardGrows
<1>4. Flow(c \o e.out, f, p)
  <2>1. Grows(p, p)
    BY <1>1, OwnFields DEF Grows
  <2>2. p.nextRecv <= p.nextRecv /\ p.lastGap <= p.lastGap
    BY <1>1, OwnFields
  <2>3. Flow(c \o e.out, e, p)
    BY DEF Sending
  <2> QED
    BY <1>1, <1>2, <2>1, <2>2, <2>3, FlowGrows
<1>5. c \o e.out = c \o f.out
  BY DEF SameSend
<1> QED
  BY <1>1, <1>2, <1>3, <1>4, <1>5 DEF Sending

(* The sending part or the session of e changes, and nothing is received. *)
LEMMA SentGood ==
  ASSUME NEW c, NEW d, NEW e, NEW f, NEW p, Good(c, d, e, p), Sending(c, f, p), Grows(e, f), SameRecv(e, f)
  PROVE  Good(c, d, f, p)
<1>1. Own(e) /\ Own(f) /\ Own(p) /\ Heard(e, p) /\ Flow(d, p, e)
  BY DEF Good, Sending
<1>2. Heard(f, p)
  BY <1>1 DEF SameRecv, Heard, Handled, Kept, Asked
<1>3. \A i \in 1..Len(d) : Beyond(d[i], f)
  BY <1>1 DEF Flow, Beyond, SameRecv
<1>4. Flow(d, p, f)
  BY <1>1, <1>3, FlowRecv
<1> QED
  BY <1>2, <1>4 DEF Good

(* ... and with what comes in. *)
LEMMA OtherGood ==
  ASSUME NEW c, NEW d, NEW e, NEW p, NEW f \in Engine, Good(c, d, e, p),
         SameSend(e, f), SameRecv(e, f), SameReset(e, f), f.st = ApReady => f.sender
  PROVE  Good(c, d, f, p) /\ Grows(e, f)
<1>1. Sending(c, e, p)
  BY DEF Good
<1>2. Sending(c, f, p) /\ Grows(e, f)
  BY <1>1, OtherSending
<1> QED
  BY <1>2, SentGood

(* One message is sent during a call (FixSender::Send). *)
LEMMA SendGood ==
  ASSUME NEW c, NEW d, NEW e, NEW p, Good(c, d, e, p),
         NEW type \in Types \ {"GapFill", "Reset"}, NEW a \in Nat, NEW b \in Nat,
         type = "ResendRequest" => 1 <= a /\ a <= b /\ b < p.nextSend,
         NEW f, f = Send(e, type, a, b)
  PROVE  Good(c, d, f, p) /\ SameRecv(e, f) /\ SameSession(e, f) /\ Grows(e, f)
<1>1. Sending(c, e, p)
  BY DEF Good
<1>2. /\ Sending(c, f, p) /\ SameRecv(e, f) /\ SameSession(e, f) /\ Grows(e, f)
  BY <1>1, SendSending
<1> QED
  BY <1>2, SentGood

(* FixSession::SendLogonTestRequest, while the session logs on. *)
LEMMA SendLogonTestRequestGood ==
  ASSUME NEW c, NEW d, NEW e, NEW p, Good(c, d, e, p), NEW f, f = SendLogonTestRequest(e)
  PROVE  Good(c, d, f, p) /\ SameRecv(e, f) /\ (f.st = ApReady => e.st = ApReady)
<1>1. CASE e.st \in LogonSent..LogonTest
  <2> DEFINE g == [e EXCEPT !.st = LogonTest]
  <2>1. Own(e) /\ e \in Engine
    BY OwnFields DEF Good, Sending
  <2>2. g \in Engine /\ SameSend(e, g) /\ SameReset(e, g) /\ SameRecv(e, g) /\ g.st = LogonTest
    <3>1. LogonTest \in 0..6
      BY DEF LogonTest
    <3> QED
      BY <2>1, <3>1 DEF Engine, SameSend, SameReset, SameRecv
  <2>3. f = Send(g, "TestRequest", 0, 0)
    BY <1>1 DEF SendLogonTestRequest
  <2> HIDE DEF g
  <2>4. g.st # ApReady
    BY <2>2 DEF LogonTest, ApReady
  <2>5. Good(c, d, g, p)
    BY <2>2, <2>4, OtherGood
  <2>6. Good(c, d, f, p) /\ SameRecv(g, f) /\ SameSession(g, f)
    <3>1. "TestRequest" \in Types \ {"GapFill", "Reset"} /\ "TestRequest" # "ResendRequest"
      BY DEF Types, AdminTypes
    <3> QED
      BY <2>3, <2>5, <3>1, SendGood
  <2> QED
    BY <2>2, <2>4, <2>6 DEF SameRecv, SameSession
<1>2. CASE e.st \notin LogonSent..LogonTest
  BY <1>2 DEF SendLogonTestRequest, SameRecv
<1> QED
  BY <1>1, <1>2

(* What the receiver knows between two turns of CheckMsgKeeper's loop: all
   but what it has asked for. *)
Midway(c, d, e, p) == Sending(c, e, p) /\ Handled(e, p) /\ Kept(e, p) /\ Flow(d, p, e)

(* FixReceiver::SendResendRequest closes the turn: the gap is asked for again. *)
LEMMA SendResendRequestGood ==
  ASSUME NEW c, NEW d, NEW e, NEW p, Midway(c, d, e, p), NEW begin \in Nat, NEW end \in Nat,
         1 <= begin, begin <= end, e.nextRecv <= end, end <= e.lastGap,
         \A i \in 1..Len(e.keeper) : e.keeper[i].seq > end,
         NEW f, f = SendResendRequest(e, begin, end)
  PROVE  Good(c, d, f, p) /\ SameSession(e, f) /\ f.nextRecv = e.nextRecv
<1> DEFINE g == [e EXCEPT !.resendEnd = end]
<1>1. Own(e) /\ e \in Engine /\ Sending(c, e, p) /\ Own(p)
  BY OwnFields DEF Midway, Sending
<1>2. /\ g \in Engine /\ SameSend(e, g) /\ SameReset(e, g) /\ SameSession(e, g)
      /\ g.nextRecv = e.nextRecv /\ g.keeper = e.keeper /\ g.resendEnd = end /\ g.lastGap = e.lastGap
      /\ g.tooLow = e.tooLow /\ g.got = e.got
  BY <1>1 DEF Engine, SameSend, SameReset, SameSession
<1>3. f = Send(g, "ResendRequest", begin, end)
  BY DEF SendResendRequest
<1> HIDE DEF g
<1>4. Sending(c, g, p) /\ Grows(e, g)
  BY <1>1, <1>2, OtherSending DEF Own, SameSession
<1>5. Handled(g, p) /\ Kept(g, p)
  BY <1>2 DEF Midway, Handled, Kept
<1>6. Asked(g)
  BY <1>1, <1>2, OwnFields DEF Asked
<1>7. Flow(d, p, g)
  <2>1. Flow(d, p, e)
    BY DEF Midway
  <2>2. \A i \in 1..Len(d) : Beyond(d[i], g)
    BY <1>2, <2>1 DEF Flow, Beyond
  <2>3. Own(g)
    BY <1>4 DEF Sending
  <2> QED
    BY <1>1, <1>4, <2>1, <2>2, <2>3, FlowRecv
<1>8. Good(c, d, g, p)
  BY <1>4, <1>5, <1>6, <1>7 DEF Good, Heard
<1>9. "ResendRequest" \in Types \ {"GapFill", "Reset"} /\ end < p.nextSend
  BY <1>1, OwnFields DEF Midway, Kept, Types, AdminTypes
<1>10. Good(c, d, f, p) /\ SameSession(g, f) /\ SameRecv(g, f)
  BY <1>3, <1>8, <1>9, SendGood
<1> QED
  BY <1>2, <1>10 DEF SameSession, SameRecv

(* The gap is closed (FixReceiver::OnRecoverDone, FixSession::OnRecoverDone). *)
LEMMA OnRecoverDoneGood ==
  ASSUME NEW c, NEW d, NEW e, NEW p, Midway(c, d, e, p), Len(e.keeper) = 0,
         NEW f, f = OnRecoverDone(e)
  PROVE  Good(c, d, f, p) /\ (f.st = ApReady => e.st = ApReady) /\ f.nextRecv = e.nextRecv
<1> DEFINE g == [e EXCEPT !.resendEnd = 0, !.lastGap = 0]
<1>1. Own(e) /\ e \in Engine /\ Sending(c, e, p) /\ Own(p)
  BY OwnFields DEF Midway, Sending
<1>2. /\ g \in Engine /\ SameSend(e, g) /\ SameReset(e, g) /\ SameSession(e, g)
      /\ g.nextRecv = e.nextRecv /\ g.keeper = e.keeper /\ g.resendEnd = 0 /\ g.lastGap = 0
      /\ g.tooLow = e.tooLow /\ g.got = e.got
  BY <1>1 DEF Engine, SameSend, SameReset, SameSession
<1>3. f = SendLogonTestRequest(g)
  BY DEF OnRecoverDone
<1> HIDE DEF g
<1>4. Sending(c, g, p) /\ Grows(e, g)
  BY <1>1, <1>2, OtherSending DEF Own, SameSession
<1>5. Handled(g, p) /\ Kept(g, p) /\ Asked(g)
  <2>1. Handled(g, p)
    BY <1>2 DEF Midway, Handled
  <2>2. p.nextSend > 0
    BY <1>1, OwnFields
  <2> QED
    BY <1>2, <2>1, <2>2 DEF Kept, Asked
<1>6. Flow(d, p, g)
  <2>1. Flow(d, p, e)
    BY DEF Midway
  <2>2. \A i \in 1..Len(d) : Beyond(d[i], g)
    <3>1. \A i \in 1..Len(d) : Beyond(d[i], e) /\ d[i].seq > 0
      BY <2>1 DEF Flow, Valid
    <3> QED
      BY <1>2, <3>1 DEF Beyond
  <2>3. Own(g)
    BY <1>4 DEF Sending
  <2> QED
    BY <1>1, <1>4, <2>1, <2>2, <2>3, FlowRecv
<1>7. Good(c, d, g, p)
  BY <1>4, <1>5, <1>6 DEF Good, Heard
<1>8. Good(c, d, f, p) /\ (f.st = ApReady => g.st = ApReady) /\ SameRecv(g, f)
  BY <1>3, <1>7, SendLogonTestRequestGood
<1> QED
  BY <1>2, <1>8 DEF SameSession, SameRecv

-----------------------------------------------------------------------------
(* Induction over the natural numbers, for a set of them. *)
LEMMA Induct ==
  ASSUME NEW T \in SUBSET Nat, 0 \in T, \A n \in T : n + 1 \in T
  PROVE  T = Nat
<1> SUFFICES ASSUME Nat \ T # {} PROVE FALSE
  OBVIOUS
<1>1. \E x \in Nat \ T : \A y \in Nat \ T : ~(<<y, x>> \in OpToRel(<, Nat))
  BY NatLessThanWellFounded, WFMin
<1>2. PICK x \in Nat \ T : \A y \in Nat \ T : ~(y < x)
  BY <1>1 DEF OpToRel
<1>3. x # 0 /\ x - 1 \in Nat
  BY <1>2
<1>4. x - 1 \in T
  BY <1>2, <1>3
<1> QED
  BY <1>3, <1>4

(* The loop over the kept messages is a function of the turn. *)
LEMMA KeeperTurns ==
  ASSUME NEW e, NEW next, NEW n \in Nat, Len(e.keeper) = n
  PROVE  \E g : /\ g[0] = [e |-> e, next |-> next, stop |-> FALSE]
                /\ \A i \in 1..n : g[i] = KeeperStep(g[i - 1], e.keeper[i])
                /\ CheckMsgKeeper(e, next) =
                     IF g[n].stop THEN g[n].e
                     ELSE IF g[n].next < g[n].e.lastGap
                     THEN SendResendRequest(g[n].e, g[n].next, g[n].e.lastGap)
                     ELSE OnRecoverDone(g[n].e)
<1> DEFINE a == [e |-> e, next |-> next, stop |-> FALSE]
           Turns(g, k) == g = [i \in 0..k |-> IF i = 0 THEN a ELSE KeeperStep(g[i - 1], e.keeper[i])]
           T == {k \in Nat : \E g : Turns(g, k)}
           r == CHOOSE g : Turns(g, n)
<1>1. CheckMsgKeeper(e, next) = IF r[n].stop THEN r[n].e
        ELSE IF r[n].next < r[n].e.lastGap THEN SendResendRequest(r[n].e, r[n].next, r[n].e.lastGap)
        ELSE OnRecoverDone(r[n].e)
  BY DEF CheckMsgKeeper
<1> HIDE DEF a
<1>2. 0 \in T
  <2>1. Turns([i \in 0..0 |-> a], 0)
    OBVIOUS
  <2> HIDE DEF Turns
  <2> QED
    BY <2>1
<1>3. ASSUME NEW k \in T
      PROVE  k + 1 \in T
  <2>1. PICK g : Turns(g, k)
    OBVIOUS
  <2> DEFINE v == KeeperStep(g[k], e.keeper[k + 1])
             f == [i \in 0..(k + 1) |-> IF i = k + 1 THEN v ELSE g[i]]
  <2>2. ASSUME NEW i \in 0..(k + 1)
        PROVE  f[i] = IF i = 0 THEN a ELSE KeeperStep(f[i - 1], e.keeper[i])
    <3>1. CASE i = 0
      BY <3>1, <2>1
    <3>2. CASE i = k + 1
      <4>1. f[i] = v /\ f[i - 1] = g[k] /\ i # 0
        BY <3>2
      <4> QED
        BY <3>2, <4>1
    <3>3. CASE i \in 1..k
      <4>1. f[i] = g[i] /\ f[i - 1] = g[i - 1] /\ i # 0
        BY <3>3
      <4>2. i \in 0..k /\ g[i] = KeeperStep(g[i - 1], e.keeper[i])
        BY <2>1, <3>3
      <4> QED
        BY <4>1, <4>2
    <3> QED
      BY <3>1, <3>2, <3>3
  <2>3. Turns(f, k + 1)
    BY <2>2
  <2> HIDE DEF f, Turns
  <2> QED
    BY <2>3
<1>4. n \in T
  <2> HIDE DEF T
  <2>1. T = Nat
    <3>1. T \subseteq Nat
      BY DEF T
    <3> QED
      BY <1>2, <1>3, <3>1, Induct
  <2> QED
    BY <2>1
<1>5. Turns(r, n)
  <2>1. \E g : Turns(g, n)
    BY <1>4
  <2> HIDE DEF Turns
  <2> QED
    BY <2>1, Zenon
<1>6. r[0] = a /\ \A i \in 1..n : r[i] = KeeperStep(r[i - 1], e.keeper[i])
  <2>1. r = [i \in 0..n |-> IF i = 0 THEN a ELSE KeeperStep(r[i - 1], e.keeper[i])]
    BY <1>5
  <2> HIDE DEF r
  <2> QED
    BY <2>1
<1> HIDE DEF r
<1> QED
  BY <1>1, <1>6 DEF a

(* The message with the expected number goes to the application. *)
LEMMA HandledTaken ==
  ASSUME NEW e, NEW f, NEW p, NEW m \in Message, Own(e), Own(p), Handled(e, p),
         m.seq = e.nextRecv, m.seq < p.nextSend, p.log[m.seq].type = m.type,
         f.got = Append(e.got, m), f.nextRecv = e.nextRecv + 1, f.tooLow = e.tooLow
  PROVE  Handled(f, p)
<1>1. /\ e.got \in Seq(Message) /\ Len(e.got) \in Nat /\ e.nextRecv \in Nat /\ p.nextSend \in Nat
  BY OwnFields
<1>2. /\ Len(f.got) = Len(e.got) + 1 /\ f.got[Len(e.got) + 1] = m
      /\ \A i \in 1..Len(e.got) : f.got[i] = e.got[i]
  BY <1>1
<1>0. \A i \in 1..Len(e.got) : e.got[i].seq \in Nat
  BY <1>1, MessageFields
<1>3. 1 <= f.nextRecv /\ f.nextRecv <= p.nextSend /\ ~f.tooLow
  BY <1>1 DEF Handled
<1>4. \A i \in 1..Len(f.got) : 1 <= f.got[i].seq /\ f.got[i].seq < f.nextRecv
  BY <1>0, <1>1, <1>2 DEF Handled
<1>5. ASSUME NEW i \in 1..Len(f.got), NEW j \in 1..Len(f.got), i < j
      PROVE  f.got[i].seq < f.got[j].seq
  <2>1. CASE j = Len(e.got) + 1
    BY <1>1, <1>2, <1>5, <2>1 DEF Handled
  <2>2. CASE j \in 1..Len(e.got)
    BY <1>1, <1>2, <1>5, <2>2 DEF Handled
  <2> QED
    BY <1>1, <1>2, <2>1, <2>2
<1>6. ASSUME NEW n \in 1..(f.nextRecv - 1)
      PROVE  p.log[n].type = "Report" <=> \E i \in 1..Len(f.got) : f.got[i].seq = n /\ f.got[i].type = "Report"
  <2>1. CASE n = e.nextRecv
    <3>1. \A i \in 1..Len(e.got) : f.got[i].seq # n
      BY <1>0, <1>1, <1>2, <2>1 DEF Handled
    <3> QED
      BY SMTT(40), <1>1, <1>2, <2>1, <3>1
  <2>2. CASE n \in 1..(e.nextRecv - 1)
    <3>1. p.log[n].type = "Report" <=> \E i \in 1..Len(e.got) : e.got[i].seq = n /\ e.got[i].type = "Report"
      BY <2>2 DEF Handled
    <3>2. m.seq # n
      BY <1>1, <2>2
    <3> QED
      BY <1>1, <1>2, <3>1, <3>2
  <2> QED
    BY SMTT(40), <1>1, <2>1, <2>2
<1> QED
  BY <1>3, <1>4, <1>5, <1>6 DEF Handled

(* The number moves on over messages that are not Reports, and nothing goes
   to the application. *)
LEMMA HandledPassed ==
  ASSUME NEW e, NEW f, NEW p, NEW n \in Nat, Own(e), Own(p), Handled(e, p),
         e.nextRecv <= n, n <= p.nextSend, \A k \in e.nextRecv..(n - 1) : p.log[k].type # "Report",
         f.got = e.got, f.nextRecv = n, f.tooLow = e.tooLow
  PROVE  Handled(f, p)
<1>1. /\ e.got \in Seq(Message) /\ Len(e.got) \in Nat /\ e.nextRecv \in Nat /\ p.nextSend \in Nat
  BY OwnFields
<1>2. \A i \in 1..Len(e.got) : e.got[i].seq \in Nat
  BY <1>1, MessageFields
<1>3. 1 <= f.nextRecv /\ f.nextRecv <= p.nextSend /\ ~f.tooLow
  BY <1>1 DEF Handled
<1>4. \A i \in 1..Len(f.got) : 1 <= f.got[i].seq /\ f.got[i].seq < f.nextRecv
  BY <1>1, <1>2 DEF Handled
<1>5. \A i, j \in 1..Len(f.got) : i < j => f.got[i].seq < f.got[j].seq
  BY DEF Handled
<1>6. ASSUME NEW k \in 1..(f.nextRecv - 1)
      PROVE  p.log[k].type = "Report" <=> \E i \in 1..Len(f.got) : f.got[i].seq = k /\ f.got[i].type = "Report"
  <2>1. CASE k \in e.nextRecv..(n - 1)
    BY <1>1, <1>2, <2>1 DEF Handled
  <2>2. CASE k \in 1..(e.nextRecv - 1)
    BY <2>2 DEF Handled
  <2> QED
    BY <1>1, <2>1, <2>2
<1> QED
  BY <1>3, <1>4, <1>5, <1>6 DEF Handled

(* No kept message is behind the expected number. *)
Ahead(e) == \A i \in 1..Len(e.keeper) : e.keeper[i].seq >= e.nextRecv

(* The first kept message is handled: it is the next Report. *)
LEMMA KeptTakenMidway ==
  ASSUME NEW c, NEW d, NEW e, NEW p, Midway(c, d, e, p), Ahead(e), Len(e.keeper) > 0,
         NEW m, m = e.keeper[1], m.seq = e.nextRecv,
         NEW f \in Engine, SameSend(e, f), SameReset(e, f), SameSession(e, f),
         f.nextRecv = e.nextRecv + 1, f.got = Append(e.got, m), f.keeper = Tail(e.keeper),
         f.lastGap = e.lastGap, f.tooLow = e.tooLow
  PROVE  Midway(c, d, f, p) /\ Ahead(f)
<1>1. /\ Own(e) /\ e \in Engine /\ Sending(c, e, p) /\ Own(p) /\ Flow(d, p, e) /\ e.nextRecv \in Nat
      /\ e.lastGap \in Nat /\ Handled(e, p) /\ Kept(e, p) /\ e.keeper \in Seq(Message)
      /\ Len(e.keeper) \in Nat
  BY OwnFields DEF Midway, Sending
<1>0. \A i \in 1..Len(e.keeper) : e.keeper[i] \in Message /\ e.keeper[i].seq \in Nat
  BY <1>1, MessageFields
<1>2. /\ m \in Message /\ m.type = "Report" /\ m.seq <= e.lastGap /\ p.log[m.seq].type = "Report"
      /\ m.seq < p.nextSend
  <2>1. 1 \in 1..Len(e.keeper) /\ Kept(e, p) /\ p.nextSend \in Nat
    BY <1>1, OwnFields
  <2> QED
    BY <1>0, <1>1, <2>1 DEF Kept
<1>6. Sending(c, f, p) /\ Grows(e, f)
  <2>1. f.st = ApReady => f.sender
    BY <1>1 DEF Own, SameSession
  <2>2. f \in Engine /\ Sending(c, e, p) /\ SameSend(e, f) /\ SameReset(e, f)
    BY <1>1
  <2> QED
    BY <2>1, <2>2, OtherSending
<1>7. Handled(f, p)
  BY <1>1, <1>2, HandledTaken
<1>8. /\ Len(f.keeper) = Len(e.keeper) - 1 /\ Len(e.keeper) \in Nat
      /\ \A i \in 1..Len(f.keeper) : f.keeper[i] = e.keeper[i + 1]
  <2>1. f.keeper = Tail(e.keeper)
    OBVIOUS
  <2>2. e.keeper \in Seq(Message) /\ Len(e.keeper) \in Nat
    BY <1>1
  <2> DEFINE k == e.keeper
  <2> HIDE DEF k
  <2>3. Len(Tail(k)) = Len(k) - 1 /\ \A i \in 1..Len(Tail(k)) : Tail(k)[i] = k[i + 1]
    <3>1. k \in Seq(Message) /\ Len(k) > 0
      BY <2>2 DEF k
    <3> QED
      BY <3>1
  <2> QED
    BY <2>1, <2>2, <2>3 DEF k
<1>12. \A i \in 1..Len(f.keeper) : i + 1 \in 1..Len(e.keeper)
  BY <1>8
<1>13. \A i \in 1..Len(f.keeper) : f.keeper[i].seq \in Nat /\ f.keeper[i].seq > m.seq
  <2>1. ASSUME NEW i \in 1..Len(f.keeper)
        PROVE  f.keeper[i].seq \in Nat /\ f.keeper[i].seq > m.seq
    <3>1. i + 1 \in 1..Len(e.keeper) /\ 1 \in 1..Len(e.keeper) /\ 1 < i + 1 /\ f.keeper[i] = e.keeper[i + 1]
      BY <1>8
    <3>2. Kept(e, p)
      BY <1>1
    <3> QED
      BY <1>0, <3>1, <3>2 DEF Kept
  <2> QED
    BY <2>1
<1>9. Kept(f, p)
  <2>0. Kept(e, p) /\ f.lastGap = e.lastGap
    BY <1>1
  <2>1. ASSUME NEW i \in 1..Len(f.keeper)
        PROVE  /\ f.keeper[i].type = "Report" /\ 1 <= f.keeper[i].seq /\ f.keeper[i].seq <= f.lastGap
               /\ p.log[f.keeper[i].seq].type = "Report"
    BY <1>8, <1>12, <2>0 DEF Kept
  <2>2. ASSUME NEW i \in 1..Len(f.keeper), NEW j \in 1..Len(f.keeper), i < j
        PROVE  f.keeper[i].seq < f.keeper[j].seq
    <3>1. i + 1 < j + 1
      BY <2>2
    <3> QED
      BY <1>8, <1>12, <2>0, <3>1 DEF Kept
  <2> QED
    BY <2>0, <2>1, <2>2 DEF Kept
<1>10. Ahead(f)
  <2>1. f.nextRecv = m.seq + 1 /\ m.seq \in Nat
    BY <1>1
  <2> QED
    BY <1>13, <2>1 DEF Ahead
<1>11. Flow(d, p, f)
  <2>1. ASSUME NEW i \in 1..Len(d)
        PROVE  Beyond(d[i], f)
    <3>1. Beyond(d[i], e) /\ d[i] \in Message
      BY <1>1 DEF Flow
    <3>2. d[i].seq \in Nat /\ m.seq \in Nat /\ e.lastGap \in Nat
      BY <1>1, <3>1, MessageFields
    <3>3. f.nextRecv = m.seq + 1 /\ f.lastGap = e.lastGap /\ m.seq <= e.lastGap
      BY <1>2
    <3> QED
      BY <3>1, <3>2, <3>3 DEF Beyond
  <2>2. Own(f)
    BY <1>6 DEF Sending
  <2> QED
    BY <1>1, <1>6, <2>1, <2>2, FlowRecv
<1> QED
  BY <1>6, <1>7, <1>9, <1>10, <1>11 DEF Midway

(* The message at the front of the keeper is handled and taken out. *)
TakeKept(e, m) == [DispatchKept(e, m) EXCEPT !.keeper = Tail(@)]

(* So it is for what FixReceiver::CheckMsgKeeper does with it. *)
LEMMA TakeKeptMidway ==
  ASSUME NEW c, NEW d, NEW e, NEW p, Midway(c, d, e, p), Ahead(e), Len(e.keeper) > 0,
         NEW m, m = e.keeper[1], m.seq = e.nextRecv,
         NEW f, f = TakeKept(e, m)
  PROVE  /\ Midway(c, d, f, p) /\ Ahead(f) /\ SameSession(e, f)
         /\ f.nextRecv = e.nextRecv + 1 /\ f.keeper = Tail(e.keeper)
<1>1. /\ e \in Engine /\ e.nextRecv \in Nat /\ e.keeper \in Seq(Message) /\ Len(e.keeper) \in Nat
      /\ e.got \in Seq(Message)
  BY OwnFields DEF Midway, Sending
<1>2. m \in Message
  BY <1>1
<1>3. f = [e EXCEPT !.nextRecv = e.nextRecv + 1, !.got = Append(e.got, m), !.keeper = Tail(e.keeper)]
  <2>1. CompareFixSeqNum(m.seq, e.nextRecv) = "Conform"
    BY DEF CompareFixSeqNum
  <2>2. DispatchKept(e, m) = [[e EXCEPT !.nextRecv = e.nextRecv + 1] EXCEPT !.got = Append(e.got, m)]
    BY <1>1, <2>1 DEF DispatchKept, WriteInputConform, Engine
  <2> QED
    BY <1>1, <2>2 DEF Engine, TakeKept
<1>4. e.nextRecv + 1 \in Nat /\ Append(e.got, m) \in Seq(Message) /\ Tail(e.keeper) \in Seq(Message)
  BY <1>1, <1>2
<1>5. /\ f \in Engine /\ SameSend(e, f) /\ SameReset(e, f) /\ SameSession(e, f)
      /\ f.nextRecv = e.nextRecv + 1 /\ f.got = Append(e.got, m) /\ f.keeper = Tail(e.keeper)
      /\ f.lastGap = e.lastGap /\ f.tooLow = e.tooLow
  BY ZenonT(40), <1>1, <1>3, <1>4 DEF Engine, SameSend, SameReset, SameSession
<1> QED
  BY <1>5, KeptTakenMidway

(* After i turns of the loop: it has stopped, with the gap before the next
   kept message requested, or the first i messages were handled. *)
Turned(c, d, e, p, acc, i) ==
  /\ acc = [e |-> acc.e, next |-> acc.next, stop |-> acc.stop] /\ SameSession(e, acc.e)
  /\ acc.e.nextRecv \in Nat /\ acc.e.nextRecv >= e.nextRecv
  /\ IF acc.stop THEN Good(c, d, acc.e, p)
     ELSE /\ Midway(c, d, acc.e, p) /\ Ahead(acc.e) /\ acc.next = acc.e.nextRecv
          /\ Len(acc.e.keeper) = Len(e.keeper) - i
          /\ \A j \in 1..Len(acc.e.keeper) : acc.e.keeper[j] = e.keeper[i + j]

(* One turn of the loop of FixReceiver::CheckMsgKeeper. *)
LEMMA KeeperStepTurned ==
  ASSUME NEW c, NEW d, NEW e, NEW p, Midway(c, d, e, p), NEW i \in Nat, i < Len(e.keeper),
         NEW acc, Turned(c, d, e, p, acc, i), e.nextRecv \in Nat,
         NEW new, new = KeeperStep(acc, e.keeper[i + 1])
  PROVE  Turned(c, d, e, p, new, i + 1)
<1> DEFINE m == e.keeper[i + 1]
           g == acc.e
<1>1. CASE acc.stop
  <2>1. new = acc
    BY <1>1 DEF KeeperStep
  <2> QED
    BY <1>1, <2>1 DEF Turned
<1>2. CASE ~acc.stop
  <2>1. /\ Midway(c, d, g, p) /\ Ahead(g) /\ acc.next = g.nextRecv /\ SameSession(e, g)
        /\ Len(g.keeper) = Len(e.keeper) - i /\ \A j \in 1..Len(g.keeper) : g.keeper[j] = e.keeper[i + j]
        /\ g.nextRecv >= e.nextRecv
    BY <1>2 DEF Turned
  <2>2. /\ g \in Engine /\ g.nextRecv \in Nat /\ g.keeper \in Seq(Message) /\ Len(g.keeper) \in Nat
        /\ Len(e.keeper) \in Nat /\ g.lastGap \in Nat
    BY SMTT(40), <2>1, OwnFields DEF Midway, Sending
  <2>3. 1 \in 1..Len(g.keeper) /\ g.keeper[1] = m
    BY <2>1, <2>2
  <2>4. m \in Message /\ m.seq \in Nat /\ m.seq >= g.nextRecv /\ Kept(g, p)
    BY SMTT(40), <2>1, <2>2, <2>3, MessageFields DEF Ahead, Midway
  <2> HIDE DEF m, g
  <2>5. CASE acc.next < m.seq
    <3> DEFINE h == SendResendRequest(g, g.nextRecv, m.seq - 1)
    <3>1. new = [acc EXCEPT !.stop = TRUE, !.e = h]
      BY <1>2, <2>1, <2>5 DEF KeeperStep, m, g
    <3>2. \A j \in 1..Len(g.keeper) : g.keeper[j].seq > m.seq - 1
      <4>1. \A j \in 1..Len(g.keeper) : g.keeper[j] \in Message /\ g.keeper[j].seq \in Nat
        BY <2>2, MessageFields
      <4>2. \A j \in 1..Len(g.keeper) : j > 1 => m.seq < g.keeper[j].seq
        BY <2>2, <2>3, <2>4 DEF Kept
      <4>3. \A j \in 1..Len(g.keeper) : j = 1 \/ j > 1
        BY <2>2
      <4>4. m.seq \in Nat /\ g.keeper[1] = m
        BY <2>3, <2>4
      <4> QED
        BY <4>1, <4>2, <4>3, <4>4
    <3>3. 1 <= g.nextRecv /\ g.nextRecv <= m.seq - 1 /\ m.seq - 1 <= g.lastGap /\ m.seq - 1 \in Nat
      <4>1. 1 <= g.nextRecv
        BY <2>1 DEF Midway, Handled
      <4>2. m.seq <= g.lastGap
        BY <2>3, <2>4 DEF Kept
      <4>3. g.nextRecv < m.seq
        BY <2>1, <2>5
      <4> QED
        BY <2>2, <2>4, <4>1, <4>2, <4>3
    <3>4. Good(c, d, h, p) /\ SameSession(g, h) /\ h.nextRecv = g.nextRecv
      <4>1. Midway(c, d, g, p) /\ g.nextRecv \in Nat
        BY <2>1, <2>2
      <4> QED
        BY SMTT(40), <4>1, <3>2, <3>3, SendResendRequestGood
    <3>5. acc = [e |-> g, next |-> acc.next, stop |-> acc.stop]
      BY DEF Turned, g
    <3> HIDE DEF h
    <3>6. new = [e |-> h, next |-> acc.next, stop |-> TRUE]
      BY <3>1, <3>5
    <3> QED
      BY <2>1, <2>2, <3>4, <3>6 DEF Turned, SameSession
  <2>6. CASE acc.next = m.seq
    <3> DEFINE h == TakeKept(g, m)
    <3>1. new = [e |-> h, next |-> acc.next + 1, stop |-> FALSE]
      <4>1. ~(acc.next < m.seq)
        BY <2>4, <2>6
      <4> QED
        BY <1>2, <2>6, <4>1 DEF KeeperStep, TakeKept, m, g
    <3>2. /\ Midway(c, d, h, p) /\ Ahead(h) /\ SameSession(g, h)
          /\ h.nextRecv = g.nextRecv + 1 /\ h.keeper = Tail(g.keeper)
      <4>1. Midway(c, d, g, p) /\ Ahead(g) /\ Len(g.keeper) > 0 /\ m = g.keeper[1] /\ m.seq = g.nextRecv
        BY <2>1, <2>2, <2>3, <2>6
      <4> QED
        BY <4>1, TakeKeptMidway
    <3> HIDE DEF h
    <3>3. new = [e |-> h, next |-> h.nextRecv, stop |-> FALSE]
      BY <2>1, <3>1, <3>2
    <3>6. /\ Len(h.keeper) = Len(g.keeper) - 1
          /\ \A j \in 1..Len(h.keeper) : h.keeper[j] = g.keeper[j + 1] /\ j + 1 \in 1..Len(g.keeper)
      <4> DEFINE k == g.keeper
      <4>1. k \in Seq(Message) /\ Len(k) > 0 /\ h.keeper = Tail(k) /\ Len(k) \in Nat
        BY <2>2, <2>3, <3>2
      <4> HIDE DEF k
      <4>2. /\ Len(Tail(k)) = Len(k) - 1
            /\ \A j \in 1..Len(Tail(k)) : Tail(k)[j] = k[j + 1] /\ j + 1 \in 1..Len(k)
        BY <4>1
      <4> QED
        BY <4>1, <4>2 DEF k
    <3>4. Len(h.keeper) = Len(e.keeper) - (i + 1)
      BY <2>1, <2>2, <3>6
    <3>5. ASSUME NEW j \in 1..Len(h.keeper)
          PROVE  h.keeper[j] = e.keeper[i + 1 + j]
      <4>1. h.keeper[j] = g.keeper[j + 1] /\ j + 1 \in 1..Len(g.keeper)
        BY <3>6
      <4>2. g.keeper[j + 1] = e.keeper[i + (j + 1)]
        BY <2>1, <4>1
      <4>3. i + (j + 1) = i + 1 + j
        BY <3>4, <2>2
      <4> QED
        BY <4>1, <4>2, <4>3
    <3>7. SameSession(e, h) /\ h.nextRecv \in Nat /\ h.nextRecv >= e.nextRecv
      BY <2>1, <2>2, <3>2 DEF SameSession
    <3>8. /\ new.e = h /\ ~new.stop /\ new.next = h.nextRecv
          /\ new = [e |-> new.e, next |-> new.next, stop |-> new.stop]
      BY <3>3
    <3> QED
      BY <3>2, <3>4, <3>5, <3>7, <3>8 DEF Turned
  <2> QED
    BY <2>1, <2>2, <2>4, <2>5, <2>6
<1> QED
  BY <1>1, <1>2

(* All turns of FixReceiver::CheckMsgKeeper, by induction over the kept messages. *)
LEMMA CheckMsgKeeperGood ==
  ASSUME NEW c, NEW d, NEW e, NEW p, Midway(c, d, e, p), Ahead(e), NEW f, f = CheckMsgKeeper(e, e.nextRecv)
  PROVE  Good(c, d, f, p) /\ (f.st = ApReady => e.st = ApReady) /\ f.nextRecv >= e.nextRecv
<1> DEFINE n == Len(e.keeper)
<1>0. n \in Nat
  BY OwnFields DEF Midway, Sending
<1>1. n \in Nat /\ Own(e) /\ e.nextRecv \in Nat
  BY OwnFields DEF Midway, Sending
<1>2. PICK g : /\ g[0] = [e |-> e, next |-> e.nextRecv, stop |-> FALSE]
               /\ \A i \in 1..n : g[i] = KeeperStep(g[i - 1], e.keeper[i])
               /\ CheckMsgKeeper(e, e.nextRecv) =
                    IF g[n].stop THEN g[n].e
                    ELSE IF g[n].next < g[n].e.lastGap
                    THEN SendResendRequest(g[n].e, g[n].next, g[n].e.lastGap)
                    ELSE OnRecoverDone(g[n].e)
  BY <1>0, KeeperTurns
<1> DEFINE T == {i \in Nat : i <= n => Turned(c, d, e, p, g[i], i)}
<1>3. 0 \in T
  <2> DEFINE a == [e |-> e, next |-> e.nextRecv, stop |-> FALSE]
  <2>1. a.e = e /\ ~a.stop /\ a.next = e.nextRecv /\ a = [e |-> a.e, next |-> a.next, stop |-> a.stop] /\ g[0] = a
    BY <1>2
  <2> HIDE DEF a
  <2>2. SameSession(e, a.e) /\ a.e.nextRecv \in Nat /\ a.e.nextRecv >= e.nextRecv
    BY <1>1, <2>1 DEF SameSession
  <2>3. \A j \in 1..Len(a.e.keeper) : a.e.keeper[j] = e.keeper[0 + j]
    BY <1>1, <2>1
  <2>4. Len(a.e.keeper) = Len(e.keeper) - 0
    BY <1>1, <2>1
  <2>5. Turned(c, d, e, p, a, 0)
    BY <2>1, <2>2, <2>3, <2>4 DEF Turned
  <2> QED
    BY <2>1, <2>5
<1>4. ASSUME NEW i \in T
      PROVE  i + 1 \in T
  <2> SUFFICES ASSUME i + 1 <= n PROVE Turned(c, d, e, p, g[i + 1], i + 1)
    OBVIOUS
  <2>1. i \in Nat /\ i < n /\ Turned(c, d, e, p, g[i], i)
    BY <1>1
  <2>2. g[i + 1] = KeeperStep(g[i], e.keeper[i + 1])
    BY <1>1, <1>2, <2>1
  <2> QED
    BY <1>1, <2>1, <2>2, KeeperStepTurned
<1>5. Turned(c, d, e, p, g[n], n)
  <2> HIDE DEF T
  <2>1. T = Nat
    <3>1. T \subseteq Nat
      BY DEF T
    <3> QED
      BY <1>3, <1>4, <3>1, Induct
  <2> QED
    BY <1>1, <2>1 DEF T
<1> DEFINE r == g[n]
           h == r.e
<1>6. CASE r.stop
  <2>1. f = h
    BY <1>2, <1>6
  <2> QED
    BY <1>5, <1>6, <2>1 DEF Turned, SameSession
<1>7. CASE ~r.stop
  <2>1. /\ Midway(c, d, h, p) /\ r.next = h.nextRecv /\ Len(h.keeper) = 0 /\ SameSession(e, h)
        /\ h.nextRecv >= e.nextRecv
    BY <1>1, <1>5, <1>7 DEF Turned
  <2>2. h.nextRecv \in Nat /\ h.lastGap \in Nat /\ 1 <= h.nextRecv
    BY <2>1, OwnFields DEF Midway, Sending, Handled
  <2>3. CASE r.next < h.lastGap
    <3>1. f = SendResendRequest(h, h.nextRecv, h.lastGap)
      BY <1>2, <1>7, <2>1, <2>3
    <3> HIDE DEF h, r
    <3>2. Good(c, d, f, p) /\ SameSession(h, f) /\ f.nextRecv = h.nextRecv
      <4>1. h.nextRecv <= h.lastGap /\ \A i \in 1..Len(h.keeper) : h.keeper[i].seq > h.lastGap
        BY <2>1, <2>2, <2>3
      <4>2. h.lastGap <= h.lastGap
        BY <2>2
      <4> QED
        BY <2>1, <2>2, <3>1, <4>1, <4>2, SendResendRequestGood
    <3> QED
      BY <2>1, <3>2 DEF SameSession
  <2>4. CASE ~(r.next < h.lastGap)
    <3>1. f = OnRecoverDone(h)
      BY <1>2, <1>7, <2>4
    <3> HIDE DEF h, r
    <3>2. Good(c, d, f, p) /\ (f.st = ApReady => h.st = ApReady) /\ f.nextRecv = h.nextRecv
      BY <2>1, <3>1, OnRecoverDoneGood
    <3> QED
      BY <2>1, <3>2 DEF SameSession
  <2> QED
    BY <2>3, <2>4
<1> QED
  BY <1>6, <1>7

-----------------------------------------------------------------------------
(* The engine takes the message m, which was at the front of the channel. *)
Taking(c, d, e, p, m) ==
  /\ Good(c, d, e, p) /\ Valid(m, p, e) /\ Beyond(m, e)
  /\ \A i \in 1..Len(d) : Behind(m, d[i])

(* What is known while a message is taken. *)
LEMMA TakingFields ==
  ASSUME NEW c, NEW d, NEW e, NEW p, NEW m, Taking(c, d, e, p, m)
  PROVE  /\ m \in Message /\ m.seq \in Nat /\ m.a \in Nat /\ m.b \in Nat /\ m.seq >= 1 /\ m.seq < p.nextSend
         /\ Own(e) /\ Own(p) /\ e \in Engine /\ e.nextRecv \in Nat /\ e.lastGap \in Nat /\ e.resendEnd \in Nat
         /\ e.nextSend \in Nat /\ p.nextSend \in Nat
         /\ Good(c, d, e, p) /\ Sending(c, e, p) /\ Handled(e, p) /\ Kept(e, p) /\ Asked(e) /\ Flow(d, p, e)
<1>1. m \in Message /\ Good(c, d, e, p) /\ Valid(m, p, e)
  BY DEF Taking, Valid
<1>2. /\ Own(e) /\ Own(p) /\ Sending(c, e, p) /\ Handled(e, p) /\ Kept(e, p) /\ Asked(e) /\ Flow(d, p, e)
  BY <1>1 DEF Good, Sending, Heard
<1>3. m.seq \in 1..(p.nextSend - 1) /\ p.nextSend \in Nat /\ m.seq \in Nat
  BY <1>1, <1>2, OwnFields, MessageFields DEF Valid
<1> QED
  BY <1>1, <1>2, <1>3, OwnFields, MessageFields

(* The message stays to be taken while the call only sends. *)
LEMMA TakingAfter ==
  ASSUME NEW c, NEW d, NEW e, NEW f, NEW p, NEW m, Taking(c, d, e, p, m),
         Good(c, d, f, p), SameRecv(e, f), Grows(e, f)
  PROVE  Taking(c, d, f, p, m)
<1>1. Own(e) /\ Own(f) /\ Own(p)
  BY DEF Taking, Good, Sending
<1>2. Grows(p, p)
  BY <1>1, OwnFields DEF Grows
<1>3. Valid(m, p, f)
  BY <1>1, <1>2, ValidGrows DEF Taking
<1> QED
  BY <1>3 DEF Taking, Beyond, SameRecv

(* A message over a gap is the new end of the gap. *)
LEMMA GapMidway ==
  ASSUME NEW c, NEW d, NEW e, NEW p, NEW m, Taking(c, d, e, p, m), m.seq > e.lastGap,
         NEW keep \in BOOLEAN, keep => m.type = "Report",
         NEW f \in Engine, SameSend(e, f), SameReset(e, f), SameSession(e, f), f.nextRecv = e.nextRecv,
         f.got = e.got, f.tooLow = e.tooLow, f.lastGap = m.seq,
         f.keeper = IF keep THEN Append(e.keeper, m) ELSE e.keeper
  PROVE  Midway(c, d, f, p) /\ \A i \in 1..Len(f.keeper) : f.keeper[i] = m \/ \E j \in 1..Len(e.keeper) : f.keeper[i] = e.keeper[j]
<1>1. /\ m \in Message /\ m.seq \in Nat /\ m.seq >= 1 /\ m.seq < p.nextSend /\ p.nextSend \in Nat
      /\ Own(e) /\ Own(p) /\ e.lastGap \in Nat /\ Sending(c, e, p) /\ Handled(e, p) /\ Kept(e, p) /\ Flow(d, p, e)
  BY TakingFields
<1>2. e.keeper \in Seq(Message) /\ Len(e.keeper) \in Nat
  BY <1>1, OwnFields
<1>3. Sending(c, f, p) /\ Grows(e, f)
  <2>1. f.st = ApReady => f.sender
    BY <1>1 DEF Own, SameSession
  <2> QED
    BY <1>1, <2>1, OtherSending
<1>4. Handled(f, p)
  BY <1>1 DEF Handled
<1>5. \A i \in 1..Len(e.keeper) : e.keeper[i].seq \in Nat /\ e.keeper[i].seq < m.seq
  BY <1>1, <1>2, MessageFields DEF Kept
<1>6. keep => p.log[m.seq].type = "Report"
  BY DEF Taking, Valid
<1>7. Kept(f, p) /\ \A i \in 1..Len(f.keeper) : f.keeper[i] = m \/ \E j \in 1..Len(e.keeper) : f.keeper[i] = e.keeper[j]
  <2>1. CASE ~keep
    <3>1. f.keeper = e.keeper
      BY <2>1
    <3>2. \A i \in 1..Len(e.keeper) : e.keeper[i].seq <= m.seq
      BY <1>1, <1>5
    <3> QED
      BY <1>1, <1>2, <3>1, <3>2 DEF Kept
  <2>2. CASE keep
    <3>1. /\ Len(f.keeper) = Len(e.keeper) + 1 /\ f.keeper[Len(e.keeper) + 1] = m
          /\ \A i \in 1..Len(e.keeper) : f.keeper[i] = e.keeper[i]
      <4>1. f.keeper = Append(e.keeper, m)
        BY <2>2
      <4> QED
        BY <1>1, <1>2, <4>1
    <3>2. ASSUME NEW i \in 1..Len(f.keeper)
          PROVE  /\ f.keeper[i].type = "Report" /\ 1 <= f.keeper[i].seq /\ f.keeper[i].seq <= f.lastGap
                 /\ p.log[f.keeper[i].seq].type = "Report"
      <4>1. CASE i = Len(e.keeper) + 1
        BY <1>1, <1>6, <2>2, <3>1, <4>1
      <4>2. CASE i \in 1..Len(e.keeper)
        BY <1>1, <1>5, <3>1, <4>2 DEF Kept
      <4> QED
        BY <1>2, <3>1, <4>1, <4>2
    <3>3. ASSUME NEW i \in 1..Len(f.keeper), NEW j \in 1..Len(f.keeper), i < j
          PROVE  f.keeper[i].seq < f.keeper[j].seq
      <4>1. CASE j = Len(e.keeper) + 1
        BY <1>2, <1>5, <3>1, <3>3, <4>1
      <4>2. CASE j \in 1..Len(e.keeper)
        <5>1. i \in 1..Len(e.keeper)
          BY <1>2, <3>1, <3>3, <4>2
        <5> QED
          BY <1>1, <3>1, <3>3, <4>2, <5>1 DEF Kept
      <4> QED
        BY <1>2, <3>1, <4>1, <4>2
    <3>4. \A i \in 1..Len(f.keeper) : f.keeper[i] = m \/ \E j \in 1..Len(e.keeper) : f.keeper[i] = e.keeper[j]
      BY <1>2, <3>1
    <3> QED
      BY <1>1, <3>2, <3>3, <3>4 DEF Kept
  <2> QED
    BY <2>1, <2>2
<1>8. Flow(d, p, f)
  <2>1. ASSUME NEW i \in 1..Len(d)
        PROVE  Beyond(d[i], f)
    <3>1. Beyond(d[i], e) /\ d[i] \in Message /\ Behind(m, d[i])
      BY <1>1 DEF Flow, Taking
    <3>2. Covers(m) \in Nat /\ m.seq < Covers(m)
      BY <1>1, CoversBelow DEF Taking
    <3> QED
      BY <1>1, <3>1, <3>2, MessageFields DEF Beyond, Behind
  <2>2. Own(f)
    BY <1>3 DEF Sending
  <2> QED
    BY <1>1, <1>3, <2>1, <2>2, FlowRecv
<1> QED
  BY <1>3, <1>4, <1>7, <1>8 DEF Midway

(* The gap was noted: what is kept of m, and what was asked for. *)
Noted(e, m, keep) == [e EXCEPT !.lastGap = m.seq, !.keeper = IF keep THEN Append(@, m) ELSE @]

(* The parts of an engine that noted a gap. *)
LEMMA NotedFields ==
  ASSUME NEW e \in Engine, NEW m \in Message, NEW keep \in BOOLEAN, NEW f, f = Noted(e, m, keep)
  PROVE  /\ f \in Engine /\ SameSend(e, f) /\ SameReset(e, f) /\ SameSession(e, f) /\ f.nextRecv = e.nextRecv
         /\ f.got = e.got /\ f.tooLow = e.tooLow /\ f.lastGap = m.seq /\ f.resendEnd = e.resendEnd
         /\ f.keeper = IF keep THEN Append(e.keeper, m) ELSE e.keeper
<1> DEFINE k == IF keep THEN Append(e.keeper, m) ELSE e.keeper
<1>1. m.seq \in Nat /\ k \in Seq(Message)
  <2>1. e.keeper \in Seq(Message) /\ m.seq \in Nat
    BY EngineFields, MessageFields
  <2> QED
    BY <2>1
<1>2. f = [e EXCEPT !.lastGap = m.seq, !.keeper = k]
  BY DEF Noted
<1> HIDE DEF k
<1>3. /\ f \in Engine /\ SameSend(e, f) /\ SameReset(e, f) /\ SameSession(e, f) /\ f.nextRecv = e.nextRecv
      /\ f.got = e.got /\ f.tooLow = e.tooLow /\ f.lastGap = m.seq /\ f.resendEnd = e.resendEnd /\ f.keeper = k
  BY <1>1, <1>2 DEF Engine, SameSend, SameReset, SameSession
<1> QED
  BY <1>3 DEF k

(* FixReceiver::OnMsgSeqNumNotExpected, of a number too high. *)
LEMMA OnGapGood ==
  ASSUME NEW c, NEW d, NEW e, NEW p, NEW m, Taking(c, d, e, p, m), m.seq > e.nextRecv,
         NEW keep \in BOOLEAN, keep => m.type = "Report", NEW f, f = OnGap(e, m, keep)
  PROVE  Good(c, d, f, p) /\ SameSession(e, f)
<1>1. /\ m \in Message /\ m.seq \in Nat /\ m.seq >= 1 /\ Own(e) /\ e \in Engine /\ e.nextRecv \in Nat /\ e.lastGap \in Nat
      /\ e.resendEnd \in Nat /\ Good(c, d, e, p) /\ Asked(e) /\ Kept(e, p) /\ Handled(e, p)
      /\ e.keeper \in Seq(Message) /\ Len(e.keeper) \in Nat
  BY TakingFields, OwnFields
<1> DEFINE g == Noted(e, m, keep)
           last == IF keep THEN m.seq - 1 ELSE m.seq
<1>2. f = IF m.seq <= e.lastGap THEN e ELSE IF e.resendEnd > 0 THEN g ELSE SendResendRequest(g, e.nextRecv, last)
  BY DEF OnGap, Noted
<1>3. /\ g \in Engine /\ SameSend(e, g) /\ SameReset(e, g) /\ SameSession(e, g) /\ g.nextRecv = e.nextRecv
      /\ g.got = e.got /\ g.tooLow = e.tooLow /\ g.lastGap = m.seq /\ g.resendEnd = e.resendEnd
      /\ g.keeper = IF keep THEN Append(e.keeper, m) ELSE e.keeper
  BY <1>1, NotedFields
<1> HIDE DEF g
<1>4. CASE m.seq <= e.lastGap
  BY <1>1, <1>2, <1>4 DEF SameSession
<1>5. ASSUME ~(m.seq <= e.lastGap)
      PROVE  /\ Midway(c, d, g, p)
             /\ \A i \in 1..Len(g.keeper) : g.keeper[i] = m \/ \E j \in 1..Len(e.keeper) : g.keeper[i] = e.keeper[j]
  <2>1. m.seq > e.lastGap
    BY <1>1, <1>5
  <2> QED
    BY <1>3, <2>1, GapMidway
<1>6. CASE ~(m.seq <= e.lastGap) /\ e.resendEnd > 0
  <2>1. Midway(c, d, g, p) /\ \A i \in 1..Len(g.keeper) : g.keeper[i] = m \/ \E j \in 1..Len(e.keeper) : g.keeper[i] = e.keeper[j]
    BY <1>5, <1>6
  <2>2. m.seq > e.resendEnd /\ e.resendEnd <= m.seq
    BY <1>1, <1>6 DEF Asked
  <2>3. \A i \in 1..Len(g.keeper) : g.keeper[i].seq > g.resendEnd
    BY <1>1, <1>3, <2>1, <2>2 DEF Asked
  <2>4. Asked(g)
    BY <1>1, <1>3, <1>6, <2>2, <2>3 DEF Asked
  <2>5. f = g
    BY <1>2, <1>6
  <2> QED
    BY <1>3, <2>1, <2>4, <2>5 DEF Midway, Good, Heard
<1>7. CASE ~(m.seq <= e.lastGap) /\ ~(e.resendEnd > 0)
  <2>1. Midway(c, d, g, p) /\ \A i \in 1..Len(g.keeper) : g.keeper[i] = m \/ \E j \in 1..Len(e.keeper) : g.keeper[i] = e.keeper[j]
    BY <1>5, <1>7
  <2>2. e.lastGap = 0
    BY <1>1, <1>7 DEF Asked
  <2>3. Len(e.keeper) = 0
    <3>1. \A i \in 1..Len(e.keeper) : 1 <= e.keeper[i].seq /\ e.keeper[i].seq <= 0 /\ e.keeper[i].seq \in Nat
      BY <1>1, <2>2, MessageFields DEF Kept
    <3>2. 1 \in 1..Len(e.keeper) => FALSE
      BY <3>1
    <3> QED
      BY <1>1, <3>2
  <2>4. last \in Nat /\ e.nextRecv <= last /\ 1 <= e.nextRecv /\ g.nextRecv <= last /\ last <= g.lastGap
    BY <1>1, <1>3 DEF Handled
  <2>5. \A i \in 1..Len(g.keeper) : g.keeper[i].seq > last
    <3>1. \A i \in 1..Len(g.keeper) : g.keeper[i] = m
      BY <2>1, <2>3
    <3>2. ~keep => Len(g.keeper) = 0
      BY <1>3, <2>3
    <3> QED
      BY <1>1, <3>1, <3>2
  <2> HIDE DEF last
  <2>6. f = SendResendRequest(g, e.nextRecv, last)
    BY <1>2, <1>7
  <2>7. Good(c, d, f, p) /\ SameSession(g, f)
    BY <1>1, <2>1, <2>4, <2>5, <2>6, SendResendRequestGood
  <2> QED
    BY <1>3, <2>7 DEF SameSession
<1> QED
  BY <1>4, <1>6, <1>7

(* A message that was sent as a new one and has the expected number comes with
   no gap before it. *)
LEMMA NoGap ==
  ASSUME NEW c, NEW d, NEW e, NEW p, NEW m, Taking(c, d, e, p, m), ~m.dup, m.seq = e.nextRecv
  PROVE  e.resendEnd = 0 /\ e.lastGap = 0 /\ Len(e.keeper) = 0
<1>1. /\ m.seq \in Nat /\ e.lastGap \in Nat /\ e.resendEnd \in Nat /\ Asked(e) /\ Kept(e, p)
      /\ e.keeper \in Seq(Message) /\ Len(e.keeper) \in Nat
  BY TakingFields, OwnFields
<1>2. m.seq > e.lastGap
  BY DEF Taking, Beyond
<1>3. e.resendEnd = 0 /\ e.lastGap = 0
  BY <1>1, <1>2 DEF Asked
<1>4. \A i \in 1..Len(e.keeper) : 1 <= e.keeper[i].seq /\ e.keeper[i].seq <= 0 /\ e.keeper[i].seq \in Nat
  BY <1>1, <1>3, MessageFields DEF Kept
<1>5. 1 \in 1..Len(e.keeper) => FALSE
  BY <1>4
<1> QED
  BY <1>1, <1>3, <1>5

(* The parts of an engine that counted a message (FixRecorder::WriteInputConform). *)
LEMMA ConformFields ==
  ASSUME NEW e \in Engine, NEW f, f = WriteInputConform(e)
  PROVE  /\ f \in Engine /\ SameSend(e, f) /\ SameReset(e, f) /\ SameSession(e, f) /\ f.nextRecv = e.nextRecv + 1
         /\ f.got = e.got /\ f.tooLow = e.tooLow /\ f.lastGap = e.lastGap /\ f.resendEnd = e.resendEnd
         /\ f.keeper = e.keeper
<1>1. e.nextRecv + 1 \in Nat /\ f = [e EXCEPT !.nextRecv = e.nextRecv + 1]
  BY EngineFields DEF WriteInputConform
<1> QED
  BY <1>1 DEF Engine, SameSend, SameReset, SameSession

(* The number of m is counted: what is in flight is still beyond it. *)
LEMMA FlowCounted ==
  ASSUME NEW c, NEW d, NEW e, NEW p, NEW m, Taking(c, d, e, p, m), NEW f, Own(f), Grows(e, f),
         f.nextRecv <= Covers(m), f.lastGap = e.lastGap, f.nextRecv \in Nat
  PROVE  Flow(d, p, f)
<1>1. m \in Message /\ Own(e) /\ Own(p) /\ Flow(d, p, e) /\ Valid(m, p, e)
  BY TakingFields DEF Taking
<1>2. Covers(m) \in Nat
  BY <1>1, CoversBelow
<1>3. ASSUME NEW i \in 1..Len(d)
      PROVE  Beyond(d[i], f)
  <2>1. Beyond(d[i], e) /\ d[i] \in Message /\ Behind(m, d[i])
    BY <1>1 DEF Flow, Taking
  <2> QED
    BY <1>1, <1>2, <2>1, MessageFields DEF Beyond, Behind
<1> QED
  BY <1>1, <1>3, FlowRecv

(* An administrative message with the expected number is counted. *)
LEMMA AdminCounted ==
  ASSUME NEW c, NEW d, NEW e, NEW p, NEW m, Taking(c, d, e, p, m), ~m.dup, m.seq = e.nextRecv, m.type # "GapFill",
         m.type # "Report", NEW f, f = WriteInputConform(e)
  PROVE  Good(c, d, f, p) /\ SameSession(e, f) /\ f.resendEnd = 0 /\ Len(f.keeper) = 0
<1>1. /\ m \in Message /\ m.seq \in Nat /\ Own(e) /\ Own(p) /\ e \in Engine /\ e.nextRecv \in Nat /\ p.nextSend \in Nat
      /\ m.seq < p.nextSend /\ Sending(c, e, p) /\ Handled(e, p) /\ Kept(e, p)
  BY TakingFields
<1>2. e.resendEnd = 0 /\ e.lastGap = 0 /\ Len(e.keeper) = 0
  BY NoGap
<1>3. /\ f \in Engine /\ SameSend(e, f) /\ SameReset(e, f) /\ SameSession(e, f) /\ f.nextRecv = e.nextRecv + 1
      /\ f.got = e.got /\ f.tooLow = e.tooLow /\ f.lastGap = e.lastGap /\ f.resendEnd = e.resendEnd
      /\ f.keeper = e.keeper
  BY <1>1, ConformFields
<1>4. Sending(c, f, p) /\ Grows(e, f)
  <2>1. f.st = ApReady => f.sender
    BY <1>1, <1>3 DEF Own, SameSession
  <2> QED
    BY <1>1, <1>3, <2>1, OtherSending
<1>5. p.log[m.seq].type # "Report"
  BY DEF Taking, Valid
<1>6. Handled(f, p)
  <2>1. \A k \in e.nextRecv..((e.nextRecv + 1) - 1) : p.log[k].type # "Report"
    BY <1>1, <1>5
  <2>2. e.nextRecv + 1 \in Nat /\ e.nextRecv <= e.nextRecv + 1 /\ e.nextRecv + 1 <= p.nextSend
    BY <1>1
  <2> QED
    BY <1>1, <1>3, <2>1, <2>2, HandledPassed
<1>7. Kept(f, p)
  BY <1>1, <1>3 DEF Kept
<1>8. Asked(f)
  BY <1>2, <1>3 DEF Asked
<1>9. Flow(d, p, f)
  <2>1. f.nextRecv <= Covers(m) /\ f.nextRecv \in Nat
    BY <1>1, <1>3 DEF Covers
  <2>2. Own(f)
    BY <1>4 DEF Sending
  <2> QED
    BY <1>3, <1>4, <2>1, <2>2, FlowCounted
<1> QED
  BY <1>2, <1>3, <1>4, <1>6, <1>7, <1>8, <1>9 DEF Good, Heard

(* A message with the expected number is handled as the receiver does it for
   an application message. *)
Delivered(e, m) == [WriteInputConform(e) EXCEPT !.got = Append(@, m)]

(* The parts of an engine whose application was given a message. *)
LEMMA DeliveredFields ==
  ASSUME NEW e \in Engine, NEW m \in Message, NEW f, f = Delivered(e, m)
  PROVE  /\ f \in Engine /\ SameSend(e, f) /\ SameReset(e, f) /\ SameSession(e, f) /\ f.nextRecv = e.nextRecv + 1
         /\ f.got = Append(e.got, m) /\ f.tooLow = e.tooLow /\ f.lastGap = e.lastGap /\ f.resendEnd = e.resendEnd
         /\ f.keeper = e.keeper
<1>1. e.nextRecv + 1 \in Nat /\ e.got \in Seq(Message) /\ Append(e.got, m) \in Seq(Message)
  BY EngineFields
<1>2. f = [e EXCEPT !.nextRecv = e.nextRecv + 1, !.got = Append(e.got, m)]
  BY DEF Delivered, WriteInputConform, Engine
<1> QED
  BY <1>1, <1>2 DEF Engine, SameSend, SameReset, SameSession

(* An application's message with the expected number, and what that ends
   (FixReceiver::OnMessageProcessed). *)
LEMMA AppGood ==
  ASSUME NEW c, NEW d, NEW e, NEW p, NEW m, Taking(c, d, e, p, m), m.type \in AppTypes, m.seq = e.nextRecv,
         NEW f, f = OnMessageProcessed(Delivered(e, m), m.seq)
  PROVE  Good(c, d, f, p) /\ (f.st = ApReady => e.st = ApReady)
<1>1. /\ m \in Message /\ m.seq \in Nat /\ Own(e) /\ Own(p) /\ e \in Engine /\ e.nextRecv \in Nat
      /\ e.resendEnd \in Nat /\ e.lastGap \in Nat
      /\ m.seq < p.nextSend /\ Sending(c, e, p) /\ Handled(e, p) /\ Kept(e, p) /\ Asked(e)
      /\ e.keeper \in Seq(Message) /\ Len(e.keeper) \in Nat
  BY TakingFields, OwnFields
<1> DEFINE g == Delivered(e, m)
<1>2. /\ g \in Engine /\ SameSend(e, g) /\ SameReset(e, g) /\ SameSession(e, g) /\ g.nextRecv = e.nextRecv + 1
      /\ g.got = Append(e.got, m) /\ g.tooLow = e.tooLow /\ g.lastGap = e.lastGap /\ g.resendEnd = e.resendEnd
      /\ g.keeper = e.keeper
  BY <1>1, DeliveredFields
<1>3. f = IF g.resendEnd > 0 /\ m.seq = g.resendEnd THEN CheckMsgKeeper(g, m.seq + 1) ELSE g
  BY DEF OnMessageProcessed
<1> HIDE DEF g
<1>4. Sending(c, g, p) /\ Grows(e, g)
  <2>1. g.st = ApReady => g.sender
    BY <1>1, <1>2 DEF Own, SameSession
  <2> QED
    BY <1>1, <1>2, <2>1, OtherSending
<1>5. p.log[m.seq].type = m.type /\ m.type # "GapFill"
  BY DEF Taking, Valid, AppTypes
<1>6. Handled(g, p)
  BY <1>1, <1>2, <1>5, HandledTaken
<1>7. Kept(g, p)
  BY <1>1, <1>2 DEF Kept
<1>8. Flow(d, p, g)
  <2>1. g.nextRecv <= Covers(m) /\ g.nextRecv \in Nat
    BY <1>1, <1>2, <1>5 DEF Covers
  <2>2. Own(g)
    BY <1>4 DEF Sending
  <2> QED
    BY <1>2, <1>4, <2>1, <2>2, FlowCounted
<1>9. Midway(c, d, g, p)
  BY <1>4, <1>6, <1>7, <1>8 DEF Midway
<1>10. \A i \in 1..Len(e.keeper) : e.keeper[i].seq \in Nat /\ e.keeper[i].seq > e.resendEnd /\ e.resendEnd > 0
  <2>1. \A i \in 1..Len(e.keeper) : e.keeper[i].seq \in Nat /\ 1 <= e.keeper[i].seq /\ e.keeper[i].seq <= e.lastGap
    BY <1>1, MessageFields DEF Kept
  <2> QED
    BY <1>1, <2>1 DEF Asked
<1>11. CASE g.resendEnd > 0 /\ m.seq = g.resendEnd
  <2>1. Ahead(g)
    BY <1>1, <1>2, <1>10, <1>11 DEF Ahead
  <2>2. f = CheckMsgKeeper(g, g.nextRecv)
    BY <1>2, <1>3, <1>11
  <2>3. Good(c, d, f, p) /\ (f.st = ApReady => g.st = ApReady)
    BY <1>9, <2>1, <2>2, CheckMsgKeeperGood
  <2> QED
    BY <1>2, <2>3 DEF SameSession
<1>12. CASE ~(g.resendEnd > 0 /\ m.seq = g.resendEnd)
  <2>1. Asked(g)
    <3>1. g.resendEnd > 0 => g.nextRecv <= g.resendEnd
      BY <1>1, <1>2, <1>12 DEF Asked
    <3> QED
      BY <1>1, <1>2, <1>10, <3>1 DEF Asked
  <2>2. f = g
    BY <1>3, <1>12
  <2> QED
    BY <1>2, <1>9, <2>1, <2>2 DEF Good, Heard, Midway, SameSession
<1> QED
  BY <1>11, <1>12

(* A GapFill with the expected number. *)
LEMMA GapFillConform ==
  ASSUME NEW c, NEW d, NEW e, NEW p, NEW m, Taking(c, d, e, p, m), m.type = "GapFill", m.seq = e.nextRecv,
         NEW f, f = OnMessageProcessed(OnRecvGapFill(e, m, "Conform"), m.seq)
  PROVE  Good(c, d, f, p) /\ (f.st = ApReady => e.st = ApReady)
<1>1. /\ m \in Message /\ m.seq \in Nat /\ m.a \in Nat /\ Own(e) /\ Own(p) /\ e \in Engine /\ e.nextRecv \in Nat
      /\ e.resendEnd \in Nat /\ e.lastGap \in Nat /\ p.nextSend \in Nat
      /\ m.seq < p.nextSend /\ Sending(c, e, p) /\ Handled(e, p) /\ Kept(e, p) /\ Asked(e)
      /\ e.keeper \in Seq(Message) /\ Len(e.keeper) \in Nat
  BY TakingFields, OwnFields
<1>2. m.seq < m.a /\ m.a <= p.nextSend /\ \A n \in m.seq..(m.a - 1) : p.log[n].type # "Report"
  BY DEF Taking, Valid
<1> DEFINE g == [e EXCEPT !.nextRecv = m.a]
           h == [g EXCEPT !.resendEnd = 0]
           r == IF g.resendEnd < m.a THEN CheckMsgKeeper(h, m.a) ELSE g
<1>3. OnRecvGapFill(e, m, "Conform") = r
  <2>1. ~(m.a < m.seq)
    BY <1>1, <1>2
  <2> QED
    BY <2>1 DEF OnRecvGapFill, WriteInputSeqReset
<1>4. /\ g \in Engine /\ SameSend(e, g) /\ SameReset(e, g) /\ SameSession(e, g) /\ g.nextRecv = m.a
      /\ g.got = e.got /\ g.tooLow = e.tooLow /\ g.lastGap = e.lastGap /\ g.resendEnd = e.resendEnd
      /\ g.keeper = e.keeper
  BY <1>1 DEF Engine, SameSend, SameReset, SameSession
<1> HIDE DEF g
<1>5. /\ h \in Engine /\ SameSend(g, h) /\ SameReset(g, h) /\ SameSession(g, h) /\ h.nextRecv = g.nextRecv
      /\ h.got = g.got /\ h.tooLow = g.tooLow /\ h.lastGap = g.lastGap /\ h.resendEnd = 0
      /\ h.keeper = g.keeper
  BY <1>4 DEF Engine, SameSend, SameReset, SameSession
<1> HIDE DEF h
<1>6. Sending(c, g, p) /\ Grows(e, g)
  <2>1. g.st = ApReady => g.sender
    BY <1>1, <1>4 DEF Own, SameSession
  <2> QED
    BY <1>1, <1>4, <2>1, OtherSending
<1>7. Handled(g, p)
  <2>1. \A k \in e.nextRecv..(m.a - 1) : p.log[k].type # "Report"
    BY <1>2
  <2>2. e.nextRecv <= m.a
    BY <1>1, <1>2
  <2> QED
    BY <1>1, <1>2, <1>4, <2>1, <2>2, HandledPassed
<1>8. Kept(g, p)
  BY <1>1, <1>4 DEF Kept
<1>9. Flow(d, p, g)
  <2>1. g.nextRecv <= Covers(m) /\ g.nextRecv \in Nat
    BY <1>1, <1>4 DEF Covers
  <2>2. Own(g)
    BY <1>6 DEF Sending
  <2> QED
    BY <1>4, <1>6, <2>1, <2>2, FlowCounted
<1>10. \A i \in 1..Len(e.keeper) : /\ e.keeper[i].seq \in Nat /\ e.keeper[i].seq > e.resendEnd
                                   /\ e.keeper[i].seq >= m.a
  <2>1. ASSUME NEW i \in 1..Len(e.keeper)
        PROVE  e.keeper[i].seq \in Nat /\ e.keeper[i].seq > e.resendEnd /\ e.keeper[i].seq >= m.a
    <3>1. /\ e.keeper[i].seq \in Nat /\ 1 <= e.keeper[i].seq /\ e.keeper[i].seq <= e.lastGap
          /\ e.keeper[i].seq > e.resendEnd /\ p.log[e.keeper[i].seq].type = "Report"
      BY <1>1, MessageFields DEF Kept, Asked
    <3>2. e.nextRecv <= e.resendEnd
      BY <1>1, <3>1 DEF Asked
    <3>3. e.keeper[i].seq \notin m.seq..(m.a - 1)
      BY <1>2, <3>1
    <3> QED
      BY <1>1, <3>1, <3>2, <3>3
  <2> QED
    BY <2>1
<1>11. CASE g.resendEnd < m.a
  <2>1. Sending(c, h, p) /\ Grows(g, h)
    <3>1. h.st = ApReady => h.sender
      BY <1>1, <1>4, <1>5 DEF Own, SameSession
    <3> QED
      BY <1>5, <1>6, <3>1, OtherSending
  <2>2. Handled(h, p) /\ Kept(h, p)
    BY <1>5, <1>7, <1>8 DEF Handled, Kept
  <2>3. Flow(d, p, h)
    <3>1. \A i \in 1..Len(d) : Beyond(d[i], h)
      BY <1>5, <1>9 DEF Flow, Beyond
    <3>2. Own(g) /\ Own(h)
      BY <1>6, <2>1 DEF Sending
    <3> QED
      BY <1>1, <1>9, <2>1, <3>1, <3>2, FlowRecv
  <2>4. Ahead(h)
    BY <1>4, <1>5, <1>10 DEF Ahead
  <2>5. r = CheckMsgKeeper(h, h.nextRecv)
    BY <1>4, <1>5, <1>11
  <2> HIDE DEF r
  <2>6. Good(c, d, r, p) /\ (r.st = ApReady => h.st = ApReady) /\ r.nextRecv >= h.nextRecv
    BY <2>1, <2>2, <2>3, <2>4, <2>5, CheckMsgKeeperGood DEF Midway
  <2>7. ~(r.resendEnd > 0 /\ m.seq = r.resendEnd)
    <3>1. r.resendEnd > 0 => r.nextRecv <= r.resendEnd
      BY <2>6 DEF Good, Heard, Asked
    <3>2. r.nextRecv \in Nat /\ r.resendEnd \in Nat
      BY <2>6, OwnFields DEF Good, Sending
    <3> QED
      BY <1>1, <1>2, <1>4, <1>5, <2>6, <3>1, <3>2
  <2>8. f = r
    BY <1>3, <2>7 DEF OnMessageProcessed
  <2> QED
    BY <1>4, <1>5, <2>6, <2>8 DEF SameSession
<1>12. CASE ~(g.resendEnd < m.a)
  <2>1. Asked(g)
    <3>1. g.resendEnd > 0 => g.nextRecv <= g.resendEnd
      BY <1>1, <1>4, <1>12
    <3> QED
      BY <1>1, <1>4, <1>10, <3>1 DEF Asked
  <2>2. r = g
    BY <1>12
  <2> HIDE DEF r
  <2>3. f = g
    <3>1. m.seq # g.resendEnd
      BY <1>1, <1>2, <1>4, <1>12
    <3> QED
      BY <1>3, <2>2, <3>1 DEF OnMessageProcessed
  <2> QED
    BY <1>4, <1>6, <1>7, <1>8, <1>9, <2>1, <2>3 DEF Good, Heard, SameSession
<1> QED
  BY <1>11, <1>12

-----------------------------------------------------------------------------
(* What a replay sends: possible duplicates, of which nothing is said of the
   order. *)
Dups(o, e, p) == o \in Seq(Message) /\ \A i \in 1..Len(o) : Valid(o[i], e, p) /\ o[i].dup

(* Two sequences behind one another ... *)
LEMMA ConcatFields ==
  ASSUME NEW a \in Seq(Message), NEW b \in Seq(Message)
  PROVE  /\ a \o b \in Seq(Message) /\ Len(a) \in Nat /\ Len(b) \in Nat /\ Len(a \o b) = Len(a) + Len(b)
         /\ \A i \in 1..Len(a \o b) : (a \o b)[i] = IF i <= Len(a) THEN a[i] ELSE b[i - Len(a)]
BY ConcatProperties

(* ... and three. *)
LEMMA ConcatThree ==
  ASSUME NEW a \in Seq(Message), NEW b \in Seq(Message), NEW c \in Seq(Message)
  PROVE  (a \o b) \o c = a \o (b \o c)
BY ConcatAssociative

(* A replay after a replay is a replay. *)
LEMMA DupsConcat ==
  ASSUME NEW a, NEW b, NEW e, NEW p, Dups(a, e, p), Dups(b, e, p)
  PROVE  Dups(a \o b, e, p)
<1>1. a \in Seq(Message) /\ b \in Seq(Message)
  BY DEF Dups
<1>2. /\ a \o b \in Seq(Message) /\ Len(a) \in Nat /\ Len(b) \in Nat /\ Len(a \o b) = Len(a) + Len(b)
      /\ \A i \in 1..Len(a \o b) : (a \o b)[i] = IF i <= Len(a) THEN a[i] ELSE b[i - Len(a)]
  BY <1>1, ConcatFields
<1>3. ASSUME NEW i \in 1..Len(a \o b)
      PROVE  Valid((a \o b)[i], e, p) /\ (a \o b)[i].dup
  <2>1. CASE i <= Len(a)
    BY <1>2, <2>1 DEF Dups
  <2>2. CASE ~(i <= Len(a))
    <3>1. i - Len(a) \in 1..Len(b) /\ (a \o b)[i] = b[i - Len(a)]
      BY <1>2, <2>2
    <3> QED
      BY <3>1 DEF Dups
  <2> QED
    BY <2>1, <2>2
<1> QED
  BY <1>2, <1>3 DEF Dups

(* A replay may go behind anything in flight. *)
LEMMA FlowDups ==
  ASSUME NEW a, NEW b, NEW e, NEW p, Flow(a, e, p), Dups(b, e, p)
  PROVE  Flow(a \o b, e, p)
<1>1. a \in Seq(Message) /\ b \in Seq(Message)
  BY DEF Dups, Flow
<1>2. /\ a \o b \in Seq(Message) /\ Len(a) \in Nat /\ Len(b) \in Nat /\ Len(a \o b) = Len(a) + Len(b)
      /\ \A i \in 1..Len(a \o b) : (a \o b)[i] = IF i <= Len(a) THEN a[i] ELSE b[i - Len(a)]
  BY <1>1, ConcatFields
<1>3. ASSUME NEW i \in 1..Len(a \o b), ~(i <= Len(a))
      PROVE  Valid((a \o b)[i], e, p) /\ (a \o b)[i].dup
  <2>1. i - Len(a) \in 1..Len(b) /\ (a \o b)[i] = b[i - Len(a)]
    BY <1>2, <1>3
  <2> QED
    BY <2>1 DEF Dups
<1>4. ASSUME NEW i \in 1..Len(a \o b)
      PROVE  Valid((a \o b)[i], e, p) /\ Beyond((a \o b)[i], p)
  <2>1. CASE i <= Len(a)
    BY <1>2, <2>1 DEF Flow
  <2>2. CASE ~(i <= Len(a))
    BY <1>3, <2>2 DEF Beyond
  <2> QED
    BY <2>1, <2>2
<1>5. ASSUME NEW i \in 1..Len(a \o b), NEW j \in 1..Len(a \o b), i < j
      PROVE  Behind((a \o b)[i], (a \o b)[j])
  <2>1. CASE j <= Len(a)
    <3>1. i \in 1..Len(a) /\ j \in 1..Len(a) /\ (a \o b)[i] = a[i] /\ (a \o b)[j] = a[j]
      BY <1>2, <1>5, <2>1
    <3> QED
      BY <1>5, <3>1 DEF Flow
  <2>2. CASE ~(j <= Len(a))
    BY <1>3, <2>2 DEF Behind
  <2> QED
    BY <2>1, <2>2
<1> QED
  BY <1>2, <1>4, <1>5 DEF Flow

(* Nothing was replayed. *)
LEMMA NoDups ==
  ASSUME NEW e, NEW p
  PROVE  Dups(<<>>, e, p)
BY DEF Dups

(* The messages of a replay, one by one. *)
LEMMA OneDup ==
  ASSUME NEW m, NEW e, NEW p, Valid(m, e, p), m.dup
  PROVE  Dups(<<m>>, e, p)
<1>1. m \in Message
  BY DEF Valid
<1>2. <<m>> \in Seq(Message) /\ Len(<<m>>) = 1 /\ <<m>>[1] = m
  BY <1>1
<1> QED
  BY <1>2 DEF Dups

(* A GapFill over lines without a Report ... *)
LEMMA GapFillDup ==
  ASSUME NEW e, NEW p, Own(e), NEW begin \in Nat, NEW end \in Nat, 1 <= begin, begin < end, end <= e.nextSend,
         \A n \in begin..(end - 1) : e.log[n].type # "Report"
  PROVE  Dups(GapFillMsg(begin, end), e, p)
<1> DEFINE m == Msg("GapFill", begin, TRUE, end, 0)
<1>1. /\ m \in Message /\ m.type = "GapFill" /\ m.seq = begin /\ m.dup /\ m.a = end
  BY DEF Msg, Message, Types, AdminTypes
<1>2. GapFillMsg(begin, end) = <<m>>
  BY DEF GapFillMsg
<1> HIDE DEF m
<1>3. begin \in 1..(e.nextSend - 1)
  BY OwnFields
<1>4. Valid(m, e, p)
  BY <1>1, <1>3 DEF Valid
<1> QED
  BY <1>1, <1>2, <1>4, OneDup

(* ... and an application's message from the record. *)
LEMMA AgainDup ==
  ASSUME NEW e, NEW p, Own(e), NEW n \in 1..Len(e.log), e.log[n].type \in AppTypes
  PROVE  Dups(<<Msg(e.log[n].type, n, TRUE, 0, 0)>>, e, p)
<1> DEFINE m == Msg(e.log[n].type, n, TRUE, 0, 0)
<1>1. n \in Nat /\ e.nextSend = Len(e.log) + 1 /\ Len(e.log) \in Nat
  BY OwnFields
<1>2. /\ m \in Message /\ m.type = e.log[n].type /\ m.seq = n /\ m.dup
  BY <1>1 DEF Msg, Message, Types, AppTypes
<1> HIDE DEF m
<1>3. n \in 1..(e.nextSend - 1)
  BY <1>1
<1>4. m.type # "GapFill" /\ m.type # "Reset" /\ m.type # "ResendRequest"
  BY <1>2 DEF AppTypes
<1>5. Valid(m, e, p)
  BY <1>2, <1>3, <1>4 DEF Valid
<1> QED
  BY <1>2, <1>5, OneDup DEF m

(* The lines of the log are taken one after the other. *)
LEMMA ReloadTurns ==
  ASSUME NEW e, NEW begin, NEW end, NEW live, NEW n \in Nat, Len(e.log) = n, begin # 0, ~(e.nextSend <= begin)
  PROVE  \E g : /\ g[0] = [begin |-> begin, buf |-> <<>>]
                /\ \A i \in 1..n : g[i] = ReloadStep(g[i - 1], e.log[i], begin, end, live)
                /\ Reload(e, begin, end, live) = g[n]
<1> DEFINE a == [begin |-> begin, buf |-> <<>>]
           Turns(g, k) == g = [i \in 0..k |-> IF i = 0 THEN a ELSE ReloadStep(g[i - 1], e.log[i], begin, end, live)]
           T == {k \in Nat : \E g : Turns(g, k)}
           r == CHOOSE g : Turns(g, n)
<1>1. Reload(e, begin, end, live) = r[n]
  BY DEF Reload
<1> HIDE DEF a
<1>2. 0 \in T
  <2>1. Turns([i \in 0..0 |-> a], 0)
    OBVIOUS
  <2> HIDE DEF Turns
  <2> QED
    BY <2>1
<1>3. ASSUME NEW k \in T
      PROVE  k + 1 \in T
  <2>1. PICK g : Turns(g, k)
    OBVIOUS
  <2> DEFINE v == ReloadStep(g[k], e.log[k + 1], begin, end, live)
             f == [i \in 0..(k + 1) |-> IF i = k + 1 THEN v ELSE g[i]]
  <2>2. ASSUME NEW i \in 0..(k + 1)
        PROVE  f[i] = IF i = 0 THEN a ELSE ReloadStep(f[i - 1], e.log[i], begin, end, live)
    <3>1. CASE i = 0
      BY <3>1, <2>1
    <3>2. CASE i = k + 1
      <4>1. f[i] = v /\ f[i - 1] = g[k] /\ i # 0
        BY <3>2
      <4> QED
        BY <3>2, <4>1
    <3>3. CASE i \in 1..k
      <4>1. f[i] = g[i] /\ f[i - 1] = g[i - 1] /\ i # 0
        BY <3>3
      <4>2. i \in 0..k /\ i # 0
        BY <3>3
      <4>3. g[i] = IF i = 0 THEN a ELSE ReloadStep(g[i - 1], e.log[i], begin, end, live)
        BY <2>1, <4>2
      <4> QED
        BY <4>1, <4>2, <4>3
    <3> QED
      BY <3>1, <3>2, <3>3
  <2>3. Turns(f, k + 1)
    BY <2>2
  <2> HIDE DEF f, Turns
  <2> QED
    BY <2>3
<1>4. n \in T
  <2> HIDE DEF T
  <2>1. T = Nat
    <3>1. T \subseteq Nat
      BY DEF T
    <3> QED
      BY <1>2, <1>3, <3>1, Induct
  <2> QED
    BY <2>1
<1>5. Turns(r, n)
  <2>1. \E g : Turns(g, n)
    BY <1>4
  <2> HIDE DEF Turns
  <2> QED
    BY <2>1, Zenon
<1>6. r[0] = a /\ \A i \in 1..n : r[i] = ReloadStep(r[i - 1], e.log[i], begin, end, live)
  <2>1. r = [i \in 0..n |-> IF i = 0 THEN a ELSE ReloadStep(r[i - 1], e.log[i], begin, end, live)]
    BY <1>5
  <2> HIDE DEF r
  <2> QED
    BY <2>1
<1> HIDE DEF r
<1> QED
  BY <1>1, <1>6 DEF a

(* After the first i lines, all of [begin, end] that they give is in buf, but
   for the end of it, which is behind the last Report. *)
Reloaded(e, p, begin, end, acc, i) ==
  /\ acc.begin \in Nat /\ begin <= acc.begin /\ acc.begin <= end + 1
  /\ acc.begin = begin \/ acc.begin <= i + 1
  /\ \A n \in acc.begin..i : n <= end => e.log[n].type # "Report"
  /\ Dups(acc.buf, e, p)

(* One line of the record (Replayer::Reload). *)
LEMMA ReloadStepReloaded ==
  ASSUME NEW e, NEW p, Own(e), NEW begin \in Nat, NEW end \in Nat, 1 <= begin, begin <= end, end < e.nextSend,
         NEW i \in Nat, i < Len(e.log), NEW live, NEW acc, Reloaded(e, p, begin, end, acc, i),
         NEW new, new = ReloadStep(acc, e.log[i + 1], begin, end, live)
  PROVE  Reloaded(e, p, begin, end, new, i + 1)
<1> DEFINE x == e.log[i + 1]
           InRange == x.seq >= begin /\ (end = 0 \/ x.seq <= end)
           Required == IsInfiniteTTL(x.type) \/ (x.type = "Order" /\ x.seq \in live)
           gap == IF acc.begin < x.seq THEN GapFillMsg(acc.begin, x.seq) ELSE <<>>
           again == <<Msg(x.type, x.seq, TRUE, 0, 0)>>
<1>1. /\ Len(e.log) \in Nat /\ e.nextSend = Len(e.log) + 1 /\ i + 1 \in 1..Len(e.log)
  BY OwnFields
<1>2. x.seq = i + 1
  BY <1>1 DEF Own
<1>3. new = IF ~(InRange /\ Required) THEN acc ELSE [begin |-> x.seq + 1, buf |-> acc.buf \o gap \o again]
  BY DEF ReloadStep
<1>4. /\ acc.begin \in Nat /\ begin <= acc.begin /\ acc.begin <= end + 1 /\ Dups(acc.buf, e, p)
      /\ acc.begin = begin \/ acc.begin <= i + 1
      /\ \A n \in acc.begin..i : n <= end => e.log[n].type # "Report"
  BY DEF Reloaded
<1>5. CASE ~(InRange /\ Required)
  <2>1. new = acc
    BY <1>3, <1>5
  <2>2. ASSUME NEW n \in acc.begin..(i + 1), n <= end
        PROVE  e.log[n].type # "Report"
    <3>1. CASE n = i + 1
      BY <1>2, <1>4, <1>5, <2>2, <3>1 DEF IsInfiniteTTL
    <3>2. CASE n \in acc.begin..i
      BY <1>4, <2>2, <3>2
    <3> QED
      BY <1>4, <3>1, <3>2
  <2>3. acc.begin = begin \/ acc.begin <= (i + 1) + 1
    BY <1>4
  <2> QED
    BY <1>4, <2>1, <2>2, <2>3 DEF Reloaded
<1>6. CASE InRange /\ Required
  <2>1. new = [begin |-> i + 2, buf |-> acc.buf \o gap \o again]
    BY <1>2, <1>3, <1>6
  <2>2. i + 1 >= begin /\ i + 1 <= end /\ acc.begin <= i + 1 /\ x.type \in AppTypes
    BY <1>2, <1>4, <1>6 DEF IsInfiniteTTL, AppTypes
  <2>3. Dups(gap, e, p)
    <3>1. CASE acc.begin < i + 1
      <4>1. \A n \in acc.begin..((i + 1) - 1) : e.log[n].type # "Report"
        BY <1>4, <2>2
      <4>2. Dups(GapFillMsg(acc.begin, i + 1), e, p)
        <5>1. i + 1 \in Nat /\ 1 <= acc.begin /\ i + 1 <= e.nextSend
          BY <1>1, <1>4
        <5> QED
          BY <1>4, <3>1, <4>1, <5>1, GapFillDup
      <4>3. gap = GapFillMsg(acc.begin, i + 1)
        BY <1>2, <3>1
      <4> HIDE DEF gap
      <4> QED
        BY <4>2, <4>3
    <3>2. CASE ~(acc.begin < i + 1)
      <4>1. gap = <<>>
        BY <1>2, <3>2
      <4> HIDE DEF gap
      <4> QED
        BY <4>1, NoDups
    <3> QED
      BY <3>1, <3>2
  <2>4. Dups(again, e, p)
    BY <1>1, <1>2, <2>2, AgainDup
  <2> HIDE DEF gap, again
  <2>5. Dups(acc.buf \o gap \o again, e, p)
    BY <1>4, <2>3, <2>4, DupsConcat
  <2>6. new.begin = i + 2 /\ new.buf = acc.buf \o gap \o again
    BY <2>1
  <2>7. i + 2 \in Nat /\ begin <= i + 2 /\ i + 2 <= end + 1 /\ i + 2 <= (i + 1) + 1
    BY <2>2
  <2>8. \A n \in (i + 2)..(i + 1) : n <= end => e.log[n].type # "Report"
    OBVIOUS
  <2> QED
    BY <2>5, <2>6, <2>7, <2>8 DEF Reloaded
<1> QED
  BY <1>5, <1>6

(* All of them, by induction over the record. *)
LEMMA ReloadReloaded ==
  ASSUME NEW e, NEW p, Own(e), NEW begin \in Nat, NEW end \in Nat, 1 <= begin, begin <= end, end < e.nextSend,
         NEW live, NEW r, r = Reload(e, begin, end, live)
  PROVE  Reloaded(e, p, begin, end, r, Len(e.log))
<1> DEFINE n == Len(e.log)
<1>1. n \in Nat /\ e.nextSend = n + 1
  BY OwnFields
<1>2. begin # 0 /\ ~(e.nextSend <= begin)
  BY <1>1
<1>3. PICK g : /\ g[0] = [begin |-> begin, buf |-> <<>>]
               /\ \A i \in 1..n : g[i] = ReloadStep(g[i - 1], e.log[i], begin, end, live)
               /\ Reload(e, begin, end, live) = g[n]
  <2>1. n \in Nat /\ Len(e.log) = n
    BY <1>1
  <2> HIDE DEF n
  <2> QED
    BY <1>2, <2>1, ReloadTurns
<1> DEFINE T == {i \in Nat : i <= n => Reloaded(e, p, begin, end, g[i], i)}
<1>4. 0 \in T
  <2>1. g[0].begin = begin /\ g[0].buf = <<>>
    BY <1>3
  <2> DEFINE z == g[0]
  <2> HIDE DEF z
  <2>2. \A k \in begin..0 : k <= end => e.log[k].type # "Report"
    OBVIOUS
  <2>3. Dups(g[0].buf, e, p)
    BY <2>1, NoDups
  <2>4. begin <= begin /\ begin <= end + 1
    OBVIOUS
  <2>5. z.begin = begin /\ Dups(z.buf, e, p)
    BY <2>1, <2>3 DEF z
  <2>6. Reloaded(e, p, begin, end, z, 0)
    BY <2>2, <2>4, <2>5 DEF Reloaded
  <2> QED
    BY <2>6 DEF z
<1>5. ASSUME NEW i \in T
      PROVE  i + 1 \in T
  <2> SUFFICES ASSUME i + 1 <= n PROVE Reloaded(e, p, begin, end, g[i + 1], i + 1)
    OBVIOUS
  <2>1. i \in Nat /\ i < n /\ Reloaded(e, p, begin, end, g[i], i)
    BY <1>1
  <2>2. g[i + 1] = ReloadStep(g[i], e.log[i + 1], begin, end, live)
    BY <1>1, <1>3, <2>1
  <2> QED
    BY <2>1, <2>2, ReloadStepReloaded
<1>6. Reloaded(e, p, begin, end, g[n], n)
  <2> HIDE DEF T
  <2>1. T = Nat
    <3>1. T \subseteq Nat
      BY DEF T
    <3> QED
      BY <1>4, <1>5, <3>1, Induct
  <2> QED
    BY <1>1, <2>1 DEF T
<1> QED
  BY <1>3, <1>6

(* What FixSender::Replay sends. *)
Again(e, s, begin, end, live) ==
  LET r == Reload(e, begin, end, live) IN r.buf \o ReplayEnd(e, s, r.begin, end)

(* What is replayed leaves out no Report (FixSender::Replay). *)
LEMMA AgainDups ==
  ASSUME NEW e, NEW p, Own(e), NEW begin \in Nat, NEW end \in Nat, 1 <= begin, begin <= end, end < e.nextSend,
         NEW live, NEW s
  PROVE  Dups(Again(e, s, begin, end, live), e, p)
<1> DEFINE r == Reload(e, begin, end, live)
<1>1. Len(e.log) \in Nat /\ e.nextSend = Len(e.log) + 1
  BY OwnFields
<1>2. Reloaded(e, p, begin, end, r, Len(e.log))
  BY ReloadReloaded
<1> HIDE DEF r
<1>3. /\ r.begin \in Nat /\ begin <= r.begin /\ r.begin <= end + 1
      /\ \A n \in r.begin..Len(e.log) : n <= end => e.log[n].type # "Report"
      /\ Dups(r.buf, e, p)
  BY <1>2 DEF Reloaded
<1>4. Dups(ReplayEnd(e, s, r.begin, end), e, p)
  <2>0. end # 0
    OBVIOUS
  <2>1. CASE Rest(s, r.begin, end)
    <3>1. r.begin <= end
      BY <1>3, <2>1 DEF Rest
    <3>2. \A n \in r.begin..((end + 1) - 1) : e.log[n].type # "Report"
      BY <1>1, <1>3
    <3>3. 1 <= r.begin /\ r.begin < end + 1 /\ end + 1 <= e.nextSend /\ end + 1 \in Nat /\ r.begin \in Nat
      BY <1>1, <1>3, <3>1
    <3>4. Dups(GapFillMsg(r.begin, end + 1), e, p)
      BY <3>2, <3>3, GapFillDup
    <3> QED
      BY <2>0, <2>1, <3>4 DEF ReplayEnd
  <2>2. CASE ~Rest(s, r.begin, end)
    BY <2>0, <2>2, NoDups DEF ReplayEnd
  <2> QED
    BY <2>1, <2>2
<1>5. Dups(r.buf \o ReplayEnd(e, s, r.begin, end), e, p)
  BY <1>3, <1>4, DupsConcat
<1> QED
  BY <1>5 DEF Again, r

(* A replay goes out. *)
LEMMA SaysGood ==
  ASSUME NEW c, NEW d, NEW e, NEW p, Good(c, d, e, p), NEW o, Dups(o, e, p),
         NEW f, f = [e EXCEPT !.out = @ \o o]
  PROVE  Good(c, d, f, p) /\ SameRecv(e, f) /\ SameSession(e, f) /\ Grows(e, f)
<1>1. /\ Own(e) /\ e \in Engine /\ Own(p) /\ Heard(p, e) /\ Flow(c \o e.out, e, p) /\ c \in Seq(Message)
      /\ e.out \in Seq(Message) /\ o \in Seq(Message)
  BY OwnFields DEF Good, Sending, Dups
<1>2. e.out \o o \in Seq(Message)
  BY <1>1, ConcatFields
<1> DEFINE w == e.out \o o
<1>3. f = [e EXCEPT !.out = w]
  OBVIOUS
<1> HIDE DEF w
<1>4. /\ f \in Engine /\ f.out = w /\ f.nextSend = e.nextSend /\ f.log = e.log
      /\ SameRecv(e, f) /\ SameReset(e, f) /\ SameSession(e, f)
  BY <1>1, <1>2, <1>3 DEF Engine, SameRecv, SameReset, SameSession, w
<1>5. Own(f)
  BY <1>1, <1>4 DEF Own, SameReset, SameSession
<1>6. Grows(e, f) /\ Grows(p, p)
  BY <1>1, <1>4, OwnFields DEF Grows
<1>7. Heard(p, f)
  BY <1>1, <1>5, <1>6, HeardGrows
<1>8. Flow(c \o f.out, f, p)
  <2>1. Flow((c \o e.out) \o o, e, p)
    BY <1>1, FlowDups
  <2>2. (c \o e.out) \o o = c \o f.out
    <3>1. (c \o e.out) \o o = c \o (e.out \o o)
      BY <1>1, ConcatThree
    <3> QED
      BY <1>4, <3>1 DEF w
  <2>3. p.nextRecv <= p.nextRecv /\ p.lastGap <= p.lastGap
    BY <1>1, OwnFields
  <2> QED
    BY <1>1, <1>5, <1>6, <2>1, <2>2, <2>3, FlowGrows
<1>9. Sending(c, f, p)
  BY <1>1, <1>5, <1>7, <1>8 DEF Sending
<1> QED
  BY <1>4, <1>6, <1>9, SentGood

(* FixSender::Replay answers a request for numbers that were used. *)
LEMMA ReplayGood ==
  ASSUME NEW c, NEW d, NEW e, NEW p, Good(c, d, e, p), NEW s, s \notin NoReplaySides,
         NEW begin \in Nat, NEW end \in Nat, 1 <= begin, begin <= end, end < e.nextSend,
         NEW live, NEW f, f = Replay(e, s, begin, end, live)
  PROVE  Good(c, d, f, p) /\ SameRecv(e, f) /\ SameSession(e, f) /\ Grows(e, f)
<1> DEFINE o == Again(e, s, begin, end, live)
           r == Reload(e, begin, end, live)
<1>1. Own(e) /\ e.out \in Seq(Message)
  BY OwnFields DEF Good, Sending
<1>2. Dups(o, e, p)
  BY <1>1, AgainDups
<1>3. f = [e EXCEPT !.out = (@ \o r.buf) \o ReplayEnd(e, s, r.begin, end)]
  BY DEF Replay, ReplayRun
<1>4. (e.out \o r.buf) \o ReplayEnd(e, s, r.begin, end) = e.out \o o
  <2>1. Reloaded(e, p, begin, end, r, Len(e.log))
    BY <1>1, ReloadReloaded
  <2>2. r.buf \in Seq(Message)
    BY <2>1 DEF Reloaded, Dups
  <2>3. ReplayEnd(e, s, r.begin, end) \in Seq(Message)
    <3>1. r.begin \in Nat
      BY <2>1 DEF Reloaded
    <3>2. <<Msg("GapFill", r.begin, TRUE, end + 1, 0)>> \in Seq(Message)
      BY <3>1 DEF Msg, Message, Types, AdminTypes
    <3>3. end # 0
      OBVIOUS
    <3>4. <<>> \in Seq(Message)
      OBVIOUS
    <3> HIDE DEF r
    <3>5. CASE Rest(s, r.begin, end)
      <4>1. ReplayEnd(e, s, r.begin, end) = <<Msg("GapFill", r.begin, TRUE, end + 1, 0)>>
        BY <3>3, <3>5 DEF ReplayEnd, GapFillMsg
      <4> QED
        BY <3>2, <4>1
    <3>6. CASE ~Rest(s, r.begin, end)
      <4>1. ReplayEnd(e, s, r.begin, end) = <<>>
        BY <3>3, <3>6 DEF ReplayEnd
      <4> QED
        BY <3>4, <4>1
    <3> QED
      BY <3>5, <3>6
  <2>4. o = r.buf \o ReplayEnd(e, s, r.begin, end)
    BY DEF Again
  <2> HIDE DEF r, o
  <2> QED
    BY <1>1, <2>2, <2>3, <2>4, ConcatThree
<1> HIDE DEF o
<1>5. f = [e EXCEPT !.out = @ \o o]
  BY <1>3, <1>4
<1> QED
  BY <1>2, <1>5, SaysGood

-----------------------------------------------------------------------------
(* The handlers of the session. *)
LEMMA SetApReadyStGood ==
  ASSUME NEW c, NEW d, NEW e, NEW p, Good(c, d, e, p), NEW f, f = SetApReadySt(e)
  PROVE  Good(c, d, f, p) /\ SameRecv(e, f) /\ Grows(e, f)
<1>1. Own(e) /\ e \in Engine
  BY OwnFields DEF Good, Sending
<1>2. CASE e.st >= ApReady
  <2>1. f = e
    BY <1>2 DEF SetApReadySt
  <2> QED
    BY <1>1, <2>1, GrowsItself DEF SameRecv, SameSend
<1>3. CASE ~(e.st >= ApReady) /\ e.sender
  <2>1. f = [e EXCEPT !.hbTest = 0, !.st = 5]
    BY <1>3 DEF SetApReadySt, ApReady
  <2>2. f \in Engine /\ SameSend(e, f) /\ SameRecv(e, f) /\ SameReset(e, f) /\ f.sender = e.sender
    <3>1. 5 \in 0..6 /\ 0 \in Nat /\ e \in Engine
      BY <1>1
    <3> QED
      BY <2>1, <3>1 DEF Engine, SameSend, SameRecv, SameReset
  <2> QED
    BY <1>3, <2>2, OtherGood
<1>4. CASE ~(e.st >= ApReady) /\ ~e.sender
  <2>1. f = [e EXCEPT !.closing = TRUE]
    BY <1>4 DEF SetApReadySt, CloseFixSession
  <2>2. f \in Engine /\ SameSend(e, f) /\ SameRecv(e, f) /\ SameReset(e, f) /\ SameSession(e, f)
    BY <1>1, <2>1 DEF Engine, SameSend, SameRecv, SameReset, SameSession
  <2>3. f.st = ApReady => f.sender
    BY <1>1, <2>2 DEF Own, SameSession
  <2> QED
    BY <2>2, <2>3, OtherGood
<1> QED
  BY <1>2, <1>3, <1>4

(* FixSession::SendLogout. *)
LEMMA SendLogoutGood ==
  ASSUME NEW c, NEW d, NEW e, NEW p, Good(c, d, e, p), e.sender, NEW f, f = SendLogout(e)
  PROVE  Good(c, d, f, p) /\ SameRecv(e, f) /\ Grows(e, f) /\ f.st # ApReady
<1>1. Own(e) /\ e \in Engine
  BY OwnFields DEF Good, Sending
<1>2. CASE e.st = LogoutPending
  <2>1. f = e
    BY <1>2 DEF SendLogout
  <2>2. f.st # ApReady
    BY <1>2, <2>1 DEF LogoutPending, ApReady
  <2> QED
    BY <1>1, <2>1, <2>2, GrowsItself DEF SameRecv, SameSend
<1>3. CASE e.st # LogoutPending
  <2> DEFINE g == [e EXCEPT !.st = 6]
  <2>1. f = Send(g, "Logout", 0, 0)
    BY <1>3 DEF SendLogout, LogoutPending
  <2>2. g \in Engine /\ SameSend(e, g) /\ SameRecv(e, g) /\ SameReset(e, g) /\ g.st = 6
    <3>1. 6 \in 0..6 /\ e \in Engine
      BY <1>1
    <3> QED
      BY <3>1 DEF Engine, SameSend, SameRecv, SameReset
  <2> HIDE DEF g
  <2>3. g.st # ApReady
    BY <2>2 DEF ApReady
  <2>4. Good(c, d, g, p) /\ Grows(e, g)
    BY <2>2, <2>3, OtherGood
  <2>5. "Logout" \in Types \ {"GapFill", "Reset"} /\ "Logout" # "ResendRequest"
    BY DEF Types, AdminTypes
  <2>6. Good(c, d, f, p) /\ SameRecv(g, f) /\ SameSession(g, f) /\ Grows(g, f)
    BY <2>1, <2>4, <2>5, SendGood
  <2>7. Own(g) /\ Own(f)
    BY <2>4, <2>6 DEF Good, Sending
  <2>8. Grows(e, f)
    BY <1>1, <2>4, <2>6, <2>7, GrowsOn
  <2> QED
    BY <2>2, <2>3, <2>6, <2>8 DEF SameRecv, SameSession
<1> QED
  BY <1>2, <1>3

(* A side becomes ready with nothing asked for and nothing kept, or it was
   ready before. *)
ReadyRight(e, f) == f.st = ApReady => e.st = ApReady \/ (f.resendEnd = 0 /\ Len(f.keeper) = 0)

(* Without a gap FixReceiver::OnMessageProcessed has nothing to do. *)
LEMMA ProcessedAlready ==
  ASSUME NEW e, e.resendEnd = 0, NEW seq
  PROVE  OnMessageProcessed(e, seq) = e
BY DEF OnMessageProcessed

(* The types of the messages that are neither an application's nor a GapFill. *)
LEMMA NewAdmin ==
  ASSUME NEW c, NEW d, NEW e, NEW p, NEW m, Taking(c, d, e, p, m), m.type \in AdminTypes, m.type # "GapFill"
  PROVE  ~m.dup /\ m.type # "Report" /\ m.type # "Reset" /\ m.seq >= e.nextRecv
<1>1. m \in Message /\ Valid(m, p, e) /\ Beyond(m, e)
  BY TakingFields DEF Taking
<1>2. m.type \notin AppTypes
  BY DEF AppTypes, AdminTypes
<1>3. ~m.dup /\ m.type # "Reset"
  BY <1>1, <1>2 DEF Valid
<1> QED
  BY <1>1, <1>2, <1>3 DEF Beyond, AppTypes

(* A Heartbeat, or a TestRequest and its answer. *)
LEMMA HeartbeatConform ==
  ASSUME NEW c, NEW d, NEW e, NEW p, NEW m, Taking(c, d, e, p, m), m.type \in {"Heartbeat", "TestRequest"},
         m.seq = e.nextRecv, NEW g, g = WriteInputConform(e),
         NEW f, f = SetApReadySt(IF m.type = "Heartbeat" THEN g ELSE Send(g, "Heartbeat", 0, 0))
  PROVE  Good(c, d, OnMessageProcessed(f, m.seq), p) /\ ReadyRight(e, OnMessageProcessed(f, m.seq))
<1>1. ~m.dup /\ m.type # "Report"
  BY NewAdmin DEF AdminTypes
<1>2. Good(c, d, g, p) /\ SameSession(e, g) /\ g.resendEnd = 0 /\ Len(g.keeper) = 0
  BY <1>1, AdminCounted
<1> DEFINE h == IF m.type = "Heartbeat" THEN g ELSE Send(g, "Heartbeat", 0, 0)
<1>3. Good(c, d, h, p) /\ SameRecv(g, h)
  <2>1. CASE m.type = "Heartbeat"
    <3>1. h = g
      BY <2>1
    <3> QED
      BY <1>2, <3>1 DEF SameRecv
  <2>2. CASE m.type # "Heartbeat"
    <3>1. h = Send(g, "Heartbeat", 0, 0)
      BY <2>2
    <3> HIDE DEF h
    <3>2. "Heartbeat" \in Types \ {"GapFill", "Reset"} /\ "Heartbeat" # "ResendRequest"
      BY DEF Types, AdminTypes
    <3> QED
      BY <1>2, <3>1, <3>2, SendGood
  <2> QED
    BY <2>1, <2>2
<1>0. f = SetApReadySt(h)
  OBVIOUS
<1> HIDE DEF h
<1>4. Good(c, d, f, p) /\ SameRecv(h, f)
  BY <1>0, <1>3, SetApReadyStGood
<1>5. f.resendEnd = 0 /\ Len(f.keeper) = 0
  BY <1>2, <1>3, <1>4 DEF SameRecv
<1> QED
  BY <1>4, <1>5, ProcessedAlready DEF ReadyRight

(* A ResendRequest, counted or not, is answered. *)
LEMMA ResendRequestConform ==
  ASSUME NEW c, NEW d, NEW e, NEW p, NEW m, Taking(c, d, e, p, m), m.type = "ResendRequest", m.seq = e.nextRecv,
         NEW s, s \notin NoReplaySides, NEW live, NEW g, g = e \/ g = WriteInputConform(e),
         NEW f, f = OnRecvResendRequest(g, s, m, "Conform", live)
  PROVE  Good(c, d, OnMessageProcessed(f, m.seq), p) /\ ReadyRight(e, OnMessageProcessed(f, m.seq))
<1>1. ~m.dup /\ m.type # "Report"
  BY NewAdmin DEF AdminTypes
<1>2. /\ m.a \in Nat /\ m.b \in Nat /\ 1 <= m.a /\ m.a <= m.b /\ m.b < e.nextSend /\ e \in Engine /\ Good(c, d, e, p)
  BY TakingFields DEF Taking, Valid
<1>3. Good(c, d, g, p) /\ SameSession(e, g) /\ g.resendEnd = 0 /\ Len(g.keeper) = 0 /\ g.nextSend = e.nextSend
  <2>1. CASE g = e
    <3>1. e.resendEnd = 0 /\ Len(e.keeper) = 0
      BY <1>1, NoGap
    <3> QED
      BY <1>2, <2>1, <3>1 DEF SameSession
  <2>2. CASE g = WriteInputConform(e)
    <3>1. g.nextSend = e.nextSend
      BY <1>2, <2>2, ConformFields DEF SameSend
    <3> QED
      BY <1>1, <2>2, <3>1, AdminCounted
  <2> QED
    BY <2>1, <2>2
<1>4. f = Replay(g, s, m.a, m.b, live)
  BY DEF OnRecvResendRequest, OnMsgSeqNumNotExpected
<1>5. Good(c, d, f, p) /\ SameRecv(g, f)
  BY <1>2, <1>3, <1>4, ReplayGood
<1>6. f.resendEnd = 0 /\ Len(f.keeper) = 0
  BY <1>3, <1>5 DEF SameRecv
<1> QED
  BY <1>5, <1>6, ProcessedAlready DEF ReadyRight

(* A ResendRequest over a gap is answered, and the gap asked for. *)
LEMMA ResendRequestTooHigh ==
  ASSUME NEW c, NEW d, NEW e, NEW p, NEW m, Taking(c, d, e, p, m), m.type = "ResendRequest", m.seq > e.nextRecv,
         NEW s, s \notin NoReplaySides, NEW live,
         NEW f, f = OnRecvResendRequest(e, s, m, "TooHigh", live)
  PROVE  Good(c, d, f, p) /\ SameSession(e, f)
<1> DEFINE g == Replay(e, s, m.a, m.b, live)
<1>1. /\ m.a \in Nat /\ m.b \in Nat /\ 1 <= m.a /\ m.a <= m.b /\ m.b < e.nextSend /\ Good(c, d, e, p)
  BY TakingFields DEF Taking, Valid
<1>2. f = OnGap(g, m, FALSE)
  BY DEF OnRecvResendRequest, OnMsgSeqNumNotExpected
<1>3. Good(c, d, g, p) /\ SameRecv(e, g) /\ SameSession(e, g) /\ Grows(e, g)
  BY <1>1, ReplayGood
<1> HIDE DEF g
<1>4. Taking(c, d, g, p, m)
  BY <1>3, TakingAfter
<1>5. m.seq > g.nextRecv
  BY <1>3 DEF SameRecv
<1>6. Good(c, d, f, p) /\ SameSession(g, f)
  BY <1>2, <1>4, <1>5, OnGapGood
<1> QED
  BY <1>3, <1>6 DEF SameSession

(* A Logon from a peer that is connected: the answer, or one too many. *)
LEMMA RejectGood ==
  ASSUME NEW c, NEW d, NEW e, NEW p, Good(c, d, e, p), NEW f, f = Send(e, "Reject", 0, 0)
  PROVE  Good(c, d, f, p) /\ SameRecv(e, f) /\ SameSession(e, f)
<1>1. "Reject" \in Types \ {"GapFill", "Reset"} /\ "Reject" # "ResendRequest"
  BY DEF Types, AdminTypes
<1> QED
  BY <1>1, SendGood

(* A Logon of a session that is logged on already, with the expected number ... *)
LEMMA LogonConform ==
  ASSUME NEW c, NEW d, NEW e, NEW p, NEW m, Taking(c, d, e, p, m), m.type = "Logon", m.seq = e.nextRecv,
         NEW g, g = WriteInputConform(e), NEW f, f = OnRecvLogonResponse(g, m, "Conform")
  PROVE  Good(c, d, OnMessageProcessed(f, m.seq), p) /\ ReadyRight(e, OnMessageProcessed(f, m.seq))
<1>1. ~m.dup /\ m.type # "Report"
  BY NewAdmin DEF AdminTypes
<1>2. Good(c, d, g, p) /\ SameSession(e, g) /\ g.resendEnd = 0 /\ Len(g.keeper) = 0
  BY <1>1, AdminCounted
<1>3. f = IF g.st = LogonSent THEN SendLogonTestRequest(g) ELSE Send(g, "Reject", 0, 0)
  BY DEF OnRecvLogonResponse, OnLogonResponsed
<1>4. Good(c, d, f, p) /\ SameRecv(g, f)
  <2>1. CASE g.st = LogonSent
    BY <1>2, <1>3, <2>1, SendLogonTestRequestGood
  <2>2. CASE g.st # LogonSent
    BY <1>2, <1>3, <2>2, RejectGood
  <2> QED
    BY <2>1, <2>2
<1>5. f.resendEnd = 0 /\ Len(f.keeper) = 0
  BY <1>2, <1>4 DEF SameRecv
<1> QED
  BY <1>4, <1>5, ProcessedAlready DEF ReadyRight

(* ... over a gap, as the answer to a Logon (FixSession::OnLogonResponsed) ... *)
LEMMA LogonResponsedTooHigh ==
  ASSUME NEW c, NEW d, NEW e, NEW p, NEW m, Taking(c, d, e, p, m), m.seq > e.nextRecv,
         NEW f, f = OnLogonResponsed(e, m, "TooHigh")
  PROVE  Good(c, d, f, p) /\ f.st # ApReady
<1> DEFINE g == [e EXCEPT !.st = 3, !.rcvd = FALSE]
<1>1. Own(e) /\ e \in Engine /\ Good(c, d, e, p)
  BY TakingFields
<1>2. f = OnGap(g, m, FALSE)
  BY DEF OnLogonResponsed, OnMsgSeqNumNotExpected, LogonRecovering
<1>3. g \in Engine /\ SameSend(e, g) /\ SameRecv(e, g) /\ SameReset(e, g) /\ g.st = 3
  <2>1. 3 \in 0..6 /\ FALSE \in BOOLEAN /\ e \in Engine
    BY <1>1
  <2> QED
    BY <2>1 DEF Engine, SameSend, SameRecv, SameReset
<1> HIDE DEF g
<1>4. g.st # ApReady
  BY <1>3 DEF ApReady
<1>5. Good(c, d, g, p) /\ Grows(e, g)
  BY <1>1, <1>3, <1>4, OtherGood
<1>6. Taking(c, d, g, p, m) /\ m.seq > g.nextRecv
  BY <1>3, <1>5, TakingAfter DEF SameRecv
<1>7. Good(c, d, f, p) /\ SameSession(g, f)
  BY <1>2, <1>6, OnGapGood
<1> QED
  BY <1>4, <1>7 DEF SameSession

(* ... and whatever the state of the session. *)
LEMMA LogonTooHigh ==
  ASSUME NEW c, NEW d, NEW e, NEW p, NEW m, Taking(c, d, e, p, m), m.seq > e.nextRecv,
         NEW f, f = OnRecvLogonResponse(e, m, "TooHigh")
  PROVE  Good(c, d, f, p) /\ ReadyRight(e, f)
<1>1. Good(c, d, e, p)
  BY TakingFields
<1>2. CASE e.st = LogonSent
  <2>1. f = OnLogonResponsed(e, m, "TooHigh")
    BY <1>2 DEF OnRecvLogonResponse
  <2> QED
    BY <2>1, LogonResponsedTooHigh DEF ReadyRight
<1>3. CASE e.st # LogonSent
  <2>1. f = Send(e, "Reject", 0, 0)
    BY <1>3 DEF OnRecvLogonResponse
  <2> QED
    BY <1>1, <2>1, RejectGood DEF ReadyRight, SameSession
<1> QED
  BY <1>2, <1>3

(* A Logout is answered once, by a session that is ready. *)
LEMMA LogoutAnswered ==
  ASSUME NEW c, NEW d, NEW e, NEW p, Good(c, d, e, p), NEW f, f = IF e.st = ApReady THEN SendLogout(e) ELSE e
  PROVE  Good(c, d, f, p) /\ SameRecv(e, f) /\ Grows(e, f) /\ f.st # ApReady
<1>1. Own(e)
  BY DEF Good, Sending
<1>2. CASE e.st = ApReady
  <2>1. e.sender /\ f = SendLogout(e)
    BY <1>1, <1>2 DEF Own
  <2> QED
    BY <2>1, SendLogoutGood
<1>3. CASE e.st # ApReady
  <2>1. f = e
    BY <1>3
  <2> QED
    BY <1>1, <1>3, <2>1, GrowsItself DEF SameRecv, SameSend
<1> QED
  BY <1>2, <1>3

(* FixSession::OnRecvLogout with the expected number ... *)
LEMMA LogoutConform ==
  ASSUME NEW c, NEW d, NEW e, NEW p, NEW m, Taking(c, d, e, p, m), m.type = "Logout", m.seq = e.nextRecv,
         NEW g, g = WriteInputConform(e), NEW f, f = OnRecvLogout(g, m, "Conform")
  PROVE  Good(c, d, OnMessageProcessed(f, m.seq), p) /\ ReadyRight(e, OnMessageProcessed(f, m.seq))
<1>1. ~m.dup /\ m.type # "Report"
  BY NewAdmin DEF AdminTypes
<1>2. Good(c, d, g, p) /\ g.resendEnd = 0 /\ Len(g.keeper) = 0
  BY <1>1, AdminCounted
<1>3. f = IF g.st = ApReady THEN SendLogout(g) ELSE g
  BY DEF OnRecvLogout, OnMsgSeqNumNotExpected
<1>4. Good(c, d, f, p) /\ SameRecv(g, f)
  BY <1>2, <1>3, LogoutAnswered
<1>5. f.resendEnd = 0 /\ Len(f.keeper) = 0
  BY <1>2, <1>4 DEF SameRecv
<1> QED
  BY <1>4, <1>5, ProcessedAlready DEF ReadyRight

(* ... and over a gap. *)
LEMMA LogoutTooHigh ==
  ASSUME NEW c, NEW d, NEW e, NEW p, NEW m, Taking(c, d, e, p, m), m.seq > e.nextRecv,
         NEW f, f = OnRecvLogout(e, m, "TooHigh")
  PROVE  Good(c, d, f, p) /\ ReadyRight(e, f)
<1> DEFINE g == IF e.st = ApReady THEN SendLogout(e) ELSE e
<1>1. Good(c, d, e, p)
  BY TakingFields
<1>2. f = OnGap(g, m, FALSE)
  BY DEF OnRecvLogout, OnMsgSeqNumNotExpected
<1>3. Good(c, d, g, p) /\ SameRecv(e, g) /\ Grows(e, g) /\ g.st # ApReady
  BY <1>1, LogoutAnswered
<1> HIDE DEF g
<1>4. Taking(c, d, g, p, m) /\ m.seq > g.nextRecv
  BY <1>3, TakingAfter DEF SameRecv
<1>5. Good(c, d, f, p) /\ SameSession(g, f)
  BY <1>2, <1>4, OnGapGood
<1> QED
  BY <1>3, <1>5 DEF ReadyRight, SameSession

(* What DispatchFixMessage and its handlers come to, case by case. *)
LEMMA HandlerOf ==
  ASSUME NEW e, NEW s, NEW m, NEW seqSt, NEW live
  PROVE  /\ m.type = "Heartbeat" => FixMsgHandler(e, s, m, seqSt, live) = SetApReadySt(e)
         /\ m.type = "TestRequest" => FixMsgHandler(e, s, m, seqSt, live) = SetApReadySt(Send(e, "Heartbeat", 0, 0))
         /\ m.type = "ResendRequest" => FixMsgHandler(e, s, m, seqSt, live) = OnRecvResendRequest(e, s, m, seqSt, live)
         /\ m.type = "GapFill" => FixMsgHandler(e, s, m, seqSt, live) = OnRecvGapFill(e, m, seqSt)
         /\ m.type = "Logon" => FixMsgHandler(e, s, m, seqSt, live) = OnRecvLogonResponse(e, m, seqSt)
         /\ m.type = "Logout" => FixMsgHandler(e, s, m, seqSt, live) = OnRecvLogout(e, m, seqSt)
         /\ m.type = "Reject" => FixMsgHandler(e, s, m, seqSt, live) = e
         /\ m.type \in AppTypes => FixMsgHandler(e, s, m, seqSt, live) = [e EXCEPT !.got = Append(@, m)]
<1>1. m.type = "Heartbeat" => FixMsgHandler(e, s, m, seqSt, live) = SetApReadySt(e)
  BY DEF FixMsgHandler, AppTypes
<1>2. m.type = "TestRequest" => FixMsgHandler(e, s, m, seqSt, live) = SetApReadySt(Send(e, "Heartbeat", 0, 0))
  BY DEF FixMsgHandler, AppTypes
<1>3. m.type = "ResendRequest" => FixMsgHandler(e, s, m, seqSt, live) = OnRecvResendRequest(e, s, m, seqSt, live)
  BY DEF FixMsgHandler, AppTypes
<1>4. m.type = "GapFill" => FixMsgHandler(e, s, m, seqSt, live) = OnRecvGapFill(e, m, seqSt)
  BY DEF FixMsgHandler, AppTypes
<1>5. m.type = "Logon" => FixMsgHandler(e, s, m, seqSt, live) = OnRecvLogonResponse(e, m, seqSt)
  BY DEF FixMsgHandler, AppTypes
<1>6. m.type = "Logout" => FixMsgHandler(e, s, m, seqSt, live) = OnRecvLogout(e, m, seqSt)
  BY DEF FixMsgHandler, AppTypes
<1>7. m.type = "Reject" => FixMsgHandler(e, s, m, seqSt, live) = e
  BY DEF FixMsgHandler, AppTypes
<1>8. m.type \in AppTypes => FixMsgHandler(e, s, m, seqSt, live) = [e EXCEPT !.got = Append(@, m)]
  BY DEF FixMsgHandler, AppTypes
<1> QED
  BY <1>1, <1>2, <1>3, <1>4, <1>5, <1>6, <1>7, <1>8

(* FixReceiver::DispatchFixMessage of the expected number ... *)
LEMMA DispatchConform ==
  ASSUME NEW e, NEW s, NEW m, NEW live, m.seq = e.nextRecv
  PROVE  DispatchFixMessage(e, s, m, live)
           = OnMessageProcessed(FixMsgHandler(IF m.type \in NoPreRecord(s) THEN e ELSE WriteInputConform(e),
                                              s, m, "Conform", live), m.seq)
<1>1. CompareFixSeqNum(m.seq, e.nextRecv) = "Conform"
  BY DEF CompareFixSeqNum
<1>2. "Conform" \notin SeqAllow(m.type)
  BY DEF SeqAllow
<1> QED
  BY <1>1, <1>2 DEF DispatchFixMessage

(* ... and of another. *)
LEMMA DispatchOther ==
  ASSUME NEW e, NEW s, NEW m, NEW live, NEW seqSt, seqSt = CompareFixSeqNum(m.seq, e.nextRecv), seqSt # "Conform"
  PROVE  DispatchFixMessage(e, s, m, live)
           = IF seqSt \in SeqAllow(m.type) THEN FixMsgHandler(e, s, m, seqSt, live)
             ELSE OnMsgSeqNumNotExpected(e, m, seqSt, IsInfiniteTTL(m.type))
<1>1. CASE seqSt \in SeqAllow(m.type)
  BY <1>1 DEF DispatchFixMessage
<1>2. CASE seqSt \notin SeqAllow(m.type)
  BY <1>2 DEF DispatchFixMessage
<1> QED
  BY <1>1, <1>2

(* The states of the number in which a handler is called. *)
LEMMA Allowed ==
  ASSUME NEW type
  PROVE  /\ "TooHigh" \in SeqAllow(type) <=> type \in {"GapFill", "Reset", "ResendRequest", "Logon", "Logout"}
         /\ "TooLow" \in SeqAllow(type) <=> type \in {"GapFill", "Reset", "ResendRequest", "Logout"}
<1>1. CASE type \in {"GapFill", "Reset", "ResendRequest", "Logout"}
  <2>1. SeqAllow(type) = {"TooHigh", "TooLow"}
    BY <1>1 DEF SeqAllow
  <2> QED
    BY <1>1, <2>1
<1>2. CASE type = "Logon"
  <2>1. SeqAllow(type) = {"TooHigh"}
    BY <1>2 DEF SeqAllow
  <2> QED
    BY <1>2, <2>1
<1>3. CASE type \notin {"GapFill", "Reset", "ResendRequest", "Logon", "Logout"}
  <2>1. SeqAllow(type) = {}
    BY <1>3 DEF SeqAllow
  <2> QED
    BY <1>3, <2>1
<1> QED
  BY <1>1, <1>2, <1>3

(* FixReceiver::DispatchFixMessage. *)
LEMMA DispatchGood ==
  ASSUME NEW c, NEW d, NEW e, NEW p, NEW m, Taking(c, d, e, p, m), NEW s, s \notin NoReplaySides, NEW live,
         NEW f, f = DispatchFixMessage(e, s, m, live)
  PROVE  Good(c, d, f, p) /\ ReadyRight(e, f)
<1> DEFINE seqSt == CompareFixSeqNum(m.seq, e.nextRecv)
           g == IF m.type \in NoPreRecord(s) THEN e ELSE WriteInputConform(e)
<1>1. m.type \in Types /\ m.type # "Reset" /\ m.seq \in Nat /\ e.nextRecv \in Nat /\ Good(c, d, e, p)
  BY TakingFields, MessageFields DEF Taking, Valid
<1>2. CASE m.seq = e.nextRecv
  <2>1. f = OnMessageProcessed(FixMsgHandler(g, s, m, "Conform", live), m.seq)
    BY <1>2, DispatchConform
  <2>2. CASE m.type \in {"Heartbeat", "TestRequest"}
    <3>1. g = WriteInputConform(e)
      BY <2>2 DEF NoPreRecord
    <3> HIDE DEF g
    <3>2. FixMsgHandler(g, s, m, "Conform", live)
            = SetApReadySt(IF m.type = "Heartbeat" THEN g ELSE Send(g, "Heartbeat", 0, 0))
      BY <2>2, HandlerOf
    <3> QED
      BY <1>2, <2>1, <2>2, <3>1, <3>2, HeartbeatConform
  <2>3. CASE m.type = "ResendRequest"
    <3>1. g = e \/ g = WriteInputConform(e)
      OBVIOUS
    <3> HIDE DEF g
    <3>2. FixMsgHandler(g, s, m, "Conform", live) = OnRecvResendRequest(g, s, m, "Conform", live)
      BY <2>3, HandlerOf
    <3> QED
      BY <1>2, <2>1, <2>3, <3>1, <3>2, ResendRequestConform
  <2>4. CASE m.type = "GapFill"
    <3>1. g = e
      BY <2>4 DEF NoPreRecord
    <3> HIDE DEF g
    <3>2. FixMsgHandler(e, s, m, "Conform", live) = OnRecvGapFill(e, m, "Conform")
      BY <2>4, HandlerOf
    <3> QED
      BY <1>2, <2>1, <2>4, <3>1, <3>2, GapFillConform DEF ReadyRight
  <2>5. CASE m.type = "Logon"
    <3>1. g = WriteInputConform(e)
      BY <2>5 DEF NoPreRecord
    <3> HIDE DEF g
    <3>2. FixMsgHandler(g, s, m, "Conform", live) = OnRecvLogonResponse(g, m, "Conform")
      BY <2>5, HandlerOf
    <3> QED
      BY <1>2, <2>1, <2>5, <3>1, <3>2, LogonConform
  <2>6. CASE m.type = "Logout"
    <3>1. g = WriteInputConform(e)
      BY <2>6 DEF NoPreRecord
    <3> HIDE DEF g
    <3>2. FixMsgHandler(g, s, m, "Conform", live) = OnRecvLogout(g, m, "Conform")
      BY <2>6, HandlerOf
    <3> QED
      BY <1>2, <2>1, <2>6, <3>1, <3>2, LogoutConform
  <2>7. CASE m.type = "Reject"
    <3>1. g = WriteInputConform(e)
      BY <2>7 DEF NoPreRecord
    <3> HIDE DEF g
    <3>2. FixMsgHandler(g, s, m, "Conform", live) = g
      BY <2>7, HandlerOf
    <3>3. ~m.dup /\ m.type # "Report" /\ m.type # "GapFill"
      BY <2>7, NewAdmin DEF AdminTypes
    <3>4. Good(c, d, g, p) /\ g.resendEnd = 0 /\ Len(g.keeper) = 0
      BY <1>2, <3>1, <3>3, AdminCounted
    <3> QED
      BY <2>1, <3>2, <3>4, ProcessedAlready DEF ReadyRight
  <2>8. CASE m.type \in AppTypes
    <3>1. g = WriteInputConform(e)
      BY <2>8 DEF NoPreRecord, AppTypes
    <3> HIDE DEF g
    <3>2. FixMsgHandler(g, s, m, "Conform", live) = Delivered(e, m)
      BY <2>8, <3>1, HandlerOf DEF Delivered
    <3> QED
      BY <1>2, <2>1, <2>8, <3>2, AppGood DEF ReadyRight
  <2> QED
    BY <1>1, <2>2, <2>3, <2>4, <2>5, <2>6, <2>7, <2>8 DEF Types, AppTypes, AdminTypes
<1>3. CASE m.seq > e.nextRecv
  <2>0. CompareFixSeqNum(m.seq, e.nextRecv) = "TooHigh" /\ e.nextRecv # m.seq
    BY <1>1, <1>3 DEF CompareFixSeqNum
  <2>1. f = IF "TooHigh" \in SeqAllow(m.type) THEN FixMsgHandler(e, s, m, "TooHigh", live)
            ELSE OnMsgSeqNumNotExpected(e, m, "TooHigh", IsInfiniteTTL(m.type))
    BY <2>0, DispatchOther
  <2>2. CASE m.type = "GapFill"
    <3>1. f = OnRecvGapFill(e, m, "TooHigh")
      BY <2>1, <2>2, HandlerOf, Allowed
    <3>2. f = OnGap(e, m, FALSE)
      BY <3>1 DEF OnRecvGapFill, OnMsgSeqNumNotExpected
    <3>3. Good(c, d, f, p) /\ SameSession(e, f)
      BY <1>3, <3>2, OnGapGood
    <3> QED
      BY <3>3 DEF ReadyRight, SameSession
  <2>3. CASE m.type = "ResendRequest"
    <3>1. f = OnRecvResendRequest(e, s, m, "TooHigh", live)
      BY <2>1, <2>3, HandlerOf, Allowed
    <3> QED
      BY <1>3, <2>3, <3>1, ResendRequestTooHigh DEF ReadyRight, SameSession
  <2>4. CASE m.type = "Logon"
    <3>1. f = OnRecvLogonResponse(e, m, "TooHigh")
      BY <2>1, <2>4, HandlerOf, Allowed
    <3> QED
      BY <1>3, <3>1, LogonTooHigh
  <2>5. CASE m.type = "Logout"
    <3>1. f = OnRecvLogout(e, m, "TooHigh")
      BY <2>1, <2>5, HandlerOf, Allowed
    <3> QED
      BY <1>3, <3>1, LogoutTooHigh
  <2>6. CASE m.type \notin {"GapFill", "ResendRequest", "Logon", "Logout"}
    <3>1. "TooHigh" \notin SeqAllow(m.type)
      BY <1>1, <2>6, Allowed
    <3>2. f = OnGap(e, m, IsInfiniteTTL(m.type))
      BY <2>1, <3>1 DEF OnMsgSeqNumNotExpected
    <3>3. ASSUME NEW keep \in BOOLEAN, keep = IsInfiniteTTL(m.type)
          PROVE  Good(c, d, f, p) /\ SameSession(e, f)
      <4>1. keep => m.type = "Report"
        BY <3>3 DEF IsInfiniteTTL
      <4>2. f = OnGap(e, m, keep)
        BY <3>2, <3>3
      <4> QED
        BY <1>3, <4>1, <4>2, OnGapGood
    <3>4. IsInfiniteTTL(m.type) \in BOOLEAN
      BY DEF IsInfiniteTTL
    <3> QED
      BY <3>3, <3>4 DEF ReadyRight, SameSession
  <2> QED
    BY <2>2, <2>3, <2>4, <2>5, <2>6
<1>4. CASE m.seq < e.nextRecv
  <2>1. m.dup /\ m.type \in AppTypes \cup {"GapFill"}
    BY <1>1, <1>4 DEF Taking, Beyond, Valid
  <2>2. CompareFixSeqNum(m.seq, e.nextRecv) = "TooLow"
    BY <1>1, <1>4 DEF CompareFixSeqNum
  <2>3. f = IF "TooLow" \in SeqAllow(m.type) THEN FixMsgHandler(e, s, m, "TooLow", live)
            ELSE OnMsgSeqNumNotExpected(e, m, "TooLow", IsInfiniteTTL(m.type))
    BY <2>2, DispatchOther
  <2>4. f = e
    <3>1. CASE m.type = "GapFill"
      <4>1. f = OnRecvGapFill(e, m, "TooLow")
        BY <2>3, <3>1, HandlerOf, Allowed
      <4> QED
        BY <2>1, <4>1 DEF OnRecvGapFill, OnMsgSeqNumNotExpected, OnMsgSeqNumTooLow
    <3>2. CASE m.type \in AppTypes
      <4>1. "TooLow" \notin SeqAllow(m.type)
        BY <3>2, Allowed DEF AppTypes
      <4> QED
        BY <2>1, <2>3, <4>1 DEF OnMsgSeqNumNotExpected, OnMsgSeqNumTooLow
    <3> QED
      BY <2>1, <3>1, <3>2
  <2> QED
    BY <1>1, <2>4 DEF ReadyRight
<1> QED
  BY <1>1, <1>2, <1>3, <1>4

-----------------------------------------------------------------------------
(* The logon, the timer, and the ends of a connection. *)
LEMMA SendLogonGood ==
  ASSUME NEW c, NEW d, NEW e, NEW p, Good(c, d, e, p), NEW f, f = SendLogon(e)
  PROVE  Good(c, d, f, p) /\ SameRecv(e, f) /\ Grows(e, f) /\ f.st # ApReady /\ f.sender
<1> DEFINE g == [e EXCEPT !.st = 2]
           h == Send(g, "Logon", 0, 0)
<1>1. Own(e) /\ e \in Engine /\ e.resetSend = 0 /\ e.resetRecv = 0
  BY OwnFields DEF Good, Sending, Own
<1>2. g \in Engine /\ SameSend(e, g) /\ SameRecv(e, g) /\ SameReset(e, g) /\ g.st = 2
  <2>1. 2 \in 0..6 /\ e \in Engine
    BY <1>1
  <2> QED
    BY <2>1 DEF Engine, SameSend, SameRecv, SameReset
<1>3. f = [h EXCEPT !.sender = TRUE]
  <2>1. [e EXCEPT !.st = LogonSent, !.resetSend = 0] = g
    BY <1>1 DEF LogonSent, Engine
  <2>2. ResetNextSendSeq([e EXCEPT !.st = LogonSent, !.resetSend = 0], e.resetSend) = g
    BY <1>1, <2>1 DEF ResetNextSendSeq
  <2> HIDE DEF g
  <2> QED
    BY <1>1, <2>2 DEF SendLogon
<1> HIDE DEF g
<1>4. g.st # ApReady
  BY <1>2 DEF ApReady
<1>5. Good(c, d, g, p) /\ Grows(e, g)
  BY <1>2, <1>4, OtherGood
<1>6. "Logon" \in Types \ {"GapFill", "Reset"} /\ "Logon" # "ResendRequest"
  BY DEF Types, AdminTypes
<1>7. Good(c, d, h, p) /\ SameRecv(g, h) /\ SameSession(g, h) /\ Grows(g, h)
  BY <1>5, <1>6, SendGood
<1> HIDE DEF h
<1>8. Own(g) /\ Own(h) /\ h \in Engine
  BY <1>5, <1>7, OwnFields DEF Good, Sending
<1>9. f \in Engine /\ SameSend(h, f) /\ SameRecv(h, f) /\ SameReset(h, f) /\ f.st = h.st /\ f.sender
  <2>1. h \in Engine
    BY <1>8
  <2> QED
    BY <1>3, <2>1 DEF Engine, SameSend, SameRecv, SameReset
<1>10. Good(c, d, f, p) /\ Grows(h, f)
  BY <1>7, <1>9, OtherGood
<1>11. Own(f)
  BY <1>10 DEF Good, Sending
<1>12. Grows(e, f)
  <2>1. Grows(e, h)
    BY <1>1, <1>5, <1>7, <1>8, GrowsOn
  <2> QED
    BY <1>1, <1>8, <1>10, <1>11, <2>1, GrowsOn
<1>13. SameRecv(e, f) /\ f.st # ApReady
  BY <1>2, <1>4, <1>7, <1>9 DEF SameRecv, SameSession
<1> QED
  BY <1>9, <1>10, <1>12, <1>13

(* FixSession::SendLogonResponse: the acceptor takes the Logon, over a gap or not. *)
LEMMA OnLogonAcceptedGood ==
  ASSUME NEW c, NEW d, NEW e, NEW p, NEW m, Taking(c, d, e, p, m), m.type = "Logon",
         NEW f, f = OnLogonAccepted(e, m)
  PROVE  Good(c, d, f, p) /\ f.st # ApReady
<1>1. ~m.dup /\ m.type # "Report" /\ m.type # "GapFill" /\ m.seq >= e.nextRecv
  BY NewAdmin DEF AdminTypes
<1>2. m.seq \in Nat /\ e.nextRecv \in Nat /\ Good(c, d, e, p)
  BY TakingFields
<1>3. CASE m.seq = e.nextRecv
  <2> DEFINE g == WriteInputConform(e)
             h == SendLogon(g)
  <2>1. f = SendLogonTestRequest(h)
    BY <1>3 DEF OnLogonAccepted, CompareFixSeqNum, OnLogonResponsed
  <2>2. Good(c, d, g, p)
    BY <1>1, <1>3, AdminCounted
  <2> HIDE DEF g
  <2>3. Good(c, d, h, p) /\ h.st # ApReady
    BY <2>2, SendLogonGood
  <2> HIDE DEF h
  <2> QED
    BY <2>1, <2>3, SendLogonTestRequestGood
<1>4. CASE m.seq > e.nextRecv
  <2> DEFINE g == SendLogon(e)
  <2>0. CompareFixSeqNum(m.seq, e.nextRecv) = "TooHigh"
    BY <1>2, <1>4 DEF CompareFixSeqNum
  <2>1. f = OnLogonResponsed(g, m, "TooHigh")
    BY <2>0 DEF OnLogonAccepted
  <2>2. Good(c, d, g, p) /\ SameRecv(e, g) /\ Grows(e, g)
    BY <1>2, SendLogonGood
  <2> HIDE DEF g
  <2>3. Taking(c, d, g, p, m) /\ m.seq > g.nextRecv
    BY <1>4, <2>2, TakingAfter DEF SameRecv
  <2> QED
    BY <2>1, <2>3, LogonResponsedTooHigh
<1> QED
  BY <1>1, <1>2, <1>3, <1>4

(* FixSession::CloseFixSession. *)
LEMMA CloseFixSessionGood ==
  ASSUME NEW c, NEW d, NEW e, NEW p, Good(c, d, e, p), NEW f, f = CloseFixSession(e)
  PROVE  Good(c, d, f, p) /\ SameSession(e, f)
<1>1. Own(e) /\ e \in Engine
  BY OwnFields DEF Good, Sending
<1>2. f \in Engine /\ SameSend(e, f) /\ SameRecv(e, f) /\ SameReset(e, f) /\ SameSession(e, f)
  <2>1. e \in Engine
    BY <1>1
  <2> QED
    BY <2>1 DEF CloseFixSession, Engine, SameSend, SameRecv, SameReset, SameSession
<1>3. f.st = ApReady => f.sender
  BY <1>1, <1>2 DEF Own, SameSession
<1> QED
  BY <1>2, <1>3, OtherGood

(* What came in is noted for the timer. *)
Seen(e) == [e EXCEPT !.rcvd = TRUE]

(* Noting it keeps what is known. *)
LEMMA SeenGood ==
  ASSUME NEW c, NEW d, NEW e, NEW p, NEW m, Taking(c, d, e, p, m), NEW f, f = Seen(e)
  PROVE  Taking(c, d, f, p, m) /\ SameSession(e, f)
<1>1. Own(e) /\ e \in Engine /\ Good(c, d, e, p)
  BY TakingFields
<1>2. f \in Engine /\ SameSend(e, f) /\ SameRecv(e, f) /\ SameReset(e, f) /\ SameSession(e, f)
  <2>1. e \in Engine
    BY <1>1
  <2> QED
    BY <2>1 DEF Seen, Engine, SameSend, SameRecv, SameReset, SameSession
<1>3. f.st = ApReady => f.sender
  BY <1>1, <1>2 DEF Own, SameSession
<1>4. Good(c, d, f, p) /\ Grows(e, f)
  BY <1>1, <1>2, <1>3, OtherGood
<1> QED
  BY <1>2, <1>4, TakingAfter

(* OnFixMessageParsed. *)
LEMMA ParsedGood ==
  ASSUME NEW c, NEW d, NEW e, NEW p, NEW m, Taking(c, d, e, p, m), NEW s, s \notin NoReplaySides, NEW live,
         NEW f, f = OnFixMessageParsed(e, s, m, live)
  PROVE  Good(c, d, f, p) /\ ReadyRight(e, f)
<1> DEFINE g == Seen(e)
<1>1. f = CASE g.st = 0 -> g
            [] g.st = 1 -> IF m.type = "Logon" THEN OnLogonAccepted(g, m) ELSE CloseFixSession(g)
            [] g.st = 2 /\ m.type # "Logon" -> CloseFixSession(g)
            [] OTHER -> DispatchFixMessage(g, s, m, live)
  BY DEF OnFixMessageParsed, Seen, Disconnected, Connected, LogonSent
<1>2. Taking(c, d, g, p, m) /\ SameSession(e, g)
  BY SeenGood
<1> HIDE DEF g
<1>3. Good(c, d, g, p)
  BY <1>2, TakingFields
<1>4. CASE g.st = 0
  <2>1. f = g
    BY <1>1, <1>4
  <2> QED
    BY <1>2, <1>3, <2>1 DEF ReadyRight, SameSession
<1>5. CASE g.st = 1 /\ m.type = "Logon"
  <2>1. f = OnLogonAccepted(g, m)
    BY <1>1, <1>5
  <2> QED
    BY <1>2, <1>5, <2>1, OnLogonAcceptedGood DEF ReadyRight
<1>6. CASE (g.st = 1 \/ g.st = 2) /\ m.type # "Logon"
  <2>1. f = CloseFixSession(g)
    BY <1>1, <1>6
  <2>2. Good(c, d, f, p) /\ SameSession(g, f)
    BY <1>3, <2>1, CloseFixSessionGood
  <2> QED
    BY <1>2, <2>2 DEF ReadyRight, SameSession
<1>7. CASE g.st # 0 /\ g.st # 1 /\ ~(g.st = 2 /\ m.type # "Logon")
  <2>1. f = DispatchFixMessage(g, s, m, live)
    BY <1>1, <1>7
  <2>2. Good(c, d, f, p) /\ ReadyRight(g, f)
    BY <1>2, <2>1, DispatchGood
  <2> QED
    BY <1>2, <2>2 DEF ReadyRight, SameSession
<1> QED
  BY <1>4, <1>5, <1>6, <1>7

(* The timer finds the peer silent and tests it ... *)
LEMMA OnTimerTestGood ==
  ASSUME NEW c, NEW d, NEW e, NEW p, Good(c, d, e, p), NEW f, f = OnTimerTest(e)
  PROVE  Good(c, d, f, p) /\ SameSession(e, f)
<1> DEFINE n == IF e.rcvd THEN 0 ELSE e.hbTest + 1
<1>1. Own(e) /\ e \in Engine
  BY OwnFields DEF Good, Sending
<1>2. n \in Nat
  BY <1>1 DEF Engine
<1>3. f = [e EXCEPT !.hbTest = n, !.rcvd = FALSE]
  BY DEF OnTimerTest
<1> HIDE DEF n
<1>4. f \in Engine /\ SameSend(e, f) /\ SameRecv(e, f) /\ SameReset(e, f) /\ SameSession(e, f)
  <2>1. e \in Engine
    BY <1>1
  <2> QED
    BY <1>2, <1>3, <2>1 DEF Engine, SameSend, SameRecv, SameReset, SameSession
<1>5. f.st = ApReady => f.sender
  BY <1>1, <1>4 DEF Own, SameSession
<1> QED
  BY <1>4, <1>5, OtherGood

(* ... notes the silence ... *)
LEMMA NotedQuietGood ==
  ASSUME NEW c, NEW d, NEW e, NEW p, Good(c, d, e, p), NEW f, f = [e EXCEPT !.rcvd = FALSE]
  PROVE  Good(c, d, f, p) /\ SameSession(e, f)
<1>1. Own(e) /\ e \in Engine
  BY OwnFields DEF Good, Sending
<1>2. f \in Engine /\ SameSend(e, f) /\ SameRecv(e, f) /\ SameReset(e, f) /\ SameSession(e, f)
  <2>1. e \in Engine
    BY <1>1
  <2> QED
    BY <2>1 DEF Engine, SameSend, SameRecv, SameReset, SameSession
<1>3. f.st = ApReady => f.sender
  BY <1>1, <1>2 DEF Own, SameSession
<1> QED
  BY <1>2, <1>3, OtherGood

(* ... or says that this side lives. *)
LEMMA TestGood ==
  ASSUME NEW c, NEW d, NEW e, NEW p, Good(c, d, e, p), NEW type \in {"TestRequest", "Heartbeat"},
         NEW f, f = Send(e, type, 0, 0)
  PROVE  Good(c, d, f, p) /\ SameSession(e, f)
<1>1. type \in Types \ {"GapFill", "Reset"} /\ type # "ResendRequest"
  BY DEF Types, AdminTypes
<1> QED
  BY <1>1, SendGood

(* FixSessionOnTimer. *)
LEMMA OnTimerGood ==
  ASSUME NEW c, NEW d, NEW e, NEW p, Good(c, d, e, p), NEW f, f = FixSessionOnTimer(e)
  PROVE  Good(c, d, f, p) /\ (f.st = ApReady => e.st = ApReady)
<1> DEFINE q == OnTimerTest(e)
<1>0. e.st \in 0..6
  BY EngineFields DEF Good, Sending, Own
<1>1. f = CASE e.st = 0 -> e
            [] e.st \in {1, 2, 6} -> CloseFixSession(e)
            [] e.st = 3 -> IF e.rcvd THEN [e EXCEPT !.rcvd = FALSE] ELSE CloseFixSession(e)
            [] e.st = 4 -> IF q.hbTest >= MaxLogonTestCount THEN CloseFixSession(q) ELSE SendLogonTestRequest(q)
            [] e.st = 5 -> IF q.hbTest >= HbTestRequestCount + 1 THEN CloseFixSession(q)
                           ELSE IF q.hbTest >= HbTestRequestCount
                           THEN Send(q, "TestRequest", 0, 0) ELSE Send(q, "Heartbeat", 0, 0)
  BY DEF FixSessionOnTimer, Disconnected, Connected, LogonSent, LogonRecovering, LogonTest, ApReady, LogoutPending
<1>2. Good(c, d, q, p) /\ SameSession(e, q)
  BY OnTimerTestGood
<1> HIDE DEF q
<1>3. CASE f = e
  BY <1>3
<1>4. CASE f = CloseFixSession(e)
  BY <1>4, CloseFixSessionGood DEF SameSession
<1>5. CASE f = [e EXCEPT !.rcvd = FALSE]
  BY <1>5, NotedQuietGood DEF SameSession
<1>6. CASE f = CloseFixSession(q)
  BY <1>2, <1>6, CloseFixSessionGood DEF SameSession
<1>7. CASE f = SendLogonTestRequest(q)
  BY <1>2, <1>7, SendLogonTestRequestGood DEF SameSession
<1>8. CASE f = Send(q, "TestRequest", 0, 0) \/ f = Send(q, "Heartbeat", 0, 0)
  BY <1>2, <1>8, TestGood DEF SameSession
<1>9. \/ f = e \/ f = CloseFixSession(e) \/ f = [e EXCEPT !.rcvd = FALSE] \/ f = CloseFixSession(q)
      \/ f = SendLogonTestRequest(q) \/ f = Send(q, "TestRequest", 0, 0) \/ f = Send(q, "Heartbeat", 0, 0)
  <2>1. CASE e.st = 0
    BY <1>1, <2>1
  <2>2. CASE e.st \in {1, 2, 6}
    BY <1>1, <2>2
  <2>3. CASE e.st = 3
    BY <1>1, <2>3
  <2>4. CASE e.st = 4
    BY <1>1, <2>4
  <2>5. CASE e.st = 5
    BY <1>1, <2>5
  <2> QED
    BY <1>0, <2>1, <2>2, <2>3, <2>4, <2>5
<1> QED
  BY <1>3, <1>4, <1>5, <1>6, <1>7, <1>8, <1>9

(* A connection begins and ends with nothing asked for and nothing kept. *)
LEMMA FreshHeard ==
  ASSUME NEW e, NEW f \in Engine, NEW p, Own(e), Own(p), Heard(e, p), Heard(p, e),
         SameSend(e, f), SameReset(e, f), f.nextRecv = e.nextRecv, f.got = e.got, f.tooLow = e.tooLow,
         Len(f.keeper) = 0, f.resendEnd = 0, f.lastGap = 0, f.st # ApReady
  PROVE  Own(f) /\ Heard(f, p) /\ Heard(p, f)
<1>1. Own(f) /\ Grows(e, f)
  BY OtherOwn
<1>2. Handled(f, p)
  BY DEF Heard, Handled
<1>3. Kept(f, p) /\ Asked(f)
  <2>1. p.nextSend > 0
    BY OwnFields
  <2> QED
    BY <2>1 DEF Kept, Asked
<1>4. Heard(p, f)
  BY <1>1, HeardGrows
<1> QED
  BY <1>1, <1>2, <1>3, <1>4 DEF Heard

(* FixSession::OnFixSessionConnected ... *)
LEMMA ConnectedFresh ==
  ASSUME NEW e, NEW p, Own(e), Own(p), Heard(e, p), Heard(p, e), NEW f, f = OnFixSessionConnected(e)
  PROVE  Own(f) /\ Heard(f, p) /\ Heard(p, f) /\ f.out = e.out /\ f.st # ApReady
<1>1. e \in Engine
  BY OwnFields
<1>2. f = [e EXCEPT !.st = 1, !.rcvd = FALSE, !.hbTest = 0, !.keeper = <<>>, !.resendEnd = 0, !.lastGap = 0,
                    !.closing = FALSE]
  BY <1>1 DEF OnFixSessionConnected, ClearFixSession, ClearRecvKeeper, Connected, Engine
<1>3. 1 \in 0..6 /\ 0 \in Nat /\ FALSE \in BOOLEAN /\ <<>> \in Seq(Message) /\ Len(<<>>) = 0
  OBVIOUS
<1>4. f \in Engine
  BY ZenonT(40), <1>1, <1>2, <1>3 DEF Engine
<1>5. /\ SameSend(e, f) /\ SameReset(e, f) /\ f.nextRecv = e.nextRecv /\ f.got = e.got /\ f.tooLow = e.tooLow
      /\ f.keeper = <<>> /\ f.resendEnd = 0 /\ f.lastGap = 0 /\ f.st = 1
  BY <1>1, <1>2 DEF Engine, SameSend, SameReset
<1>6. f.st # ApReady /\ Len(f.keeper) = 0 /\ f.out = e.out
  BY <1>3, <1>5 DEF ApReady, SameSend
<1> QED
  BY <1>4, <1>5, <1>6, FreshHeard

(* ... and FixSession::OnFixSessionDisconnected. *)
LEMMA DisconnectedFresh ==
  ASSUME NEW e, NEW p, Own(e), Own(p), Heard(e, p), Heard(p, e), NEW f, f = OnFixSessionDisconnected(e)
  PROVE  Own(f) /\ Heard(f, p) /\ Heard(p, f) /\ f.out = e.out /\ f.st # ApReady
<1>1. e \in Engine
  BY OwnFields
<1>2. f = [e EXCEPT !.st = 0, !.rcvd = FALSE, !.hbTest = 0, !.keeper = <<>>, !.resendEnd = 0, !.lastGap = 0,
                    !.sender = FALSE]
  BY <1>1 DEF OnFixSessionDisconnected, ClearFixSession, ClearRecvKeeper, Disconnected, Engine
<1>3. 0 \in 0..6 /\ 0 \in Nat /\ FALSE \in BOOLEAN /\ <<>> \in Seq(Message) /\ Len(<<>>) = 0
  OBVIOUS
<1>4. f \in Engine
  BY ZenonT(40), <1>1, <1>2, <1>3 DEF Engine
<1>5. /\ SameSend(e, f) /\ SameReset(e, f) /\ f.nextRecv = e.nextRecv /\ f.got = e.got /\ f.tooLow = e.tooLow
      /\ f.keeper = <<>> /\ f.resendEnd = 0 /\ f.lastGap = 0 /\ f.st = 0
  BY <1>1, <1>2 DEF Engine, SameSend, SameReset
<1>6. f.st # ApReady /\ Len(f.keeper) = 0 /\ f.out = e.out
  BY <1>3, <1>5 DEF ApReady, SameSend
<1> QED
  BY <1>4, <1>5, <1>6, FreshHeard

-----------------------------------------------------------------------------
(* The invariant: the engines e and p, with c in flight to p and d to e. *)
Linked(c, d, e, p) ==
  /\ Own(e) /\ Own(p) /\ e.out = <<>> /\ p.out = <<>>
  /\ Heard(e, p) /\ Heard(p, e) /\ Flow(c, e, p) /\ Flow(d, p, e)

(* Between two calls nothing waits to be sent. *)
LEMMA LinkedGood ==
  ASSUME NEW c, NEW d, NEW e, NEW p, Linked(c, d, e, p)
  PROVE  Good(c, d, e, p)
<1>1. c \in Seq(Message) /\ e.out = <<>> /\ Flow(c, e, p)
  BY DEF Linked, Flow
<1>2. c \o e.out = c
  BY <1>1
<1> QED
  BY <1>1, <1>2 DEF Linked, Good, Sending

(* Nothing in flight is in order ... *)
LEMMA FlowNothing ==
  ASSUME NEW e, NEW p
  PROVE  Flow(<<>>, e, p)
BY DEF Flow

(* ... and so is the front of what is. *)
LEMMA FlowFirst ==
  ASSUME NEW c \in Seq(Message), NEW o \in Seq(Message), NEW e, NEW p, Flow(c \o o, e, p)
  PROVE  Flow(c, e, p)
<1>1. /\ c \o o \in Seq(Message) /\ Len(c) \in Nat /\ Len(o) \in Nat /\ Len(c \o o) = Len(c) + Len(o)
      /\ \A i \in 1..Len(c \o o) : (c \o o)[i] = IF i <= Len(c) THEN c[i] ELSE o[i - Len(c)]
  BY ConcatFields
<1>2. \A i \in 1..Len(c) : i \in 1..Len(c \o o) /\ (c \o o)[i] = c[i]
  BY <1>1
<1>3. ASSUME NEW i \in 1..Len(c)
      PROVE  Valid(c[i], e, p) /\ Beyond(c[i], p)
  BY <1>2 DEF Flow
<1>4. ASSUME NEW i \in 1..Len(c), NEW j \in 1..Len(c), i < j
      PROVE  Behind(c[i], c[j])
  BY <1>2, <1>4 DEF Flow
<1> QED
  BY <1>3, <1>4 DEF Flow

(* After a call, what it sent goes out, or is dropped. *)
Flushed(e) == [e EXCEPT !.out = <<>>]

(* After a call, with what it sent on its way or lost. *)
LEMMA FlushedLinked ==
  ASSUME NEW c, NEW d, NEW e, NEW p, Good(c, d, e, p), p.out = <<>>, NEW f, f = Flushed(e)
  PROVE  Linked(c \o e.out, d, f, p) /\ Linked(c, d, f, p)
<1>1. /\ Own(e) /\ Own(p) /\ e \in Engine /\ Heard(e, p) /\ Heard(p, e) /\ Flow(c \o e.out, e, p) /\ Flow(d, p, e)
      /\ c \in Seq(Message) /\ e.out \in Seq(Message)
  BY OwnFields DEF Good, Sending
<1>2. /\ f \in Engine /\ f.nextSend = e.nextSend /\ f.log = e.log /\ f.out = <<>>
      /\ SameRecv(e, f) /\ SameReset(e, f) /\ SameSession(e, f)
  <2>1. e \in Engine /\ <<>> \in Seq(Message)
    BY <1>1
  <2> QED
    BY <2>1 DEF Flushed, Engine, SameRecv, SameReset, SameSession
<1>3. Own(f)
  BY <1>1, <1>2 DEF Own, SameReset, SameSession
<1>4. Grows(e, f) /\ Grows(p, p)
  BY <1>1, <1>2, OwnFields DEF Grows
<1>5. Heard(f, p)
  BY <1>1, <1>2 DEF SameRecv, Heard, Handled, Kept, Asked
<1>6. Heard(p, f)
  BY <1>1, <1>3, <1>4, HeardGrows
<1>7. Flow(c \o e.out, f, p)
  <2>1. p.nextRecv <= p.nextRecv /\ p.lastGap <= p.lastGap
    BY <1>1, OwnFields
  <2> QED
    BY <1>1, <1>3, <1>4, <2>1, FlowGrows
<1>8. Flow(c, f, p)
  BY <1>1, <1>7, FlowFirst
<1>9. Flow(d, p, f)
  <2>1. \A i \in 1..Len(d) : Beyond(d[i], f)
    BY <1>1, <1>2 DEF Flow, Beyond, SameRecv
  <2> QED
    BY <1>1, <1>3, <1>4, <2>1, FlowRecv
<1> QED
  BY <1>1, <1>2, <1>3, <1>5, <1>6, <1>7, <1>8, <1>9 DEF Linked

(* The message at the front of the channel is taken. *)
LEMMA FrontTaking ==
  ASSUME NEW c, NEW d, NEW e, NEW p, Linked(c, d, e, p), d # <<>>
  PROVE  Taking(c, Tail(d), e, p, Head(d))
<1>1. Own(e) /\ Own(p) /\ Flow(d, p, e) /\ d \in Seq(Message)
  BY DEF Linked, Flow
<1>2. /\ Len(d) \in Nat /\ Len(d) > 0 /\ Head(d) = d[1] /\ 1 \in 1..Len(d) /\ Tail(d) \in Seq(Message)
      /\ Len(Tail(d)) = Len(d) - 1 /\ \A i \in 1..Len(Tail(d)) : Tail(d)[i] = d[i + 1] /\ i + 1 \in 1..Len(d)
  <2>1. d \in Seq(Message) /\ d # <<>>
    BY <1>1
  <2> QED
    BY <2>1
<1>3. Flow(Tail(d), p, e)
  <2>1. ASSUME NEW i \in 1..Len(Tail(d))
        PROVE  Valid(Tail(d)[i], p, e) /\ Beyond(Tail(d)[i], e)
    BY <1>1, <1>2 DEF Flow
  <2>2. ASSUME NEW i \in 1..Len(Tail(d)), NEW j \in 1..Len(Tail(d)), i < j
        PROVE  Behind(Tail(d)[i], Tail(d)[j])
    <3>1. i + 1 \in 1..Len(d) /\ j + 1 \in 1..Len(d) /\ i + 1 < j + 1
      BY <1>2, <2>2
    <3> QED
      BY <1>1, <1>2, <3>1 DEF Flow
  <2> QED
    BY <1>2, <2>1, <2>2 DEF Flow
<1>4. Valid(Head(d), p, e) /\ Beyond(Head(d), e)
  BY <1>1, <1>2 DEF Flow
<1>5. ASSUME NEW i \in 1..Len(Tail(d))
      PROVE  Behind(Head(d), Tail(d)[i])
  <2>1. i + 1 \in 1..Len(d) /\ 1 < i + 1
    BY <1>2
  <2> QED
    BY <1>1, <1>2, <2>1 DEF Flow
<1>6. Good(c, d, e, p)
  BY LinkedGood
<1> QED
  BY <1>3, <1>4, <1>5, <1>6 DEF Taking, Good

(* What holds of one side holds of the other. *)
LEMMA LinkedBack ==
  ASSUME NEW c, NEW d, NEW e, NEW p
  PROVE  Linked(c, d, e, p) <=> Linked(d, c, p, e)
BY DEF Linked

(* A connection ends, and all in flight is lost. *)
LEMMA EndedLinked ==
  ASSUME NEW c, NEW d, NEW e, NEW p, Linked(c, d, e, p),
         NEW f, f = OnFixSessionDisconnected(e), NEW q, q = OnFixSessionDisconnected(p)
  PROVE  Linked(<<>>, <<>>, f, q) /\ f.st # ApReady /\ q.st # ApReady
<1>1. Own(e) /\ Own(p) /\ Heard(e, p) /\ Heard(p, e) /\ e.out = <<>> /\ p.out = <<>>
  BY DEF Linked
<1>2. Own(f) /\ Heard(f, p) /\ Heard(p, f) /\ f.out = e.out /\ f.st # ApReady
  BY <1>1, DisconnectedFresh
<1>3. Own(q) /\ Heard(f, q) /\ Heard(q, f) /\ q.out = p.out /\ q.st # ApReady
  BY <1>1, <1>2, DisconnectedFresh
<1> QED
  BY <1>1, <1>2, <1>3, FlowNothing DEF Linked

(* A connection begins, with the initiator's Logon. *)
LEMMA BegunLinked ==
  ASSUME NEW c, NEW d, NEW e, NEW p, Linked(c, d, e, p),
         NEW f, f = SendLogon(OnFixSessionConnected(e)), NEW q, q = OnFixSessionConnected(p)
  PROVE  Linked(f.out, <<>>, Flushed(f), q) /\ f \in Engine /\ Flushed(f).st # ApReady /\ q.st # ApReady
<1> DEFINE g == OnFixSessionConnected(e)
<1>1. Own(e) /\ Own(p) /\ Heard(e, p) /\ Heard(p, e) /\ e.out = <<>> /\ p.out = <<>>
  BY DEF Linked
<1>2. Own(g) /\ Heard(g, p) /\ Heard(p, g) /\ g.out = e.out
  BY <1>1, ConnectedFresh
<1>0. f = SendLogon(g)
  OBVIOUS
<1> HIDE DEF g
<1>3. Own(q) /\ Heard(g, q) /\ Heard(q, g) /\ q.out = p.out /\ q.st # ApReady
  BY <1>1, <1>2, ConnectedFresh
<1>4. Linked(<<>>, <<>>, g, q)
  BY <1>1, <1>2, <1>3, FlowNothing DEF Linked
<1>5. Good(<<>>, <<>>, g, q)
  BY <1>4, LinkedGood
<1>6. Good(<<>>, <<>>, f, q) /\ f.st # ApReady
  BY <1>0, <1>5, SendLogonGood
<1>7. f \in Engine /\ f.out \in Seq(Message)
  BY <1>6, OwnFields DEF Good, Sending
<1>8. Linked(<<>> \o f.out, <<>>, Flushed(f), q)
  BY <1>1, <1>3, <1>6, FlushedLinked
<1>9. <<>> \o f.out = f.out
  BY <1>7
<1>10. Flushed(f).st = f.st
  BY <1>7 DEF Flushed, Engine
<1> QED
  BY <1>3, <1>6, <1>7, <1>8, <1>9, <1>10

(* Sending makes no session ready. *)
LEMMA FlushedReady ==
  ASSUME NEW e, NEW f \in Engine, ReadyRight(e, f)
  PROVE  ReadyRight(e, Flushed(f))
<1>1. /\ Flushed(f).st = f.st /\ Flushed(f).resendEnd = f.resendEnd /\ Flushed(f).keeper = f.keeper
  BY DEF Flushed, Engine
<1> QED
  BY <1>1 DEF ReadyRight

(* No operator sets a number, and every engine replays. *)
Undisturbed == MaxCommands = 0 /\ NoReplaySides = {}

(* The inductive invariant: the initiator and the acceptor, and what is in flight. *)
LinkInv == /\ eng \in [Sides -> Engine] /\ chan \in [Sides -> Seq(Message)]
        /\ commands = 0
        /\ Linked(chan["I"], chan["A"], eng["I"], eng["A"])

(* A side becomes ready with no gap open and nothing kept. *)
Readied == \A s \in Sides : eng[s].st # ApReady /\ eng'[s].st = ApReady
                              => eng'[s].resendEnd = 0 /\ eng'[s].keeper = <<>>

(* Either side may be called e. *)
LEMMA SideLinked ==
  ASSUME LinkInv, NEW s \in Sides
  PROVE  /\ Linked(chan[s], chan[Peer(s)], eng[s], eng[Peer(s)]) /\ Peer(s) \in Sides /\ Peer(s) # s
         /\ Peer(Peer(s)) = s /\ Sides = {s, Peer(s)}
<1>1. CASE s = "I"
  <2>1. Peer(s) = "A"
    BY <1>1 DEF Peer
  <2> QED
    BY <1>1, <2>1 DEF Sides, Peer, LinkInv
<1>2. CASE s = "A"
  <2>1. Peer(s) = "I"
    BY <1>2 DEF Peer
  <2>2. Linked(chan[s], chan[Peer(s)], eng[s], eng[Peer(s)])
    BY <1>2, <2>1, LinkedBack DEF LinkInv
  <2> QED
    BY <1>2, <2>1, <2>2 DEF Sides, Peer
<1> QED
  BY <1>1, <1>2 DEF Sides

(* A call of one side. *)
LEMMA OneSide ==
  ASSUME LinkInv, NEW s \in Sides, NEW f, NEW c, NEW d,
         eng' = [eng EXCEPT ![s] = f], chan' \in [Sides -> Seq(Message)], chan'[s] = c, chan'[Peer(s)] = d,
         commands' = commands, Linked(c, d, f, eng[Peer(s)]), ReadyRight(eng[s], f)
  PROVE  LinkInv' /\ Readied
<1>1. Peer(s) \in Sides /\ Peer(s) # s /\ Sides = {s, Peer(s)}
  BY SideLinked
<1>2. f \in Engine /\ eng \in [Sides -> Engine] /\ commands = 0
  BY OwnFields DEF Linked, LinkInv
<1>3. eng' \in [Sides -> Engine] /\ eng'[s] = f /\ eng'[Peer(s)] = eng[Peer(s)]
  BY <1>1, <1>2
<1>4. Linked(chan'[s], chan'[Peer(s)], eng'[s], eng'[Peer(s)])
  BY <1>3
<1>5. Linked(chan'["I"], chan'["A"], eng'["I"], eng'["A"])
  <2>1. CASE s = "I"
    BY <1>4, <2>1 DEF Peer
  <2>2. CASE s = "A"
    BY <1>4, <2>2, LinkedBack DEF Peer
  <2> QED
    BY <2>1, <2>2 DEF Sides
<1>6. Len(f.keeper) = 0 => f.keeper = <<>>
  BY <1>2, EngineFields
<1>7. Readied
  BY <1>1, <1>3, <1>6 DEF Readied, ReadyRight
<1> QED
  BY <1>2, <1>3, <1>5, <1>7 DEF LinkInv

(* Two new engines, not connected. *)
LEMMA InitLinkInv ==
  ASSUME Init
  PROVE  LinkInv
<1>1. eng = [s \in Sides |-> NewEngine] /\ chan = [s \in Sides |-> <<>>] /\ commands = 0
  BY DEF Init
<1>2. /\ NewEngine \in Engine /\ NewEngine.out = <<>> /\ NewEngine.nextSend = 1 /\ NewEngine.nextRecv = 1
      /\ NewEngine.log = <<>> /\ NewEngine.keeper = <<>> /\ NewEngine.resendEnd = 0 /\ NewEngine.lastGap = 0
      /\ NewEngine.st = 0 /\ NewEngine.resetSend = 0 /\ NewEngine.resetRecv = 0 /\ NewEngine.tooLow = FALSE
      /\ NewEngine.got = <<>>
  BY DEF NewEngine, Engine, Disconnected
<1>3. Own(NewEngine)
  BY <1>2 DEF Own, ApReady
<1>4. Heard(NewEngine, NewEngine)
  BY <1>2 DEF Heard, Handled, Kept, Asked
<1>5. Linked(<<>>, <<>>, NewEngine, NewEngine)
  BY <1>2, <1>3, <1>4, FlowNothing DEF Linked
<1>6. "I" \in Sides /\ "A" \in Sides
  BY DEF Sides
<1> QED
  BY <1>1, <1>2, <1>5, <1>6 DEF LinkInv

(* A message is received (IoFixSession::OnDevice_Recv). *)
LEMMA ReceiveStep ==
  ASSUME LinkInv, Undisturbed, NEW s \in Sides, Receive(s)
  PROVE  LinkInv' /\ Readied
<1> DEFINE t == Peer(s)
<1>1. Linked(chan[s], chan[t], eng[s], eng[t]) /\ t \in Sides /\ t # s
  BY SideLinked
<1>2. chan[t] # <<>> /\ commands' = commands
  BY DEF Receive
<1>3. PICK live \in SUBSET Orders(s) :
        /\ eng' = [eng EXCEPT ![s] = [OnFixMessageParsed(eng[s], s, Head(chan[t]), live) EXCEPT !.out = <<>>]]
        /\ chan' = [chan EXCEPT ![s] = @ \o OnFixMessageParsed(eng[s], s, Head(chan[t]), live).out, ![t] = Tail(@)]
  BY DEF Receive
<1>4. PICK f : f = OnFixMessageParsed(eng[s], s, Head(chan[t]), live)
  OBVIOUS
<1>5. eng' = [eng EXCEPT ![s] = Flushed(f)] /\ chan' = [chan EXCEPT ![s] = chan[s] \o f.out, ![t] = Tail(chan[t])]
  <2>1. chan \in [Sides -> Seq(Message)]
    BY DEF LinkInv
  <2> QED
    BY <1>1, <1>3, <1>4, <2>1 DEF Flushed
<1> HIDE DEF t
<1>6. Taking(chan[s], Tail(chan[t]), eng[s], eng[t], Head(chan[t]))
  BY <1>1, <1>2, FrontTaking
<1>7. Good(chan[s], Tail(chan[t]), f, eng[t]) /\ ReadyRight(eng[s], f)
  <2>1. s \notin NoReplaySides
    BY DEF Undisturbed
  <2> QED
    BY <1>4, <1>6, <2>1, ParsedGood DEF t
<1>8. Linked(chan[s] \o f.out, Tail(chan[t]), Flushed(f), eng[t])
  <2>1. eng[t].out = <<>>
    BY <1>1 DEF Linked
  <2> QED
    BY <1>7, <2>1, FlushedLinked
<1>9. ReadyRight(eng[s], Flushed(f)) /\ f.out \in Seq(Message)
  <2>1. f \in Engine /\ f.out \in Seq(Message)
    BY <1>7, OwnFields DEF Good, Sending
  <2> QED
    BY <1>7, <2>1, FlushedReady
<1>10. /\ chan' \in [Sides -> Seq(Message)] /\ chan'[s] = chan[s] \o f.out /\ chan'[t] = Tail(chan[t])
  <2>1. chan \in [Sides -> Seq(Message)]
    BY DEF LinkInv
  <2>2. chan[s] \o f.out \in Seq(Message) /\ Tail(chan[t]) \in Seq(Message)
    <3>1. chan[s] \in Seq(Message) /\ chan[t] \in Seq(Message)
      BY <1>1, <2>1
    <3>2. Tail(chan[t]) \in Seq(Message)
      BY <1>2, <3>1
    <3> QED
      BY <1>9, <3>1, <3>2, ConcatFields
  <2> QED
    BY <1>1, <1>5, <2>1, <2>2
<1>11. PICK c, d, g : c = chan[s] \o f.out /\ d = Tail(chan[t]) /\ g = Flushed(f)
  OBVIOUS
<1> QED
  BY <1>2, <1>5, <1>8, <1>9, <1>10, <1>11, OneSide DEF t

(* A side that took no message: what it sends goes out, or not. *)
LEMMA BecomeStep ==
  ASSUME LinkInv, NEW s \in Sides, NEW f, Become(s, f), commands' = commands,
         Good(chan[s], chan[Peer(s)], f, eng[Peer(s)]), f.st = ApReady => eng[s].st = ApReady
  PROVE  LinkInv' /\ Readied
<1> DEFINE t == Peer(s)
<1>1. Linked(chan[s], chan[t], eng[s], eng[t]) /\ t \in Sides /\ t # s
  BY SideLinked
<1>2. chan \in [Sides -> Seq(Message)] /\ f \in Engine /\ f.out \in Seq(Message)
  BY OwnFields DEF LinkInv, Good, Sending
<1>3. eng' = [eng EXCEPT ![s] = Flushed(f)] /\ chan' = [chan EXCEPT ![s] = IF f.sender THEN chan[s] \o f.out ELSE chan[s]]
  BY <1>2 DEF Become, Flushed
<1> HIDE DEF t
<1>4. Linked(chan[s] \o f.out, chan[t], Flushed(f), eng[t]) /\ Linked(chan[s], chan[t], Flushed(f), eng[t])
  <2>1. eng[t].out = <<>>
    BY <1>1 DEF Linked
  <2>2. Good(chan[s], chan[t], f, eng[t])
    BY DEF t
  <2> QED
    BY <2>1, <2>2, FlushedLinked
<1>5. ReadyRight(eng[s], Flushed(f))
  BY <1>2, FlushedReady DEF ReadyRight
<1>6. chan[s] \o f.out \in Seq(Message) /\ chan[s] \in Seq(Message)
  BY <1>2, ConcatFields
<1>7. PICK c, d, g : c = chan'[s] /\ d = chan'[t] /\ g = Flushed(f)
  OBVIOUS
<1>8. /\ chan' \in [Sides -> Seq(Message)] /\ chan'[t] = chan[t]
      /\ chan'[s] = chan[s] \/ chan'[s] = chan[s] \o f.out
  <2>1. CASE f.sender
    BY <1>1, <1>2, <1>3, <1>6, <2>1
  <2>2. CASE ~f.sender
    BY <1>1, <1>2, <1>3, <1>6, <2>2
  <2> QED
    BY <2>1, <2>2
<1>9. Linked(c, d, g, eng[t])
  BY <1>4, <1>7, <1>8
<1> QED
  BY <1>3, <1>5, <1>7, <1>8, <1>9, OneSide DEF t

(* The application sends (FixSender::Send). *)
LEMMA AppSendStep ==
  ASSUME LinkInv, NEW s \in Sides, AppSend(s)
  PROVE  LinkInv' /\ Readied
<1>1. PICK type \in AppKinds : Become(s, Send(eng[s], type, 0, 0))
  BY DEF AppSend
<1>2. Good(chan[s], chan[Peer(s)], eng[s], eng[Peer(s)])
  BY SideLinked, LinkedGood
<1>3. PICK f : f = Send(eng[s], type, 0, 0)
  OBVIOUS
<1>4. type \in Types \ {"GapFill", "Reset"} /\ type # "ResendRequest"
  BY LinkAssumption DEF Types, AppTypes
<1>5. Good(chan[s], chan[Peer(s)], f, eng[Peer(s)]) /\ SameSession(eng[s], f)
  BY <1>2, <1>3, <1>4, SendGood
<1>6. Become(s, f) /\ commands' = commands
  BY <1>1, <1>3 DEF AppSend
<1> QED
  BY <1>5, <1>6, BecomeStep DEF SameSession

(* IoFixSession::OnDevice_CommonTimer. *)
LEMMA OnTimerStep ==
  ASSUME LinkInv, NEW s \in Sides, OnTimer(s)
  PROVE  LinkInv' /\ Readied
<1>1. PICK f : f = FixSessionOnTimer(eng[s])
  OBVIOUS
<1>2. Good(chan[s], chan[Peer(s)], eng[s], eng[Peer(s)])
  BY SideLinked, LinkedGood
<1>3. Good(chan[s], chan[Peer(s)], f, eng[Peer(s)]) /\ (f.st = ApReady => eng[s].st = ApReady)
  BY <1>1, <1>2, OnTimerGood
<1>4. Become(s, f) /\ commands' = commands
  BY <1>1 DEF OnTimer
<1> QED
  BY <1>3, <1>4, BecomeStep

(* IoFixSession::OnDevice_StateChanged, connected ... *)
LEMMA ConnectStep ==
  ASSUME LinkInv, Connect
  PROVE  LinkInv' /\ Readied
<1>1. PICK f : f = SendLogon(OnFixSessionConnected(eng["I"]))
  OBVIOUS
<1>2. PICK q : q = OnFixSessionConnected(eng["A"])
  OBVIOUS
<1>3. eng' = [I |-> Flushed(f), A |-> q] /\ chan' = [I |-> f.out, A |-> <<>>] /\ commands' = commands
  BY <1>1, <1>2 DEF Connect, Flushed
<1>4. Linked(f.out, <<>>, Flushed(f), q) /\ Flushed(f).st # ApReady /\ q.st # ApReady
  BY <1>1, <1>2, BegunLinked DEF LinkInv
<1>5. Flushed(f) \in Engine /\ q \in Engine /\ f.out \in Seq(Message) /\ <<>> \in Seq(Message)
  BY <1>4, OwnFields DEF Linked, Flow
<1>6. Sides = {"I", "A"}
  BY DEF Sides
<1>7. eng' \in [Sides -> Engine] /\ eng'["I"] = Flushed(f) /\ eng'["A"] = q
  BY <1>3, <1>5, <1>6
<1>8. chan' \in [Sides -> Seq(Message)] /\ chan'["I"] = f.out /\ chan'["A"] = <<>>
  <2>1. PICK o, z : o = f.out /\ z = <<>>
    OBVIOUS
  <2>2. chan' = [I |-> o, A |-> z] /\ o \in Seq(Message) /\ z \in Seq(Message)
    BY <1>3, <1>5, <2>1
  <2>3. chan' \in [Sides -> Seq(Message)] /\ chan'["I"] = o /\ chan'["A"] = z
    BY <1>6, <2>2
  <2> QED
    BY <2>1, <2>3
<1>9. Readied
  BY <1>4, <1>6, <1>7 DEF Readied
<1> QED
  BY <1>3, <1>4, <1>7, <1>8, <1>9 DEF LinkInv

(* ... and broken. *)
LEMMA DisconnectStep ==
  ASSUME LinkInv, Disconnect
  PROVE  LinkInv' /\ Readied
<1>1. PICK f, q : f = OnFixSessionDisconnected(eng["I"]) /\ q = OnFixSessionDisconnected(eng["A"])
  OBVIOUS
<1>2. Sides = {"I", "A"}
  BY DEF Sides
<1>3. Linked(<<>>, <<>>, f, q) /\ f.st # ApReady /\ q.st # ApReady
  BY <1>1, EndedLinked DEF LinkInv
<1>4. f \in Engine /\ q \in Engine /\ <<>> \in Seq(Message)
  BY <1>3, OwnFields DEF Linked
<1>5. eng' = [s \in Sides |-> OnFixSessionDisconnected(eng[s])] /\ chan' = [s \in Sides |-> <<>>] /\ commands' = commands
  BY DEF Disconnect
<1>6. eng'["I"] = f /\ eng'["A"] = q /\ eng' \in [Sides -> Engine]
  BY <1>1, <1>2, <1>4, <1>5
<1>7. chan'["I"] = <<>> /\ chan'["A"] = <<>> /\ chan' \in [Sides -> Seq(Message)]
  BY <1>2, <1>4, <1>5
<1>8. Readied
  BY <1>2, <1>3, <1>6 DEF Readied
<1> QED
  BY <1>3, <1>5, <1>6, <1>7, <1>8 DEF LinkInv

(* Each step keeps the invariant, and whoever becomes ready has recovered. *)
LEMMA NextLinkInv ==
  ASSUME LinkInv, Undisturbed, [Next]_vars
  PROVE  LinkInv' /\ Readied
<1>1. CASE Connect
  BY <1>1, ConnectStep
<1>2. CASE Disconnect
  BY <1>2, DisconnectStep
<1>3. ASSUME NEW s \in Sides, Receive(s)
      PROVE  LinkInv' /\ Readied
  BY <1>3, ReceiveStep
<1>4. ASSUME NEW s \in Sides, AppSend(s)
      PROVE  LinkInv' /\ Readied
  BY <1>4, AppSendStep
<1>5. ASSUME NEW s \in Sides, OnTimer(s)
      PROVE  LinkInv' /\ Readied
  BY <1>5, OnTimerStep
<1>6. ASSUME NEW s \in Sides, Snext(s) \/ Rnext(s)
      PROVE  FALSE
  BY <1>6 DEF Snext, Rnext, LinkInv, Undisturbed
<1>7. CASE UNCHANGED vars
  <2>1. UNCHANGED <<eng, chan, commands>>
    BY <1>7 DEF vars
  <2> QED
    BY <2>1 DEF LinkInv, Readied
<1> QED
  BY <1>1, <1>2, <1>3, <1>4, <1>5, <1>6, <1>7 DEF Next

-----------------------------------------------------------------------------
(* The invariant says that no side has counted a number that was not sent ... *)
LEMMA LinkInvNeverAhead ==
  ASSUME LinkInv
  PROVE  NeverAhead
<1> SUFFICES ASSUME NEW s \in Sides
             PROVE  /\ eng[s].nextRecv <= eng[Peer(s)].nextSend /\ eng[s].lastGap < eng[Peer(s)].nextSend
                    /\ eng[s].resendEnd < eng[Peer(s)].nextSend /\ ~eng[s].tooLow
  BY DEF NeverAhead
<1>1. PICK e, p : e = eng[s] /\ p = eng[Peer(s)]
  OBVIOUS
<1>2. Own(e) /\ Own(p) /\ Handled(e, p) /\ Kept(e, p) /\ Asked(e)
  BY <1>1, SideLinked DEF Linked, Heard
<1> QED
  BY SMTT(40), <1>1, <1>2, OwnFields DEF Handled, Kept, Asked

(* ... and that each Report below it was handled once, in order. *)
LEMMA LinkInvReportsOnceInOrder ==
  ASSUME LinkInv
  PROVE  ReportsOnceInOrder
<1>1. ASSUME NEW s \in Sides, NEW e, NEW p, e = eng[s], p = eng[Peer(s)]
      PROVE  /\ \A i, j \in DOMAIN e.got : i < j => e.got[i].seq < e.got[j].seq
             /\ {e.got[i].seq : i \in {j \in DOMAIN e.got : e.got[j].type = "Report"}}
                 = {p.log[i].seq : i \in {j \in DOMAIN p.log : p.log[j].type = "Report" /\ p.log[j].seq < e.nextRecv}}
             /\ \A i \in DOMAIN e.keeper : /\ e.keeper[i].seq > e.nextRecv /\ e.keeper[i].seq > e.resendEnd
                                           /\ e.keeper[i].seq <= e.lastGap
             /\ \A i, j \in DOMAIN e.keeper : i < j => e.keeper[i].seq < e.keeper[j].seq
  <2>1. Own(e) /\ Own(p) /\ Handled(e, p) /\ Kept(e, p) /\ Asked(e)
    BY <1>1, SideLinked DEF Linked, Heard
  <2>2. /\ e.got \in Seq(Message) /\ e.keeper \in Seq(Message) /\ p.log \in Seq(Line) /\ Len(p.log) \in Nat
        /\ e.nextRecv \in Nat /\ e.resendEnd \in Nat /\ e.lastGap \in Nat /\ p.nextSend = Len(p.log) + 1
    BY <2>1, OwnFields
  <2>3. DOMAIN e.got = 1..Len(e.got) /\ DOMAIN e.keeper = 1..Len(e.keeper) /\ DOMAIN p.log = 1..Len(p.log)
    BY <2>2
  <2>4. \A i, j \in DOMAIN e.got : i < j => e.got[i].seq < e.got[j].seq
    BY <2>1, <2>3 DEF Handled
  <2>5. ASSUME NEW n
        PROVE  (\E i \in DOMAIN e.got : e.got[i].type = "Report" /\ e.got[i].seq = n)
               <=> (\E i \in DOMAIN p.log : p.log[i].type = "Report" /\ p.log[i].seq < e.nextRecv /\ p.log[i].seq = n)
    <3>1. ASSUME NEW i \in DOMAIN e.got, e.got[i].type = "Report", e.got[i].seq = n
          PROVE  \E j \in DOMAIN p.log : p.log[j].type = "Report" /\ p.log[j].seq < e.nextRecv /\ p.log[j].seq = n
      <4>1. e.got[i] \in Message /\ i \in 1..Len(e.got)
        BY <2>2, <2>3, <3>1
      <4>2. n \in 1..(e.nextRecv - 1) /\ n \in 1..Len(p.log)
        BY <2>1, <2>2, <3>1, <4>1, MessageFields DEF Handled
      <4>3. p.log[n].type = "Report"
        BY <2>1, <3>1, <4>1, <4>2 DEF Handled
      <4>4. p.log[n].seq = n /\ n < e.nextRecv
        BY <2>1, <2>2, <4>2 DEF Own
      <4> QED
        BY <2>3, <4>2, <4>3, <4>4
    <3>2. ASSUME NEW j \in DOMAIN p.log, p.log[j].type = "Report", p.log[j].seq < e.nextRecv, p.log[j].seq = n
          PROVE  \E i \in DOMAIN e.got : e.got[i].type = "Report" /\ e.got[i].seq = n
      <4>1. j \in 1..Len(p.log) /\ p.log[j].seq = j /\ j = n
        BY <2>1, <2>3, <3>2 DEF Own
      <4>2. n \in 1..(e.nextRecv - 1)
        BY <2>2, <3>2, <4>1
      <4>3. \E i \in 1..Len(e.got) : e.got[i].seq = n /\ e.got[i].type = "Report"
        BY <2>1, <3>2, <4>1, <4>2 DEF Handled
      <4> QED
        BY <2>3, <4>3
    <3> QED
      BY <3>1, <3>2
  <2>6. ASSUME NEW i \in DOMAIN e.keeper
        PROVE  e.keeper[i].seq > e.nextRecv /\ e.keeper[i].seq > e.resendEnd /\ e.keeper[i].seq <= e.lastGap
    <3>1. i \in 1..Len(e.keeper) /\ e.keeper[i] \in Message
      BY <2>2, <2>3
    <3>2. e.keeper[i].seq \in Nat /\ 1 <= e.keeper[i].seq /\ e.keeper[i].seq <= e.lastGap /\ e.keeper[i].seq > e.resendEnd
      BY <2>1, <3>1, MessageFields DEF Kept, Asked
    <3>3. e.nextRecv <= e.resendEnd
      BY <2>1, <2>2, <3>2 DEF Asked
    <3> QED
      BY <2>2, <3>2, <3>3
  <2>7. \A i, j \in DOMAIN e.keeper : i < j => e.keeper[i].seq < e.keeper[j].seq
    BY <2>1, <2>3 DEF Kept
  <2>8. {e.got[i].seq : i \in {j \in DOMAIN e.got : e.got[j].type = "Report"}}
         = {p.log[i].seq : i \in {j \in DOMAIN p.log : p.log[j].type = "Report" /\ p.log[j].seq < e.nextRecv}}
    BY <2>5
  <2> QED
    BY <2>4, <2>6, <2>7, <2>8
<1>2. HandledInOrder
  BY <1>1 DEF HandledInOrder
<1>3. ReportsExactlyOnce
  <2>1. ASSUME NEW s \in Sides
        PROVE  {eng[s].got[i].seq : i \in {j \in DOMAIN eng[s].got : eng[s].got[j].type = "Report"}}
               = {eng[Peer(s)].log[i].seq : i \in {j \in DOMAIN eng[Peer(s)].log :
                      eng[Peer(s)].log[j].type = "Report" /\ eng[Peer(s)].log[j].seq < eng[s].nextRecv}}
    BY <1>1
  <2> QED
    BY <1>2, <2>1, Zenon DEF ReportsExactlyOnce
<1>4. KeeperInOrder
  BY <1>1 DEF KeeperInOrder
<1> QED
  BY <1>3, <1>4 DEF ReportsOnceInOrder

(* FixLink's invariant holds throughout, for any peers, states in which the
   applications send, and bounds (FixReceiver, FixSender, FixSession). *)
THEOREM LinkInvariant == ASSUME Undisturbed PROVE Spec => []LinkInv
<1>1. Init => LinkInv
  BY InitLinkInv
<1>2. LinkInv /\ [Next]_vars => LinkInv'
  BY NextLinkInv
<1> QED
  BY <1>1, <1>2, PTL DEF Spec

(* However connections break and gaps overlap: each Report below the expected number was
   given to the application once and in order (FixReceiver::DispatchFixMessage,
   FixReceiver::CheckMsgKeeper, FixSender::Replay). *)
THEOREM LinkReportsOnceInOrder == ASSUME Undisturbed PROVE Spec => []ReportsOnceInOrder
<1>1. LinkInv => ReportsOnceInOrder
  BY LinkInvReportsOnceInOrder
<1> QED
  BY <1>1, LinkInvariant, PTL

(* No side expects a number beyond the next one its peer will use
   (FixReceiver::CompareFixSeqNum, FixRecorder::WriteInputConform). *)
THEOREM LinkNeverAhead == ASSUME Undisturbed PROVE Spec => []NeverAhead
<1>1. LinkInv => NeverAhead
  BY LinkInvNeverAhead
<1> QED
  BY <1>1, LinkInvariant, PTL

(* A session becomes ApReady only when no gap is open and no message is kept
   (FixSession::SetApReadySt, FixSession::OnRecoverDone). *)
THEOREM LinkReadyAfterRecovery == ASSUME Undisturbed PROVE Spec => ReadyAfterRecovery
<1>1. LinkInv /\ [Next]_vars => Readied
  BY NextLinkInv
<1> QED
  BY <1>1, LinkInvariant, PTL DEF ReadyAfterRecovery, Spec, Readied

-----------------------------------------------------------------------------
(* The bounds of FixLink: the numbers used, the connections and the ticks of the timers. *)
Bounds == /\ \A s \in Sides : eng[s].nextSend <= MaxSeq + 1
          /\ links \in 0..(2 * MaxLinks) /\ ticks \in 0..MaxTicks

(* A connection that begins or ends uses no number (FixSession::ClearFixSession). *)
LEMMA FreshNumbers ==
  ASSUME NEW e \in Engine
  PROVE  /\ OnFixSessionConnected(e).nextSend = e.nextSend
         /\ OnFixSessionDisconnected(e).nextSend = e.nextSend
BY DEF OnFixSessionConnected, OnFixSessionDisconnected, ClearFixSession, ClearRecvKeeper, Engine

(* Each step keeps to the bounds. *)
LEMMA NextBounds ==
  ASSUME LinkInv, LinkInv', Undisturbed, Bounds, [Next]_vars
  PROVE  Bounds'
<1>0. /\ MaxSeq \in Nat /\ MaxLinks \in Nat /\ MaxTicks \in Nat /\ links \in Nat /\ ticks \in Nat
      /\ eng \in [Sides -> Engine] /\ eng' \in [Sides -> Engine]
  BY LinkAssumption DEF Bounds, LinkInv
<1>1. CASE Connect
  <2>1. PICK i : i = SendLogon(OnFixSessionConnected(eng["I"])) /\ i.nextSend <= MaxSeq + 1
                 /\ eng' = [I |-> [i EXCEPT !.out = <<>>], A |-> OnFixSessionConnected(eng["A"])]
    BY <1>1 DEF Connect
  <2>2. eng'["I"].nextSend <= MaxSeq + 1
    <3>1. eng'["I"] = [i EXCEPT !.out = <<>>]
      BY <2>1
    <3>2. [i EXCEPT !.out = <<>>].nextSend = i.nextSend
      <4>1. i \in Engine
        BY <2>1, BegunLinked DEF LinkInv
      <4> QED
        BY <4>1 DEF Engine
    <3> QED
      BY <2>1, <3>1, <3>2
  <2>3. eng'["A"].nextSend = eng["A"].nextSend
    BY <1>0, <2>1, FreshNumbers DEF Sides
  <2>4. links' = links + 1 /\ links < 2 * MaxLinks /\ ticks' = ticks
    BY <1>1 DEF Connect
  <2> QED
    BY <1>0, <2>2, <2>3, <2>4 DEF Bounds, Sides
<1>2. CASE Disconnect
  <2>1. \A s \in Sides : eng'[s].nextSend = eng[s].nextSend
    BY <1>0, <1>2, FreshNumbers DEF Disconnect
  <2>2. links' = links + 1 /\ links % 2 = 1 /\ ticks' = ticks /\ links <= 2 * MaxLinks
    BY <1>2 DEF Disconnect, LinkUp, Bounds
  <2>3. links # 2 * MaxLinks
    BY <1>0, <2>2
  <2> QED
    BY <1>0, <2>1, <2>2, <2>3 DEF Bounds
<1>3. ASSUME NEW s \in Sides, Receive(s)
      PROVE  Bounds'
  <2>1. PICK e : /\ e.nextSend <= MaxSeq + 1
                 /\ eng' = [eng EXCEPT ![s] = [e EXCEPT !.out = <<>>]]
    BY <1>3 DEF Receive
  <2>2. links' = links /\ ticks' = ticks
    BY <1>3 DEF Receive
  <2> QED
    BY <1>0, <2>1, <2>2 DEF Bounds
<1>4. ASSUME NEW s \in Sides, AppSend(s)
      PROVE  Bounds'
  <2>1. PICK e : Become(s, e) /\ links' = links /\ ticks' = ticks
    BY <1>4 DEF AppSend
  <2> QED
    BY <1>0, <2>1 DEF Bounds, Become
<1>5. ASSUME NEW s \in Sides, OnTimer(s)
      PROVE  Bounds'
  <2>1. PICK e : Become(s, e) /\ ticks' = (IF e.out = <<>> THEN ticks ELSE ticks + 1)
                 /\ links' = links /\ ticks' <= MaxTicks
    BY <1>5 DEF OnTimer
  <2> QED
    BY <1>0, <2>1 DEF Bounds, Become
<1>6. ASSUME NEW s \in Sides, Snext(s) \/ Rnext(s)
      PROVE  FALSE
  BY <1>6 DEF Snext, Rnext, LinkInv, Undisturbed
<1>7. CASE UNCHANGED vars
  BY <1>7 DEF vars, Bounds
<1> QED
  BY <1>1, <1>2, <1>3, <1>4, <1>5, <1>6, <1>7 DEF Next

(* The state of the link is well typed: numbers from 1, a session in one of its states,
   and no call leaves anything unsent (FixSender, IoFixSender::OnSendFixMessage). *)
THEOREM LinkTypeCorrect == ASSUME Undisturbed PROVE Spec => []TypeOK
<1>1. Init => Bounds
  BY LinkAssumption DEF Init, Bounds, NewEngine
<1>2. LinkInv /\ LinkInv' /\ Bounds /\ [Next]_vars => Bounds'
  BY NextBounds
<1>3. LinkInv /\ Bounds => TypeOK
  <2> SUFFICES ASSUME LinkInv, Bounds, NEW s \in Sides
               PROVE  /\ eng[s].nextSend \in 1..(MaxSeq + 1) /\ eng[s].nextRecv \in Nat \ {0}
                      /\ eng[s].st \in Disconnected..LogoutPending
                      /\ eng[s].out = <<>>
    BY DEF TypeOK, Bounds
  <2>1. PICK e, p : e = eng[s] /\ p = eng[Peer(s)]
    OBVIOUS
  <2>2. Own(e) /\ Handled(e, p) /\ e.out = <<>> /\ e.nextSend <= MaxSeq + 1
    BY <2>1, SideLinked DEF Linked, Heard, Bounds
  <2>3. e.nextSend >= 1 /\ e.nextSend \in Nat /\ e.nextRecv \in Nat /\ e.nextRecv >= 1 /\ e.st \in 0..6
    BY <2>2, OwnFields, EngineFields DEF Handled
  <2> QED
    BY <2>1, <2>2, <2>3, LinkAssumption DEF Disconnected, LogoutPending
<1> QED
  BY <1>1, <1>2, <1>3, LinkInvariant, PTL DEF Spec

-----------------------------------------------------------------------------
(***************************************************************************)
(* Timer, for any timers, clients, intervals and bounds.                   *)
(*                                                                         *)
(* Everything rests on the line being the timers whose key says so, each   *)
(* under its own key (LineMatchesKeys): only then does Erase find a timer, *)
(* and only then is the one that the thread takes out not disposed and not *)
(* stopped.  That nobody sleeps over a timer needs one more fact, about    *)
(* what CvWaitSecs_ is while the thread sleeps without end.                *)
(***************************************************************************)

(* A call under way knows its timer, and RunAfter what it read off the clock. *)
CallType == {Idle} \cup [op : {"run"}, timer : Timers, at : 0..MaxTime, after : Intervals]
                   \cup [op : {"stop", "dispose"}, timer : Timers]
CallsOK == call \in [Callers -> CallType] /\ lastSeq >= WaitInLine

Keys == [emit : (-2)..MaxTime, seq : Nat]

IInv == TimerTypeOK /\ CallsOK /\ LineMatchesKeys /\ StoppedIsQuiet

-----------------------------------------------------------------------------
(* One timer leaves the line, or was not in it, and gets a key that is not  *)
(* in line: the line still matches the keys.                                *)
LEMMA LeaveLine ==
  ASSUME TimerTypeOK, LineMatchesKeys, NEW t \in Timers, NEW k \in Keys,
         ~IsTimerWaitInLine(k.seq), state # "Terminated",
         line' = Erased(t), key' = [key EXCEPT ![t] = k]
  PROVE  LineMatchesKeys'
<1>1. key \in [Timers -> Keys]
  BY DEF TimerTypeOK, Keys
<1>2. line = {Entry(u) : u \in {v \in Timers : IsTimerWaitInLine(key[v].seq)}}
  BY DEF LineMatchesKeys
<1>3. \A u \in Timers : key'[u] = IF u = t THEN k ELSE key[u]
  BY <1>1
<1>4. \A u \in Timers : u # t => Entry(u)' = Entry(u) /\ Entry(u) # Entry(t)
  BY <1>3 DEF Entry
<1>5. line' = {Entry(u) : u \in {v \in Timers : v # t /\ IsTimerWaitInLine(key[v].seq)}}
  BY <1>2, <1>4 DEF Erased
<1>6. line' = {Entry(u)' : u \in {v \in Timers : IsTimerWaitInLine(key'[v].seq)}}
  BY <1>3, <1>4, <1>5
<1> QED
  BY <1>6 DEF LineMatchesKeys, Entry

(* A timer is put in line under its new key. *)
LEMMA EnterLine ==
  ASSUME TimerTypeOK, LineMatchesKeys, NEW t \in Timers, NEW k \in Keys,
         IsTimerWaitInLine(k.seq), state # "Terminated",
         line' = Erased(t) \cup {[emit |-> k.emit, seq |-> k.seq, timer |-> t]},
         key' = [key EXCEPT ![t] = k]
  PROVE  LineMatchesKeys'
<1>1. key \in [Timers -> Keys]
  BY DEF TimerTypeOK, Keys
<1>2. line = {Entry(u) : u \in {v \in Timers : IsTimerWaitInLine(key[v].seq)}}
  BY DEF LineMatchesKeys
<1>3. \A u \in Timers : key'[u] = IF u = t THEN k ELSE key[u]
  BY <1>1
<1>4. \A u \in Timers : u # t => Entry(u)' = Entry(u) /\ Entry(u) # Entry(t)
  BY <1>3 DEF Entry
<1>5. Entry(t)' = [emit |-> k.emit, seq |-> k.seq, timer |-> t]
  BY <1>3 DEF Entry
<1>6. Erased(t) = {Entry(u) : u \in {v \in Timers : v # t /\ IsTimerWaitInLine(key[v].seq)}}
  BY <1>2, <1>4 DEF Erased
<1>7. line' = {Entry(u)' : u \in {v \in Timers : IsTimerWaitInLine(key'[v].seq)}}
  BY <1>3, <1>4, <1>5, <1>6
<1> QED
  BY <1>7 DEF LineMatchesKeys, Entry

-----------------------------------------------------------------------------
(* What a timer's new key does to the rest of the invariant. *)
LEMMA NewKey ==
  ASSUME TimerTypeOK, StoppedIsQuiet, NEW t \in Timers, NEW k \in Keys, ~IsTimerWaitInLine(k.seq),
         key' = [key EXCEPT ![t] = k], state' = state, curr' = curr,
         stopped' = stopped, key[t].seq = Disposed => k.seq = Disposed
  PROVE  StoppedIsQuiet'
<1>1. \A u \in Timers : key'[u] = IF u = t THEN k ELSE key[u]
  BY DEF TimerTypeOK, Keys
<1>2. stopped \subseteq Timers
  BY DEF TimerTypeOK
<1> QED
  BY <1>1, <1>2 DEF StoppedIsQuiet, IsThreadEnding

LEMMA ErasedType ==
  ASSUME TimerTypeOK, NEW t \in Timers
  PROVE  Erased(t) \subseteq [emit : (-2)..MaxTime, seq : Nat, timer : Timers]
BY DEF TimerTypeOK, Erased

LEMMA InitIInv == TimerInit => IInv
<1> SUFFICES ASSUME TimerInit PROVE IInv
  OBVIOUS
<1>1. TimerTypeOK
  <2>1. key \in [Timers -> [emit : (-2)..MaxTime, seq : Nat]]
    BY TimerAssumption DEF TimerInit, NoWaiting
  <2>2. DOMAIN call = Callers
    BY DEF TimerInit
  <2>3. /\ line \subseteq [emit : (-2)..MaxTime, seq : Nat, timer : Timers]
        /\ curr \subseteq Timers /\ stopped \subseteq Timers
    BY DEF TimerInit
  <2>4. now \in 0..MaxTime /\ lastSeq \in Nat /\ cv \in Int /\ wakeAt \in Int
    BY TimerAssumption DEF TimerInit, WaitInLine, Forever
  <2> QED
    BY <2>1, <2>2, <2>3, <2>4 DEF TimerInit, TimerTypeOK
<1>2. CallsOK
  BY DEF TimerInit, CallsOK, CallType, WaitInLine
<1>3. LineMatchesKeys
  BY DEF TimerInit, LineMatchesKeys, IsTimerWaitInLine, NoWaiting, WaitInLine
<1>4. StoppedIsQuiet
  BY DEF TimerInit, StoppedIsQuiet
<1> QED
  BY <1>1, <1>2, <1>3, <1>4 DEF IInv

(* A timer starts. *)
LEMMA SetupRunInv ==
  ASSUME IInv, CallsOK', NEW t \in Timers, NEW at \in (-2)..MaxTime, NEW wsecs \in Int,
         SetupRun(t, at, wsecs)
  PROVE  IInv'
<1> DEFINE k == [emit |-> at, seq |-> lastSeq + 1]
<1> USE DEF IInv
<1>1. k \in Keys /\ IsTimerWaitInLine(k.seq) /\ lastSeq + 1 \in Nat
  BY DEF Keys, CallsOK, TimerTypeOK, IsTimerWaitInLine, WaitInLine
<1>2. /\ key' = [key EXCEPT ![t] = k]
      /\ line' = Erased(t) \cup {[emit |-> k.emit, seq |-> k.seq, timer |-> t]}
      /\ state # "Terminated" /\ state' = state /\ lastSeq' = lastSeq + 1
      /\ stopped' = stopped \ {t} /\ curr' = curr /\ now' = now /\ thr' = thr /\ wakeAt' = wakeAt
  BY DEF SetupRun, IsThreadEnding
<1>3. cv' \in Int /\ notified' \in BOOLEAN
  BY DEF SetupRun, TimerTypeOK
<1>4. TimerTypeOK'
  <2>1. key' \in [Timers -> [emit : (-2)..MaxTime, seq : Nat]]
    BY <1>1, <1>2 DEF TimerTypeOK, Keys
  <2>2. line' \subseteq [emit : (-2)..MaxTime, seq : Nat, timer : Timers]
    BY <1>1, <1>2, ErasedType DEF Keys
  <2>3. DOMAIN call' = Callers
    BY DEF CallsOK
  <2> QED
    BY <1>1, <1>2, <1>3, <2>1, <2>2, <2>3 DEF TimerTypeOK
<1>5. LineMatchesKeys'
  <2> HIDE DEF k
  <2> QED
    BY <1>1, <1>2, EnterLine
<1>6. StoppedIsQuiet'
  <2>1. \A u \in Timers : u # t => key'[u] = key[u]
    BY <1>2 DEF TimerTypeOK
  <2> QED
    BY <1>2, <2>1 DEF StoppedIsQuiet, TimerTypeOK, IsThreadEnding
<1> QED
  BY <1>4, <1>5, <1>6

(* A timer leaves the line, by its own thread or by a stop. *)
LEMMA LeaveInv ==
  ASSUME IInv, CallsOK', NEW t \in Timers, NEW k \in Keys, ~IsThreadEnding,
         ~IsTimerWaitInLine(k.seq), key[t].seq = Disposed => k.seq = Disposed,
         line' = Erased(t), key' = [key EXCEPT ![t] = k],
         UNCHANGED <<now, lastSeq, cv, thr, wakeAt, notified, curr, state>>
  PROVE  /\ LineMatchesKeys'
         /\ stopped' \subseteq Timers => TimerTypeOK'
         /\ stopped' = stopped => StoppedIsQuiet'
<1> USE DEF IInv
<1>1. state # "Terminated"
  BY DEF IsThreadEnding
<1>2. LineMatchesKeys'
  BY <1>1, LeaveLine
<1>3. stopped' = stopped => StoppedIsQuiet'
  BY NewKey
<1>4. ASSUME stopped' \subseteq Timers PROVE TimerTypeOK'
  <2>1. key' \in [Timers -> [emit : (-2)..MaxTime, seq : Nat]]
    BY DEF TimerTypeOK, Keys
  <2>2. DOMAIN call' = Callers
    BY DEF CallsOK
  <2> QED
    BY <1>4, <2>1, <2>2, ErasedType DEF TimerTypeOK
<1> QED
  BY <1>2, <1>3, <1>4

(* A call begins, goes on or ends. *)
LEMMA CallStep ==
  ASSUME TimerTypeOK, CallsOK, NEW c \in Callers, NEW v \in CallType,
         call' = [call EXCEPT ![c] = v], lastSeq' \in {lastSeq, lastSeq + 1}
  PROVE  CallsOK'
<1>1. lastSeq' >= WaitInLine
  BY DEF TimerTypeOK, CallsOK, WaitInLine
<1> QED
  BY <1>1 DEF CallsOK

LEMMA IdleCall == Idle \in CallType
BY DEF CallType

LEMMA RunCall ==
  ASSUME CallsOK, NEW c \in Callers, call[c].op = "run"
  PROVE  call[c].timer \in Timers /\ call[c].at \in 0..MaxTime /\ call[c].after \in Intervals
<1>1. call[c] \in CallType
  BY DEF CallsOK
<1>2. call[c] # Idle
  BY DEF Idle
<1>3. call[c] \notin [op : {"stop", "dispose"}, timer : Timers]
  OBVIOUS
<1>4. call[c] \in [op : {"run"}, timer : Timers, at : 0..MaxTime, after : Intervals]
  BY <1>1, <1>2, <1>3 DEF CallType
<1> QED
  BY <1>4

LEMMA WaitCall ==
  ASSUME CallsOK, NEW c \in Callers, call[c].op \in {"stop", "dispose"}
  PROVE  call[c].timer \in Timers
<1>1. call[c] \in CallType
  BY DEF CallsOK
<1>2. call[c] # Idle
  BY DEF Idle
<1>3. call[c] \notin [op : {"run"}, timer : Timers, at : 0..MaxTime, after : Intervals]
  OBVIOUS
<1>4. call[c] \in [op : {"stop", "dispose"}, timer : Timers]
  BY <1>1, <1>2, <1>3 DEF CallType
<1> QED
  BY <1>4

LEMMA RunAtInv ==
  ASSUME IInv, NEW c \in Callers, NEW t \in Timers, NEW at \in (now - 2)..MaxTime, RunAt(c, t, at)
  PROVE  IInv'
<1>1. CallsOK'
  BY DEF IInv, CallsOK, TimerTypeOK, RunAt, SetupRun, WaitInLine
<1>2. at \in (-2)..MaxTime /\ at - now \in Int
  BY TimerAssumption DEF IInv, TimerTypeOK
<1> QED
  BY <1>1, <1>2, SetupRunInv DEF RunAt

LEMMA RunAfterLockedInv ==
  ASSUME IInv, NEW c \in Callers, RunAfterLocked(c)
  PROVE  IInv'
<1>0. call[c].timer \in Timers /\ call[c].at \in 0..MaxTime /\ call[c].after \in Intervals
  BY RunCall DEF IInv, RunAfterLocked
<1>1. call[c].timer \in Timers /\ call[c].at \in (-2)..MaxTime /\ call[c].after \in Int
  <2>1. \A x \in 0..MaxTime : x \in (-2)..MaxTime
    BY TimerAssumption
  <2>2. Intervals \subseteq Int
    BY TimerAssumption
  <2> QED
    BY <1>0, <2>1, <2>2
<1>2. CASE SetupRun(call[c].timer, call[c].at, call[c].after)
  <2>1. lastSeq' = lastSeq + 1
    BY <1>2 DEF SetupRun
  <2>2. CallsOK'
    BY <2>1, CallStep, IdleCall DEF IInv, RunAfterLocked
  <2> QED
    BY <1>1, <1>2, <2>2, SetupRunInv
<1>3. CASE UNCHANGED <<now, key, line, lastSeq, threadVars, stopped>>
  <2>1. CallsOK'
    BY <1>3, CallStep, IdleCall DEF IInv, RunAfterLocked
  <2> QED
    BY <1>3, <2>1 DEF IInv, TimerTypeOK, CallsOK, LineMatchesKeys, Entry, StoppedIsQuiet, IsThreadEnding, threadVars
<1> QED
  BY <1>2, <1>3 DEF RunAfterLocked

(* A step that only begins or ends a call. *)
LEMMA CallOnlyInv ==
  ASSUME IInv, CallsOK', UNCHANGED <<now, key, line, lastSeq, threadVars, stopped>>
  PROVE  IInv'
BY DEF IInv, TimerTypeOK, CallsOK, LineMatchesKeys, Entry, StoppedIsQuiet, IsThreadEnding, threadVars

LEMMA BeginInv ==
  ASSUME IInv, NEW c \in Callers, NEW t \in Timers,
         \/ \E d \in Intervals : RunAfter(c, t, d)
         \/ \E op \in {"stop", "dispose"} : WaitBegin(c, t, op)
  PROVE  IInv'
<1>1. ASSUME NEW d \in Intervals, RunAfter(c, t, d) PROVE IInv'
  <2>1. now + d \in 0..MaxTime
    BY <1>1, TimerAssumption DEF RunAfter, IInv, TimerTypeOK
  <2>2. [op |-> "run", timer |-> t, at |-> now + d, after |-> d] \in CallType
    BY <2>1 DEF CallType
  <2>3. CallsOK'
    BY <1>1, <2>2, CallStep DEF RunAfter, IInv
  <2> QED
    BY <1>1, <2>3, CallOnlyInv DEF RunAfter
<1>2. ASSUME NEW op \in {"stop", "dispose"}, WaitBegin(c, t, op) PROVE IInv'
  <2>1. [op |-> op, timer |-> t] \in CallType
    BY DEF CallType
  <2>2. CallsOK'
    BY <1>2, <2>1, CallStep DEF WaitBegin, IInv
  <2> QED
    BY <1>2, <2>2, CallOnlyInv DEF WaitBegin
<1> QED
  BY <1>1, <1>2

(* The calls that stop at once. *)
LEMMA NoWaitInv ==
  ASSUME IInv, NEW c \in Callers, NEW t \in Timers, StopNoWait(c, t) \/ DisposeNoWait(c, t)
  PROVE  IInv'
<1>1. CallsOK'
  BY DEF IInv, CallsOK, StopNoWait, DisposeNoWait
<1>2. key[t] \in Keys
  BY DEF IInv, TimerTypeOK, Keys
<1>3. PICK seq \in {NoWaiting, Disposed} :
        /\ key' = [key EXCEPT ![t].seq = seq]
        /\ key[t].seq = Disposed => seq = Disposed
  BY DEF StopNoWait, DisposeNoWait, IsTimerWaitInLine, Disposed, WaitInLine
<1> DEFINE k == [key[t] EXCEPT !.seq = seq]
<1>4. /\ key' = [key EXCEPT ![t] = k] /\ k \in Keys /\ ~IsTimerWaitInLine(k.seq)
      /\ key[t].seq = Disposed => k.seq = Disposed
  BY <1>2, <1>3 DEF Keys, IsTimerWaitInLine, NoWaiting, Disposed, WaitInLine
<1>5. /\ ~IsThreadEnding /\ line' = Erased(t) /\ stopped' = stopped
      /\ UNCHANGED <<now, lastSeq, cv, thr, wakeAt, notified, curr, state>>
  BY DEF StopNoWait, DisposeNoWait, threadVars
<1> HIDE DEF k
<1>6. TimerTypeOK' /\ LineMatchesKeys' /\ StoppedIsQuiet'
  BY <1>1, <1>4, <1>5, LeaveInv DEF IInv, TimerTypeOK
<1> QED
  BY <1>1, <1>6 DEF IInv

(* One turn of the calls that wait. *)
LEMMA StopAndWaitInv ==
  ASSUME IInv, NEW c \in Callers, StopAndWait(c)
  PROVE  IInv'
<1> DEFINE t == call[c].timer
           k == [emit |-> 0, seq |-> NoWaiting]
<1>1. t \in Timers
  BY WaitCall DEF IInv, StopAndWait
<1>2. CallsOK'
  <2>1. UNCHANGED call \/ call' = [call EXCEPT ![c] = Idle]
    BY DEF StopAndWait, StopReturns, Return
  <2> QED
    BY <2>1, CallStep, IdleCall DEF IInv, CallsOK, StopAndWait
<1>3. /\ stopped' \subseteq stopped \cup {t} /\ stopped' \subseteq Timers
      /\ UNCHANGED <<now, lastSeq, cv, thr, wakeAt, notified, curr, state>>
  BY <1>1 DEF StopAndWait, StopReturns, threadVars, IInv, TimerTypeOK
<1>4. CASE IsThreadEnding \/ key[t].seq = Disposed
  <2>1. UNCHANGED <<key, line>>
    BY <1>4 DEF StopAndWait
  <2>2. TimerTypeOK' /\ LineMatchesKeys'
    BY <1>2, <1>3, <2>1 DEF IInv, TimerTypeOK, CallsOK, LineMatchesKeys, Entry
  <2>3. StoppedIsQuiet'
    BY <1>3, <1>4, <2>1 DEF IInv, StoppedIsQuiet, IsThreadEnding
  <2> QED
    BY <1>2, <2>2, <2>3 DEF IInv
<1>5. CASE ~(IsThreadEnding \/ key[t].seq = Disposed)
  <2>1. /\ line' = Erased(t) /\ key' = [key EXCEPT ![t] = k]
        /\ IF CheckCurrEmit(c, t) THEN UNCHANGED <<call, stopped>> ELSE StopReturns(c)
    BY <1>5 DEF StopAndWait
  <2>2. k \in Keys /\ ~IsTimerWaitInLine(k.seq)
    BY TimerAssumption DEF Keys, IsTimerWaitInLine, NoWaiting, WaitInLine
  <2>3. TimerTypeOK' /\ LineMatchesKeys'
    <3> HIDE DEF k, t
    <3> QED
      BY <1>1, <1>2, <1>3, <1>5, <2>1, <2>2, LeaveInv
  <2>4. \A u \in Timers : key'[u] = IF u = t THEN k ELSE key[u]
    BY <2>1 DEF IInv, TimerTypeOK
  <2>5. stopped' = stopped \/ t \notin curr
    BY <2>1 DEF StopReturns, CheckCurrEmit
  <2>6. StoppedIsQuiet'
    BY <1>1, <1>3, <1>5, <2>2, <2>4, <2>5 DEF IInv, StoppedIsQuiet, IsThreadEnding
  <2> QED
    BY <1>2, <2>3, <2>6 DEF IInv
<1> QED
  BY <1>4, <1>5

LEMMA DisposeAndWaitInv ==
  ASSUME IInv, NEW c \in Callers, DisposeAndWait(c)
  PROVE  IInv'
<1> DEFINE t == call[c].timer
           k == [emit |-> 0, seq |-> Disposed]
<1>1. t \in Timers
  BY WaitCall DEF IInv, DisposeAndWait
<1>2. CallsOK'
  <2>1. UNCHANGED call \/ call' = [call EXCEPT ![c] = Idle]
    BY DEF DisposeAndWait, Return
  <2> QED
    BY <2>1, CallStep, IdleCall DEF IInv, CallsOK, DisposeAndWait
<1>3. stopped' = stopped /\ UNCHANGED <<now, lastSeq, cv, thr, wakeAt, notified, curr, state>>
  BY DEF DisposeAndWait, threadVars
<1>4. CASE UNCHANGED <<key, line>>
  BY <1>2, <1>3, <1>4
     DEF IInv, TimerTypeOK, CallsOK, LineMatchesKeys, Entry, StoppedIsQuiet, IsThreadEnding
<1>5. CASE ~IsThreadEnding /\ line' = Erased(t) /\ key' = [key EXCEPT ![t] = k]
  <2>1. k \in Keys /\ ~IsTimerWaitInLine(k.seq) /\ k.seq = Disposed
    BY TimerAssumption DEF Keys, IsTimerWaitInLine, Disposed, WaitInLine
  <2>2. stopped' \subseteq Timers
    BY <1>3 DEF IInv, TimerTypeOK
  <2>3. TimerTypeOK' /\ LineMatchesKeys' /\ StoppedIsQuiet'
    <3> HIDE DEF k, t
    <3> QED
      BY <1>1, <1>2, <1>3, <1>5, <2>1, <2>2, LeaveInv
  <2> QED
    BY <1>2, <2>3 DEF IInv
<1> QED
  BY <1>4, <1>5 DEF DisposeAndWait

(* The first in line, when it is in line under its own key, is not stopped. *)
LEMMA RunTimerInv ==
  ASSUME IInv, RunTimer
  PROVE  IInv'
<1>1. CallsOK' /\ ~IsThreadEnding /\ notified' = FALSE /\ UNCHANGED <<now, lastSeq, state, call, stopped>>
  BY DEF RunTimer, IInv, CallsOK
<1>2. CASE /\ UNCHANGED <<key, line, curr>> /\ thr' = "wait"
           /\ cv' \in Int /\ wakeAt' \in Int
  BY <1>1, <1>2
     DEF IInv, TimerTypeOK, LineMatchesKeys, Entry, StoppedIsQuiet, IsThreadEnding
<1>3. ASSUME NEW e \in line,
             key' = [key EXCEPT ![e.timer].seq = NoWaiting],
             line' = line \ {e}, curr' = {e.timer}, thr' = "emit", UNCHANGED <<cv, wakeAt>>
      PROVE  IInv'
  <2> DEFINE t == e.timer
             k == [key[t] EXCEPT !.seq = NoWaiting]
  <2>1. t \in Timers /\ e = Entry(t) /\ IsTimerWaitInLine(key[t].seq)
    BY <1>1 DEF IInv, LineMatchesKeys, Entry, IsThreadEnding
  <2>2. line' = Erased(t) /\ key' = [key EXCEPT ![t] = k]
    BY <1>3, <2>1 DEF Erased
  <2>3. key[t] \in Keys
    BY <2>1 DEF IInv, TimerTypeOK, Keys
  <2>4. k \in Keys /\ ~IsTimerWaitInLine(k.seq)
    BY <2>3 DEF Keys, IsTimerWaitInLine, NoWaiting, WaitInLine
  <2>5. LineMatchesKeys'
    <3> HIDE DEF k, t
    <3> QED
      BY <1>1, <2>1, <2>2, <2>4, LeaveLine DEF IInv, IsThreadEnding
  <2>6. TimerTypeOK'
    <3>1. key' \in [Timers -> [emit : (-2)..MaxTime, seq : Nat]]
      <4> HIDE DEF k, t
      <4> QED
        BY <2>1, <2>2, <2>4 DEF IInv, TimerTypeOK, Keys
    <3> QED
      BY <1>1, <1>3, <2>1, <3>1 DEF IInv, TimerTypeOK
  <2>7. \A u \in Timers : u # t => key'[u] = key[u]
    BY <2>2 DEF IInv, TimerTypeOK
  <2>8. t \notin stopped
    BY <1>1, <2>1 DEF IInv, StoppedIsQuiet, IsTimerWaitInLine, Disposed, WaitInLine
  <2>9. StoppedIsQuiet'
    BY <1>1, <1>3, <2>7, <2>8 DEF IInv, TimerTypeOK, StoppedIsQuiet, IsThreadEnding
  <2> QED
    BY <1>1, <2>5, <2>6, <2>9 DEF IInv
<1>4. CASE line = {} /\ cv' = Forever /\ wakeAt' = Forever /\ thr' = "wait" /\ UNCHANGED <<key, line, curr>>
  BY <1>2, <1>4 DEF Forever
<1>5. ASSUME NEW e \in line, e.emit > now, cv' = e.emit - now, wakeAt' = e.emit, thr' = "wait",
             UNCHANGED <<key, line, curr>>
      PROVE  IInv'
  <2>1. e.emit \in Int /\ now \in Int
    BY DEF IInv, TimerTypeOK
  <2> QED
    BY <1>2, <1>5, <2>1
<1> QED
  BY <1>3, <1>4, <1>5 DEF RunTimer

(* The rest: the thread's other steps, the end and the clock. *)
LEMMA RestInv ==
  ASSUME IInv,
         EmitEnd \/ Wake \/ SpuriousWake \/ NotifyForEndNow \/ OnBeforeThreadEnd
           \/ WaitForEndNow \/ Tick \/ UNCHANGED timerVars
  PROVE  IInv'
<1>1. CallsOK' /\ UNCHANGED <<key, lastSeq, call, stopped>>
  BY DEF IInv, CallsOK, EmitEnd, Wake, SpuriousWake, NotifyForEndNow, OnBeforeThreadEnd,
         WaitForEndNow, Tick, timerVars
<1>2. TimerTypeOK'
  <2>1. ASSUME Tick PROVE now' \in 0..MaxTime
    BY <2>1, TimerAssumption DEF IInv, TimerTypeOK, Tick
  <2> QED
    BY <1>1, <2>1 DEF IInv, TimerTypeOK, EmitEnd, Wake, SpuriousWake, NotifyForEndNow,
                      OnBeforeThreadEnd, WaitForEndNow, Tick, threadVars, timerVars
<1>3. /\ curr' \subseteq curr
      /\ state' = state \/ state' \in {"EndNow", "Terminated"}
      /\ state = "Terminated" => state' = "Terminated"
      /\ line' = line \/ state' = "Terminated"
  BY DEF EmitEnd, Wake, SpuriousWake, NotifyForEndNow, OnBeforeThreadEnd, WaitForEndNow,
         Tick, threadVars, timerVars, IsThreadEnding
<1>4. LineMatchesKeys'
  BY <1>1, <1>3 DEF IInv, LineMatchesKeys, Entry
<1>5. StoppedIsQuiet'
  BY <1>1, <1>3 DEF IInv, StoppedIsQuiet, IsThreadEnding
<1> QED
  BY <1>1, <1>2, <1>4, <1>5 DEF IInv

LEMMA NextIInv == IInv /\ [TimerNext]_timerVars => IInv'
BY RunAtInv, BeginInv, NoWaitInv, RunAfterLockedInv, StopAndWaitInv, DisposeAndWaitInv,
   RunTimerInv, RestInv DEF TimerNext

LEMMA Inductive == TimerSpec => []IInv
<1> QED
  BY InitIInv, NextIInv, PTL DEF TimerSpec

-----------------------------------------------------------------------------
(* The state is well typed, for any timers, clients and bounds. *)
THEOREM TypeCorrect == TimerSpec => []TimerTypeOK
<1>1. IInv => TimerTypeOK
  BY DEF IInv
<1> QED
  BY Inductive, <1>1, PTL

(* Timers_ holds just the timers whose Key_ says that they are in line, each
   under that key, so that Erase() finds them (Timer.cpp: SetupRun, StopNoWait,
   the wait functions and RunTimer). *)
THEOREM KeysInLine == TimerSpec => []LineMatchesKeys
<1>1. IInv => LineMatchesKeys
  BY DEF IInv
<1> QED
  BY Inductive, <1>1, PTL

(* When StopAndWait of a timer has returned, its call does not run and the
   timer is not in line until it is started again, whoever else stops,
   disposes and starts timers (Timer.cpp: StopAndWait, CheckCurrEmit). *)
THEOREM StopIsQuiet == TimerSpec => []StoppedIsQuiet
<1>1. IInv => StoppedIsQuiet
  BY DEF IInv
<1> QED
  BY Inductive, <1>1, PTL

(* A timer marked Disposed stays so: it cannot be started, stopped back to
   NoWaiting, nor found in line by the thread (TimerEntry::Key::SeqNo). *)
THEOREM DisposedStays == TimerSpec => DisposedForGood
<1>1. IInv /\ [TimerNext]_timerVars => [\A t \in Timers : key[t].seq = Disposed => key'[t].seq = Disposed]_timerVars
  <2> SUFFICES ASSUME IInv, TimerNext, NEW t \in Timers, key[t].seq = Disposed
               PROVE  key'[t].seq = Disposed
    OBVIOUS
  <2> USE DEF Disposed, NoWaiting, WaitInLine, IsTimerWaitInLine
  <2>1. \A u \in Timers : \A x : key' = [key EXCEPT ![u] = x] /\ u # t => key'[t] = key[t]
    BY DEF IInv, TimerTypeOK
  <2>2. ASSUME NEW u \in Timers, NEW at, NEW w, SetupRun(u, at, w)
        PROVE  key'[t].seq = Disposed
    BY <2>1, <2>2 DEF SetupRun
  <2>3. ASSUME NEW c \in Callers, NEW u \in Timers,
               \/ \E at \in (now - 2)..MaxTime : RunAt(c, u, at)
               \/ \E d \in Intervals : RunAfter(c, u, d)
               \/ StopNoWait(c, u) \/ DisposeNoWait(c, u)
               \/ \E op \in {"stop", "dispose"} : WaitBegin(c, u, op)
        PROVE  key'[t].seq = Disposed
    BY <2>2, <2>3 DEF RunAt, RunAfter, StopNoWait, DisposeNoWait, WaitBegin, IInv, TimerTypeOK
  <2>4. ASSUME NEW c \in Callers, RunAfterLocked(c) PROVE key'[t].seq = Disposed
    BY <2>2, <2>4, RunCall DEF RunAfterLocked, IInv
  <2>5. ASSUME NEW c \in Callers, StopAndWait(c) PROVE key'[t].seq = Disposed
    BY <2>1, <2>5, WaitCall DEF StopAndWait, IInv
  <2>6. ASSUME NEW c \in Callers, DisposeAndWait(c) PROVE key'[t].seq = Disposed
    BY <2>1, <2>6, WaitCall DEF DisposeAndWait, IInv
  <2>7. ASSUME RunTimer PROVE key'[t].seq = Disposed
    <3>1. \A e \in line : e.timer \in Timers /\ e.timer # t
      BY <2>7 DEF RunTimer, IsThreadEnding, IInv, LineMatchesKeys, Entry
    <3>2. key' = key \/ \E e \in line : key' = [key EXCEPT ![e.timer].seq = NoWaiting]
      BY <2>7 DEF RunTimer
    <3> QED
      BY <3>1, <3>2 DEF IInv, TimerTypeOK
  <2>8. ASSUME EmitEnd \/ Wake \/ SpuriousWake \/ NotifyForEndNow \/ OnBeforeThreadEnd
                 \/ WaitForEndNow \/ Tick
        PROVE  key'[t].seq = Disposed
    BY <2>8 DEF EmitEnd, Wake, SpuriousWake, NotifyForEndNow, OnBeforeThreadEnd, WaitForEndNow, Tick
  <2> QED
    BY <2>3, <2>4, <2>5, <2>6, <2>7, <2>8 DEF TimerNext
<1> QED
  BY Inductive, <1>1, PTL DEF TimerSpec, DisposedForGood

-----------------------------------------------------------------------------
(* A thread that sleeps without end, and was not notified, has nothing in     *)
(* line, and CvWaitSecs_ says so: a timer that starts then is the first and   *)
(* its time is another, so it notifies.  Its time is another unless it is for *)
(* one second ago, which is -1 like a wait without end (the run timer_past).  *)
Asleep == thr = "wait" /\ ~notified /\ wakeAt = Forever => cv = Forever /\ line = {}

LEMMA AsleepStep ==
  ASSUME OneBehind = FALSE, IInv, Asleep, [TimerNext]_timerVars
  PROVE  Asleep'
<1> USE DEF Forever
<1>1. ASSUME NEW t \in Timers, NEW at \in Int, NEW w \in Int, w # -1, SetupRun(t, at, w)
      PROVE  Asleep'
  <2> SUFFICES ASSUME thr = "wait", ~notified', wakeAt = Forever PROVE FALSE
    BY <1>1 DEF SetupRun, Asleep
  <2>1. ~notified
    BY <1>1 DEF SetupRun
  <2>2. cv = Forever /\ line = {}
    BY <2>1 DEF Asleep
  <2>3. line' = {[emit |-> at, seq |-> lastSeq + 1, timer |-> t]}
    BY <1>1, <2>2 DEF SetupRun, Erased
  <2>4. IsFirst([emit |-> at, seq |-> lastSeq + 1, timer |-> t], line')
    BY <2>3 DEF IsFirst
  <2> QED
    BY <1>1, <2>2, <2>4 DEF SetupRun
<1>2. ASSUME NEW c \in Callers, NEW t \in Timers, NEW at \in (now - 2)..MaxTime, RunAt(c, t, at)
      PROVE  Asleep'
  <2>1. at \in Int /\ at - now \in Int
    BY TimerAssumption DEF IInv, TimerTypeOK
  <2>2. at - now # -1
    BY <1>2 DEF RunAt
  <2> QED
    BY <1>1, <1>2, <2>1, <2>2 DEF RunAt
<1>3. ASSUME NEW c \in Callers, RunAfterLocked(c) PROVE Asleep'
  <2>1. call[c].timer \in Timers /\ call[c].at \in 0..MaxTime /\ call[c].after \in Intervals
    BY <1>3, RunCall DEF IInv, RunAfterLocked
  <2>2. /\ \A x \in 0..MaxTime : x \in Int
        /\ \A x \in Intervals : x \in Int /\ x # -1
    BY TimerAssumption
  <2>3. call[c].at \in Int /\ call[c].after \in Int /\ call[c].after # -1
    BY <2>1, <2>2
  <2>4. CASE SetupRun(call[c].timer, call[c].at, call[c].after)
    BY <1>1, <2>1, <2>3, <2>4
  <2>5. CASE UNCHANGED <<now, key, line, lastSeq, threadVars, stopped>>
    BY <2>5 DEF Asleep, threadVars
  <2> QED
    BY <1>3, <2>4, <2>5 DEF RunAfterLocked
<1>4. ASSUME line' \subseteq line, UNCHANGED <<cv, thr, wakeAt>>, notified => notified'
      PROVE  Asleep'
  BY <1>4 DEF Asleep
<1>5. ASSUME NEW c \in Callers, NEW t \in Timers,
             \/ \E d \in Intervals : RunAfter(c, t, d)
             \/ StopNoWait(c, t) \/ DisposeNoWait(c, t)
             \/ \E op \in {"stop", "dispose"} : WaitBegin(c, t, op)
      PROVE  Asleep'
  BY <1>4, <1>5 DEF RunAfter, StopNoWait, DisposeNoWait, WaitBegin, Erased, threadVars
<1>6. ASSUME NEW c \in Callers, StopAndWait(c) \/ DisposeAndWait(c) PROVE Asleep'
  BY <1>4, <1>6 DEF StopAndWait, DisposeAndWait, Erased, threadVars
<1>7. ASSUME RunTimer PROVE Asleep'
  <2>1. \A e \in line : e.emit > now => e.emit # -1
    BY DEF IInv, TimerTypeOK
  <2> QED
    BY <1>7, <2>1 DEF RunTimer, Asleep
<1>8. ASSUME \/ EmitEnd \/ Wake \/ SpuriousWake \/ NotifyForEndNow \/ OnBeforeThreadEnd
             \/ WaitForEndNow \/ Tick \/ UNCHANGED timerVars
      PROVE  Asleep'
  BY <1>8 DEF Asleep, EmitEnd, Wake, SpuriousWake, NotifyForEndNow, OnBeforeThreadEnd,
              WaitForEndNow, Tick, threadVars, timerVars
<1> QED
  BY <1>2, <1>3, <1>5, <1>6, <1>7, <1>8 DEF TimerNext

(* No timer in line is slept over without end, if RunAt is not called for
   exactly one second ago (Timer.cpp: SetupRun against the wait of RunTimer). *)
THEOREM NeverOverslept ==
  ASSUME OneBehind = FALSE
  PROVE  TimerSpec => []NeverSleepsOverATimer
<1>1. TimerInit => Asleep
  BY DEF TimerInit, Asleep
<1>2. IInv /\ Asleep /\ [TimerNext]_timerVars => Asleep'
  BY AsleepStep
<1>3. Asleep => NeverSleepsOverATimer
  BY DEF Asleep, NeverSleepsOverATimer
<1> QED
  BY Inductive, <1>1, <1>2, <1>3, PTL DEF TimerSpec
=============================================================================
