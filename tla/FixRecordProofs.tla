-------------------------- MODULE FixRecordProofs --------------------------
(***************************************************************************)
(* The record of a FIX session: that its numbers can be recovered from it  *)
(* (FixRecorder), and that what is replayed from it leaves no gap          *)
(* (FixReplay).                                                            *)
(***************************************************************************)
EXTENDS FixRecorder, FixReplay, SequenceTheorems, WellFoundedInduction, TLAPS

-----------------------------------------------------------------------------
(***************************************************************************)
(* FixRecorder: the numbers can be recovered from the record, for any      *)
(* length of the record and any numbers.                                   *)
(*                                                                         *)
(* Recoverable is inductive together with RecorderTypeOK once it is known  *)
(* what one more line does to the search: a line that gives a number       *)
(* decides, and any other leaves the answer as it was.                     *)
(***************************************************************************)

(* What a search finds behind a line, given what it would find before it. *)
AfterSend(v, l) == IF GivesSend(l) THEN SendOf(l) ELSE v
AfterRecv(v, l) == IF GivesRecv(l) THEN RecvOf(l) ELSE v

(* A non-empty set of positions has a last one. *)
LEMMA MaxOfPositions ==
  ASSUME NEW n \in Nat, NEW S, S \subseteq 1..n, S # {}
  PROVE  Max(S) \in S /\ \A y \in S : Max(S) >= y
<1> DEFINE T == {n - i : i \in S}
<1>0. \A i \in S : i \in Int /\ n - i \in Nat
  OBVIOUS
<1>1. T \subseteq Nat /\ T # {}
  BY <1>0
<1>2. PICK x \in T : \A y \in T : ~(<<y, x>> \in OpToRel(<, Nat))
  BY <1>1, WFMin, NatLessThanWellFounded
<1>3. \A y \in T : ~(y < x)
  BY <1>1, <1>2 DEF OpToRel
<1>4. PICK m \in S : x = n - m
  OBVIOUS
<1>5. ASSUME NEW y \in S
      PROVE  m >= y
  <2>1. n - y \in T /\ ~(n - y < n - m) /\ y \in Int /\ m \in Int
    BY <1>3, <1>4
  <2> QED
    BY <2>1
<1> QED
  BY <1>5 DEF Max

(* The last element of a set of positions is the one no other exceeds. *)
LEMMA MaxIs ==
  ASSUME NEW n \in Nat, NEW S, S \subseteq 1..n, NEW m \in S, \A y \in S : m >= y
  PROVE  Max(S) = m
<1>1. Max(S) \in S /\ Max(S) >= m
  BY MaxOfPositions
<1>2. PICK x \in S : x = Max(S)
  BY <1>1
<1>3. m >= x /\ x >= m /\ m \in Int /\ x \in Int
  BY <1>1, <1>2
<1> QED
  BY <1>2, <1>3

(* One more line at the end, for the numbers sent ... *)
LEMMA LastSendAppend ==
  ASSUME NEW f \in Seq(Lines), NEW l \in Lines
  PROVE  LastSend(Append(f, l)) = AfterSend(LastSend(f), l)
<1> DEFINE g == Append(f, l)
           old == {i \in DOMAIN f : GivesSend(f[i])}
           new == {i \in DOMAIN g : GivesSend(g[i])}
<1>1. /\ Len(f) \in Nat /\ DOMAIN f = 1..Len(f) /\ DOMAIN g = 1..(Len(f) + 1)
      /\ g[Len(f) + 1] = l /\ \A i \in 1..Len(f) : g[i] = f[i]
  OBVIOUS
<1> HIDE DEF g
<1>2. CASE GivesSend(l)
  <2>1. Len(f) + 1 \in new /\ new \subseteq 1..(Len(f) + 1)
    BY <1>1, <1>2
  <2>2. \A y \in new : Len(f) + 1 >= y
    BY <1>1, <2>1
  <2> HIDE DEF new
  <2> DEFINE n == Len(f) + 1
  <2>3. n \in Nat /\ n \in new /\ new \subseteq 1..n /\ \A y \in new : n >= y
    BY <1>1, <2>1, <2>2
  <2> HIDE DEF n
  <2>4. Max(new) = n
    BY <2>3, MaxIs
  <2> QED
    BY <1>1, <1>2, <2>1, <2>4 DEF LastSend, AfterSend, g, new, n
<1>3. CASE ~GivesSend(l)
  <2>1. new = old
    BY <1>1, <1>3
  <2>2. old # {} => Max(old) \in old
    BY <1>1, MaxOfPositions
  <2> QED
    BY <1>1, <1>3, <2>1, <2>2 DEF LastSend, AfterSend, g
<1> QED
  BY <1>2, <1>3

(* ... and for those received. *)
LEMMA LastRecvAppend ==
  ASSUME NEW f \in Seq(Lines), NEW l \in Lines
  PROVE  LastRecv(Append(f, l)) = AfterRecv(LastRecv(f), l)
<1> DEFINE g == Append(f, l)
           old == {i \in DOMAIN f : GivesRecv(f[i])}
           new == {i \in DOMAIN g : GivesRecv(g[i])}
<1>1. /\ Len(f) \in Nat /\ DOMAIN f = 1..Len(f) /\ DOMAIN g = 1..(Len(f) + 1)
      /\ g[Len(f) + 1] = l /\ \A i \in 1..Len(f) : g[i] = f[i]
  OBVIOUS
<1> HIDE DEF g
<1>2. CASE GivesRecv(l)
  <2>1. Len(f) + 1 \in new /\ new \subseteq 1..(Len(f) + 1)
    BY <1>1, <1>2
  <2>2. \A y \in new : Len(f) + 1 >= y
    BY <1>1, <2>1
  <2> HIDE DEF new
  <2> DEFINE n == Len(f) + 1
  <2>3. n \in Nat /\ n \in new /\ new \subseteq 1..n /\ \A y \in new : n >= y
    BY <1>1, <2>1, <2>2
  <2> HIDE DEF n
  <2>4. Max(new) = n
    BY <2>3, MaxIs
  <2> QED
    BY <1>1, <1>2, <2>1, <2>4 DEF LastRecv, AfterRecv, g, new, n
<1>3. CASE ~GivesRecv(l)
  <2>1. new = old
    BY <1>1, <1>3
  <2>2. old # {} => Max(old) \in old
    BY <1>1, MaxOfPositions
  <2> QED
    BY <1>1, <1>3, <2>1, <2>2 DEF LastRecv, AfterRecv, g
<1> QED
  BY <1>2, <1>3

(* A search of any file finds positive numbers. *)
LEMMA FoundIsPositive ==
  ASSUME NEW f \in Seq(Lines)
  PROVE  LastSend(f) \in Nat \ {0} /\ LastRecv(f) \in Nat \ {0}
<1> DEFINE S == {i \in DOMAIN f : GivesSend(f[i])}
           R == {i \in DOMAIN f : GivesRecv(f[i])}
<1>1. Len(f) \in Nat /\ DOMAIN f = 1..Len(f) /\ \A i \in DOMAIN f : f[i] \in Lines
  OBVIOUS
<1>2. S # {} => Max(S) \in S
  BY <1>1, MaxOfPositions
<1>3. R # {} => Max(R) \in R
  BY <1>1, MaxOfPositions
<1>4. \A l \in Lines : /\ GivesSend(l) => SendOf(l) \in Nat \ {0}
                       /\ GivesRecv(l) => RecvOf(l) \in Nat \ {0}
  BY DEF Lines, GivesSend, GivesRecv, SendOf, RecvOf
<1> QED
  BY <1>1, <1>2, <1>3, <1>4 DEF LastSend, LastRecv

(* Short sequences. *)
LEMMA ShortSeq ==
  ASSUME NEW a \in Lines, NEW b \in Lines
  PROVE  <<>> \in Seq(Lines) /\ <<a>> \in Seq(Lines) /\ <<a, b>> \in Seq(Lines)
OBVIOUS

(* Concatenation of lines is associative. *)
LEMMA LinesAssociative ==
  ASSUME NEW s \in Seq(Lines), NEW t \in Seq(Lines), NEW u \in Seq(Lines)
  PROVE  s \o (t \o u) = (s \o t) \o u
<1>1. (s \o t) \o u = s \o (t \o u)
  BY ConcatAssociative
<1> QED
  BY <1>1

(* The lines a call adds: one or two, and the IDX line perhaps. *)
LEMMA OneLine ==
  ASSUME NEW f \in Seq(Lines), NEW a \in Lines
  PROVE  /\ f \o <<a>> \in Seq(Lines)
         /\ LastSend(f \o <<a>>) = AfterSend(LastSend(f), a)
         /\ LastRecv(f \o <<a>>) = AfterRecv(LastRecv(f), a)
<1>1. f \o <<a>> = Append(f, a) /\ Append(f, a) \in Seq(Lines)
  OBVIOUS
<1> QED
  BY <1>1, LastSendAppend, LastRecvAppend

LEMMA TwoLines ==
  ASSUME NEW f \in Seq(Lines), NEW a \in Lines, NEW b \in Lines
  PROVE  /\ LastSend(f \o <<a, b>>) = AfterSend(AfterSend(LastSend(f), a), b)
         /\ LastRecv(f \o <<a, b>>) = AfterRecv(AfterRecv(LastRecv(f), a), b)
<1>1. f \o <<a>> \in Seq(Lines) /\ f \o <<a>> = Append(f, a)
  BY OneLine
<1>2. Len(f) \in Nat /\ f \o <<a, b>> = Append(Append(f, a), b)
  OBVIOUS
<1> DEFINE g == f \o <<a>>
<1>3. g \in Seq(Lines) /\ f \o <<a, b>> = Append(g, b)
  BY <1>1, <1>2
<1> HIDE DEF g
<1>4. g \o <<b>> = Append(g, b)
  BY <1>3
<1>5. f \o <<a, b>> = g \o <<b>>
  BY <1>3, <1>4
<1> QED
  BY <1>3, <1>5, OneLine DEF g

(* A call that sets the numbers to what its lines give keeps them
   recoverable, with or without the IDX line behind. *)
LEMMA WriteBufferKeeps ==
  ASSUME disk \in Seq(Lines), queue \in Seq(Lines), NEW lines \in Seq(Lines),
         NEW s \in Nat \ {0}, NEW r \in Nat \ {0},
         WriteBuffer(lines, s, r), disk' = disk,
         LastSend(Record \o lines) = s, LastRecv(Record \o lines) = r
  PROVE  /\ queue' \in Seq(Lines) /\ nextSendSeq' = s /\ nextRecvSeq' = r
         /\ LastSend(Record') = s /\ LastRecv(Record') = r
<1> DEFINE x == Line("IDX", s, r)
           f == Record \o lines
<1>1. x \in Lines /\ \A v : AfterSend(v, x) = s /\ AfterRecv(v, x) = r
  BY DEF Line, Lines, AfterSend, AfterRecv, GivesSend, GivesRecv, SendOf, RecvOf
<1>2. PICK idx \in {<<>>, <<x>>} : queue' = queue \o lines \o idx
  BY DEF WriteBuffer
<1>3. Record \in Seq(Lines) /\ f \in Seq(Lines)
  BY DEF Record
<1> HIDE DEF x
<1>4. idx \in Seq(Lines)
  BY <1>1, <1>2, ShortSeq
<1> DEFINE q == queue \o lines
<1>5. q \in Seq(Lines) /\ disk \o q = f
  BY SMTT(30), ConcatAssociative DEF Record
<1> HIDE DEF q, f
<1>7. q \o idx \in Seq(Lines) /\ disk \o (q \o idx) = (disk \o q) \o idx
  <2>1. q \o idx \in Seq(Lines)
    BY <1>4, <1>5
  <2>2. disk \in Seq(Lines) /\ q \in Seq(Lines) /\ idx \in Seq(Lines)
    BY <1>4, <1>5
  <2>3. disk \o (q \o idx) = (disk \o q) \o idx
    BY ONLY <2>2, LinesAssociative
  <2> QED
    BY ONLY <2>1, <2>3
<1>8. queue' = q \o idx /\ Record' = f \o idx
  BY <1>2, <1>5, <1>7 DEF Record, q
<1>6. LastSend(f \o idx) = s /\ LastRecv(f \o idx) = r
  <2>1. CASE idx = <<>>
    BY <1>3, <2>1 DEF f
  <2>2. CASE idx = <<x>>
    BY <1>1, <1>3, <2>2, OneLine
  <2> QED
    BY <1>2, <2>1, <2>2
<1> QED
  BY <1>6, <1>7, <1>8 DEF WriteBuffer

-----------------------------------------------------------------------------
RecorderIInv == RecorderTypeOK /\ Recoverable

(* The same for the whole invariant. *)
LEMMA CallKeepsIInv ==
  ASSUME RecorderIInv, NEW lines \in Seq(Lines), NEW s \in Nat \ {0}, NEW r \in Nat \ {0},
         WriteBuffer(lines, s, r), disk' = disk, up' = up,
         sending' \in Nat, onLine' \subseteq Nat,
         LastSend(Record \o lines) = s, LastRecv(Record \o lines) = r
  PROVE  RecorderIInv'
<1>1. /\ queue' \in Seq(Lines) /\ nextSendSeq' = s /\ nextRecvSeq' = r
      /\ LastSend(Record') = s /\ LastRecv(Record') = r
  BY WriteBufferKeeps DEF RecorderIInv, RecorderTypeOK
<1> QED
  BY <1>1 DEF RecorderIInv, RecorderTypeOK, Recoverable

(* Every call of the recorder keeps the invariant. *)
LEMMA StepKeepsIInv == RecorderIInv /\ [RecorderNext]_recorderVars => RecorderIInv'
<1> SUFFICES ASSUME RecorderIInv, [RecorderNext]_recorderVars PROVE RecorderIInv'
  OBVIOUS
<1> USE DEF RecorderIInv
<1>0. disk \in Seq(Lines) /\ queue \in Seq(Lines) /\ Record \in Seq(Lines)
  BY DEF RecorderTypeOK, Record
<1>1. CASE SendBegin
  BY <1>1 DEF SendBegin, Unlocked, RecorderTypeOK, Recoverable, Record
<1>2. ASSUME NEW n \in 0..MaxSeq, WriteAfterSend(n) PROVE RecorderIInv'
  <2> DEFINE a == Line("S", sending, 0)
             b == Line("RST", n, 0)
  <2>1. a \in Lines /\ b \in Lines
    BY <1>2 DEF RecorderTypeOK, Line, Lines
  <2>2. /\ \A v : AfterSend(v, a) = sending + 1 /\ AfterRecv(v, a) = v
        /\ \A v : AfterRecv(v, b) = v /\ (n > 0 => AfterSend(v, b) = n)
    BY DEF Line, AfterSend, AfterRecv, GivesSend, GivesRecv, SendOf, RecvOf
  <2> HIDE DEF a, b
  <2>3. CASE n = 0
    <3>1. WriteBuffer(<<a>>, sending + 1, nextRecvSeq)
      BY <1>2, <2>3 DEF WriteAfterSend, a
    <3>2. LastSend(Record \o <<a>>) = sending + 1 /\ LastRecv(Record \o <<a>>) = nextRecvSeq
      BY <1>0, <1>2, <2>1, <2>2, OneLine DEF Recoverable, WriteAfterSend
    <3>3. /\ sending + 1 \in Nat \ {0} /\ nextRecvSeq \in Nat \ {0}
          /\ sending' \in Nat /\ onLine' \subseteq Nat /\ disk' = disk /\ up' = up
      <4>1. sending' = 0 /\ onLine' = onLine /\ disk' = disk /\ up' = up
        BY <1>2, <2>3 DEF WriteAfterSend
      <4> QED
        BY <4>1 DEF RecorderTypeOK
    <3>4. <<a>> \in Seq(Lines)
      BY <2>1, ShortSeq
    <3> HIDE DEF RecorderIInv
    <3> QED
      BY <3>1, <3>2, <3>3, <3>4, CallKeepsIInv
  <2>4. CASE n # 0
    <3>1. WriteBuffer(<<a, b>>, n, nextRecvSeq)
      BY <1>2, <2>4 DEF WriteAfterSend, a, b
    <3>2. LastSend(Record \o <<a, b>>) = n /\ LastRecv(Record \o <<a, b>>) = nextRecvSeq
      BY <1>0, <1>2, <2>1, <2>2, <2>4, TwoLines DEF Recoverable, WriteAfterSend
    <3>3. /\ <<a, b>> \in Seq(Lines) /\ n \in Nat \ {0} /\ nextRecvSeq \in Nat \ {0}
          /\ sending' \in Nat /\ onLine' \subseteq Nat /\ disk' = disk /\ up' = up
      BY <1>2, <2>1, <2>4, ShortSeq DEF WriteAfterSend, RecorderTypeOK
    <3> HIDE DEF RecorderIInv
    <3> QED
      BY <3>1, <3>2, <3>3, CallKeepsIInv
  <2> QED
    BY <2>3, <2>4
<1>3. ASSUME NEW n \in Seqs, ResetNextSendSeq(n) PROVE RecorderIInv'
  <2> DEFINE a == Line("RST", n, 0)
  <2>1. a \in Lines /\ <<a>> \in Seq(Lines) /\ n \in Nat \ {0}
    BY RecorderAssumption DEF Line, Lines, Seqs
  <2>2. \A v : AfterSend(v, a) = n /\ AfterRecv(v, a) = v
    BY <2>1 DEF Line, AfterSend, AfterRecv, GivesSend, GivesRecv, SendOf, RecvOf
  <2> HIDE DEF a
  <2>3. LastSend(Record \o <<a>>) = n /\ LastRecv(Record \o <<a>>) = nextRecvSeq
    BY <1>0, <1>3, <2>1, <2>2, OneLine DEF Recoverable, ResetNextSendSeq, Unlocked
  <2>4. WriteBuffer(<<a>>, n, nextRecvSeq)
    BY <1>3 DEF ResetNextSendSeq, a
  <2> QED
    BY <1>3, <2>1, <2>3, <2>4, ShortSeq, CallKeepsIInv DEF ResetNextSendSeq, Unlocked, RecorderTypeOK
<1>4. CASE WriteInputConform
  <2> DEFINE a == Line("R", 0, nextRecvSeq)
  <2>1. a \in Lines
    BY DEF Line, Lines, RecorderTypeOK
  <2>2. \A v : AfterSend(v, a) = v /\ AfterRecv(v, a) = nextRecvSeq + 1
    BY DEF Line, AfterSend, AfterRecv, GivesSend, GivesRecv, SendOf, RecvOf
  <2> HIDE DEF a
  <2>3. LastSend(Record \o <<a>>) = nextSendSeq /\ LastRecv(Record \o <<a>>) = nextRecvSeq + 1
    BY <1>0, <1>4, <2>1, <2>2, OneLine DEF Recoverable, WriteInputConform, Unlocked
  <2>4. WriteBuffer(<<a>>, nextSendSeq, nextRecvSeq + 1)
    BY <1>4 DEF WriteInputConform, a
  <2>5. /\ <<a>> \in Seq(Lines) /\ nextSendSeq \in Nat \ {0} /\ nextRecvSeq + 1 \in Nat \ {0}
        /\ sending' \in Nat /\ onLine' \subseteq Nat /\ disk' = disk /\ up' = up
    BY <1>4, <2>1, ShortSeq DEF WriteInputConform, RecorderTypeOK
  <2> HIDE DEF RecorderIInv
  <2> QED
    BY <2>3, <2>4, <2>5, CallKeepsIInv
<1>5. ASSUME NEW n \in Seqs, NEW m \in Seqs, NEW g \in BOOLEAN, WriteInputSeqReset(n, m, g)
      PROVE  RecorderIInv'
  <2> DEFINE a == Line("R", 0, n)
             b == Line(IF g THEN "IDX" ELSE "RST", 0, m)
  <2>1. a \in Lines /\ b \in Lines /\ m \in Nat \ {0}
    BY RecorderAssumption DEF Line, Lines, Seqs
  <2>2. \A v : /\ AfterSend(v, a) = v /\ AfterSend(v, b) = v
               /\ AfterRecv(v, b) = m
    BY <2>1 DEF Line, AfterSend, AfterRecv, GivesSend, GivesRecv, SendOf, RecvOf
  <2> HIDE DEF a, b
  <2>3. LastSend(Record \o <<a, b>>) = nextSendSeq /\ LastRecv(Record \o <<a, b>>) = m
    BY <1>0, <1>5, <2>1, <2>2, TwoLines DEF Recoverable, WriteInputSeqReset, Unlocked
  <2>4. WriteBuffer(<<a, b>>, nextSendSeq, m)
    BY <1>5 DEF WriteInputSeqReset, a, b
  <2> QED
    BY <1>5, <2>1, <2>3, <2>4, ShortSeq, CallKeepsIInv DEF WriteInputSeqReset, Unlocked, RecorderTypeOK
<1>6. ASSUME NEW n \in Seqs, ForceResetRecvSeq(n) PROVE RecorderIInv'
  <2> DEFINE a == Line("other", 0, 0)
             b == Line("RST", 0, n)
  <2>1. a \in Lines /\ b \in Lines /\ n \in Nat \ {0}
    BY RecorderAssumption DEF Line, Lines, Seqs
  <2>2. \A v : /\ AfterSend(v, a) = v /\ AfterSend(v, b) = v
               /\ AfterRecv(v, b) = n
    BY <2>1 DEF Line, AfterSend, AfterRecv, GivesSend, GivesRecv, SendOf, RecvOf
  <2> HIDE DEF a, b
  <2>3. LastSend(Record \o <<a, b>>) = nextSendSeq /\ LastRecv(Record \o <<a, b>>) = n
    BY <1>0, <1>6, <2>1, <2>2, TwoLines DEF Recoverable, ForceResetRecvSeq, Unlocked
  <2>4. WriteBuffer(<<a, b>>, nextSendSeq, n)
    BY <1>6 DEF ForceResetRecvSeq, a, b
  <2> QED
    BY <1>6, <2>1, <2>3, <2>4, ShortSeq, CallKeepsIInv DEF ForceResetRecvSeq, Unlocked, RecorderTypeOK
<1> DEFINE o == Line("other", 0, 0)
<1>7. o \in Lines /\ \A v : AfterSend(v, o) = v /\ AfterRecv(v, o) = v
  BY DEF Line, Lines, AfterSend, AfterRecv, GivesSend, GivesRecv
<1>8. CASE Write
  <2>1. LastSend(Record \o <<o>>) = nextSendSeq /\ LastRecv(Record \o <<o>>) = nextRecvSeq
    BY <1>0, <1>7, <1>8, OneLine DEF Recoverable, Write, Unlocked
  <2>2. WriteBuffer(<<o>>, nextSendSeq, nextRecvSeq)
    BY <1>8 DEF Write
  <2> HIDE DEF o
  <2> QED
    BY <1>7, <1>8, <2>1, <2>2, ShortSeq, CallKeepsIInv DEF Write, Unlocked, RecorderTypeOK
<1>9. CASE ConsumeAppendBuffer
  <2>1. disk' \in Seq(Lines) /\ queue' \in Seq(Lines) /\ Record' = Record
    <3>1. PICK l \in Lines, rest \in Seq(Lines) : queue = <<l>> \o rest
                                              /\ Head(queue) = l /\ Tail(queue) = rest
      <4>1. Head(queue) \in Lines /\ Tail(queue) \in Seq(Lines) /\ queue = <<Head(queue)>> \o Tail(queue)
        BY <1>0, <1>9, HeadTailProperties DEF ConsumeAppendBuffer
      <4> QED
        BY <4>1
    <3>2. disk' = disk \o <<l>> /\ queue' = rest /\ <<l>> \in Seq(Lines)
      BY <1>0, <1>9, <3>1 DEF ConsumeAppendBuffer
    <3>3. disk \o (<<l>> \o rest) = (disk \o <<l>>) \o rest
      BY SMTT(30), <1>0, <3>1, <3>2, ConcatAssociative
    <3> QED
      BY <1>0, <3>1, <3>2, <3>3 DEF Record
  <2> QED
    BY <1>9, <2>1 DEF ConsumeAppendBuffer, RecorderTypeOK, Recoverable
<1>10. CASE Crash
  <2>1. /\ up' = FALSE /\ queue' = <<>> /\ sending' = 0
        /\ UNCHANGED <<disk, nextSendSeq, nextRecvSeq, onLine>>
    BY <1>10 DEF Crash
  <2>2. disk' \in Seq(Lines) /\ queue' \in Seq(Lines)
    BY <1>0, <2>1
  <2>3. up' \in BOOLEAN
    BY <2>1, Zenon
  <2>4. /\ sending' \in Nat /\ onLine' \subseteq Nat
        /\ nextSendSeq' \in Nat \ {0} /\ nextRecvSeq' \in Nat \ {0}
    BY <2>1 DEF RecorderTypeOK
  <2> QED
    BY <2>1, <2>2, <2>3, <2>4 DEF RecorderTypeOK, Recoverable
<1>11. CASE Initialize
  <2>1. Record' = disk \o <<o>> /\ queue' \in Seq(Lines)
    BY <1>7, <1>11 DEF Initialize, Record
  <2>2. LastSend(Record') = LastSend(disk) /\ LastRecv(Record') = LastRecv(disk)
    BY <1>0, <1>7, <2>1, OneLine
  <2> QED
    BY <1>0, <1>11, <2>1, <2>2, FoundIsPositive DEF Initialize, RecorderTypeOK, Recoverable
<1>12. CASE UNCHANGED recorderVars
  <2>1. Record' = Record
    BY <1>12 DEF recorderVars, Record
  <2> QED
    BY <1>12, <2>1 DEF recorderVars, RecorderTypeOK, Recoverable
<1> QED
  BY <1>1, <1>2, <1>3, <1>4, <1>5, <1>6, <1>8, <1>9, <1>10, <1>11, <1>12 DEF RecorderNext

(* The first process starts with both numbers at 1. *)
LEMMA InitRecorderIInv == RecorderInit => RecorderIInv
<1> SUFFICES ASSUME RecorderInit PROVE RecorderIInv
  OBVIOUS
<1> DEFINE o == Line("other", 0, 0)
<1>1. o \in Lines /\ \A v : AfterSend(v, o) = v /\ AfterRecv(v, o) = v
  BY DEF Line, Lines, AfterSend, AfterRecv, GivesSend, GivesRecv
<1>2. queue = <<o>> /\ disk = <<>> /\ nextSendSeq = 1 /\ nextRecvSeq = 1
  BY DEF RecorderInit
<1> HIDE DEF o
<1>3. disk \in Seq(Lines) /\ queue \in Seq(Lines)
  BY <1>1, <1>2, ShortSeq
<1>4. LastSend(disk) = 1 /\ LastRecv(disk) = 1
  BY <1>2 DEF LastSend, LastRecv
<1>5. LastSend(Record) = 1 /\ LastRecv(Record) = 1
  BY <1>1, <1>2, <1>3, <1>4, OneLine DEF Record
<1> QED
  BY <1>2, <1>3, <1>5 DEF RecorderInit, RecorderIInv, RecorderTypeOK, Recoverable

(* The numbers in memory are the ones a restart would find, whatever was sent,
   received, filled or reset and wherever the IDX lines fell. *)
THEOREM NumbersRecoverable == RecorderSpec => []Recoverable
<1>1. RecorderInit => RecorderIInv
  BY InitRecorderIInv
<1>2. RecorderIInv => Recoverable
  BY DEF RecorderIInv
<1> QED
  BY <1>1, <1>2, StepKeepsIInv, PTL DEF RecorderSpec

(* The types of the state, for every run. *)
THEOREM RecorderTypeCorrect == RecorderSpec => []RecorderTypeOK
<1>1. RecorderInit => RecorderIInv
  BY InitRecorderIInv
<1>2. RecorderIInv => RecorderTypeOK
  BY DEF RecorderIInv
<1> QED
  BY <1>1, <1>2, StepKeepsIInv, PTL DEF RecorderSpec

-----------------------------------------------------------------------------
(***************************************************************************)
(* FixReplay: from the first message of a replay on, the line has neither  *)
(* a gap nor an overlap, for any number of messages, of replays and of     *)
(* resets of the number, however the senders interleave with the thread    *)
(* that replays.                                                           *)
(*                                                                         *)
(* The record is in the order of its numbers between two resets (Ordered). *)
(* So the reader, which stands behind the last reset unless one was made   *)
(* while it reads (ReadsOn), finds no number below the one it has reached, *)
(* and what it has rebuilt joins what the line had when it began           *)
(* (Rebuilt).                                                              *)
(***************************************************************************)

(* Records i to j-1 hold no RST line. *)
NoResetIn(i, j) == \A k \in i .. j - 1 : file[k].type # "Reset"

(* The numbers grow from reset to reset, up to the next one to send. *)
Ordered ==
  /\ \A i, j \in DOMAIN file : i < j /\ NoResetIn(i, j) => file[i].seq < file[j].seq
  /\ \A i \in DOMAIN file : NoResetIn(i, Len(file) + 1) => file[i].seq < nextSend

(* The reader is behind the last reset, and has not passed the number it
   will look for next, unless a reset was made under way. *)
ReadsOn ==
  pc = "reading" /\ ~hidden =>
    pos \in DOMAIN file /\ NoResetIn(pos, Len(file) + 1) /\ begin <= file[pos].seq + 1

(* What was rebuilt so far, behind what the line has, joins from the number
   the peer asked for to BeginSeqNo_. *)
Rebuilt ==
  /\ pc # "idle" => from.len = Len(line) /\ replays > 0
  /\ pc = "start" => sendBuf = <<>> /\ begin = from.seq
  /\ pc \in {"reading", "end"} /\ ~hidden =>
       Joined(line \o sendBuf) /\ ExpectedAt(line \o sendBuf, Len(line \o sendBuf) + 1) = begin

IInv == TypeOK /\ Ordered /\ ReadsOn /\ Rebuilt /\ NoGapOnTheLine

-----------------------------------------------------------------------------
(* Smallest and greatest of a set of numbers. *)

LEMMA SomeMin ==
  ASSUME NEW S \in SUBSET Nat, S # {}
  PROVE  Min(S) \in S /\ \A y \in S : Min(S) <= y
<1>1. PICK x \in S : \A y \in S : ~(<<y, x>> \in OpToRel(<, Nat))
  BY WFMin, NatLessThanWellFounded
<1>2. \A y \in S : ~(y < x)
  BY <1>1 DEF OpToRel
<1>3. \A y \in S : x <= y
  BY <1>2
<1> QED
  BY <1>3 DEF Min

LEMMA SomeMax ==
  ASSUME NEW n \in Nat, NEW S \in SUBSET (1..n), S # {}
  PROVE  Max(S) \in S /\ \A y \in S : y <= Max(S)
<1> DEFINE T == {n - i : i \in S}
<1>0. \A i \in S : i \in Int /\ n - i \in Nat
  OBVIOUS
<1>1. T \in SUBSET Nat /\ T # {}
  BY <1>0
<1>2. PICK x \in T : \A y \in T : x <= y
  BY <1>1, SomeMin
<1>3. PICK m \in S : x = n - m
  OBVIOUS
<1>4. \A y \in S : n - y \in T
  OBVIOUS
<1> HIDE DEF T
<1>5. \A y \in S : n - m <= n - y
  BY <1>2, <1>3, <1>4
<1>6. \A y \in S : y <= m
  BY <1>0, <1>5
<1>7. \A y \in S : m >= y
  BY <1>0, <1>6
<1> QED
  BY <1>0, <1>7 DEF Max

-----------------------------------------------------------------------------
LEMMA RecordTypes ==
  ASSUME TypeOK
  PROVE  \A i \in DOMAIN file : /\ file[i].type \in Types /\ file[i].seq \in Numbers
                               /\ file[i].seq \in Nat /\ file[i].seq + 1 \in Numbers
<1> DEFINE Records == [type : Types, seq : Numbers]
<1>1. file \in Seq(Records)
  BY DEF TypeOK
<1>2. \A i \in DOMAIN file : file[i] \in Records
  <2> HIDE DEF Records
  <2> QED
    BY <1>1
<1>3. \A k \in Numbers : k \in Nat /\ k + 1 \in Numbers
  BY DEF Numbers
<1> QED
  BY <1>2, <1>3

(* What is found is behind the last reset. *)
LEMMA FirstFound ==
  ASSUME TypeOK, NEW b \in Numbers, Found(b) # {}
  PROVE  /\ Min(Found(b)) \in DOMAIN file /\ b <= file[Min(Found(b))].seq
         /\ NoResetIn(Min(Found(b)), Len(file) + 1)
<1> DEFINE resets == {i \in DOMAIN file : file[i].type = "Reset"}
           after  == IF resets = {} THEN 0 ELSE Max(resets)
<1>1. DOMAIN file = 1 .. Len(file) /\ Len(file) \in Nat
  BY DEF TypeOK
<1>2. after \in Nat /\ \A i \in resets : i <= after
  <2>1. CASE resets = {}
    BY <2>1
  <2>2. CASE resets # {}
    <3>1. resets \in SUBSET (1 .. Len(file))
      BY <1>1
    <3>2. Max(resets) \in resets /\ \A i \in resets : i <= Max(resets)
      BY <1>1, <2>2, <3>1, SomeMax
    <3> QED
      BY <1>1, <2>2, <3>2
  <2> QED
    BY <2>1, <2>2
<1>3. Found(b) = {i \in DOMAIN file : i > after /\ file[i].seq >= b}
  BY DEF Found
<1>4. Min(Found(b)) \in Found(b)
  <2>1. Found(b) \in SUBSET Nat
    BY <1>1, <1>3
  <2> QED
    BY <2>1, SomeMin
<1> HIDE DEF after
<1>5. PICK m \in DOMAIN file : m = Min(Found(b)) /\ m > after /\ file[m].seq >= b
  BY <1>3, <1>4
<1>6. b <= file[m].seq
  BY <1>5 DEF TypeOK, Numbers
<1>7. NoResetIn(m, Len(file) + 1)
  <2> SUFFICES ASSUME NEW k \in m .. Len(file), file[k].type = "Reset" PROVE FALSE
    BY <1>1 DEF NoResetIn
  <2>1. k \in resets
    BY <1>1, <1>5
  <2> QED
    BY <1>1, <1>2, <1>5, <2>1
<1> QED
  BY <1>5, <1>6, <1>7

(* A message that has the number the peer expects, or resets it, joins. *)
LEMMA JoinOne ==
  ASSUME NEW msgs \in Seq(Messages), NEW m \in Messages, from \in [seq : Numbers, len : 0..Len(msgs)],
         Joined(msgs), m.type = "Reset" \/ m.seq = ExpectedAt(msgs, Len(msgs) + 1)
  PROVE  /\ Append(msgs, m) \in Seq(Messages) /\ Joined(Append(msgs, m))
         /\ ExpectedAt(Append(msgs, m), Len(Append(msgs, m)) + 1) = m.next
<1> DEFINE all == Append(msgs, m)
<1>1. /\ all \in Seq(Messages) /\ Len(all) = Len(msgs) + 1 /\ all[Len(all)] = m
      /\ \A i \in 1 .. Len(msgs) : all[i] = msgs[i]
  OBVIOUS
<1>2. from.len \in 0 .. Len(msgs) /\ Len(msgs) \in Nat
  OBVIOUS
<1>3. \A i \in from.len + 1 .. Len(msgs) + 1 : ExpectedAt(all, i) = ExpectedAt(msgs, i)
  BY <1>1, <1>2 DEF ExpectedAt
<1>4. ExpectedAt(all, Len(all) + 1) = m.next
  BY <1>1, <1>2 DEF ExpectedAt
<1>5. Joined(all)
  <2> SUFFICES ASSUME NEW i \in from.len + 1 .. Len(all)
               PROVE  all[i].type = "Reset" \/ all[i].seq = ExpectedAt(all, i)
    BY DEF Joined
  <2>1. CASE i = Len(all)
    BY <1>1, <1>2, <1>3, <2>1
  <2>2. CASE i # Len(all)
    BY <1>1, <1>2, <1>3, <2>2 DEF Joined
  <2> QED
    BY <2>1, <2>2
<1> QED
  BY <1>1, <1>4, <1>5

-----------------------------------------------------------------------------
(* The record grows. *)
LEMMA OrderedGrows ==
  ASSUME TypeOK, Ordered, NEW type \in Types, NEW next \in Numbers, type = "Reset" \/ next = nextSend + 1,
         file' = Append(file, [type |-> type, seq |-> nextSend]), nextSend' = next
  PROVE  Ordered'
<1> DEFINE n == Len(file)
<1>1. n \in Nat /\ DOMAIN file = 1 .. n /\ DOMAIN file' = 1 .. n + 1 /\ Len(file') = n + 1
  BY DEF TypeOK
<1>2. /\ \A i \in 1 .. n : file'[i] = file[i]
      /\ file'[n + 1] = [type |-> type, seq |-> nextSend]
  BY DEF TypeOK
<1>3. nextSend \in Nat /\ next \in Nat /\ \A i \in 1 .. n : file[i].seq \in Nat
  BY <1>1, RecordTypes DEF TypeOK, Numbers
<1>4. \A i \in 1 .. n, j \in 1 .. n + 1 : NoResetIn(i, j)' => NoResetIn(i, j)
  <2> SUFFICES ASSUME NEW i \in 1 .. n, NEW j \in 1 .. n + 1, NoResetIn(i, j)', NEW k \in i .. j - 1
               PROVE  file[k].type # "Reset"
    BY DEF NoResetIn
  <2>1. k \in 1 .. n
    BY <1>1
  <2> QED
    BY <1>2, <2>1 DEF NoResetIn
<1>5. \A i \in DOMAIN file' : NoResetIn(i, Len(file) + 1)' => file'[i].seq < nextSend'
  <2> SUFFICES ASSUME NEW i \in 1 .. n + 1, \A k \in i .. n + 1 : file'[k].type # "Reset"
               PROVE  file'[i].seq < nextSend'
    BY <1>1 DEF NoResetIn
  <2>1. nextSend' = nextSend + 1
    BY <1>1, <1>2
  <2>2. CASE i = n + 1
    BY <1>2, <1>3, <2>1, <2>2
  <2>3. CASE i # n + 1
    <3>1. i \in 1 .. n /\ NoResetIn(i, n + 1)
      BY <1>1, <1>2, <2>3 DEF NoResetIn
    <3> QED
      BY <1>1, <1>2, <1>3, <2>1, <3>1 DEF Ordered
  <2> QED
    BY <2>2, <2>3
<1>6. \A i, j \in DOMAIN file' : i < j /\ NoResetIn(i, j)' => file'[i].seq < file'[j].seq
  <2> SUFFICES ASSUME NEW i \in 1 .. n + 1, NEW j \in 1 .. n + 1, i < j, NoResetIn(i, j)'
               PROVE  file'[i].seq < file'[j].seq
    BY <1>1
  <2>1. i \in 1 .. n /\ NoResetIn(i, j)
    BY <1>1, <1>4
  <2>2. CASE j = n + 1
    BY <1>1, <1>2, <2>1, <2>2 DEF Ordered
  <2>3. CASE j # n + 1
    <3>1. j \in 1 .. n
      BY <1>1, <2>3
    <3> QED
      BY <1>1, <1>2, <2>1, <3>1 DEF Ordered
  <2> QED
    BY <2>2, <2>3
<1> QED
  BY <1>5, <1>6 DEF Ordered

(* FixSender::Send by any thread. *)
LEMMA SendInv ==
  ASSUME IInv, NEW type \in Types, NEW next \in Numbers, type = "Reset" \/ next = nextSend + 1,
         Send(type, next)
  PROVE  IInv'
<1> USE DEF IInv
<1> DEFINE m == Sent(type, nextSend, next)
<1>1. /\ file' = Append(file, [type |-> type, seq |-> nextSend]) /\ nextSend' = next
      /\ line' = IF isReplayingAll THEN line ELSE Append(line, m)
      /\ hidden' = (hidden \/ (isReplayingAll /\ type = "Reset"))
      /\ isReplayingAll' = isReplayingAll /\ pc' = pc /\ begin' = begin /\ pos' = pos
      /\ sendBuf' = sendBuf /\ from' = from /\ replays' = replays
  BY DEF Send
<1>2. m \in Messages
  BY DEF Sent, Messages, TypeOK
<1>3. /\ Len(file) \in Nat /\ DOMAIN file = 1 .. Len(file) /\ Len(file') = Len(file) + 1
      /\ DOMAIN file' = 1 .. Len(file) + 1 /\ \A i \in DOMAIN file : file'[i] = file[i]
      /\ file'[Len(file) + 1] = [type |-> type, seq |-> nextSend]
  BY <1>1 DEF TypeOK
<1>4. TypeOK'
  <2>1. file' \in Seq([type : Types, seq : Numbers])
    BY <1>1 DEF TypeOK
  <2>2. line' \in Seq(Messages) /\ Len(line') \in Nat /\ Len(line) <= Len(line')
    BY <1>1, <1>2 DEF TypeOK
  <2>3. from' \in [seq : Numbers, len : 0 .. Len(line')]
    BY <1>1, <2>2 DEF TypeOK
  <2>4. pos' \in 0 .. Len(file')
    BY <1>1, <1>3 DEF TypeOK
  <2>5. hidden' \in BOOLEAN
    BY <1>1 DEF TypeOK
  <2> QED
    BY <1>1, <2>1, <2>2, <2>3, <2>4, <2>5 DEF TypeOK
<1>5. Ordered'
  BY <1>1, OrderedGrows
<1>6. ReadsOn'
  <2> SUFFICES ASSUME pc = "reading", ~hidden, ~(isReplayingAll /\ type = "Reset")
               PROVE  /\ pos \in DOMAIN file' /\ NoResetIn(pos, Len(file) + 1)'
                      /\ begin <= file'[pos].seq + 1
    BY <1>1 DEF ReadsOn
  <2>1. isReplayingAll /\ type # "Reset"
    BY DEF TypeOK
  <2>2. pos \in DOMAIN file /\ NoResetIn(pos, Len(file) + 1) /\ begin <= file[pos].seq + 1
    BY DEF ReadsOn
  <2>3. NoResetIn(pos, Len(file) + 1)'
    BY <1>1, <1>3, <2>1, <2>2 DEF NoResetIn
  <2> QED
    BY <1>3, <2>2, <2>3
<1>7. Rebuilt'
  <2>1. CASE pc = "idle"
    BY <1>1, <2>1 DEF Rebuilt
  <2>2. CASE pc # "idle"
    <3>1. line' = line
      BY <1>1, <2>2 DEF TypeOK
    <3> QED
      BY <1>1, <3>1 DEF Rebuilt, Joined, ExpectedAt
  <2> QED
    BY <2>1, <2>2
<1>8. NoGapOnTheLine'
  <2> SUFFICES ASSUME ~hidden, ~isReplayingAll, replays > 0
               PROVE  Joined(line)' /\ ExpectedAt(line, Len(line) + 1)' = next
    BY <1>1 DEF NoGapOnTheLine, LineComplete
  <2>1. Joined(line) /\ ExpectedAt(line, Len(line) + 1) = nextSend
    BY DEF NoGapOnTheLine, LineComplete
  <2>2. m.seq = nextSend /\ m.next = next
    BY DEF Sent
  <2>3. line \in Seq(Messages) /\ from \in [seq : Numbers, len : 0 .. Len(line)]
    BY DEF TypeOK
  <2>4. line' = Append(line, m)
    BY <1>1
  <2> HIDE DEF m
  <2>5. /\ Joined(Append(line, m))
        /\ ExpectedAt(Append(line, m), Len(Append(line, m)) + 1) = m.next
    BY <1>2, <2>1, <2>2, <2>3, JoinOne
  <2> QED
    BY <1>1, <2>2, <2>4, <2>5 DEF Joined, ExpectedAt
<1> QED
  BY <1>4, <1>5, <1>6, <1>7, <1>8

-----------------------------------------------------------------------------
(* The replaying thread begins: nothing is rebuilt. *)
LEMMA ReplayStartInv ==
  ASSUME IInv, NEW b \in 1 .. nextSend, ReplayStart(b)
  PROVE  IInv'
<1> USE DEF IInv
<1>1. b \in Numbers /\ Len(line) \in Nat
  BY DEF TypeOK, Numbers
<1>2. /\ isReplayingAll' = TRUE /\ pc' = "start" /\ begin' = b /\ sendBuf' = <<>> /\ hidden' = FALSE
      /\ from' = [seq |-> b, len |-> Len(line)] /\ replays' = replays + 1
      /\ file' = file /\ nextSend' = nextSend /\ line' = line /\ pos' = pos
  BY DEF ReplayStart
<1>3. TypeOK'
  <2>1. from' \in [seq : Numbers, len : 0 .. Len(line')]
    BY <1>1, <1>2
  <2>2. sendBuf' \in Seq(Messages) /\ replays' \in Nat
    BY <1>2 DEF TypeOK
  <2> QED
    BY <1>1, <1>2, <2>1, <2>2 DEF TypeOK
<1>4. Ordered'
  BY <1>2 DEF Ordered, NoResetIn
<1>5. ReadsOn' /\ Rebuilt' /\ NoGapOnTheLine'
  BY <1>1, <1>2 DEF ReadsOn, Rebuilt, NoGapOnTheLine, LineComplete, TypeOK
<1> QED
  BY <1>3, <1>4, <1>5

(* Appending behind a concatenation. *)
LEMMA AppendBehind ==
  ASSUME NEW S, NEW a \in Seq(S), NEW b \in Seq(S), NEW x \in S
  PROVE  /\ b \o <<x>> \in Seq(S) /\ b \o <<>> = b
         /\ a \o (b \o <<x>>) = Append(a \o b, x)
<1>1. <<x>> \in Seq(S) /\ a \o b \in Seq(S)
  OBVIOUS
<1>2. a \o (b \o <<x>>) = (a \o b) \o <<x>>
  BY <1>1, ConcatAssociative
<1>3. Append(a \o b, x) = (a \o b) \o <<x>>
  BY <1>1, AppendIsConcat
<1> QED
  BY <1>1, <1>2, <1>3

(* One record is rebuilt, or left out: what is rebuilt joins. *)
LEMMA ReloadJoins ==
  ASSUME TypeOK, NEW i \in DOMAIN file, Reload(i), from' = from, line' = line, file' = file,
         begin <= file[i].seq,
         Joined(line \o sendBuf), ExpectedAt(line \o sendBuf, Len(line \o sendBuf) + 1) = begin
  PROVE  /\ sendBuf' \in Seq(Messages) /\ begin' \in Numbers /\ begin' <= file[i].seq + 1
         /\ Joined(line \o sendBuf)'
         /\ ExpectedAt(line \o sendBuf, Len(line \o sendBuf) + 1)' = begin'
<1> DEFINE x == file[i]
           all == line \o sendBuf
           fill == Sent("GapFill", begin, x.seq)
           report == Sent("Report", x.seq, x.seq + 1)
<1>1. x.seq \in Numbers /\ x.seq + 1 \in Numbers /\ begin \in Numbers /\ x.type \in Types
  BY RecordTypes DEF TypeOK
<1>2. line \in Seq(Messages) /\ sendBuf \in Seq(Messages)
  BY DEF TypeOK
<1>3. all \in Seq(Messages) /\ Len(all) = Len(line) + Len(sendBuf)
  BY <1>2
<1>4. fill \in Messages /\ report \in Messages
  BY <1>1 DEF Sent, Messages, Types
<1>5. from \in [seq : Numbers, len : 0 .. Len(all)]
  BY <1>2, <1>3 DEF TypeOK
<1>6. fill.seq = begin /\ fill.next = x.seq /\ report.seq = x.seq /\ report.next = x.seq + 1
  BY DEF Sent
<1>7. (line \o sendBuf)' = line \o sendBuf'
  OBVIOUS
<1>8. CASE x.type # "Report"
  <2>1. begin' = begin /\ sendBuf' = sendBuf
    BY <1>8 DEF Reload
  <2>2. begin <= x.seq + 1
    BY <1>1 DEF Numbers
  <2> QED
    BY <1>1, <1>2, <2>1, <2>2 DEF Joined, ExpectedAt
<1>9. CASE x.type = "Report" /\ begin < x.seq
  <2>1. begin' = x.seq + 1 /\ sendBuf' = sendBuf \o <<fill>> \o <<report>>
    BY <1>9 DEF Reload
  <2>2. /\ sendBuf' \in Seq(Messages)
        /\ line \o sendBuf' = Append(Append(all, fill), report)
    <3> HIDE DEF fill, report
    <3>1. /\ sendBuf \o <<fill>> \in Seq(Messages)
          /\ line \o (sendBuf \o <<fill>>) = Append(all, fill)
      BY <1>2, <1>4, AppendBehind
    <3> DEFINE mid == sendBuf \o <<fill>>
    <3>2. sendBuf' = mid \o <<report>>
      BY <2>1
    <3>3. mid \in Seq(Messages) /\ line \o mid = Append(all, fill)
      BY <3>1
    <3> HIDE DEF mid, all, fill, report
    <3>0. mid \in Seq(Messages) /\ line \in Seq(Messages) /\ report \in Messages
      BY <1>2, <1>4, <3>3
    <3>4. /\ mid \o <<report>> \in Seq(Messages)
          /\ line \o (mid \o <<report>>) = Append(line \o mid, report)
      BY ONLY <3>0, AppendBehind
    <3> QED
      BY ONLY <3>2, <3>3, <3>4
  <2> DEFINE one == Append(all, fill)
  <2>3. one \in Seq(Messages) /\ Joined(one) /\ ExpectedAt(one, Len(one) + 1) = x.seq
    <3> HIDE DEF all, fill
    <3> QED
      BY <1>3, <1>4, <1>5, <1>6, JoinOne DEF all
  <2>4. from \in [seq : Numbers, len : 0 .. Len(one)]
    BY <1>3, <1>5
  <2>5. Joined(Append(one, report)) /\ ExpectedAt(Append(one, report), Len(Append(one, report)) + 1) = x.seq + 1
    <3> HIDE DEF one, report
    <3> QED
      BY <1>4, <1>6, <2>3, <2>4, JoinOne
  <2> HIDE DEF report, fill, all
  <2>6. Joined(line \o sendBuf)' /\ ExpectedAt(line \o sendBuf, Len(line \o sendBuf) + 1)' = x.seq + 1
    BY <1>7, <2>2, <2>5 DEF Joined, ExpectedAt
  <2>7. x.seq + 1 <= x.seq + 1
    BY <1>1 DEF Numbers
  <2> QED
    BY <1>1, <2>1, <2>2, <2>6, <2>7
<1>10. CASE x.type = "Report" /\ ~(begin < x.seq)
  <2>1. begin' = x.seq + 1 /\ sendBuf' = sendBuf \o <<>> \o <<report>>
    BY <1>10 DEF Reload
  <2>2. sendBuf' \in Seq(Messages) /\ line \o sendBuf' = Append(all, report)
    <3> HIDE DEF report
    <3>1. sendBuf \o <<>> = sendBuf
      BY <1>2
    <3> QED
      BY <1>2, <1>4, <2>1, <3>1, AppendBehind
  <2>3. begin = x.seq
    BY <1>1, <1>10 DEF Numbers
  <2>4. Joined(Append(all, report)) /\ ExpectedAt(Append(all, report), Len(Append(all, report)) + 1) = x.seq + 1
    <3> HIDE DEF all, report
    <3> QED
      BY <1>3, <1>4, <1>5, <1>6, <2>3, JoinOne DEF all
  <2> HIDE DEF report, all
  <2>5. Joined(line \o sendBuf)' /\ ExpectedAt(line \o sendBuf, Len(line \o sendBuf) + 1)' = x.seq + 1
    BY <1>7, <2>2, <2>4 DEF Joined, ExpectedAt
  <2>6. x.seq + 1 <= x.seq + 1
    BY <1>1 DEF Numbers
  <2> QED
    BY <1>1, <2>1, <2>2, <2>5, <2>6
<1> QED
  BY <1>8, <1>9, <1>10

(* One record of the replay, at its beginning or later. *)
LEMMA ReloadInv ==
  ASSUME IInv, NEW i \in DOMAIN file, Reload(i), pc' = "reading",
         UNCHANGED <<file, nextSend, isReplayingAll, line, from, hidden, replays>>, isReplayingAll,
         ~hidden => /\ NoResetIn(i, Len(file) + 1) /\ begin <= file[i].seq
                    /\ Joined(line \o sendBuf)
                    /\ ExpectedAt(line \o sendBuf, Len(line \o sendBuf) + 1) = begin
  PROVE  IInv'
<1> USE DEF IInv
<1>1. /\ sendBuf' \in Seq(Messages) /\ begin' \in Numbers /\ pos' = i
  <2> DEFINE x == file[i]
  <2>1. /\ x.seq \in Numbers /\ x.seq + 1 \in Numbers /\ begin \in Numbers /\ sendBuf \in Seq(Messages)
    BY RecordTypes DEF TypeOK
  <2>2. Sent("GapFill", begin, x.seq) \in Messages /\ Sent("Report", x.seq, x.seq + 1) \in Messages
    BY <2>1 DEF Sent, Messages, Types
  <2>3. pos' = i
    BY DEF Reload
  <2>4. CASE x.type # "Report"
    BY <2>1, <2>3, <2>4 DEF Reload
  <2>5. CASE x.type = "Report"
    <3> DEFINE fill == IF begin < x.seq THEN <<Sent("GapFill", begin, x.seq)>> ELSE <<>>
               report == <<Sent("Report", x.seq, x.seq + 1)>>
    <3>1. begin' = x.seq + 1 /\ sendBuf' = sendBuf \o fill \o report
      BY <2>5 DEF Reload
    <3>2. fill \in Seq(Messages) /\ report \in Seq(Messages)
      BY <2>2
    <3> HIDE DEF fill, report
    <3> QED
      BY <2>1, <2>3, <3>1, <3>2
  <2> QED
    BY <2>4, <2>5
<1>2. TypeOK'
  <2>1. pos' \in 0 .. Len(file')
    BY <1>1 DEF TypeOK
  <2> QED
    BY <1>1, <2>1 DEF TypeOK
<1>3. Ordered'
  BY DEF Ordered, NoResetIn
<1>4. ~hidden => /\ begin' <= file[i].seq + 1 /\ Joined(line \o sendBuf)'
                 /\ ExpectedAt(line \o sendBuf, Len(line \o sendBuf) + 1)' = begin'
  BY ReloadJoins
<1>5. ReadsOn'
  BY <1>1, <1>4 DEF ReadsOn, NoResetIn
<1>6. Rebuilt'
  <2>1. pc # "idle"
    BY DEF TypeOK
  <2> QED
    BY <1>4, <2>1 DEF Rebuilt
<1>7. NoGapOnTheLine'
  BY DEF NoGapOnTheLine, LineComplete
<1> QED
  BY <1>2, <1>3, <1>5, <1>6, <1>7

(* Nothing was rebuilt when the replay begins. *)
LEMMA NothingYet ==
  ASSUME IInv, pc = "start"
  PROVE  Joined(line \o sendBuf) /\ ExpectedAt(line \o sendBuf, Len(line \o sendBuf) + 1) = begin
<1>1. sendBuf = <<>> /\ begin = from.seq /\ from.len = Len(line) /\ line \in Seq(Messages)
  BY DEF IInv, Rebuilt, TypeOK
<1>2. line \o sendBuf = line /\ Len(line) \in Nat
  BY <1>1
<1> QED
  BY <1>1, <1>2 DEF Joined, ExpectedAt

LEMMA ReloadStartInv == IInv /\ ReloadStart => IInv'
<1> SUFFICES ASSUME IInv, ReloadStart PROVE IInv'
  OBVIOUS
<1> USE DEF IInv
<1>1. pc = "start" /\ UNCHANGED <<file, nextSend, isReplayingAll, line, from, hidden, replays>>
  BY DEF ReloadStart
<1>2. Joined(line \o sendBuf) /\ ExpectedAt(line \o sendBuf, Len(line \o sendBuf) + 1) = begin
  BY <1>1, NothingYet
<1>3. isReplayingAll /\ begin \in Numbers
  BY <1>1 DEF TypeOK
<1>4. CASE begin >= nextSend \/ Found(begin) = {}
  <2>1. pc' = "end" /\ UNCHANGED <<begin, pos, sendBuf>>
    BY <1>4 DEF ReloadStart
  <2>2. TypeOK'
    BY <1>1, <1>3, <2>1 DEF TypeOK
  <2>3. Ordered' /\ ReadsOn' /\ NoGapOnTheLine'
    BY <1>1, <1>3, <2>1 DEF Ordered, NoResetIn, ReadsOn, NoGapOnTheLine, LineComplete
  <2>4. Rebuilt'
    BY <1>1, <1>2, <2>1 DEF Rebuilt, Joined, ExpectedAt
  <2> QED
    BY <2>2, <2>3, <2>4
<1>5. CASE ~(begin >= nextSend \/ Found(begin) = {})
  <2> DEFINE i == Min(Found(begin))
  <2>1. pc' = "reading" /\ Reload(i)
    BY <1>5 DEF ReloadStart
  <2>2. i \in DOMAIN file /\ begin <= file[i].seq /\ NoResetIn(i, Len(file) + 1)
    BY <1>3, <1>5, FirstFound
  <2> HIDE DEF i
  <2> QED
    BY <1>1, <1>2, <1>3, <2>1, <2>2, ReloadInv
<1> QED
  BY <1>4, <1>5

LEMMA ReloadNextInv == IInv /\ ReloadNext => IInv'
<1> SUFFICES ASSUME IInv, ReloadNext PROVE IInv'
  OBVIOUS
<1> USE DEF IInv
<1>1. pc = "reading" /\ UNCHANGED <<file, nextSend, isReplayingAll, line, from, hidden, replays>>
  BY DEF ReloadNext
<1>2. isReplayingAll /\ begin \in Numbers
  BY <1>1 DEF TypeOK
<1>3. CASE pos = Len(file)
  <2>1. pc' = "end" /\ UNCHANGED <<begin, pos, sendBuf>>
    BY <1>3 DEF ReloadNext
  <2>2. TypeOK'
    BY <1>1, <1>2, <2>1 DEF TypeOK
  <2>3. Ordered' /\ ReadsOn' /\ NoGapOnTheLine'
    BY <1>1, <1>2, <2>1 DEF Ordered, NoResetIn, ReadsOn, NoGapOnTheLine, LineComplete
  <2>4. Rebuilt'
    BY <1>1, <2>1 DEF Rebuilt, Joined, ExpectedAt
  <2> QED
    BY <2>2, <2>3, <2>4
<1>4. CASE pos # Len(file)
  <2>1. pc' = "reading" /\ Reload(pos + 1)
    BY <1>4 DEF ReloadNext
  <2>2. /\ Len(file) \in Nat /\ DOMAIN file = 1 .. Len(file) /\ pos \in 0 .. Len(file)
    BY DEF TypeOK
  <2>3. pos + 1 \in DOMAIN file
    <3>1. \A n \in Nat : \A p \in 0 .. n : p # n => p + 1 \in 1 .. n
      OBVIOUS
    <3> QED
      BY <1>4, <2>2, <3>1
  <2>4. ASSUME ~hidden PROVE NoResetIn(pos + 1, Len(file) + 1) /\ begin <= file[pos + 1].seq
    <3>1. pos \in DOMAIN file /\ NoResetIn(pos, Len(file) + 1) /\ begin <= file[pos].seq + 1
      BY <1>1, <2>4 DEF ReadsOn
    <3>2. NoResetIn(pos + 1, Len(file) + 1) /\ NoResetIn(pos, pos + 1)
      BY <2>2, <2>3, <3>1 DEF NoResetIn
    <3>3. file[pos].seq < file[pos + 1].seq
      BY <2>2, <2>3, <3>1, <3>2 DEF Ordered
    <3>4. file[pos].seq \in Nat /\ file[pos + 1].seq \in Nat /\ begin \in Nat
      BY <1>2, <2>3, <3>1, RecordTypes DEF Numbers
    <3> QED
      BY <3>1, <3>2, <3>3, <3>4
  <2>5. ~hidden => /\ Joined(line \o sendBuf)
                   /\ ExpectedAt(line \o sendBuf, Len(line \o sendBuf) + 1) = begin
    BY <1>1 DEF Rebuilt
  <2> QED
    BY <1>1, <1>2, <2>1, <2>3, <2>4, <2>5, ReloadInv
<1> QED
  BY <1>3, <1>4

(* The replay goes out, and with it what takes the peer to the next number. *)
LEMMA ReplayEndInv == IInv /\ ReplayEnd => IInv'
<1> SUFFICES ASSUME IInv, ReplayEnd PROVE IInv'
  OBVIOUS
<1> USE DEF IInv
<1> DEFINE type == IF begin < nextSend THEN "GapFill" ELSE "Reset"
           m == Sent(type, begin, nextSend)
           last == IF begin = nextSend THEN <<>> ELSE <<m>>
           all == line \o sendBuf
<1>1. /\ pc = "end" /\ line' = line \o sendBuf \o last
      /\ isReplayingAll' = FALSE /\ pc' = "idle" /\ sendBuf' = <<>>
      /\ UNCHANGED <<file, nextSend, begin, pos, from, hidden, replays>>
  BY DEF ReplayEnd
<1>2. /\ line \in Seq(Messages) /\ sendBuf \in Seq(Messages) /\ begin \in Numbers /\ nextSend \in Numbers
      /\ from \in [seq : Numbers, len : 0 .. Len(line)]
  BY DEF TypeOK
<1>3. m \in Messages /\ m.type = type /\ m.seq = begin /\ m.next = nextSend
  BY <1>2 DEF Sent, Messages, Types
<1>4. all \in Seq(Messages) /\ Len(all) = Len(line) + Len(sendBuf) /\ line \o sendBuf = all
  BY <1>2
<1>5. from \in [seq : Numbers, len : 0 .. Len(all)]
  BY <1>2, <1>4
<1>6. line' = IF begin = nextSend THEN all ELSE Append(all, m)
  <2> HIDE DEF m
  <2>1. all \o <<>> = all
    BY <1>4
  <2>2. all \o <<m>> = Append(all, m)
    BY <1>3, <1>4, AppendIsConcat
  <2> QED
    BY <1>1, <2>1, <2>2
<1>7. TypeOK'
  <2>1. line' \in Seq(Messages) /\ Len(line') \in Nat /\ Len(line) <= Len(line')
    <3> HIDE DEF m
    <3> QED
      BY <1>2, <1>3, <1>4, <1>6
  <2>2. from' \in [seq : Numbers, len : 0 .. Len(line')]
    BY <1>1, <1>2, <2>1
  <2>3. sendBuf' \in Seq(Messages)
    BY <1>1
  <2> QED
    BY <1>1, <2>1, <2>2, <2>3 DEF TypeOK
<1>8. Ordered' /\ ReadsOn' /\ Rebuilt'
  BY <1>1 DEF Ordered, NoResetIn, ReadsOn, Rebuilt
<1>9. NoGapOnTheLine'
  <2> SUFFICES ASSUME ~hidden
               PROVE  Joined(line)' /\ ExpectedAt(line, Len(line) + 1)' = nextSend
    BY <1>1 DEF NoGapOnTheLine, LineComplete
  <2>1. Joined(all) /\ ExpectedAt(all, Len(all) + 1) = begin
    BY <1>1 DEF Rebuilt
  <2>2. CASE begin = nextSend
    <3> HIDE DEF all
    <3> QED
      BY <1>1, <1>6, <2>1, <2>2 DEF Joined, ExpectedAt
  <2>3. CASE begin # nextSend
    <3>1. /\ Joined(Append(all, m))
          /\ ExpectedAt(Append(all, m), Len(Append(all, m)) + 1) = nextSend
      <4> HIDE DEF all, m
      <4> QED
        BY <1>3, <1>4, <1>5, <2>1, JoinOne
    <3> HIDE DEF all, m
    <3> QED
      BY <1>1, <1>6, <2>3, <3>1 DEF Joined, ExpectedAt
  <2> QED
    BY <2>2, <2>3
<1> QED
  BY <1>7, <1>8, <1>9

-----------------------------------------------------------------------------
LEMMA InitInv == Init => IInv
<1> SUFFICES ASSUME Init PROVE IInv
  OBVIOUS
<1>1. Len(file) = 0 /\ Len(line) = 0 /\ DOMAIN file = {}
  BY DEF Init
<1>2. 1 \in Numbers
  BY DEF Numbers
<1>3. TypeOK
  <2>1. file \in Seq([type : Types, seq : Numbers]) /\ line \in Seq(Messages) /\ sendBuf \in Seq(Messages)
    BY DEF Init
  <2>2. from \in [seq : Numbers, len : 0 .. Len(line)] /\ pos \in 0 .. Len(file)
    BY <1>1, <1>2 DEF Init
  <2> QED
    BY <1>2, <2>1, <2>2 DEF Init, TypeOK
<1>4. Ordered /\ ReadsOn /\ Rebuilt /\ NoGapOnTheLine
  BY <1>1 DEF Init, Ordered, ReadsOn, Rebuilt, NoGapOnTheLine, LineComplete
<1> QED
  BY <1>3, <1>4 DEF IInv

LEMMA NextInv == IInv /\ [Next]_vars => IInv'
<1> SUFFICES ASSUME IInv, [Next]_vars PROVE IInv'
  OBVIOUS
<1>1. ASSUME NEW type \in Types, AppSend(type) PROVE IInv'
  <2>1. nextSend + 1 \in Numbers
    BY DEF IInv, TypeOK, Numbers
  <2> QED
    BY <1>1, <2>1, SendInv DEF AppSend
<1>2. ASSUME NEW n \in 1 .. nextSend, SequenceReset(n) PROVE IInv'
  <2>1. n \in Numbers /\ "Reset" \in Types
    BY DEF IInv, TypeOK, Numbers, Types
  <2> QED
    BY <1>2, <2>1, SendInv DEF SequenceReset
<1>3. ASSUME NEW b \in 1 .. nextSend, ReplayStart(b) PROVE IInv'
  BY <1>3, ReplayStartInv
<1>4. CASE UNCHANGED vars
  BY <1>4 DEF vars, IInv, TypeOK, Ordered, ReadsOn, Rebuilt, NoGapOnTheLine, LineComplete, NoResetIn,
              Joined, ExpectedAt
<1> QED
  BY <1>1, <1>2, <1>3, <1>4, ReloadStartInv, ReloadNextInv, ReplayEndInv DEF Next

(* From the first message of a replay on, the line has neither a gap nor an
   overlap, if no SequenceReset was kept off it (IsReplayingAll_ and the lock at
   the end of Replay). *)
THEOREM LineHasNoGap == Spec => []NoGapOnTheLine
<1>1. IInv => NoGapOnTheLine
  BY DEF IInv
<1> QED
  BY <1>1, InitInv, NextInv, PTL DEF Spec

(* The replaying thread's flag, number and place are what their types say, and
   the record is in the order of its numbers between two resets. *)
THEOREM RecordIsOrdered == Spec => [](TypeOK /\ Ordered)
<1>1. IInv => TypeOK /\ Ordered
  BY DEF IInv
<1> QED
  BY <1>1, InitInv, NextInv, PTL DEF Spec
=============================================================================
